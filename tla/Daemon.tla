------------------------------- MODULE Daemon --------------------------------
(***************************************************************************)
(* StartDaemon (util/daemon.cc): the parent forks a process that runs      *)
(* main_cb, waits for it, and starts another one if it has crashed.        *)
(***************************************************************************)
EXTENDS Integers, Sequences

CONSTANTS
  Results,   \* what main_cb returns
  Signals,   \* signals that may kill a process
  MaxForks   \* bound on the processes forked

ASSUME StatusAssumption ==
  /\ Results \subseteq Int
  /\ Signals \subseteq Nat \ {0}
  /\ MaxForks \in Nat

VARIABLES
  parent,         \* the step of RealDaemon the parent is at
  children,       \* the processes forked, in order
  restart_count,  \* restart_count_ of the parent
  result,         \* what RealDaemon returned in the parent
  interrupted     \* a signal has interrupted waitpid

dvars == <<parent, children, restart_count, result, interrupted>>

Running == -1

DaemonInit ==
  /\ parent = "fork"
  /\ children = <<>>
  /\ restart_count = 0
  /\ result = 1
  /\ interrupted = FALSE

\* The process begins with a copy of the parent's ProcessInfo.
Fork ==
  /\ parent = "fork"
  /\ \/ /\ Len(children) < MaxForks
        /\ children' = Append(children, [status |-> Running, restart_count |-> restart_count])
        /\ parent' = "wait"
        /\ UNCHANGED result
     \/ parent' = "end" /\ result' = -1 /\ UNCHANGED children
  /\ UNCHANGED <<restart_count, interrupted>>

\* A process ends: main_cb returns and with it main, or a signal kills it.  The
\* status holds the last eight bits of the result above the signal.
Exit(n) ==
  /\ children[n].status = Running
  /\ \E s \in {(r % 256) * 256 : r \in Results} \cup Signals :
       children' = [children EXCEPT ![n].status = s]
  /\ UNCHANGED <<parent, restart_count, result, interrupted>>

\* The parent goes on from waitpid with a status.
Waited(status) ==
  IF status # 0
    THEN /\ restart_count' = restart_count + 1
         /\ parent' = "sleep"
         /\ UNCHANGED result
    ELSE /\ parent' = "end"
         /\ result' = 0
         /\ UNCHANGED restart_count

\* waitpid of the process forked last; its own result is not looked at, and a
\* signal leaves status as it was initialized.
Wait ==
  LET status == children[Len(children)].status IN
  /\ parent = "wait"
  /\ \/ status # Running /\ Waited(status) /\ UNCHANGED interrupted
     \/ Waited(0) /\ interrupted' = TRUE
  /\ UNCHANGED children

Sleep ==
  /\ parent = "sleep"
  /\ parent' = "fork"
  /\ UNCHANGED <<children, restart_count, result, interrupted>>

DaemonNext == Fork \/ (\E n \in DOMAIN children : Exit(n)) \/ Wait \/ Sleep
------------------------------------------------------------------------------

\* Processes follow one another: each begins after the one before has crashed and
\* knows how many have.  The parent ends with 0 only after a process whose main_cb
\* returned a multiple of 256, or because waitpid was interrupted, and with -1 only
\* when there is no process to lose.
ProcessesInTurn ==
  LET n == Len(children) IN
  /\ \A k \in 1..n :
       /\ children[k].restart_count = k - 1
       /\ k < n => children[k].status \notin {Running, 0}
  /\ parent = "end" /\ result = 0 => interrupted \/ children[n].status = 0
  /\ parent = "end" /\ result = -1 => \A k \in 1..n : children[k].status # Running
==============================================================================
