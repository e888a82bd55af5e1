------------------------------ MODULE Processes ------------------------------
(***************************************************************************)
(* Three machines that share nothing: the fibers of a thread, the threads  *)
(* of a process with the locks they take, and the processes of a daemon.   *)
(***************************************************************************)
EXTENDS Fiber, Threads, Daemon

FiberSpec == FiberInit /\ [][FiberNext]_fvars

ThreadsSpec == ThreadsInit /\ [][ThreadsNext]_tvars

DaemonSpec == DaemonInit /\ [][DaemonNext]_dvars
------------------------------------------------------------------------------

\* Resume and Yield of fibers arrive where they should, and a fiber is there from
\* its first Resume to its end and no longer.
FibersRight == SwitchesRight /\ LivesWhileRun

\* A Thread object is there while its thread needs it, scoped locks exclude one
\* another whoever unlocks when, and the daemon runs one process at a time and
\* ends with what became of the last one.
ThreadsRight == ThreadHasObject /\ ScopesExclude /\ ProcessesInTurn
==============================================================================
