--------------------------- MODULE ProcessesProofs ---------------------------
(***************************************************************************)
(* Proofs about the fibers of a thread, threads with their locks and the   *)
(* daemon, for every set of fibers, threads and results.                   *)
(***************************************************************************)
EXTENDS Processes, TLAPS, FiniteSetTheorems, SequenceTheorems

\* Most leaves are first-order logic over sets and functions.  Those that need
\* arithmetic name the SMT solver.
USE ZenonT(30)

------------------------------------------------------------------------------
(* The fibers of a thread *)

FiberObject == [state : {"none", "READY", "RUNNING", "TERM"}, ctx : Fibers \cup {Stale},
                own : BOOLEAN, cur : BOOLEAN, begun : BOOLEAN]

FiberTyped ==
  /\ fiber \in [Fibers -> FiberObject]
  /\ at \in Fibers
  /\ wrong \in {"none", "assert", "freed"}

\* Who is RUNNING: the fiber that runs, and those that wait for it to yield.
Waiters == {Main, at} \cup (IF at \in Tasks THEN {Root} ELSE {})

Switching ==
  /\ t_fiber = at \/ (at = Root /\ t_fiber = Main)
  /\ \A f \in Fibers : fiber[f].state = "RUNNING" <=> f \in Waiters
  /\ \A f \in Fibers : f # at /\ fiber[f].state # "none" => fiber[f].ctx = f

\* The pointer in MainFunc is there exactly from the first Resume to the end.
\* A fiber that runs without an owner has lost it while it was running.
Living ==
  /\ \A f \in Fibers : fiber[f].own => fiber[f].state # "none"
  /\ \A f \in Fibers : fiber[f].state = "TERM" => fiber[f].own /\ ~ fiber[f].cur
  /\ \A f \in Fibers : fiber[f].begun /\ fiber[f].state # "TERM" => fiber[f].cur
  /\ \A f \in Fibers : fiber[f].state = "RUNNING" /\ f # Main => fiber[f].begun
  /\ \A f \in Fibers : fiber[f].state = "RUNNING" /\ ~ fiber[f].own => parted

FiberInv ==
  ~ nested =>
    /\ FiberTyped
    /\ wrong = "none" => Switching /\ Living
    /\ FibersRight

------------------------------------------------------------------------------
(* Threads *)

ThreadObject == [life : {"none", "waits", "made", "gone", "thrown"},
                 thread_ : BOOLEAN, id_ : BOOLEAN, cb_ : BOOLEAN]

ThreadTyped ==
  /\ object \in [Threads -> ThreadObject]
  /\ sem \in [Threads -> Nat]
  /\ run \in [Threads -> {"no", "begin", "notify", "cb", "end"}]
  /\ used \in [Threads -> BOOLEAN]

\* How far the thread is when its object is at one point or another: the
\* semaphore is up only after Run has read the object.
Handshake(t) ==
  /\ object[t].life = "none" => run[t] = "no" /\ ~ used[t] /\ sem[t] = 0
  /\ object[t].life = "waits" => object[t].thread_ /\ run[t] # "no" /\ ~ used[t]
  /\ object[t].life \in {"waits", "made", "gone"} /\ run[t] # "begin" =>
       object[t].id_ /\ ~ object[t].cb_
  /\ sem[t] > 0 => run[t] \in {"cb", "end"}
  /\ object[t].life \in {"made", "gone"} => run[t] \in {"cb", "end"}
  /\ object[t].life = "made" => ~ used[t]
  /\ object[t].life \in {"made", "gone"} /\ ~ object[t].thread_ =>
       run[t] = "end" /\ ~ used[t]

\* SetName of a thread whose object is gone comes only before the end, when
\* nobody has joined.
ThreadInv == ThreadTyped /\ \A t \in Threads : Handshake(t)

------------------------------------------------------------------------------
(* Scoped locks *)

Readers == {t \in Threads : scope[t] = [mode |-> "read", locked |-> TRUE]}
Writers == {t \in Threads : scope[t] = [mode |-> "write", locked |-> TRUE]}

LockInv ==
  /\ scope \in [Threads -> {NoScope} \cup [mode : {"read", "write"}, locked : BOOLEAN]]
  /\ lock \in [writer : BOOLEAN, readers : Nat]
  /\ lock.readers = Cardinality(Readers)
  /\ lock.writer <=> Writers # {}
  /\ \A t \in Writers : Writers = {t} /\ Readers = {}

------------------------------------------------------------------------------
(* The daemon *)

Process == [status : Nat \cup {Running}, restart_count : Nat]

\* The parent forks the next process when all the ones before have crashed.
DaemonInv ==
  /\ parent \in {"fork", "wait", "sleep", "end"}
  /\ children \in Seq(Process)
  /\ restart_count \in Nat
  /\ parent \in {"fork", "sleep"} =>
       /\ restart_count = Len(children)
       /\ \A k \in 1..Len(children) : children[k].status \notin {Running, 0}
  /\ parent = "wait" => Len(children) > 0 /\ restart_count = Len(children) - 1
  /\ parent = "end" /\ result = 0 => Len(children) > 0
  /\ ProcessesInTurn

------------------------------------------------------------------------------
(* DaemonInv is inductive *)

LEMMA DaemonInitially == DaemonInit => DaemonInv
<1> SUFFICES ASSUME DaemonInit PROVE DaemonInv
  OBVIOUS
<1>1. children \in Seq(Process) /\ Len(children) = 0
  BY EmptySeq DEF DaemonInit
<1> QED BY <1>1, SMTT(30) DEF DaemonInit, DaemonInv, ProcessesInTurn

\* A process that is forked goes to the end, one that exits keeps its place.
LEMMA DaemonStep == DaemonInv /\ [DaemonNext]_dvars => DaemonInv'
<1> SUFFICES ASSUME DaemonInv, [DaemonNext]_dvars PROVE DaemonInv'
  OBVIOUS
<1> USE DEF DaemonInv
<1>0. /\ Len(children) \in Nat
      /\ \A k \in 1..Len(children) : children[k] \in Process
  BY LenProperties, ElementOfSeq
<1>1. CASE Fork
  <2>1. parent = "fork" /\ UNCHANGED <<restart_count, interrupted>>
    BY <1>1 DEF Fork
  <2>2. ASSUME children' = Append(children, [status |-> Running,
                                             restart_count |-> restart_count]),
               parent' = "wait"
        PROVE  DaemonInv'
    <3>0. [status |-> Running, restart_count |-> restart_count] \in Process
      BY DEF Process
    <3>1. PICK new \in Process :
                new = [status |-> Running, restart_count |-> restart_count]
      BY <3>0
    <3>2. /\ children' \in Seq(Process)
          /\ Len(children') = Len(children) + 1
          /\ \A k \in 1..Len(children) : children'[k] = children[k]
          /\ children'[Len(children) + 1] = new
      BY <2>2, <3>1, AppendProperties, SMTT(30)
    <3>3. ASSUME NEW k \in 1..Len(children')
          PROVE  /\ children'[k].restart_count = k - 1
                 /\ k < Len(children') => children'[k].status \notin {Running, 0}
      <4>1. CASE k = Len(children) + 1
        BY <1>0, <2>1, <3>1, <3>2, <4>1, SMTT(30)
      <4>2. CASE k \in 1..Len(children)
        BY <2>1, <3>2, <4>2 DEF ProcessesInTurn
      <4> QED BY <1>0, <3>2, <4>1, <4>2, SMTT(30)
    <3>4. ProcessesInTurn'
      BY <2>2, <3>3 DEF ProcessesInTurn
    <3> QED BY <1>0, <2>1, <2>2, <3>2, <3>4, SMTT(30)
  <2>3. ASSUME parent' = "end", result' = -1, UNCHANGED children
        PROVE  DaemonInv'
    <3>1. ProcessesInTurn'
      BY <2>1, <2>3, SMTT(30) DEF ProcessesInTurn
    <3> QED BY <2>1, <2>3, <3>1, SMTT(30)
  <2> QED BY <1>1, <2>2, <2>3 DEF Fork
<1>2. ASSUME NEW n \in DOMAIN children, Exit(n)
      PROVE  DaemonInv'
  <2>1. n \in 1..Len(children)
    BY LenProperties
  <2>2. /\ children[n].status = Running
        /\ UNCHANGED <<parent, restart_count, result, interrupted>>
    BY <1>2 DEF Exit
  <2>3. PICK s \in Nat : s # Running /\ children' = [children EXCEPT ![n].status = s]
    <3>1. PICK s \in {(r % 256) * 256 : r \in Results} \cup Signals :
                children' = [children EXCEPT ![n].status = s]
      BY <1>2 DEF Exit
    <3>2. \A r \in Int : (r % 256) * 256 \in Nat
      BY SMTT(30)
    <3>3. s \in Nat
      BY <3>1, <3>2, StatusAssumption, SMTT(30)
    <3>4. s # Running
      BY <3>3, SMTT(30) DEF Running
    <3> QED BY <3>1, <3>3, <3>4
  <2>4. /\ children' \in Seq(Process)
        /\ Len(children') = Len(children)
        /\ \A k \in 1..Len(children) :
             /\ children'[k].restart_count = children[k].restart_count
             /\ children'[k].status = IF k = n THEN s ELSE children[k].status
    <3>1. [children[n] EXCEPT !.status = s] \in Process
      BY <1>0, <2>1 DEF Process
    <3>2. children' = [children EXCEPT ![n] = [children[n] EXCEPT !.status = s]]
      BY <2>3
    <3>3. children' \in Seq(Process) /\ Len(children') = Len(children)
      BY <2>1, <3>1, <3>2, ExceptSeq, SMTT(30)
    <3> QED BY <1>0, <2>1, <2>3, <3>3, SMTT(30) DEF Process
  <2>5. parent \notin {"fork", "sleep"} /\ n = Len(children)
    BY <1>0, <2>1, <2>2, SMTT(30) DEF ProcessesInTurn
  <2>6. ProcessesInTurn'
    <3>1. \A k \in 1..Len(children') :
            /\ children'[k].restart_count = k - 1
            /\ k < Len(children') => children'[k].status \notin {Running, 0}
      BY <1>0, <2>4, <2>5, SMTT(30) DEF ProcessesInTurn
    <3>2. ~ (parent = "end" /\ result = -1)
      BY <2>1, <2>2 DEF ProcessesInTurn
    <3>3. parent = "end" /\ result = 0 => interrupted
      BY <2>2, <2>5, SMTT(30) DEF ProcessesInTurn, Running
    <3> QED BY <2>2, <3>1, <3>2, <3>3 DEF ProcessesInTurn
  <2> QED BY <2>2, <2>4, <2>5, <2>6
<1>3. CASE Wait
  <2>1. parent = "wait" /\ children' = children
    BY <1>3 DEF Wait
  <2>2. PICK status \in Nat :
          /\ Waited(status)
          /\ \/ status = children[Len(children)].status /\ interrupted' = interrupted
             \/ status = 0 /\ interrupted' = TRUE
    <3>1. Len(children) \in 1..Len(children)
      BY <1>0, <2>1, SMTT(30)
    <3>2. children[Len(children)].status \in Nat \cup {Running}
      BY <1>0, <3>1 DEF Process
    <3> QED BY <1>3, <3>2 DEF Wait
  <2>3. CASE status # 0
    <3>1. /\ restart_count' = restart_count + 1 /\ parent' = "sleep" /\ result' = result
          /\ children[Len(children)].status = status
      BY <2>2, <2>3 DEF Waited
    <3>2. status # Running
      BY SMTT(30) DEF Running
    <3>3. \A k \in 1..Len(children) : children[k].status \notin {Running, 0}
      BY <1>0, <2>3, <3>1, <3>2, SMTT(30) DEF ProcessesInTurn
    <3>4. ProcessesInTurn'
      BY <2>1, <3>1 DEF ProcessesInTurn
    <3> QED BY <1>0, <2>1, <3>1, <3>3, <3>4, SMTT(30)
  <2>4. CASE status = 0
    <3>1. parent' = "end" /\ result' = 0 /\ restart_count' = restart_count
      BY <2>2, <2>4 DEF Waited
    <3>2. ProcessesInTurn'
      BY <2>1, <2>2, <2>4, <3>1, SMTT(30) DEF ProcessesInTurn
    <3> QED BY <2>1, <3>1, <3>2
  <2> QED BY <2>3, <2>4
<1>4. CASE Sleep
  BY <1>4 DEF Sleep, ProcessesInTurn
<1>5. CASE UNCHANGED dvars
  BY <1>5 DEF dvars, ProcessesInTurn
<1> QED BY <1>1, <1>2, <1>3, <1>4, <1>5 DEF DaemonNext

------------------------------------------------------------------------------
(* LockInv is inductive *)

LEMMA CountReaders ==
  /\ Readers \in SUBSET Threads
  /\ IsFiniteSet(Readers)
  /\ Cardinality(Readers) \in Nat
BY FinitelyManyThreads, FS_Subset, FS_CardinalityType DEF Readers

LEMMA LockInitially == ThreadsInit => LockInv
<1> SUFFICES ASSUME ThreadsInit PROVE LockInv
  OBVIOUS
<1>1. Readers = {} /\ Writers = {}
  BY DEF ThreadsInit, Readers, Writers, NoScope
<1> QED BY <1>1, FS_EmptySet DEF ThreadsInit, LockInv

LEMMA LockScoped ==
  ASSUME LockInv, NEW t \in Threads, NEW mode \in {"read", "write"}, ScopedLock(t, mode)
  PROVE  LockInv'
<1> USE DEF LockInv
<1>1. /\ scope[t].locked = FALSE
      /\ scope' = [scope EXCEPT ![t] = [mode |-> mode, locked |-> TRUE]]
      /\ ~ lock.writer
      /\ mode = "write" => lock.readers = 0
      /\ lock' = IF mode = "write" THEN [lock EXCEPT !.writer = TRUE]
                                   ELSE [lock EXCEPT !.readers = @ + 1]
  BY SMTT(30) DEF ScopedLock, Lock, NoScope
<1>2. scope' \in [Threads -> {NoScope} \cup [mode : {"read", "write"}, locked : BOOLEAN]]
  BY <1>1
<1>3. /\ scope'[t] = [mode |-> mode, locked |-> TRUE]
      /\ \A u \in Threads : u # t => scope'[u] = scope[u]
  BY <1>1
<1>4. t \notin Readers /\ Writers = {}
  BY <1>1, SMTT(30) DEF Readers
<1>5. CASE mode = "read"
  <2>1. Readers' = Readers \cup {t} /\ Writers' = {}
    BY <1>3, <1>4, <1>5, SMTT(30) DEF Readers, Writers
  <2>2. Cardinality(Readers') = Cardinality(Readers) + 1
    BY <1>4, <2>1, CountReaders, FS_AddElement
  <2>3. /\ lock' \in [writer : BOOLEAN, readers : Nat]
        /\ lock'.readers = lock.readers + 1 /\ ~ lock'.writer
    BY <1>1, <1>5, SMTT(30)
  <2> QED BY <1>2, <2>1, <2>2, <2>3
<1>6. CASE mode = "write"
  <2>1. Readers = {}
    BY <1>1, <1>6, CountReaders, FS_EmptySet
  <2>2. Readers' = {} /\ Writers' = {t}
    BY <1>3, <1>4, <1>6, <2>1, SMTT(30) DEF Readers, Writers
  <2>3. /\ lock' \in [writer : BOOLEAN, readers : Nat]
        /\ lock'.readers = lock.readers /\ lock'.writer
    BY <1>1, <1>6
  <2> QED BY <1>2, <2>1, <2>2, <2>3
<1> QED BY <1>5, <1>6

LEMMA LockUnscoped ==
  ASSUME LockInv, NEW t \in Threads, EarlyUnlock(t) \/ LeaveScope(t)
  PROVE  LockInv'
<1> USE DEF LockInv
<1>1. PICK after : ScopedUnlock(t, after) /\ after \in {NoScope, [scope[t] EXCEPT !.locked = FALSE]}
  BY DEF EarlyUnlock, LeaveScope
<1>2. /\ scope[t] \in [mode : {"read", "write"}, locked : BOOLEAN]
      /\ scope' = [scope EXCEPT ![t] = after]
      /\ IF scope[t].locked THEN Unlock ELSE UNCHANGED lock
  BY <1>1 DEF ScopedUnlock
<1>3. /\ after \in {NoScope} \cup [mode : {"read", "write"}, locked : BOOLEAN]
      /\ after.locked = FALSE
  <2>1. CASE after = NoScope
    BY <2>1 DEF NoScope
  <2>2. CASE after = [scope[t] EXCEPT !.locked = FALSE]
    BY <1>2, <2>2
  <2> QED BY <1>1, <2>1, <2>2
<1>4. scope' \in [Threads -> {NoScope} \cup [mode : {"read", "write"}, locked : BOOLEAN]]
  BY <1>2, <1>3
<1>5. scope'[t] = after /\ \A u \in Threads : u # t => scope'[u] = scope[u]
  BY <1>2
<1>6. Readers' = Readers \ {t} /\ Writers' = Writers \ {t}
  BY <1>3, <1>5, SMTT(30) DEF Readers, Writers
<1>7. CASE ~ scope[t].locked
  <2>1. t \notin Readers /\ t \notin Writers
    BY <1>7, SMTT(30) DEF Readers, Writers
  <2>2. Readers' = Readers /\ Writers' = Writers /\ lock' = lock
    BY <1>2, <1>6, <1>7, <2>1
  <2> QED BY <1>4, <2>2
<1>8. CASE scope[t].locked /\ scope[t].mode = "write"
  <2>1. t \in Writers
    BY <1>2, <1>8 DEF Writers
  <2>2. Writers = {t} /\ Readers = {} /\ lock.writer
    BY <2>1
  <2>3. Writers' = {} /\ Readers' = {}
    BY <1>6, <2>2
  <2>4. /\ lock' \in [writer : BOOLEAN, readers : Nat]
        /\ lock'.readers = lock.readers /\ ~ lock'.writer
    BY <1>2, <1>8, <2>2 DEF Unlock
  <2> QED BY <1>4, <2>2, <2>3, <2>4
<1>9. CASE scope[t].locked /\ scope[t].mode = "read"
  <2>1. t \in Readers
    BY <1>2, <1>9 DEF Readers
  <2>2. Writers = {} /\ ~ lock.writer
    BY <2>1
  <2>3. /\ Cardinality(Readers') = Cardinality(Readers) - 1
        /\ Cardinality(Readers) \in Nat /\ Cardinality(Readers') \in Nat
    BY <1>6, <2>1, CountReaders, FS_RemoveElement, FS_CardinalityType
  <2>4. /\ lock' \in [writer : BOOLEAN, readers : Nat]
        /\ lock'.readers = lock.readers - 1 /\ ~ lock'.writer
    BY <1>2, <1>9, <2>2, <2>3, SMTT(30) DEF Unlock
  <2>5. Writers' = {}
    BY <1>6, <2>2
  <2> QED BY <1>4, <2>3, <2>4, <2>5
<1> QED BY <1>2, <1>7, <1>8, <1>9

LEMMA LockStep == LockInv /\ [ThreadsNext]_tvars => LockInv'
<1> SUFFICES ASSUME LockInv, [ThreadsNext]_tvars PROVE LockInv'
  OBVIOUS
<1>1. CASE UNCHANGED <<scope, lock>>
  BY <1>1 DEF LockInv, Readers, Writers
<1> QED BY <1>1, LockScoped, LockUnscoped DEF ThreadsNext, tvars, Construct, Constructed, Begin,
           Notify, SetName, Return, Join, Destroy

------------------------------------------------------------------------------
(* ThreadInv is inductive *)

LEMMA ThreadInitially == ThreadsInit => ThreadInv
BY SMTT(30) DEF ThreadsInit, ThreadInv, ThreadTyped, ThreadObject, Handshake

\* What the owner sets of an object.
LEMMA ObjectSet ==
  ASSUME ThreadInv, NEW t \in Threads, NEW b \in BOOLEAN,
         NEW l \in {"none", "waits", "made", "gone", "thrown"}
  PROVE  /\ [object EXCEPT ![t].life = l] \in [Threads -> ThreadObject]
         /\ [object EXCEPT ![t].thread_ = b] \in [Threads -> ThreadObject]
         /\ [object EXCEPT ![t].life = l, ![t].thread_ = b] \in [Threads -> ThreadObject]
<1>1. object \in [Threads -> ThreadObject] /\ object[t] \in ThreadObject
  BY DEF ThreadInv, ThreadTyped
<1>2. [object[t] EXCEPT !.life = l] \in ThreadObject
  BY <1>1 DEF ThreadObject
<1>3. [object[t] EXCEPT !.thread_ = b] \in ThreadObject
  BY <1>1 DEF ThreadObject
<1>4. [object[t] EXCEPT !.life = l, !.thread_ = b] \in ThreadObject
  BY <1>1 DEF ThreadObject
<1> QED BY <1>1, <1>2, <1>3, <1>4

\* A step of one thread, or of the owner of its object, is about that thread.
LEMMA ThreadOnly ==
  ASSUME ThreadInv, ThreadTyped', NEW t \in Threads, Handshake(t)',
         \A u \in Threads : u # t => /\ object'[u] = object[u] /\ sem'[u] = sem[u]
                                     /\ run'[u] = run[u] /\ used'[u] = used[u]
  PROVE  ThreadInv'
<1>1. ASSUME NEW u \in Threads, u # t PROVE Handshake(u)'
  BY <1>1, SMTT(30) DEF ThreadInv, Handshake
<1> QED BY <1>1 DEF ThreadInv

LEMMA ThreadStep == ThreadInv /\ [ThreadsNext]_tvars => ThreadInv'
<1> SUFFICES ASSUME ThreadInv, [ThreadsNext]_tvars PROVE ThreadInv'
  OBVIOUS
<1>1. CASE UNCHANGED <<object, sem, run, used>>
  BY <1>1 DEF ThreadInv, ThreadTyped, Handshake
<1>2. ASSUME NEW t \in Threads, Construct(t) PROVE ThreadInv'
  <2>0. UNCHANGED <<sem, used>> /\ object[t].life = "none"
    BY <1>2 DEF Construct
  <2>1. ThreadTyped'
    <3>1. [object EXCEPT ![t].life = "waits", ![t].thread_ = TRUE] \in [Threads -> ThreadObject]
      BY ObjectSet
    <3>2. [object EXCEPT ![t].life = "thrown"] \in [Threads -> ThreadObject]
      BY ObjectSet
    <3>3. object' \in [Threads -> ThreadObject]
      BY <1>2, <3>1, <3>2 DEF Construct
    <3> QED BY <1>2, <3>3 DEF Construct, ThreadInv, ThreadTyped
  <2>2. /\ \/ object'[t].life = "waits" /\ object'[t].thread_ /\ run'[t] = "begin"
           \/ object'[t].life = "thrown" /\ run'[t] = run[t]
        /\ \A u \in Threads : u # t => object'[u] = object[u] /\ run'[u] = run[u]
    BY <1>2, SMTT(30) DEF Construct, ThreadInv, ThreadTyped, ThreadObject
  <2>3. Handshake(t)'
    BY <2>0, <2>2 DEF ThreadInv, Handshake
  <2> QED BY <2>0, <2>1, <2>2, <2>3, ThreadOnly
<1>3. ASSUME NEW t \in Threads, Constructed(t) PROVE ThreadInv'
  <2>0. UNCHANGED <<run, used>> /\ object[t].life = "waits"
    BY <1>3 DEF Constructed
  <2>1. ThreadTyped'
    <3>1. [object EXCEPT ![t].life = "made"] \in [Threads -> ThreadObject]
      BY ObjectSet
    <3>2. [object EXCEPT ![t].life = "thrown"] \in [Threads -> ThreadObject]
      BY ObjectSet
    <3>3. object' \in [Threads -> ThreadObject]
      BY <1>3, <3>1, <3>2 DEF Constructed
    <3>4. sem' \in [Threads -> Nat]
      BY <1>3, SMTT(30) DEF Constructed, ThreadInv, ThreadTyped
    <3> QED BY <2>0, <3>3, <3>4 DEF ThreadInv, ThreadTyped
  <2>2. /\ \/ object'[t].life = "made" /\ sem[t] > 0 /\ sem'[t] = sem[t] - 1
           \/ object'[t].life = "thrown" /\ sem'[t] = sem[t]
        /\ object'[t].thread_ = object[t].thread_
        /\ object'[t].id_ = object[t].id_ /\ object'[t].cb_ = object[t].cb_
        /\ \A u \in Threads : u # t => object'[u] = object[u] /\ sem'[u] = sem[u]
    BY <1>3, SMTT(30) DEF Constructed, ThreadInv, ThreadTyped, ThreadObject
  <2>3. sem[t] \in Nat
    BY DEF ThreadInv, ThreadTyped, ThreadObject
  <2>4. Handshake(t)'
    BY <2>0, <2>2, <2>3 DEF ThreadInv, Handshake
  <2> QED BY <2>0, <2>1, <2>2, <2>4, ThreadOnly
<1>4. ASSUME NEW t \in Threads, Begin(t) PROVE ThreadInv'
  <2>0. sem' = sem /\ run[t] = "begin"
    BY <1>4 DEF Begin
  <2>1. ThreadTyped'
    BY <1>4, ZenonT(60) DEF Begin, Use, ThreadInv, ThreadTyped, ThreadObject
  <2>2. /\ run'[t] = "notify"
        /\ Exists(t) => /\ used'[t] = used[t]
                        /\ object'[t].id_ /\ ~ object'[t].cb_
                        /\ object'[t].life = object[t].life
                        /\ object'[t].thread_ = object[t].thread_
        /\ ~ Exists(t) => object'[t] = object[t]
        /\ \A u \in Threads : u # t => /\ object'[u] = object[u] /\ run'[u] = run[u]
                                       /\ used'[u] = used[u]
    BY <1>4 DEF Begin, Use, ThreadInv, ThreadTyped, ThreadObject
  <2>3. Handshake(t)'
    BY <2>0, <2>2 DEF ThreadInv, Handshake, Exists
  <2> QED BY <2>0, <2>1, <2>2, <2>3, ThreadOnly
<1>5. ASSUME NEW t \in Threads, Notify(t) PROVE ThreadInv'
  <2>0. object' = object /\ run[t] = "notify"
    BY <1>5 DEF Notify
  <2>1. ThreadTyped'
    BY <1>5, SMTT(30) DEF Notify, Use, ThreadInv, ThreadTyped, ThreadObject
  <2>2. /\ run'[t] = "cb"
        /\ Exists(t) => used'[t] = used[t]
        /\ \A u \in Threads : u # t => /\ sem'[u] = sem[u] /\ run'[u] = run[u]
                                       /\ used'[u] = used[u]
    BY <1>5 DEF Notify, Use, ThreadInv, ThreadTyped, ThreadObject
  <2>3. Handshake(t)'
    BY <2>0, <2>2 DEF ThreadInv, Handshake, Exists
  <2> QED BY <2>0, <2>1, <2>2, <2>3, ThreadOnly
<1>6. ASSUME NEW t \in Threads, SetName(t) PROVE ThreadInv'
  <2>0. UNCHANGED <<object, sem, run>> /\ run[t] = "cb"
    BY <1>6 DEF SetName
  <2>1. ThreadTyped'
    BY <1>6 DEF SetName, Use, ThreadInv, ThreadTyped, ThreadObject
  <2>2. /\ Exists(t) => used'[t] = used[t]
        /\ \A u \in Threads : u # t => used'[u] = used[u]
    BY <1>6 DEF SetName, Use, ThreadInv, ThreadTyped, ThreadObject
  <2>3. Handshake(t)'
    BY <2>0, <2>2 DEF ThreadInv, Handshake, Exists
  <2> QED BY <2>0, <2>1, <2>2, <2>3, ThreadOnly
<1>7. ASSUME NEW t \in Threads, Return(t) PROVE ThreadInv'
  <2>0. UNCHANGED <<object, sem, used>> /\ run[t] = "cb"
    BY <1>7 DEF Return
  <2>1. ThreadTyped'
    BY <1>7 DEF Return, ThreadInv, ThreadTyped, ThreadObject
  <2>2. run'[t] = "end" /\ \A u \in Threads : u # t => run'[u] = run[u]
    BY <1>7 DEF Return, ThreadInv, ThreadTyped, ThreadObject
  <2>3. Handshake(t)'
    BY <2>0, <2>2 DEF ThreadInv, Handshake
  <2> QED BY <2>0, <2>1, <2>2, <2>3, ThreadOnly
<1>8. ASSUME NEW t \in Threads, Join(t) \/ Destroy(t) PROVE ThreadInv'
  <2>0. UNCHANGED <<sem, run, used>> /\ object[t].life = "made"
    BY <1>8 DEF Join, Destroy
  <2>1. ThreadTyped'
    <3>1. [object EXCEPT ![t].thread_ = FALSE] \in [Threads -> ThreadObject]
      BY ObjectSet
    <3>2. [object EXCEPT ![t].life = "gone"] \in [Threads -> ThreadObject]
      BY ObjectSet
    <3>3. object' \in [Threads -> ThreadObject]
      BY <1>8, <3>1, <3>2 DEF Join, Destroy
    <3> QED BY <2>0, <3>3 DEF ThreadInv, ThreadTyped
  <2>2. /\ \/ /\ object'[t].life = "made"
              /\ object[t].thread_ => run[t] = "end"
           \/ object'[t].life = "gone" /\ object'[t].thread_ = object[t].thread_
        /\ object'[t].id_ = object[t].id_ /\ object'[t].cb_ = object[t].cb_
        /\ \A u \in Threads : u # t => object'[u] = object[u]
    BY <1>8, SMTT(30) DEF Join, Destroy, ThreadInv, ThreadTyped, ThreadObject
  <2>3. Handshake(t)'
    BY <2>0, <2>2 DEF ThreadInv, Handshake
  <2> QED BY <2>0, <2>1, <2>2, <2>3, ThreadOnly
<1> QED BY <1>1, <1>2, <1>3, <1>4, <1>5, <1>6, <1>7, <1>8
        DEF ThreadsNext, tvars, ScopedLock, ScopedUnlock, EarlyUnlock, LeaveScope

------------------------------------------------------------------------------
(* FiberInv is inductive *)

LEMMA FiberInitially == FiberInit => FiberInv
<1> SUFFICES ASSUME FiberInit PROVE FiberInv
  OBVIOUS
<1> USE FibersApart
<1>1. /\ at = Main /\ t_fiber = Main /\ wrong = "none"
      /\ fiber \in [Fibers -> FiberObject]
      /\ fiber[Main].state = "RUNNING" /\ fiber[Main].own /\ ~ fiber[Main].begun
      /\ \A f \in Fibers : f # Main =>
           /\ fiber[f].state = "none" /\ fiber[f].ctx = f
           /\ ~ fiber[f].own /\ ~ fiber[f].begun
  BY DEF FiberInit, NoFiber, FiberObject, Fibers
<1>2. FiberTyped
  BY <1>1 DEF FiberTyped, Fibers
<1>3. Switching
  BY <1>1 DEF Switching, Waiters
<1>4. Living
  BY <1>1 DEF Living
<1>5. FibersRight
  <2>1. {f \in Fibers : fiber[f].state = "RUNNING"} = {Main}
    BY <1>1 DEF Fibers
  <2>2. at \notin Tasks
    BY <1>1
  <2> QED BY <1>1, <2>1, <2>2 DEF FibersRight, SwitchesRight, LivesWhileRun
<1> QED BY <1>2, <1>3, <1>4, <1>5 DEF FiberInv

\* What the run checks follows while nothing has gone wrong.
LEMMA RightWhileSwitching ==
  ASSUME FiberTyped, wrong = "none", Switching, Living
  PROVE  FibersRight
<1>1. {f \in Fibers : fiber[f].state = "RUNNING"} =
        {Main, at} \cup (IF at \in Tasks THEN {Root} ELSE {})
  BY DEF Switching, Waiters, FiberTyped, Fibers
<1>2. SwitchesRight
  BY <1>1 DEF SwitchesRight, Switching
<1>3. LivesWhileRun
  BY DEF LivesWhileRun, Living
<1> QED BY <1>2, <1>3 DEF FibersRight

LEMMA FiberTypes ==
  ASSUME FiberTyped, NEW f \in Fibers
  PROVE  /\ fiber[f] \in FiberObject
         /\ fiber[f].state \in {"none", "READY", "RUNNING", "TERM"}
         /\ fiber[f].ctx \in Fibers \cup {Stale}
         /\ fiber[f].own \in BOOLEAN /\ fiber[f].cur \in BOOLEAN
         /\ fiber[f].begun \in BOOLEAN
BY DEF FiberTyped, FiberObject

\* Entered touches no field but ctx.
LEMMA EnteredFields ==
  ASSUME NEW fs \in [Fibers -> FiberObject], NEW f
  PROVE  /\ Entered(fs, f) \in [Fibers -> FiberObject]
         /\ \A g \in Fibers :
              /\ Entered(fs, f)[g].state = fs[g].state
              /\ Entered(fs, f)[g].own = fs[g].own
              /\ Entered(fs, f)[g].cur = fs[g].cur
              /\ Entered(fs, f)[g].begun = fs[g].begun
              /\ fs[g].ctx # f => Entered(fs, f)[g].ctx = fs[g].ctx
BY DEF Entered, FiberObject

\* The code that runs, in a, goes on to b, which was left where it can go on.
LEMMA Swapped ==
  ASSUME NEW fs \in [Fibers -> FiberObject], NEW a \in Fibers, NEW b \in Fibers,
         a # b, at = a, fs[b].state # "none", fs[b].ctx = b, swapcontext(fs, a, b)
  PROVE  /\ at' = b /\ wrong' = wrong
         /\ fiber' \in [Fibers -> FiberObject]
         /\ \A g \in Fibers :
              /\ fiber'[g].state = fs[g].state
              /\ fiber'[g].own = fs[g].own
              /\ fiber'[g].cur = fs[g].cur
              /\ fiber'[g].begun = fs[g].begun
              /\ g # b /\ (g = a \/ fs[g].ctx = g) => fiber'[g].ctx = g
<1> DEFINE saved == [fs EXCEPT ![a].ctx = at]
<1>1. /\ saved \in [Fibers -> FiberObject]
      /\ saved[a].ctx = a
      /\ \A g \in Fibers : g # a => saved[g] = fs[g]
      /\ \A g \in Fibers : /\ saved[g].state = fs[g].state
                           /\ saved[g].own = fs[g].own
                           /\ saved[g].cur = fs[g].cur
                           /\ saved[g].begun = fs[g].begun
  BY DEF FiberObject
<1>2. saved[b].ctx = b /\ saved[b].state # "none" /\ b # Stale
  BY <1>1, FibersApart DEF Fibers
<1>3. at' = b /\ wrong' = wrong /\ fiber' = Entered(saved, b)
  BY <1>2 DEF swapcontext
<1> HIDE DEF saved
<1> QED BY <1>1, <1>3, EnteredFields, SMTT(30)

LEMMA RightNext ==
  FiberTyped' /\ (wrong = "none")' /\ Switching' /\ Living' => FibersRight'
<1>1. FiberTyped /\ wrong = "none" /\ Switching /\ Living => FibersRight
  BY RightWhileSwitching
<1> QED BY <1>1, PTL

\* Who runs has a current fiber in order.
LEMMA Current ==
  ASSUME FiberTyped, Switching
  PROVE  /\ at \in Fibers /\ fiber[at].state = "RUNNING"
         /\ fiber[Main].state = "RUNNING"
         /\ at \in Unscheduled \cup Tasks => t_fiber = at
BY FibersApart DEF FiberTyped, Switching, Waiters, Fibers

\* A new fiber, or one that is used again, was not running.
LEMMA FiberMade ==
  ASSUME FiberTyped, wrong = "none", Switching, Living,
         NEW f \in Fibers, f # Main, New(f) \/ Reset(f)
  PROVE  FiberTyped' /\ wrong' = "none" /\ Switching' /\ Living'
<1>0. UNCHANGED <<at, t_fiber, wrong, parted>>
  BY DEF New, Reset
<1>1. f # at /\ fiber[f].state \in {"none", "TERM"}
  BY Current DEF New, Reset
<1>2. fiber \in [Fibers -> FiberObject] /\ Entered(fiber, f) \in [Fibers -> FiberObject]
  BY EnteredFields DEF FiberTyped
<1>3. /\ fiber' \in [Fibers -> FiberObject]
      /\ fiber'[f].state = "READY" /\ fiber'[f].ctx = f /\ fiber'[f].own /\ ~ fiber'[f].begun
      /\ \A g \in Fibers : g # f => fiber'[g] = Entered(fiber, f)[g]
  <2>1. CASE New(f)
    BY <1>2, <2>1 DEF New, NoFiber, FiberObject
  <2>2. CASE Reset(f)
    <3>1. Entered(fiber, f)[f].own
      BY <1>2, <2>2, EnteredFields DEF Reset
    <3>2. PICK en \in [Fibers -> FiberObject] : en = Entered(fiber, f)
      BY <1>2
    <3>3. fiber' = [en EXCEPT ![f].state = "READY", ![f].ctx = f, ![f].begun = FALSE]
      BY <2>2, <3>2 DEF Reset
    <3>4. en[f].own /\ en[f] \in FiberObject
      BY <3>1, <3>2
    <3>5. [en[f] EXCEPT !.state = "READY", !.ctx = f, !.begun = FALSE] \in FiberObject
      BY <3>4 DEF FiberObject
    <3>6. fiber' \in [Fibers -> FiberObject]
      BY <3>3, <3>5
    <3>7. /\ fiber'[f].state = "READY" /\ fiber'[f].ctx = f /\ fiber'[f].own
          /\ ~ fiber'[f].begun
      BY <3>3, <3>4 DEF FiberObject
    <3> QED BY <3>2, <3>3, <3>6, <3>7
  <2> QED BY <2>1, <2>2
<1>4. \A g \in Fibers : g # f => /\ fiber'[g].state = fiber[g].state
                                 /\ fiber'[g].own = fiber[g].own
                                 /\ fiber'[g].cur = fiber[g].cur
                                 /\ fiber'[g].begun = fiber[g].begun
                                 /\ fiber[g].ctx # f => fiber'[g].ctx = fiber[g].ctx
  BY <1>2, <1>3, EnteredFields, SMTT(30)
<1>5. FiberTyped'
  BY <1>0, <1>3 DEF FiberTyped
<1>6. Switching'
  BY <1>0, <1>1, <1>3, <1>4, Current, SMTT(30) DEF Switching, Waiters
<1>7. Living'
  BY <1>0, <1>3, <1>4, SMTT(30) DEF Living
<1> QED BY <1>0, <1>5, <1>6, <1>7

\* The fiber that is resumed by the one it swaps with runs next.
LEMMA FiberResumed ==
  ASSUME FiberTyped, wrong = "none", Switching, Living, NEW f \in Fibers, f # Main,
         Resume(f), ~ nested'
  PROVE  FiberTyped' /\ wrong' = "none" /\ Switching' /\ Living'
<1> DEFINE fs == [fiber EXCEPT ![f].state = "RUNNING", ![f].begun = TRUE, ![f].cur = TRUE]
<1>1. PICK p \in Peers(f) : swapcontext(fs, p, f) /\ at = p
  BY DEF Resume
<1>2. /\ fiber[f].own /\ fiber[f].state = "READY" /\ t_fiber' = f /\ parted' = parted
  BY DEF Resume
<1>3. /\ p = IF f \in Tasks THEN Root ELSE Main
      /\ p \in Fibers /\ p # f
  BY <1>1, <1>2, FibersApart, Current DEF Peers, Fibers
<1>4. /\ fs \in [Fibers -> FiberObject]
      /\ fs[f].state = "RUNNING" /\ fs[f].begun /\ fs[f].cur
      /\ fs[f].own = fiber[f].own /\ fs[f].ctx = fiber[f].ctx
      /\ \A g \in Fibers : g # f => fs[g] = fiber[g]
  BY DEF FiberTyped, FiberObject
<1>5. fs[f].ctx = f
  BY <1>1, <1>2, <1>3, <1>4 DEF Switching
<1> HIDE DEF fs
<1>6. /\ at' = f /\ wrong' = wrong
      /\ fiber' \in [Fibers -> FiberObject]
      /\ \A g \in Fibers :
           /\ fiber'[g].state = fs[g].state
           /\ fiber'[g].own = fs[g].own
           /\ fiber'[g].cur = fs[g].cur
           /\ fiber'[g].begun = fs[g].begun
           /\ g # f /\ (g = p \/ fs[g].ctx = g) => fiber'[g].ctx = g
  BY <1>1, <1>3, <1>4, <1>5, Swapped, SMTT(30)
<1>7. FiberTyped'
  BY <1>6 DEF FiberTyped
<1>8. Switching'
  <2>1. \A g \in Fibers : fiber'[g].state = "RUNNING" <=> g = f \/ g \in Waiters
    BY <1>4, <1>6, SMTT(30) DEF Switching
  <2>2. \A g \in Fibers : g = f \/ g \in Waiters <=> g \in Waiters'
    BY <1>1, <1>3, <1>6, FibersApart DEF Waiters
  <2>3. \A g \in Fibers : g # f /\ fiber'[g].state # "none" => fiber'[g].ctx = g
    BY <1>1, <1>4, <1>6, SMTT(30) DEF Switching
  <2> QED BY <1>2, <1>6, <2>1, <2>2, <2>3 DEF Switching
<1>9. Living'
  <2>1. \A g \in Fibers : g # f => /\ fiber'[g].state = fiber[g].state
                                   /\ fiber'[g].own = fiber[g].own
                                   /\ fiber'[g].cur = fiber[g].cur
                                   /\ fiber'[g].begun = fiber[g].begun
    BY <1>4, <1>6, SMTT(30)
  <2>2. /\ fiber'[f].state = "RUNNING" /\ fiber'[f].own /\ fiber'[f].cur
        /\ fiber'[f].begun
    BY <1>2, <1>4, <1>6
  <2> QED BY <1>2, <2>1, <2>2, SMTT(30) DEF Living
<1> QED BY <1>6, <1>7, <1>8, <1>9

\* The fiber that yields goes back to the one that it swaps with, which waits.
LEMMA FiberYielded ==
  ASSUME FiberTyped, wrong = "none", Switching, at # Main,
         NEW fs \in [Fibers -> FiberObject], fs[at].state \in {"RUNNING", "TERM"},
         \A g \in Fibers : g # at => fs[g] = fiber[g],
         YieldOf(at, fs)
  PROVE  /\ FiberTyped' /\ wrong' = "none" /\ Switching'
         /\ \A g \in Fibers :
              /\ g # at => fiber'[g].state = fiber[g].state
              /\ fiber'[g].own = fs[g].own
              /\ fiber'[g].cur = fs[g].cur
              /\ fiber'[g].begun = fs[g].begun
         /\ fiber'[at].state = IF fs[at].state = "TERM" THEN "TERM" ELSE "READY"
<1> DEFINE ft == [fs EXCEPT ![at].state = IF @ = "TERM" THEN @ ELSE "READY"]
<1>0. at \in Fibers
  BY Current
<1>1. PICK p \in Peers(at) : t_fiber' = Main /\ swapcontext(ft, at, p)
  BY DEF YieldOf
<1>2. /\ p = IF at \in Tasks THEN Root ELSE Main
      /\ p \in Fibers /\ p # at /\ p \in Waiters
  BY <1>0, <1>1, FibersApart DEF Peers, Fibers, Waiters
<1>3. /\ ft \in [Fibers -> FiberObject]
      /\ ft[at].state = IF fs[at].state = "TERM" THEN "TERM" ELSE "READY"
      /\ ft[at].own = fs[at].own /\ ft[at].cur = fs[at].cur /\ ft[at].begun = fs[at].begun
      /\ \A g \in Fibers : g # at => ft[g] = fs[g]
  BY <1>0 DEF FiberObject
<1>4. ft[p].state # "none" /\ ft[p].ctx = p
  BY <1>2, <1>3 DEF Switching
<1> HIDE DEF ft
<1>5. /\ at' = p /\ wrong' = wrong
      /\ fiber' \in [Fibers -> FiberObject]
      /\ \A g \in Fibers :
           /\ fiber'[g].state = ft[g].state
           /\ fiber'[g].own = ft[g].own
           /\ fiber'[g].cur = ft[g].cur
           /\ fiber'[g].begun = ft[g].begun
           /\ g # p /\ (g = at \/ ft[g].ctx = g) => fiber'[g].ctx = g
  BY <1>0, <1>1, <1>2, <1>3, <1>4, Swapped, SMTT(30)
<1>6. FiberTyped'
  BY <1>2, <1>5 DEF FiberTyped
<1>7. Switching'
  <2>1. \A g \in Fibers : fiber'[g].state = "RUNNING" <=> g # at /\ g \in Waiters
    BY <1>0, <1>3, <1>5, SMTT(30) DEF Switching
  <2>2. \A g \in Fibers : g # at /\ g \in Waiters <=> g \in Waiters'
    BY <1>2, <1>5, FibersApart DEF Waiters
  <2>3. \A g \in Fibers : g # p /\ fiber'[g].state # "none" => fiber'[g].ctx = g
    BY <1>3, <1>5, SMTT(30) DEF Switching
  <2>4. p = Root \/ p = Main
    BY <1>2
  <2> QED BY <1>1, <1>5, <2>1, <2>2, <2>3, <2>4 DEF Switching
<1> QED BY <1>0, <1>3, <1>5, <1>6, <1>7, SMTT(30)

LEMMA FiberYields ==
  ASSUME FiberTyped, wrong = "none", Switching, Living, Yield
  PROVE  FiberTyped' /\ wrong' = "none" /\ Switching' /\ Living'
<1>1. /\ at # Main /\ at \in Fibers /\ t_fiber = at /\ parted' = parted
      /\ fiber[at].state = "RUNNING" /\ fiber[at].begun /\ fiber[at].cur
      /\ fiber \in [Fibers -> FiberObject]
  BY FibersApart, Current DEF Yield, Living, FiberTyped
<1>2. YieldOf(at, fiber)
  BY <1>1 DEF Yield
<1>3. /\ FiberTyped' /\ wrong' = "none" /\ Switching'
      /\ \A g \in Fibers :
           /\ g # at => fiber'[g].state = fiber[g].state
           /\ fiber'[g].own = fiber[g].own
           /\ fiber'[g].cur = fiber[g].cur
           /\ fiber'[g].begun = fiber[g].begun
      /\ fiber'[at].state = "READY"
  BY <1>1, <1>2, FiberYielded
<1>4. Living'
  BY <1>1, <1>3, SMTT(30) DEF Living
<1> QED BY <1>3, <1>4

LEMMA FiberEnds ==
  ASSUME FiberTyped, wrong = "none", Switching, Living, MainFuncEnds, fiber[at].own
  PROVE  FiberTyped' /\ wrong' = "none" /\ Switching' /\ Living'
<1> DEFINE fs == [fiber EXCEPT ![at].state = "TERM", ![at].cur = FALSE]
<1>1. at # Main /\ at \in Fibers /\ parted' = parted /\ YieldOf(at, fs)
  BY Current DEF MainFuncEnds
<1>2. /\ fs \in [Fibers -> FiberObject]
      /\ fs[at].state = "TERM" /\ ~ fs[at].cur /\ fs[at].own
      /\ \A g \in Fibers : g # at => fs[g] = fiber[g]
  BY <1>1 DEF FiberTyped, FiberObject
<1> HIDE DEF fs
<1>3. /\ FiberTyped' /\ wrong' = "none" /\ Switching'
      /\ \A g \in Fibers :
           /\ g # at => fiber'[g].state = fiber[g].state
           /\ fiber'[g].own = fs[g].own
           /\ fiber'[g].cur = fs[g].cur
           /\ fiber'[g].begun = fs[g].begun
      /\ fiber'[at].state = "TERM"
  BY <1>1, <1>2, FiberYielded
<1>4. Living'
  BY <1>1, <1>2, <1>3, SMTT(30) DEF Living
<1> QED BY <1>3, <1>4

LEMMA FiberKept ==
  ASSUME FiberTyped, wrong = "none", Switching, Living, Keep
  PROVE  FiberTyped' /\ wrong' = "none" /\ Switching' /\ Living'
<1>1. /\ UNCHANGED <<at, t_fiber, wrong, parted>>
      /\ at \in Fibers /\ fiber[at].state = "RUNNING"
      /\ fiber' = [fiber EXCEPT ![at].own = TRUE]
  BY Current DEF Keep
<1>2. /\ fiber' \in [Fibers -> FiberObject]
      /\ \A g \in Fibers : /\ fiber'[g].state = fiber[g].state
                           /\ fiber'[g].ctx = fiber[g].ctx
                           /\ fiber'[g].cur = fiber[g].cur
                           /\ fiber'[g].begun = fiber[g].begun
                           /\ fiber'[g].own <=> (g = at \/ fiber[g].own)
  BY <1>1 DEF FiberTyped, FiberObject
<1>3. FiberTyped'
  BY <1>1, <1>2 DEF FiberTyped
<1>4. Switching'
  BY <1>1, <1>2, SMTT(30) DEF Switching, Waiters
<1>5. Living'
  BY <1>1, <1>2, SMTT(30) DEF Living
<1> QED BY <1>1, <1>3, <1>4, <1>5

\* Release destroys a fiber that has ended, and fails on one that was never
\* resumed.
LEMMA FiberReleased ==
  ASSUME FiberTyped, wrong = "none", Switching, Living, NEW f \in Fibers, f # Main,
         Release(f), ~ nested'
  PROVE  FiberTyped' /\ (wrong' = "none" => Switching' /\ Living') /\ FibersRight'
<1>0. /\ UNCHANGED <<at, t_fiber>> /\ fiber[f].own /\ fiber[f] \in FiberObject
      /\ parted' = (parted \/ fiber[f].state = "RUNNING")
  BY DEF Release, FiberTyped
<1>1. /\ fiber \in [Fibers -> FiberObject]
      /\ fiber[f].state \in {"READY", "RUNNING", "TERM"}
  BY <1>0 DEF FiberTyped, FiberObject, Living
<1>2. CASE ~ fiber[f].cur /\ fiber[f].state = "TERM"
  <2>1. /\ wrong' = "none" /\ fiber' = [fiber EXCEPT ![f] = NoFiber(f)]
    BY <1>2 DEF Release
  <2>2. /\ fiber' \in [Fibers -> FiberObject]
        /\ fiber'[f].state = "none" /\ ~ fiber'[f].own /\ ~ fiber'[f].begun
        /\ \A g \in Fibers : g # f => fiber'[g] = fiber[g]
    BY <1>1, <2>1 DEF NoFiber, FiberObject
  <2>3. FiberTyped'
    BY <1>0, <2>1, <2>2 DEF FiberTyped
  <2>4. Switching'
    BY <1>0, <1>2, <2>2 DEF Switching, Waiters
  <2>5. Living'
    BY <1>0, <1>2, <2>2 DEF Living
  <2> QED BY <2>1, <2>3, <2>4, <2>5, RightNext
<1>3. CASE ~ (~ fiber[f].cur /\ fiber[f].state = "TERM")
  <2>1. fiber' = [fiber EXCEPT ![f].own = FALSE]
    BY <1>3 DEF Release
  <2>2. /\ fiber' \in [Fibers -> FiberObject]
        /\ \A g \in Fibers : /\ fiber'[g].state = fiber[g].state
                             /\ fiber'[g].ctx = fiber[g].ctx
                             /\ fiber'[g].cur = fiber[g].cur
                             /\ fiber'[g].begun = fiber[g].begun
                             /\ g # f => fiber'[g].own = fiber[g].own
        /\ ~ fiber'[f].own
    BY <1>1, <2>1 DEF FiberObject
  <2>3. Switching'
    BY <1>0, <2>2 DEF Switching, Waiters
  <2>4. CASE fiber[f].cur
    <3>1. wrong' = "none"
      BY <2>4 DEF Release
    <3>2. FiberTyped'
      BY <1>0, <2>2, <3>1 DEF FiberTyped
    <3>3. fiber[f].state # "TERM"
      BY <1>3, <2>4 DEF Living
    <3>4. Living'
      <4>1. \A g \in Fibers : /\ fiber'[g].own => fiber'[g].state # "none"
                              /\ fiber'[g].state = "TERM" => fiber'[g].own /\ ~ fiber'[g].cur
        BY <2>2, <3>3 DEF Living
      <4>2. \A g \in Fibers :
              /\ fiber'[g].begun /\ fiber'[g].state # "TERM" => fiber'[g].cur
              /\ fiber'[g].state = "RUNNING" /\ g # Main => fiber'[g].begun
        BY <2>2 DEF Living
      <4>3. /\ parted => parted'
            /\ fiber[f].state = "RUNNING" => parted'
        BY <1>0
      <4>4. \A g \in Fibers : fiber'[g].state = "RUNNING" /\ ~ fiber'[g].own => parted'
        BY <2>2, <4>3 DEF Living
      <4> QED BY <4>1, <4>2, <4>4 DEF Living
    <3> QED BY <2>3, <3>1, <3>2, <3>4, RightNext
  <2>5. CASE ~ fiber[f].cur
    <3>1. wrong' = "assert"
      BY <1>3, <2>5 DEF Release
    <3>2. FiberTyped'
      BY <1>0, <2>2, <3>1 DEF FiberTyped
    <3>3. fiber[f].state = "READY" /\ ~ fiber[f].begun
      BY <1>1, <1>3, <2>5 DEF Living
    <3>4. LivesWhileRun'
      <4>1. fiber'[f].state = "READY" /\ ~ fiber'[f].own /\ ~ fiber'[f].begun
        BY <2>2, <3>3
      <4>2. \A g \in Fibers : fiber'[g].state = "TERM" => fiber'[g].own
        BY <2>2, <3>3 DEF Living
      <4>3. \A g \in Fibers : fiber'[g].begun /\ fiber'[g].state # "TERM" => fiber'[g].cur
        BY <2>2 DEF Living
      <4> QED BY <3>1, <4>1, <4>2, <4>3 DEF LivesWhileRun
    <3>5. SwitchesRight'
      BY <2>3, <3>1 DEF SwitchesRight, Switching
    <3> QED BY <3>1, <3>2, <3>4, <3>5 DEF FibersRight
  <2> QED BY <2>4, <2>5
<1> QED BY <1>2, <1>3

LEMMA FiberStep == FiberInv /\ [FiberNext]_fvars => FiberInv'
<1> SUFFICES ASSUME FiberInv, [FiberNext]_fvars, ~ nested'
             PROVE  /\ FiberTyped'
                    /\ wrong' = "none" => Switching' /\ Living'
                    /\ FibersRight'
  BY DEF FiberInv
<1>1. CASE UNCHANGED fvars
  BY <1>1, SMTT(30) DEF fvars, FiberInv, FiberTyped, FiberObject, Fibers, Switching, Waiters,
     Living, FibersRight, SwitchesRight, LivesWhileRun
<1>2. CASE FiberNext
  <2>1. wrong = "none" /\ ~ nested
    <3>1. ASSUME NEW f, Resume(f) PROVE ~ nested
      BY <3>1 DEF Resume
    <3>2. ASSUME NEW f, New(f) \/ Reset(f) \/ Release(f) PROVE ~ nested
      BY <3>2 DEF New, Reset, Release
    <3>3. Yield \/ MainFuncEnds \/ Keep => ~ nested
      BY DEF Yield, MainFuncEnds, Keep
    <3> QED BY <1>2, <3>1, <3>2, <3>3 DEF FiberNext
  <2>2. FiberTyped /\ Switching /\ Living
    BY <2>1 DEF FiberInv
  <2>3. ASSUME NEW f \in Fibers, f # Main, New(f) \/ Reset(f) \/ Resume(f)
        PROVE  FiberTyped' /\ wrong' = "none" /\ Switching' /\ Living'
    BY <2>1, <2>2, <2>3, FiberMade, FiberResumed
  <2>4. ASSUME NEW f \in Fibers, f # Main, Release(f)
        PROVE  FiberTyped' /\ (wrong' = "none" => Switching' /\ Living') /\ FibersRight'
    BY <2>1, <2>2, <2>4, FiberReleased
  <2>5. CASE MainFuncEnds /\ ~ fiber[at].own
    <3>1. wrong' = "freed" /\ UNCHANGED <<fiber, at, t_fiber, parted>>
      BY <2>5 DEF MainFuncEnds, Fail
    <3>2. parted
      BY <2>2, <2>5, Current DEF Living
    <3>3. FiberTyped'
      BY <2>2, <3>1 DEF FiberTyped
    <3>4. SwitchesRight'
      BY <2>2, <3>1 DEF SwitchesRight, Switching, Fibers
    <3>5. LivesWhileRun'
      BY <2>2, <3>1, <3>2 DEF LivesWhileRun, Living, Fibers
    <3> QED BY <3>1, <3>3, <3>4, <3>5 DEF FibersRight
  <2>6. CASE Yield \/ Keep \/ (MainFuncEnds /\ fiber[at].own)
    BY <2>1, <2>2, <2>6, FiberYields, FiberKept, FiberEnds, RightNext
  <2> QED BY <1>2, <2>3, <2>4, <2>5, <2>6, RightNext DEF FiberNext
<1> QED BY <1>1, <1>2

------------------------------------------------------------------------------

\* Fibers switch and live as they should, for any number of fibers: as long as
\* each is resumed by the code that it swaps with, Resume and Yield enter a
\* context that holds the code that goes on, exactly the fiber that runs and
\* those waiting for it are RUNNING, and MainFunc's pointer keeps a fiber alive.
THEOREM FibersSwitchRight == FiberSpec => []FibersRight
<1>1. FiberInv => FibersRight
  BY DEF FiberInv, FibersRight, SwitchesRight, LivesWhileRun
<1> QED BY <1>1, FiberInitially, FiberStep, PTL DEF FiberSpec

\* Run finds its Thread object as long as the object was not given up, and reads
\* id_ and cb_ before the constructor returns; scoped locks exclude a writer from
\* everyone else; the daemon has one process at a time, restarted only after a
\* crash.  All for any number of threads and of processes.
THEOREM ThreadsKeptRight == ThreadsSpec /\ DaemonSpec => []ThreadsRight
<1>1. ThreadInv => ThreadHasObject
  BY DEF ThreadInv, ThreadTyped, ThreadObject, Handshake, ThreadHasObject, Exists
<1>2. LockInv => ScopesExclude
  <2> SUFFICES ASSUME LockInv PROVE ScopesExclude
    OBVIOUS
  <2>1. ASSUME NEW t \in Threads, scope[t].locked
        PROVE  (t \in Readers /\ scope[t].mode = "read") \/ t \in Writers
    <3>1. scope[t] \in [mode : {"read", "write"}, locked : BOOLEAN]
      BY <2>1, SMTT(30) DEF LockInv, NoScope
    <3>2. PICK m \in {"read", "write"}, l \in BOOLEAN : scope[t] = [mode |-> m, locked |-> l]
      BY <3>1
    <3>3. l = TRUE
      BY <2>1, <3>2, SMTT(30)
    <3>4. CASE m = "read"
      BY <3>2, <3>3, <3>4, SMTT(30) DEF Readers
    <3>5. CASE m = "write"
      BY <3>2, <3>3, <3>5 DEF Writers
    <3> QED BY <3>4, <3>5
  <2>2. ASSUME NEW t \in Threads, NEW u \in Threads, t # u, scope[t].locked, scope[u].locked
        PROVE  scope[t].mode = "read" /\ scope[u].mode = "read"
    BY <2>1, <2>2 DEF LockInv
  <2> QED BY <2>2 DEF LockInv, ScopesExclude, Readers, Writers
<1>3. DaemonInv => ProcessesInTurn
  BY DEF DaemonInv
<1>4. ThreadInv /\ LockInv /\ DaemonInv => ThreadsRight
  BY <1>1, <1>2, <1>3 DEF ThreadsRight
<1>5. ThreadsSpec => []ThreadInv
  BY ThreadInitially, ThreadStep, PTL DEF ThreadsSpec
<1>6. ThreadsSpec => []LockInv
  BY LockInitially, LockStep, PTL DEF ThreadsSpec
<1>7. DaemonSpec => []DaemonInv
  BY DaemonInitially, DaemonStep, PTL DEF DaemonSpec
<1> QED BY <1>4, <1>5, <1>6, <1>7, PTL

==============================================================================
