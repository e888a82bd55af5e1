--------------------------- MODULE IOManagerProofs ---------------------------
(***************************************************************************)
(* Proofs about IOManager, for every set of threads and fibers.            *)
(*                                                                         *)
(* CountsInv and SharingInv of the scheduler hold as they are: what the    *)
(* scheduler itself does is taken from SchedulerProofs, as the effect      *)
(* Moved(f) of a step on a fiber.  PlacesInv adds where else a fiber may   *)
(* be, in the event table, in the timers or with an idle thread, and keeps *)
(* these places apart.  ExitIsQuiescent does not carry over: an idle       *)
(* thread schedules without a task.                                        *)
(***************************************************************************)
EXTENDS IOManager, SchedulerProofs

\* Most leaves are first-order logic over sets and functions.  Those that need
\* arithmetic name the SMT solver.
USE ZenonT(30)

------------------------------------------------------------------------------
(* The inductive invariant *)

IOTyped ==
  /\ idle_pc \in [Threads -> IdleLabels]
  /\ edge \in BOOLEAN
  /\ waiting \subseteq Fibers
  /\ ready \subseteq waiting
  /\ found \in [Threads -> SUBSET Fibers]
  /\ pending \in Nat
  /\ timers \subseteq Fibers
  /\ due \subseteq timers
  /\ cbs \in [Threads -> SUBSET Fibers]

\* A fiber that is registered for an event is about to yield, or has.
Waits(f) ==
  /\ state[f] \in {"READY", "RUNNING"}
  /\ ~ Queued(f)
  /\ \A t \in Threads : Exec(t, f) => Pausing(t)

\* The callback of a timer is in nobody else's hands.
Armed(f) ==
  /\ state[f] = "CB"
  /\ ~ Queued(f)
  /\ \A t \in Threads : ~ Exec(t, f)

EventPlaces ==
  /\ \A f \in waiting : Waits(f)
  /\ \A t \in Threads : found[t] \subseteq waiting \ ready
  /\ \A t, u \in Threads : t # u => found[t] \cap found[u] = {}

\* What ListExpiredCb returned is used up before the next call.
TimerPlaces ==
  /\ \A f \in timers : Armed(f)
  /\ \A t \in Threads : \A f \in cbs[t] : Armed(f)
  /\ \A t \in Threads : timers \cap cbs[t] = {}
  /\ \A t, u \in Threads : t # u => cbs[t] \cap cbs[u] = {}
  /\ \A t \in Threads : cbs[t] # {} => idle_pc[t] \in {"schedule", "schedule_tickle"}

\* The list or the event table has a fiber that is about to yield, and every
\* fiber that has not ended is somewhere.
YielderKept ==
  \A t \in Threads, f \in Fibers : Exec(t, f) /\ Pausing(t) => Queued(f) \/ f \in waiting

Somewhere(f) ==
  \/ Queued(f)
  \/ f \in waiting \cup timers
  \/ \E t \in Threads : Exec(t, f) \/ f \in cbs[t]

EveryFiberKept ==
  \A f \in Fibers : state[f] \in {"CB", "READY", "RUNNING"} => Somewhere(f)

\* Threads that have triggered an event and not counted it yet.
Counting == {t \in Threads : idle_pc[t] \in {"trigger_tickle", "count"}}

PendingIsExact ==
  /\ IsFiniteSet(waiting)
  /\ pending = Cardinality(waiting) + Cardinality(Counting)

PlacesInv == EventPlaces /\ TimerPlaces /\ YielderKept /\ EveryFiberKept

IOInv == CountsInv /\ SharingInv /\ IOTyped /\ PlacesInv /\ PendingIsExact

------------------------------------------------------------------------------
(* Steps that leave the tables alone *)

LEMMA IOInitially == IOInit => IOInv
<1> SUFFICES ASSUME IOInit PROVE IOInv
  OBVIOUS
<1>1. CountsInv /\ SharingInv
  BY ControlInit, OwnershipInit DEF IOInit, ControlInv, OwnershipInv
<1>2. IOTyped
  BY DEF IOInit, IOTyped, IdleLabels
<1>3. EventPlaces /\ TimerPlaces
  BY DEF IOInit, EventPlaces, TimerPlaces
<1>4. YielderKept /\ EveryFiberKept
  BY DEF IOInit, Init, YielderKept, EveryFiberKept, Exec, Held
<1>5. PendingIsExact
  <2>1. Counting = {}
    BY DEF IOInit, Counting
  <2> QED BY <2>1, FS_EmptySet, SMTT(30) DEF IOInit, PendingIsExact
<1> QED BY <1>1, <1>2, <1>3, <1>4, <1>5 DEF IOInv, PlacesInv

\* A step of the scheduler moves no fiber into or out of the tables, and leaves
\* the fibers that are there as they must be.
LEMMA PlacesMoved ==
  ASSUME IOInv, SharingInv', \A f \in Fibers : Moved(f),
         UNCHANGED <<waiting, ready, found, timers, cbs>>,
         \A t \in Threads :
           cbs[t] # {} => idle_pc'[t] \in {"schedule", "schedule_tickle"}
  PROVE  PlacesInv'
<1> USE DEF IOInv, PlacesInv
<1>1. \A f \in Fibers : \A t, u \in Threads : (Exec(t, f) /\ Exec(u, f))' => t = u
  BY DEF SharingInv, ExecOnce
<1>2. /\ waiting \subseteq Fibers
      /\ timers \subseteq Fibers
      /\ \A t \in Threads : cbs[t] \subseteq Fibers
  BY DEF IOTyped
<1>3. \A f \in Fibers : Waits(f) => Waits(f)'
  <2> SUFFICES ASSUME NEW f \in Fibers, Waits(f) PROVE Waits(f)'
    OBVIOUS
  <2>1. Moved(f)
    OBVIOUS
  <2> QED BY <2>1 DEF Waits, Moved, Still
<1>4. \A f \in Fibers : Armed(f) => Armed(f)'
  <2> SUFFICES ASSUME NEW f \in Fibers, Armed(f) PROVE Armed(f)'
    OBVIOUS
  <2>1. Moved(f)
    OBVIOUS
  <2> QED BY <2>1 DEF Armed, Moved, Still
<1>5. EventPlaces'
  BY <1>2, <1>3 DEF EventPlaces
<1>6. TimerPlaces'
  BY <1>2, <1>4 DEF TimerPlaces
<1>7. YielderKept'
  <2> SUFFICES ASSUME NEW t \in Threads, NEW f \in Fibers, Exec(t, f)', Pausing(t)'
               PROVE  Queued(f)' \/ f \in waiting
    BY DEF YielderKept
  <2>1. Moved(f)
    OBVIOUS
  <2>2. \A u \in Threads : Exec(u, f) /\ Pausing(u) => Queued(f) \/ f \in waiting
    BY DEF YielderKept
  <2>3. \A u \in Threads : Exec(u, f)' => u = t
    BY <1>1
  <2> QED BY <2>1, <2>2, <2>3 DEF Moved, Still
<1>8. EveryFiberKept'
  <2> SUFFICES ASSUME NEW f \in Fibers, state'[f] \in {"CB", "READY", "RUNNING"}
               PROVE  Somewhere(f)'
    BY DEF EveryFiberKept
  <2>1. Moved(f)
    OBVIOUS
  <2>2. \A u \in Threads : Exec(u, f) /\ Pausing(u) => Queued(f) \/ f \in waiting
    BY DEF YielderKept
  <2>3. state[f] \in {"CB", "READY", "RUNNING"} => Somewhere(f)
    BY DEF EveryFiberKept
  <2>4. Queued(f)' \/ (\E u \in Threads : Exec(u, f)') => Somewhere(f)'
    BY DEF Somewhere
  <2>5. f \in waiting \cup timers \/ (\E u \in Threads : f \in cbs[u]) => Somewhere(f)'
    BY DEF Somewhere
  <2> HIDE DEF IOInv
  <2>6. CASE Still(f)
    BY <2>3, <2>4, <2>5, <2>6 DEF Still, Somewhere
  <2>7. CASE \E u \in Threads : Exec(u, f) /\ Pausing(u) /\ (Queued(f)' <=> Queued(f))
    BY <2>2, <2>4, <2>5, <2>7
  <2> QED BY <2>1, <2>4, <2>6, <2>7 DEF Moved
<1> QED BY <1>5, <1>6, <1>7, <1>8

\* Steps between which a thread's place in Idle makes no difference.
Quiet(t) ==
  \/ idle_pc'[t] = idle_pc[t]
  \/ cbs[t] = {} /\ {idle_pc[t], idle_pc'[t]} \cap {"trigger_tickle", "count"} = {}
  \/ {idle_pc[t], idle_pc'[t]} \subseteq {"schedule", "schedule_tickle"}
  \/ cbs[t] = {} /\ {idle_pc[t], idle_pc'[t]} \subseteq {"trigger_tickle", "count"}

LEMMA IOQuiet ==
  ASSUME IOInv, CountsInv', SharingInv', \A f \in Fibers : Moved(f),
         UNCHANGED <<waiting, ready, found, pending, timers, due, cbs>>,
         idle_pc' \in [Threads -> IdleLabels], edge' \in BOOLEAN,
         \A t \in Threads : Quiet(t)
  PROVE  IOInv'
<1>1. IOTyped'
  BY DEF IOInv, IOTyped
<1>2. PlacesInv'
  <2>1. \A t \in Threads :
          cbs[t] # {} => idle_pc'[t] \in {"schedule", "schedule_tickle"}
    BY DEF IOInv, PlacesInv, TimerPlaces, Quiet
  <2> QED BY <2>1, PlacesMoved
<1>3. PendingIsExact'
  <2>1. Counting' = Counting
    BY DEF Counting, Quiet
  <2> QED BY <2>1 DEF IOInv, PendingIsExact
<1> QED BY <1>1, <1>2, <1>3 DEF IOInv

\* Tickle writes the pipe, or not.
LEMMA EdgeTyped ==
  ASSUME IOInv, WriteT PROVE edge' \in BOOLEAN
BY DEF WriteT

\* What IOManager inherits are steps of the scheduler that leave its own state
\* alone; Tickle and the looks of Stopping change nothing but the pipe and where a
\* thread is in Idle.
LEMMA IOScheduler ==
  ASSUME IOInv, [Next]_vars,
         UNCHANGED <<waiting, ready, found, pending, timers, due, cbs>>,
         idle_pc' \in [Threads -> IdleLabels], edge' \in BOOLEAN,
         \A t \in Threads : Quiet(t)
  PROVE  IOInv'
<1>1. CountsInv'
  BY CountsStep DEF IOInv
<1>2. SharingInv' /\ \A f \in Fibers : Moved(f)
  BY SharingStep DEF IOInv
<1> QED BY <1>1, <1>2, IOQuiet

LEMMA IOInherited ==
  ASSUME IOInv, [Next]_vars, UNCHANGED ioVars PROVE IOInv'
<1>1. /\ UNCHANGED <<waiting, ready, found, pending, timers, due, cbs>>
      /\ idle_pc' = idle_pc /\ edge' = edge
  BY DEF ioVars
<1>2. idle_pc' \in [Threads -> IdleLabels] /\ edge' \in BOOLEAN
  BY <1>1 DEF IOInv, IOTyped
<1>3. \A t \in Threads : Quiet(t)
  BY <1>1 DEF Quiet
<1> QED BY <1>1, <1>2, <1>3, IOScheduler

LEMMA IOTickles ==
  ASSUME IOInv, IOStopTickle \/ \E t \in Threads : IOTickle(t)
  PROVE  IOInv'
<1>1. /\ [Next]_vars
      /\ UNCHANGED <<waiting, ready, found, pending, timers, due, cbs>>
      /\ idle_pc' = idle_pc
      /\ WriteT
  BY DEF IOStopTickle, IOTickle, Next, MainStop, RunStep
<1>2. idle_pc' \in [Threads -> IdleLabels] /\ edge' \in BOOLEAN
  BY <1>1, EdgeTyped DEF IOInv, IOTyped
<1>3. \A t \in Threads : Quiet(t)
  BY <1>1 DEF Quiet
<1> QED BY <1>1, <1>2, <1>3, IOScheduler

\* Steps inside Idle that only change where the thread is.
LEMMA IOIdleMoves ==
  ASSUME IOInv, NEW t \in Threads,
         \/ StoppingTimers(t) \/ StoppingPending(t) \/ StoppingScheduler(t)
         \/ EpollTimeout(t) \/ ScheduledCbs(t) \/ IdleTickle(t)
  PROVE  IOInv'
<1>1. [Next]_vars
  BY DEF StoppingTimers, StoppingPending, StoppingScheduler, EpollTimeout,
     ScheduledCbs, IdleTickle, Next, RunStep
<1>2. UNCHANGED <<waiting, ready, found, pending, timers, due, cbs>>
  BY DEF StoppingTimers, StoppingPending, StoppingScheduler, EpollTimeout,
     ScheduledCbs, IdleTickle
<1>3. edge' \in BOOLEAN
  <2>1. edge \in BOOLEAN
    BY DEF IOInv, IOTyped
  <2> QED BY <2>1, EdgeTyped DEF StoppingTimers, StoppingPending, StoppingScheduler,
             EpollTimeout, ScheduledCbs, IdleTickle
<1>4. PICK label \in IdleLabels :
        /\ idle_pc' = [idle_pc EXCEPT ![t] = label]
        /\ \/ /\ idle_pc[t] \in {"timers", "pending", "stopping", "wait"}
              /\ label \in {"timers", "pending", "stopping", "wait", "collect"}
           \/ idle_pc[t] = "schedule" /\ label = "trigger" /\ cbs[t] = {}
           \/ idle_pc[t] = "schedule_tickle" /\ label = "schedule"
           \/ idle_pc[t] = "trigger_tickle" /\ label = "count"
  BY SMTT(30) DEF StoppingTimers, StoppingPending, StoppingScheduler, EpollTimeout, ScheduledCbs,
     IdleTickle, At, IdleGoto, AfterIdleTickle, IdleLabels
<1>5. idle_pc \in [Threads -> IdleLabels]
  BY DEF IOInv, IOTyped
<1>6. idle_pc' \in [Threads -> IdleLabels]
  BY <1>4, <1>5
<1>7. idle_pc'[t] = label /\ \A u \in Threads : u # t => idle_pc'[u] = idle_pc[u]
  BY <1>4, <1>5
<1>8. idle_pc[t] \notin {"schedule", "schedule_tickle"} => cbs[t] = {}
  BY DEF IOInv, PlacesInv, TimerPlaces
<1>9. \A u \in Threads : Quiet(u)
  BY <1>4, <1>7, <1>8 DEF Quiet
<1> QED BY <1>1, <1>2, <1>3, <1>6, <1>9, IOScheduler

\* The idle fiber yields with everything handled.
LEMMA IOYields ==
  ASSUME IOInv, NEW t \in Threads, IdleYield(t)
  PROVE  IOInv'
<1>1. /\ pc[t] = "idle" /\ pc' = [pc EXCEPT ![t] = "idle_return"]
      /\ idle_pc[t] = "trigger" /\ idle_pc' = [idle_pc EXCEPT ![t] = "timers"]
      /\ UNCHANGED <<tasks, active_thread_count, idle_thread_count, stopping, task,
                     idle_term, state, yields, tickles, edge, waiting, ready, found,
                     pending, timers, due, cbs>>
  BY DEF IdleYield, At, Goto, IdleGoto
<1>2. pc \in [Threads -> Labels] /\ idle_pc \in [Threads -> IdleLabels]
  BY DEF IOInv, IOTyped, CountsInv, TypeOK
<1>3. /\ pc'[t] = "idle_return" /\ idle_pc'[t] = "timers"
      /\ \A u \in Threads : u # t => pc'[u] = pc[u] /\ idle_pc'[u] = idle_pc[u]
  BY <1>1, <1>2
<1>4. task[t] = NoTask
  BY <1>1 DEF IOInv, CountsInv, HoldsWhileWorking, WorkLabels, BodyLabels
<1>5. SharingInv' /\ \A f \in Fibers : Still(f)
  BY <1>1, <1>3, <1>4, SharingFrame DEF IOInv
<1>6. CountsInv'
  <2>1. TypeOK'
    BY <1>1, <1>2 DEF IOInv, CountsInv, TypeOK, Labels
  <2>2. Holders' = Holders /\ Idlers' = Idlers
    BY <1>1, <1>3 DEF Holders, Idlers
  <2>3. ActiveExact' /\ IdleExact'
    BY <1>1, <2>2 DEF IOInv, CountsInv, ActiveExact, IdleExact
  <2>4. HoldsWhileWorking'
    BY <1>1, <1>3, <1>4 DEF IOInv, CountsInv, HoldsWhileWorking, WorkLabels, BodyLabels
  <2>5. OwnerControl'
    BY <1>1, <1>3 DEF IOInv, CountsInv, OwnerControl, OwnerLabels, Threads
  <2> QED BY <2>1, <2>3, <2>4, <2>5 DEF CountsInv
<1>7. cbs[t] = {}
  BY <1>1 DEF IOInv, PlacesInv, TimerPlaces
<1>8. \A u \in Threads : Quiet(u)
  BY <1>1, <1>3, <1>7 DEF Quiet
<1>9. idle_pc' \in [Threads -> IdleLabels] /\ edge' \in BOOLEAN
  BY <1>1, <1>2 DEF IdleLabels, IOInv, IOTyped
<1> QED BY <1>1, <1>5, <1>6, <1>8, <1>9, IOQuiet DEF Moved

------------------------------------------------------------------------------
(* Steps that change the tables *)

LEMMA VarsSame ==
  ASSUME IOInv, UNCHANGED vars
  PROVE  /\ CountsInv' /\ SharingInv'
         /\ \A f \in Fibers : Still(f)
<1>1. UNCHANGED <<tasks, task, state, pc>>
  BY DEF vars
<1>2. CountsInv'
  BY CountsStep DEF IOInv
<1> QED BY <1>1, <1>2, SharingFrame DEF IOInv

\* For a fiber that a step leaves alone, its place is what counts.
LEMMA StillPlaced ==
  ASSUME NEW f \in Fibers, Still(f)
  PROVE  /\ Waits(f) => Waits(f)'
         /\ Armed(f) => Armed(f)'
BY DEF Still, Waits, Armed

LEMMA StillKept ==
  ASSUME IOInv, \A f \in Fibers : Still(f), waiting' = waiting,
         \A f \in Fibers :
           f \in timers \/ (\E t \in Threads : f \in cbs[t]) =>
             f \in timers' \/ \E t \in Threads : f \in cbs'[t]
  PROVE  YielderKept' /\ EveryFiberKept'
<1>1. YielderKept'
  BY DEF IOInv, PlacesInv, YielderKept, Still
<1>2. EveryFiberKept'
  BY DEF IOInv, PlacesInv, EveryFiberKept, Somewhere, Still
<1> QED BY <1>1, <1>2

\* An event happens, a timer expires, or epoll_wait hands events to a thread.
LEMMA IOHappens ==
  ASSUME IOInv, (\E f \in Fibers : Ready(f) \/ Expire(f)) \/ \E t \in Threads : EpollWait(t)
  PROVE  IOInv'
<1> USE DEF IOInv
<1>1. /\ UNCHANGED <<vars, waiting, pending, timers, cbs>>
      /\ due' \subseteq timers
      /\ edge' \in BOOLEAN
  BY DEF Ready, Expire, EpollWait, IOTyped
<1>2. CountsInv' /\ SharingInv' /\ \A f \in Fibers : Still(f)
  BY <1>1, VarsSame
<1>3. /\ idle_pc' \in [Threads -> IdleLabels]
      /\ \A t \in Threads :
           \/ idle_pc'[t] = idle_pc[t]
           \/ idle_pc[t] = "wait" /\ idle_pc'[t] = "collect"
  BY DEF Ready, Expire, EpollWait, At, IdleGoto, IOTyped, IdleLabels
<1>4. /\ ready' \subseteq waiting
      /\ found' \in [Threads -> SUBSET Fibers]
      /\ \A t \in Threads : found'[t] \subseteq waiting \ ready'
      /\ \A t, u \in Threads : t # u => found'[t] \cap found'[u] = {}
  <2>1. /\ ready \subseteq waiting /\ waiting \subseteq Fibers
        /\ found \in [Threads -> SUBSET Fibers]
        /\ \A t \in Threads : found[t] \subseteq waiting \ ready
        /\ \A t, u \in Threads : t # u => found[t] \cap found[u] = {}
    BY DEF IOTyped, PlacesInv, EventPlaces
  <2>2. CASE \E f \in Fibers : Ready(f) \/ Expire(f)
    BY <2>1, <2>2 DEF Ready, Expire
  <2>3. ASSUME NEW t \in Threads, EpollWait(t)
        PROVE  /\ ready' \subseteq waiting
               /\ found' \in [Threads -> SUBSET Fibers]
               /\ \A u \in Threads : found'[u] \subseteq waiting \ ready'
               /\ \A u, v \in Threads : u # v => found'[u] \cap found'[v] = {}
    <3>1. ready' = {} /\ found' = [found EXCEPT ![t] = ready]
      BY <2>3 DEF EpollWait
    <3>2. found'[t] = ready /\ \A u \in Threads : u # t => found'[u] = found[u]
      BY <2>1, <3>1
    <3>3. found' \in [Threads -> SUBSET Fibers]
      BY <2>1, <3>1
    <3> QED BY <2>1, <3>1, <3>2, <3>3
  <2> QED BY <2>2, <2>3
<1>5. IOTyped'
  BY <1>1, <1>3, <1>4 DEF IOTyped
<1>6. EventPlaces'
  BY <1>1, <1>2, <1>4, StillPlaced DEF PlacesInv, EventPlaces, IOTyped
<1>7. TimerPlaces'
  <2>1. \A t \in Threads : cbs[t] # {} => idle_pc'[t] = idle_pc[t]
    BY <1>3 DEF PlacesInv, TimerPlaces
  <2> QED BY <1>1, <1>2, <2>1, StillPlaced DEF PlacesInv, TimerPlaces, IOTyped
<1>8. YielderKept' /\ EveryFiberKept'
  BY <1>1, <1>2, StillKept
<1>9. PendingIsExact'
  <2>1. Counting' = Counting
    BY <1>3 DEF Counting
  <2> QED BY <1>1, <2>1 DEF PendingIsExact
<1> QED BY <1>2, <1>5, <1>6, <1>7, <1>8, <1>9 DEF PlacesInv

\* ListExpiredCb moves callbacks from the timers to a thread that has none.
LEMMA IOCollects ==
  ASSUME IOInv, NEW t \in Threads, CollectExpired(t)
  PROVE  IOInv'
<1> USE DEF IOInv
<1>1. /\ UNCHANGED <<vars, edge, waiting, ready, found, pending>>
      /\ idle_pc[t] = "collect"
      /\ idle_pc' = [idle_pc EXCEPT ![t] = "schedule"]
      /\ cbs' = [cbs EXCEPT ![t] = due]
      /\ timers' = timers \ due
      /\ due' = {}
  BY DEF CollectExpired, At, IdleGoto
<1>2. CountsInv' /\ SharingInv' /\ \A f \in Fibers : Still(f)
  BY <1>1, VarsSame
<1>3. /\ idle_pc \in [Threads -> IdleLabels]
      /\ timers \subseteq Fibers /\ due \subseteq timers
      /\ cbs \in [Threads -> SUBSET Fibers]
  BY DEF IOTyped
<1>4. /\ idle_pc'[t] = "schedule" /\ cbs'[t] = due
      /\ \A u \in Threads : u # t => idle_pc'[u] = idle_pc[u] /\ cbs'[u] = cbs[u]
  BY <1>1, <1>3
<1>5. cbs[t] = {}
  BY <1>1 DEF PlacesInv, TimerPlaces
<1>6. IOTyped'
  <2>1. idle_pc' \in [Threads -> IdleLabels] /\ cbs' \in [Threads -> SUBSET Fibers]
    BY <1>1, <1>3 DEF IdleLabels
  <2> QED BY <1>1, <1>3, <2>1 DEF IOTyped
<1>7. EventPlaces'
  BY <1>1, <1>2, StillPlaced DEF PlacesInv, EventPlaces, IOTyped
<1>8. TimerPlaces'
  <2>1. /\ \A f \in timers : Armed(f)'
        /\ \A u \in Threads : \A f \in cbs[u] : Armed(f)'
    BY <1>2, <1>3, StillPlaced DEF PlacesInv, TimerPlaces
  <2>2. /\ \A u \in Threads : timers \cap cbs[u] = {}
        /\ \A u, v \in Threads : u # v => cbs[u] \cap cbs[v] = {}
        /\ \A u \in Threads : cbs[u] # {} => idle_pc[u] \in {"schedule", "schedule_tickle"}
    BY DEF PlacesInv, TimerPlaces
  <2>3. /\ \A f \in timers' : Armed(f)'
        /\ \A u \in Threads : \A f \in cbs'[u] : Armed(f)'
    BY <1>1, <1>3, <1>4, <2>1
  <2>4. \A u \in Threads : timers' \cap cbs'[u] = {}
    BY <1>1, <1>4, <2>2
  <2>5. \A u, v \in Threads : u # v => cbs'[u] \cap cbs'[v] = {}
    BY <1>3, <1>4, <2>2
  <2>6. \A u \in Threads : cbs'[u] # {} => idle_pc'[u] \in {"schedule", "schedule_tickle"}
    BY <1>4, <2>2
  <2> QED BY <2>3, <2>4, <2>5, <2>6 DEF TimerPlaces
<1>9. YielderKept' /\ EveryFiberKept'
  <2>1. \A f \in Fibers :
          f \in timers \/ (\E u \in Threads : f \in cbs[u]) =>
            f \in timers' \/ \E u \in Threads : f \in cbs'[u]
    BY <1>1, <1>4, <1>5
  <2> QED BY <1>1, <1>2, <2>1, StillKept
<1>10. PendingIsExact'
  <2>1. Counting' = Counting
    BY <1>1, <1>4 DEF Counting
  <2> QED BY <1>1, <2>1 DEF PendingIsExact
<1> QED BY <1>2, <1>6, <1>7, <1>8, <1>9, <1>10 DEF PlacesInv

\* The count follows the event.
LEMMA IOCounts ==
  ASSUME IOInv, NEW t \in Threads, CountEvent(t)
  PROVE  IOInv'
<1> USE DEF IOInv
<1>1. /\ UNCHANGED <<vars, edge, waiting, ready, found, timers, due, cbs>>
      /\ idle_pc[t] = "count"
      /\ idle_pc' = [idle_pc EXCEPT ![t] = "trigger"]
      /\ pending' = pending - 1
  BY DEF CountEvent, At, IdleGoto
<1>2. CountsInv' /\ SharingInv' /\ \A f \in Fibers : Still(f)
  BY <1>1, VarsSame
<1>3. idle_pc \in [Threads -> IdleLabels]
  BY DEF IOTyped
<1>4. /\ idle_pc'[t] = "trigger"
      /\ \A u \in Threads : u # t => idle_pc'[u] = idle_pc[u]
  BY <1>1, <1>3
<1>5. cbs[t] = {}
  BY <1>1 DEF PlacesInv, TimerPlaces
<1>6. PlacesInv'
  <2>1. \A u \in Threads :
          cbs[u] # {} => idle_pc'[u] \in {"schedule", "schedule_tickle"}
    BY <1>4, <1>5 DEF PlacesInv, TimerPlaces
  <2>2. \A f \in Fibers : Moved(f)
    BY <1>2 DEF Moved
  <2> HIDE DEF IOInv
  <2> QED BY <1>1, <1>2, <2>1, <2>2, PlacesMoved
<1>7. pending' \in Nat /\ PendingIsExact'
  <2>1. t \in Counting /\ Counting' = Counting \ {t} /\ Counting \in SUBSET Threads
    BY <1>1, <1>4 DEF Counting
  <2>2. /\ Cardinality(Counting) \in Nat
        /\ Cardinality(Counting) - 1 \in Nat
        /\ Cardinality(Counting') = Cardinality(Counting) - 1
    BY <2>1, CountDown
  <2>3. Cardinality(waiting) \in Nat
    BY FS_CardinalityType DEF PendingIsExact
  <2> QED BY <1>1, <2>2, <2>3, SMTT(30) DEF PendingIsExact
<1>8. IOTyped'
  <2>1. idle_pc' \in [Threads -> IdleLabels]
    BY <1>1, <1>3 DEF IdleLabels
  <2> QED BY <1>1, <1>7, <2>1 DEF IOTyped
<1> QED BY <1>2, <1>6, <1>7, <1>8

------------------------------------------------------------------------------
(* An idle thread schedules *)

\* Schedule on the idle fiber adds one fiber to the list, and that is all.
LEMMA IdleAppends ==
  ASSUME IOInv, NEW t \in Threads, NEW f \in Fibers, NEW cb \in BOOLEAN,
         NEW tickle, NEW next, IdleSchedule(t, f, cb, tickle, next), ~ Queued(f),
         IF cb THEN Armed(f) ELSE Waits(f)
  PROVE  /\ CountsInv' /\ SharingInv'
         /\ UNCHANGED <<state, pc, task>>
         /\ \A g : Queued(g)' <=> (Queued(g) \/ g = f)
<1> USE DEF IOInv
<1> DEFINE new == [fiber |-> f, cb |-> cb, thread |-> AnyThread]
<1>1. /\ tasks' = Append(tasks, new)
      /\ UNCHANGED <<active_thread_count, idle_thread_count, stopping, pc, task,
                     idle_term, state, yields, tickles>>
  BY DEF IdleSchedule
<1>2. new \in Task /\ new.fiber = f /\ new.cb = cb
  BY DEF Task
<1> HIDE DEF new
<1>3. tasks' \in Seq(Task) /\ \A g : Queued(g)' <=> (Queued(g) \/ g = new.fiber)
  BY <1>1, <1>2, Appended DEF CountsInv
<1>4. CountsInv'
  <2>1. TypeOK'
    BY <1>1, <1>3 DEF CountsInv, TypeOK
  <2>2. Holders' = Holders /\ Idlers' = Idlers
    BY <1>1 DEF Holders, Idlers
  <2>3. ActiveExact' /\ IdleExact'
    BY <1>1, <2>2 DEF CountsInv, ActiveExact, IdleExact
  <2>4. HoldsWhileWorking' /\ OwnerControl'
    BY <1>1 DEF CountsInv, HoldsWhileWorking, OwnerControl
  <2> QED BY <2>1, <2>3, <2>4 DEF CountsInv
<1>5. SharingInv'
  <2>1. ExecOnce' /\ ExecState'
    BY <1>1 DEF SharingInv, ExecOnce, ExecState, Exec, Held
  <2>2. /\ \A u \in Threads, g \in Fibers : Exec(u, g)' <=> Exec(u, g)
        /\ \A u \in Threads : Pausing(u)' <=> Pausing(u)
    BY <1>1 DEF Exec, Held, Pausing
  <2>3. \A u \in Threads : Exec(u, new.fiber) => Pausing(u) /\ ~ new.cb
    BY <1>2 DEF Armed, Waits
  <2>4. IF new.cb THEN state'[new.fiber] = "CB"
                  ELSE state'[new.fiber] \in {"READY", "RUNNING"}
    BY <1>1, <1>2 DEF Armed, Waits
  <2>5. ~ Queued(new.fiber) /\ task' = task /\ \A g \in Fibers : state'[g] = state[g]
    BY <1>1, <1>2
  <2> QED BY <1>1, <1>2, <2>1, <2>2, <2>3, <2>4, <2>5, SharingAppended
<1> QED BY <1>1, <1>2, <1>3, <1>4, <1>5

\* A fiber other than the one that was scheduled is where it was.
LEMMA OthersStill ==
  ASSUME NEW f, UNCHANGED <<state, pc, task>>,
         \A g : Queued(g)' <=> (Queued(g) \/ g = f)
  PROVE  /\ \A g \in Fibers : g # f => Still(g)
         /\ \A u \in Threads : \A g : Exec(u, g)' <=> Exec(u, g)
         /\ \A u \in Threads : Pausing(u)' <=> Pausing(u)
BY DEF Still, Exec, Held, Pausing

\* The callback of an expired timer.
LEMMA IOSchedulesCbs ==
  ASSUME IOInv, NEW t \in Threads, ScheduleCbs(t)
  PROVE  IOInv'
<1> USE DEF IOInv
<1>0. PICK f \in cbs[t] :
        /\ At(t, "schedule")
        /\ IdleSchedule(t, f, TRUE, "schedule_tickle", "schedule")
        /\ cbs' = [cbs EXCEPT ![t] = @ \ {f}]
        /\ UNCHANGED <<edge, waiting, ready, found, pending, timers, due>>
  BY DEF ScheduleCbs
<1>1. /\ idle_pc \in [Threads -> IdleLabels]
      /\ waiting \subseteq Fibers /\ timers \subseteq Fibers
      /\ cbs \in [Threads -> SUBSET Fibers]
  BY DEF IOTyped
<1>2. f \in Fibers /\ Armed(f)
  BY <1>1 DEF PlacesInv, TimerPlaces
<1>3. /\ CountsInv' /\ SharingInv'
      /\ UNCHANGED <<state, pc, task>>
      /\ \A g : Queued(g)' <=> (Queued(g) \/ g = f)
  BY <1>0, <1>2, IdleAppends DEF Armed
<1>4. /\ \A g \in Fibers : g # f => Still(g)
      /\ \A u \in Threads : \A g : Exec(u, g)' <=> Exec(u, g)
      /\ \A u \in Threads : Pausing(u)' <=> Pausing(u)
  BY <1>3, OthersStill
<1>5. PICK label \in {"schedule_tickle", "schedule"} :
        idle_pc' = [idle_pc EXCEPT ![t] = label]
  BY <1>0 DEF IdleSchedule, IdleGoto
<1>6. /\ idle_pc'[t] = label /\ idle_pc[t] = "schedule"
      /\ cbs'[t] = cbs[t] \ {f}
      /\ \A u \in Threads : u # t => idle_pc'[u] = idle_pc[u] /\ cbs'[u] = cbs[u]
  BY <1>0, <1>1, <1>5 DEF At
<1>7. IOTyped'
  <2>1. idle_pc' \in [Threads -> IdleLabels] /\ cbs' \in [Threads -> SUBSET Fibers]
    BY <1>0, <1>1, <1>5 DEF IdleLabels
  <2> QED BY <1>0, <2>1 DEF IOTyped
<1>8. f \notin waiting /\ f \notin timers /\ \A u \in Threads : f \notin cbs'[u]
  BY <1>1, <1>2, <1>6 DEF PlacesInv, EventPlaces, TimerPlaces, Waits, Armed
<1>9. EventPlaces'
  BY <1>0, <1>1, <1>4, <1>8, StillPlaced DEF PlacesInv, EventPlaces, IOTyped
<1>10. TimerPlaces'
  <2>1. \A u \in Threads : cbs'[u] \subseteq cbs[u] \ {f}
    BY <1>6, <1>8
  <2>2. /\ \A g \in timers' : Armed(g)'
        /\ \A u \in Threads : \A g \in cbs'[u] : Armed(g)'
    BY <1>0, <1>1, <1>4, <1>8, <2>1, StillPlaced DEF PlacesInv, TimerPlaces
  <2>3. \A u \in Threads : timers' \cap cbs'[u] = {}
    BY <1>0, <2>1 DEF PlacesInv, TimerPlaces
  <2>4. \A u, v \in Threads : u # v => cbs'[u] \cap cbs'[v] = {}
    BY <2>1 DEF PlacesInv, TimerPlaces
  <2>5. \A u \in Threads : cbs'[u] # {} => idle_pc'[u] \in {"schedule", "schedule_tickle"}
    BY <1>6, <2>1 DEF PlacesInv, TimerPlaces
  <2> QED BY <2>2, <2>3, <2>4, <2>5 DEF TimerPlaces
<1>11. YielderKept'
  BY <1>0, <1>3, <1>4 DEF PlacesInv, YielderKept
<1>12. EveryFiberKept'
  <2>1. \A u \in Threads : \A g : g \in cbs[u] /\ g # f => g \in cbs'[u]
    BY <1>6
  <2> QED BY <1>0, <1>3, <1>4, <2>1 DEF PlacesInv, EveryFiberKept, Somewhere
<1>13. PendingIsExact'
  <2>1. Counting' = Counting
    BY <1>6 DEF Counting
  <2> QED BY <1>0, <2>1 DEF PendingIsExact
<1> QED BY <1>3, <1>7, <1>9, <1>10, <1>11, <1>12, <1>13 DEF PlacesInv

\* The fiber of an event that happened.
LEMMA IOTriggers ==
  ASSUME IOInv, NEW t \in Threads, TriggerEvent(t)
  PROVE  IOInv'
<1> USE DEF IOInv
<1>0. PICK f \in found[t] :
        /\ At(t, "trigger")
        /\ waiting' = waiting \ {f}
        /\ IdleSchedule(t, f, FALSE, "trigger_tickle", "count")
        /\ found' = [found EXCEPT ![t] = @ \ {f}]
        /\ UNCHANGED <<edge, ready, pending, timers, due, cbs>>
  BY DEF TriggerEvent
<1>1. /\ idle_pc \in [Threads -> IdleLabels]
      /\ waiting \subseteq Fibers /\ timers \subseteq Fibers
      /\ found \in [Threads -> SUBSET Fibers]
      /\ \A u \in Threads : cbs[u] \subseteq Fibers
  BY DEF IOTyped
<1>2. f \in Fibers /\ f \in waiting /\ f \notin ready /\ Waits(f)
  BY <1>1 DEF PlacesInv, EventPlaces
<1>3. /\ CountsInv' /\ SharingInv'
      /\ UNCHANGED <<state, pc, task>>
      /\ \A g : Queued(g)' <=> (Queued(g) \/ g = f)
  BY <1>0, <1>2, IdleAppends DEF Waits
<1>4. /\ \A g \in Fibers : g # f => Still(g)
      /\ \A u \in Threads : \A g : Exec(u, g)' <=> Exec(u, g)
      /\ \A u \in Threads : Pausing(u)' <=> Pausing(u)
  BY <1>3, OthersStill
<1>5. PICK label \in {"trigger_tickle", "count"} :
        idle_pc' = [idle_pc EXCEPT ![t] = label]
  BY <1>0 DEF IdleSchedule, IdleGoto
<1>6. /\ idle_pc'[t] = label /\ idle_pc[t] = "trigger"
      /\ found'[t] = found[t] \ {f}
      /\ \A u \in Threads : u # t => idle_pc'[u] = idle_pc[u] /\ found'[u] = found[u]
  BY <1>0, <1>1, <1>5 DEF At
<1>7. IOTyped'
  <2>1. idle_pc' \in [Threads -> IdleLabels] /\ found' \in [Threads -> SUBSET Fibers]
    BY <1>0, <1>1, <1>5 DEF IdleLabels
  <2> QED BY <1>0, <1>2, <2>1 DEF IOTyped
<1>8. f \notin timers /\ \A u \in Threads : f \notin cbs[u]
  BY <1>2 DEF PlacesInv, TimerPlaces, Waits, Armed
<1>9. EventPlaces'
  <2>1. \A g \in waiting' : Waits(g)'
    BY <1>0, <1>1, <1>4, StillPlaced DEF PlacesInv, EventPlaces
  <2>2. \A u \in Threads : f \notin found'[u]
    BY <1>1, <1>6 DEF PlacesInv, EventPlaces
  <2>3. \A u \in Threads : found'[u] \subseteq found[u] \ {f}
    BY <1>6, <2>2
  <2> QED BY <1>0, <2>1, <2>3 DEF PlacesInv, EventPlaces
<1>10. TimerPlaces'
  <2>1. /\ \A g \in timers' : Armed(g)'
        /\ \A u \in Threads : \A g \in cbs'[u] : Armed(g)'
    BY <1>0, <1>1, <1>4, <1>8, StillPlaced DEF PlacesInv, TimerPlaces
  <2>2. \A u \in Threads : cbs'[u] # {} => idle_pc'[u] \in {"schedule", "schedule_tickle"}
    BY <1>0, <1>6 DEF PlacesInv, TimerPlaces
  <2> QED BY <1>0, <2>1, <2>2 DEF PlacesInv, TimerPlaces
<1>11. YielderKept'
  BY <1>0, <1>3, <1>4 DEF PlacesInv, YielderKept
<1>12. EveryFiberKept'
  BY <1>0, <1>3, <1>4 DEF PlacesInv, EveryFiberKept, Somewhere
<1>13. PendingIsExact'
  <2>1. t \notin Counting /\ Counting' = Counting \cup {t} /\ Counting \in SUBSET Threads
    BY <1>6 DEF Counting
  <2>2. /\ Cardinality(Counting) \in Nat
        /\ Cardinality(Counting') = Cardinality(Counting) + 1
    BY <2>1, CountUp
  <2>3. IsFiniteSet(waiting) /\ pending = Cardinality(waiting) + Cardinality(Counting)
    BY DEF PendingIsExact
  <2>4. /\ IsFiniteSet(waiting \ {f})
        /\ Cardinality(waiting) \in Nat
        /\ Cardinality(waiting \ {f}) = Cardinality(waiting) - 1
    BY <1>2, <2>3, FS_RemoveElement, FS_CardinalityType
  <2> QED BY ONLY <1>0, <2>2, <2>3, <2>4, SMTT(30) DEF PendingIsExact
<1> QED BY <1>3, <1>7, <1>9, <1>10, <1>11, <1>12, <1>13 DEF PlacesInv

------------------------------------------------------------------------------
(* Fiber bodies wait and arm timers *)

\* A step in a fiber's body that leaves the list alone and gives no state to a
\* fiber that has one.
LEMMA BodyMoves ==
  ASSUME IOInv, NEW t \in Threads, NEW label \in {"fiber", "fiber_tickle", "yield"},
         pc[t] = "fiber", pc' = [pc EXCEPT ![t] = label],
         UNCHANGED <<tasks, active_thread_count, idle_thread_count, stopping, task,
                     idle_term, tickles>>,
         state' \in [Fibers -> {"NONE", "CB", "READY", "RUNNING", "TERM"}],
         yields' \in [Fibers -> 0..MaxYields],
         \A g \in Fibers : state[g] # "NONE" => state'[g] = state[g]
  PROVE  /\ CountsInv' /\ SharingInv'
         /\ task[t] # NoTask /\ task[t].fiber \in Fibers
         /\ pc'[t] = label /\ \A u \in Threads : u # t => pc'[u] = pc[u]
         /\ \A u \in Threads : \A g : Exec(u, g)' <=> Exec(u, g)
         /\ \A g : Queued(g)' <=> Queued(g)
<1> USE DEF IOInv
<1>1. pc \in [Threads -> Labels]
  BY DEF CountsInv, TypeOK
<1>2. pc'[t] = label /\ \A u \in Threads : u # t => pc'[u] = pc[u]
  BY <1>1
<1>3. task[t] # NoTask
  BY DEF CountsInv, HoldsWhileWorking, WorkLabels, BodyLabels
<1>4. CountsInv'
  <2>1. TypeOK'
    <3>1. pc' \in [Threads -> Labels]
      BY <1>1 DEF Labels, TickleLabels, BodyLabels
    <3> QED BY <3>1 DEF CountsInv, TypeOK
  <2>2. Holders' = Holders /\ Idlers' = Idlers
    BY <1>2 DEF Holders, Idlers
  <2>3. ActiveExact' /\ IdleExact'
    BY <2>2 DEF CountsInv, ActiveExact, IdleExact
  <2>4. HoldsWhileWorking'
    BY <1>2, <1>3 DEF CountsInv, HoldsWhileWorking, WorkLabels, BodyLabels
  <2>5. OwnerControl'
    BY <1>2 DEF CountsInv, OwnerControl, OwnerLabels, Threads
  <2> QED BY <2>1, <2>3, <2>4, <2>5 DEF CountsInv
<1>5. /\ \A i \in 1..Len(tasks) : tasks[i].fiber \in Fibers
      /\ \A u \in Threads : task[u] # NoTask => task[u].fiber \in Fibers
  BY TaskTypes DEF CountsInv
<1>6. \A u \in Threads : \A g : Exec(u, g)' <=> Exec(u, g)
  BY <1>2 DEF Exec, Held, ExecLabels
<1>7. \A g : Queued(g)' <=> Queued(g)
  BY DEF Queued
<1>8. SharingInv'
  <2> USE DEF SharingInv
  <2>1. QueuedOnce' /\ ExecOnce'
    BY <1>6 DEF QueuedOnce, ExecOnce
  <2>2. QueuedWhileExec'
    <3> SUFFICES ASSUME NEW i \in 1..Len(tasks), NEW u \in Threads,
                        Exec(u, tasks[i].fiber)'
                 PROVE  Pausing(u)' /\ ~ tasks[i].cb
      BY DEF QueuedWhileExec
    <3>1. Exec(u, tasks[i].fiber)
      BY <1>6 DEF Exec, Held
    <3>2. Pausing(u) /\ ~ tasks[i].cb
      BY <3>1 DEF QueuedWhileExec
    <3>3. u # t
      BY <3>2 DEF Pausing
    <3> QED BY <1>2, <3>2, <3>3 DEF Pausing
  <2>3. QueuedState'
    BY <1>5 DEF QueuedState
  <2>4. ExecState'
    BY <1>2, <1>5, SMTT(30) DEF ExecState
  <2> QED BY <2>1, <2>2, <2>3, <2>4
<1> QED BY <1>2, <1>3, <1>4, <1>5, <1>6, <1>7, <1>8

\* A fiber registers for an event, and is about to yield.
LEMMA IOWaits ==
  ASSUME IOInv, NEW t \in Threads, FiberWait(t)
  PROVE  IOInv'
<1> USE DEF IOInv
<1>0. /\ pc[t] = "fiber" /\ pc' = [pc EXCEPT ![t] = "yield"]
      /\ UNCHANGED <<tasks, active_thread_count, idle_thread_count, stopping, task,
                     idle_term, state, tickles, idle_pc, edge, ready, found, timers,
                     due, cbs>>
      /\ pending' = pending + 1
  BY DEF FiberWait, Goto
<1>1. PICK f \in Fibers : f = task[t].fiber /\ task[t] # NoTask
  <2>1. task[t] # NoTask
    BY <1>0 DEF CountsInv, HoldsWhileWorking, WorkLabels, BodyLabels
  <2> QED BY <2>1, TaskTypes DEF CountsInv
<1>2. waiting' = waiting \cup {f} /\ yields' \in [Fibers -> 0..MaxYields]
  <2>1. yields \in [Fibers -> 0..MaxYields] /\ MaxYields \in Nat
    BY FiberAssumption DEF CountsInv, TypeOK
  <2> QED BY <1>1, <2>1, SMTT(30) DEF FiberWait
<1>3. /\ CountsInv' /\ SharingInv'
      /\ pc'[t] = "yield" /\ \A u \in Threads : u # t => pc'[u] = pc[u]
      /\ \A u \in Threads : \A g : Exec(u, g)' <=> Exec(u, g)
      /\ \A g : Queued(g)' <=> Queued(g)
  <2>1. state' \in [Fibers -> {"NONE", "CB", "READY", "RUNNING", "TERM"}]
    BY <1>0 DEF CountsInv, TypeOK
  <2> QED BY <1>0, <1>2, <2>1, BodyMoves
<1>4. Exec(t, f) /\ ~ Pausing(t) /\ state[f] = "RUNNING"
  BY <1>0, <1>1 DEF Exec, Held, ExecLabels, Pausing, SharingInv, ExecState
<1>5. \A u \in Threads : Exec(u, f) => u = t
  BY <1>4 DEF SharingInv, ExecOnce
<1>6. ~ Queued(f)
  BY <1>4 DEF SharingInv, QueuedWhileExec, Queued
<1>7. /\ f \notin waiting /\ f \notin timers
      /\ \A u \in Threads : f \notin cbs[u] /\ f \notin found[u]
  BY <1>4 DEF PlacesInv, EventPlaces, TimerPlaces, Waits, Armed
<1>8. \A u \in Threads : \A g : g # f /\ Exec(u, g) => (Pausing(u)' <=> Pausing(u))
  BY <1>1, <1>3 DEF Pausing, Exec, Held
<1>9. \A g \in Fibers : g # f => Still(g)
  BY <1>0, <1>3, <1>8 DEF Still
<1>10. IOTyped'
  BY <1>0, <1>2, SMTT(30) DEF IOTyped
<1>11. EventPlaces'
  <2>1. Waits(f)'
    BY <1>0, <1>3, <1>4, <1>5, <1>6 DEF Waits, Pausing
  <2>2. \A g \in waiting' : Waits(g)'
    BY <1>2, <1>9, <2>1, StillPlaced DEF PlacesInv, EventPlaces, IOTyped
  <2> QED BY <1>0, <1>2, <2>2 DEF PlacesInv, EventPlaces
<1>12. TimerPlaces'
  <2>1. /\ \A g \in timers' : Armed(g)'
        /\ \A u \in Threads : \A g \in cbs'[u] : Armed(g)'
    BY <1>0, <1>7, <1>9, StillPlaced DEF PlacesInv, TimerPlaces, IOTyped
  <2> QED BY <1>0, <2>1 DEF PlacesInv, TimerPlaces
<1>13. YielderKept'
  BY <1>2, <1>3, <1>8 DEF PlacesInv, YielderKept
<1>14. EveryFiberKept'
  BY <1>0, <1>2, <1>3 DEF PlacesInv, EveryFiberKept, Somewhere
<1>15. PendingIsExact'
  <2>1. Counting' = Counting /\ Counting \in SUBSET Threads
    BY <1>0 DEF Counting
  <2>2. Cardinality(Counting) \in Nat
    BY <2>1, ThreadsFinite, FS_Subset, FS_CardinalityType
  <2>3. IsFiniteSet(waiting)
    BY DEF PendingIsExact
  <2>4. /\ IsFiniteSet(waiting \cup {f})
        /\ Cardinality(waiting) \in Nat
        /\ Cardinality(waiting \cup {f}) = Cardinality(waiting) + 1
    BY <1>7, <2>3, FS_AddElement, FS_CardinalityType
  <2> QED BY <1>0, <1>2, <2>1, <2>2, <2>4, SMTT(30) DEF PendingIsExact
<1> QED BY <1>3, <1>10, <1>11, <1>12, <1>13, <1>14, <1>15 DEF PlacesInv

\* A timer gets a callback that nobody has scheduled.
LEMMA IOAddsTimer ==
  ASSUME IOInv, NEW t \in Threads, FiberAddTimer(t)
  PROVE  IOInv'
<1> USE DEF IOInv
<1>0. PICK f \in Fibers, label \in {"fiber", "fiber_tickle", "yield"} :
        /\ pc[t] = "fiber" /\ pc' = [pc EXCEPT ![t] = label] /\ label # "yield"
        /\ state[f] = "NONE" /\ state' = [state EXCEPT ![f] = "CB"]
        /\ timers' = timers \cup {f}
        /\ UNCHANGED <<tasks, active_thread_count, idle_thread_count, stopping,
                       task, idle_term, yields, tickles, idle_pc, edge, waiting,
                       ready, found, pending, due, cbs>>
  BY DEF FiberAddTimer, Goto
<1>1. /\ state' \in [Fibers -> {"NONE", "CB", "READY", "RUNNING", "TERM"}]
      /\ state'[f] = "CB" /\ \A g \in Fibers : g # f => state'[g] = state[g]
  BY <1>0 DEF CountsInv, TypeOK
<1>2. /\ CountsInv' /\ SharingInv'
      /\ pc'[t] = label /\ \A u \in Threads : u # t => pc'[u] = pc[u]
      /\ \A u \in Threads : \A g : Exec(u, g)' <=> Exec(u, g)
      /\ \A g : Queued(g)' <=> Queued(g)
  <2>1. yields' \in [Fibers -> 0..MaxYields]
    BY <1>0 DEF CountsInv, TypeOK
  <2> QED BY <1>0, <1>1, <2>1, BodyMoves
<1>3. \A u \in Threads : Pausing(u)' <=> Pausing(u)
  BY <1>0, <1>2 DEF Pausing
<1>4. ~ Queued(f) /\ \A u \in Threads : ~ Exec(u, f)
  BY <1>0 DEF SharingInv, QueuedState, ExecState, Queued, Exec, Held
<1>5. f \notin waiting /\ f \notin timers /\ \A u \in Threads : f \notin cbs[u]
  BY <1>0 DEF PlacesInv, EventPlaces, TimerPlaces, Waits, Armed
<1>6. \A g \in Fibers : g # f => Still(g)
  BY <1>1, <1>2, <1>3 DEF Still
<1>7. IOTyped'
  BY <1>0 DEF IOTyped
<1>8. EventPlaces'
  BY <1>0, <1>5, <1>6, StillPlaced DEF PlacesInv, EventPlaces, IOTyped
<1>9. TimerPlaces'
  <2>1. Armed(f)'
    BY <1>1, <1>2, <1>4 DEF Armed
  <2>2. /\ \A g \in timers' : Armed(g)'
        /\ \A u \in Threads : \A g \in cbs'[u] : Armed(g)'
    BY <1>0, <1>5, <1>6, <2>1, StillPlaced DEF PlacesInv, TimerPlaces, IOTyped
  <2> QED BY <1>0, <1>5, <2>2 DEF PlacesInv, TimerPlaces
<1>10. YielderKept'
  BY <1>0, <1>2, <1>3 DEF PlacesInv, YielderKept
<1>11. EveryFiberKept'
  BY <1>0, <1>1, <1>2 DEF PlacesInv, EveryFiberKept, Somewhere
<1>12. PendingIsExact'
  BY <1>0 DEF PendingIsExact, Counting
<1> QED BY <1>2, <1>7, <1>8, <1>9, <1>10, <1>11, <1>12 DEF PlacesInv

------------------------------------------------------------------------------
(* IOInv is inductive, and what follows *)

LEMMA IOInvStep == IOInv /\ [IONext]_allVars => IOInv'
<1> SUFFICES ASSUME IOInv, [IONext]_allVars PROVE IOInv'
  OBVIOUS
<1>1. CASE \/ Start /\ UNCHANGED ioVars
           \/ Started /\ MainSchedule /\ UNCHANGED ioVars
           \/ Started /\ Stop /\ UNCHANGED ioVars
  BY <1>1, IOInherited DEF Next
<1>2. CASE IOMainStop
  <2>1. CASE IOStopTickle
    BY <2>1, IOTickles
  <2>2. CASE (StopResume \/ StopJoin) /\ UNCHANGED ioVars
    BY <2>2, IOInherited DEF Next, MainStop
  <2> QED BY <1>2, <2>1, <2>2 DEF IOMainStop
<1>3. ASSUME NEW t \in Threads, Inherited(t) PROVE IOInv'
  <2>1. RunStep(t) /\ UNCHANGED ioVars
    BY <1>3 DEF Inherited, RunStep
  <2> QED BY <2>1, IOInherited DEF Next
<1>4. ASSUME NEW t \in Threads, IOTickle(t) PROVE IOInv'
  BY <1>4, IOTickles
<1>5. ASSUME NEW t \in Threads, IdleStep(t) PROVE IOInv'
  BY <1>5, IOIdleMoves, IOHappens, IOCollects, IOSchedulesCbs, IOTriggers, IOCounts,
     IOYields DEF IdleStep
<1>6. ASSUME NEW t \in Threads, IORunStep(t) PROVE IOInv'
  BY <1>3, <1>4, <1>5, <1>6, IOWaits, IOAddsTimer DEF IORunStep
<1>7. CASE \E f \in Fibers : Ready(f) \/ Expire(f)
  BY <1>7, IOHappens
<1>8. CASE UNCHANGED allVars
  BY <1>8, IOInherited DEF allVars
<1> QED BY <1>1, <1>2, <1>6, <1>7, <1>8 DEF IONext, IOStopped

LEMMA IOAlways == IOSpec => []IOInv
BY IOInitially, IOInvStep, PTL DEF IOSpec

\* In a pool of any size, with any number of fibers, a fiber that has not ended
\* is in one place, on the list, with a thread, in the event table or in a timer,
\* and pending_event_count_ is the number of events that are registered, or
\* triggered and not yet counted down.
THEOREM WorkKeptInOnePlace == IOSpec => []WorkInOnePlace
<1>1. IOInv => WorkInOnePlace
  <2> SUFFICES ASSUME IOInv PROVE WorkInOnePlace
    OBVIOUS
  <2> USE DEF IOInv
  <2>1. IOTypeOK
    BY DEF IOTypeOK, IOTyped, CountsInv
  <2>2. ASSUME NEW f \in Fibers, state[f] \in {"CB", "READY", "RUNNING"}
        PROVE  \/ Queued(f)
               \/ f \in waiting \cup timers
               \/ \E t \in Threads : Held(t, f) \/ f \in cbs[t]
    BY <2>2 DEF PlacesInv, EveryFiberKept, Somewhere, Exec
  <2>3. ASSUME NEW i \in 1..Len(tasks)
        PROVE  /\ \A j \in 1..Len(tasks) : tasks[j].fiber = tasks[i].fiber => j = i
               /\ tasks[i].fiber \notin waiting \cup timers
               /\ \A t \in Threads : tasks[i].fiber \notin found[t] \cup cbs[t]
    <3>1. Queued(tasks[i].fiber)
      BY DEF Queued
    <3>2. \A j \in 1..Len(tasks) : tasks[j].fiber = tasks[i].fiber => j = i
      BY DEF SharingInv, QueuedOnce
    <3>3. /\ tasks[i].fiber \notin waiting \cup timers
          /\ \A t \in Threads : tasks[i].fiber \notin found[t] \cup cbs[t]
      BY <3>1 DEF PlacesInv, EventPlaces, TimerPlaces, Waits, Armed
    <3> QED BY <3>2, <3>3
  <2>4. pending = Cardinality(waiting) +
          Cardinality({t \in Threads : idle_pc[t] \in {"trigger_tickle", "count"}})
    BY DEF PendingIsExact, Counting
  <2> QED BY <2>1, <2>2, <2>3, <2>4 DEF WorkInOnePlace
<1> QED BY <1>1, IOAlways, PTL

\* The assertion of Fiber::Resume (fiber.cc:146) holds with events and timers,
\* too: what a thread of the IO pool is about to resume is READY.
THEOREM IOResumeSafe == IOSpec => []ResumeAssertion
<1>1. IOInv => ResumeAssertion
  BY DEF IOInv, SharingInv, ExecState, ResumeAssertion
<1> QED BY <1>1, IOAlways, PTL
==============================================================================
