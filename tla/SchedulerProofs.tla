--------------------------- MODULE SchedulerProofs ---------------------------
(***************************************************************************)
(* Proofs about Scheduler, for every set of threads and fibers.            *)
(***************************************************************************)
EXTENDS Scheduler, TLAPS, SequenceTheorems, FiniteSetTheorems

\* Most leaves are first-order logic over sets and functions.  Those that need
\* arithmetic name the SMT solver.
USE ZenonT(30)

------------------------------------------------------------------------------
(* Facts about the task list *)

\* tasks_.erase(it) removes one element and keeps the order of the others.
LEMMA EraseProperties ==
  ASSUME NEW S, NEW s \in Seq(S), NEW i \in 1..Len(s)
  PROVE  /\ Erase(s, i) \in Seq(S)
         /\ Len(Erase(s, i)) = Len(s) - 1
         /\ \A j \in 1..(Len(s) - 1) :
              Erase(s, i)[j] = IF j < i THEN s[j] ELSE s[j + 1]
<1> DEFINE a == SubSeq(s, 1, i - 1)
           b == SubSeq(s, i + 1, Len(s))
<1>1. Len(s) \in Nat /\ \A k \in 1..Len(s) : s[k] \in S
  BY ElementOfSeq, LenProperties
<1>2. /\ a \in Seq(S)
      /\ Len(a) = i - 1
      /\ \A j \in 1..(i - 1) : a[j] = s[j]
  <2>1. \A k \in 1..(i - 1) : s[k] \in S
    BY <1>1, SMTT(30)
  <2>2. /\ a \in Seq(S)
        /\ Len(a) = IF 1 <= i - 1 THEN i - 1 - 1 + 1 ELSE 0
        /\ \A j \in 1..(i - 1 - 1 + 1) : a[j] = s[1 + j - 1]
    BY <1>1, <2>1, SubSeqProperties, SMTT(30)
  <2> HIDE DEF a
  <2> QED BY <1>1, <2>2, SMTT(30)
<1>3. /\ b \in Seq(S)
      /\ Len(b) = Len(s) - i
      /\ \A j \in 1..(Len(s) - i) : b[j] = s[i + j]
  <2>1. \A k \in (i + 1)..Len(s) : s[k] \in S
    BY <1>1, SMTT(30)
  <2>2. /\ b \in Seq(S)
        /\ Len(b) = IF i + 1 <= Len(s) THEN Len(s) - (i + 1) + 1 ELSE 0
        /\ \A j \in 1..(Len(s) - (i + 1) + 1) : b[j] = s[(i + 1) + j - 1]
    BY <1>1, <2>1, SubSeqProperties, SMTT(30)
  <2> HIDE DEF b
  <2> QED BY <1>1, <2>2, SMTT(30)
<1>4. Erase(s, i) = a \o b
  BY DEF Erase
<1>5. /\ a \o b \in Seq(S)
      /\ Len(a \o b) = Len(a) + Len(b)
      /\ \A j \in 1..(Len(a) + Len(b)) :
           (a \o b)[j] = IF j <= Len(a) THEN a[j] ELSE b[j - Len(a)]
  BY <1>2, <1>3, ConcatProperties
<1> HIDE DEF a, b
<1> QED BY <1>1, <1>2, <1>3, <1>4, <1>5, SMTT(30)

------------------------------------------------------------------------------
(* The inductive invariants.  CountsInv is about control and counts, and   *)
(* SharingInv about who may touch a fiber; both also hold in an IOManager. *)
(* ControlInv and OwnershipInv add what holds as long as nothing but the   *)
(* list and the threads keeps a fiber, PinnedInv what a fiber that never   *)
(* migrates guarantees.                                                    *)

WorkLabels == BodyLabels \cup {"return"}

OwnerLabels == {"main", "main_tickle", "stop_tickle", "stop_join", "stopped"}

Holders == {t \in Threads : task[t] # NoTask}

\* Run's count is the number of threads between the scan that took a task and
\* the return of that task's Resume().
ActiveExact == active_thread_count = Cardinality(Holders)

Idlers == {t \in Threads : pc[t] \in {"idle", "idle_return"}}

\* The count Tickle relies on is the number of threads inside the idle fiber.
IdleExact == idle_thread_count = Cardinality(Idlers)

\* Who can be where: code that schedules runs on a thread that holds a task, or
\* on the owner before Stop.
HoldsWhileWorking ==
  \A t \in Threads :
    /\ pc[t] \in WorkLabels => task[t] # NoTask
    /\ task[t] # NoTask => pc[t] \in WorkLabels \cup {"run_tickle", "dispatch"}

OwnerControl ==
  /\ \A w \in Workers : pc[w] \notin OwnerLabels
  /\ pc[Main] \notin {"new", "exit"}
  /\ pc[Main] \in {"main", "main_tickle"} => ~ stopping
  /\ pc[Main] \in {"stop_join", "stopped"} /\ UseCaller => idle_term[Main]
  /\ pc[Main] = "stopped" => \A w \in Workers : pc[w] \in {"new", "exit"}
  /\ \A w \in Workers : pc[w] = "exit" => idle_term[w]

CountsInv ==
  /\ TypeOK
  /\ ActiveExact
  /\ IdleExact
  /\ HoldsWhileWorking
  /\ OwnerControl

ControlInv == CountsInv /\ ExitIsQuiescent

\* A thread is responsible for the fiber it took until that fiber's Yield has
\* set the state, or the fiber has ended.
ExecLabels == {"run_tickle", "dispatch", "fiber", "fiber_tickle",
               "requeue_tickle", "yield"}

Exec(t, f) == Held(t, f) /\ pc[t] \in ExecLabels

\* No fiber is on the list twice, and no two threads are responsible for one.
QueuedOnce ==
  \A i, j \in 1..Len(tasks) : tasks[i].fiber = tasks[j].fiber => i = j

ExecOnce ==
  \A f \in Fibers : \A t, u \in Threads : Exec(t, f) /\ Exec(u, f) => t = u

\* A fiber on the list for which a thread is still responsible was put there by
\* itself, or by an event, and is about to yield.
Pausing(t) == pc[t] \in {"requeue_tickle", "yield"}

QueuedWhileExec ==
  \A i \in 1..Len(tasks), t \in Threads :
    Exec(t, tasks[i].fiber) => Pausing(t) /\ ~ tasks[i].cb

\* The states of fibers on the list, of fibers a thread is responsible for, and
\* of fibers a thread has not let go of yet.
QueuedState ==
  \A i \in 1..Len(tasks) :
    IF tasks[i].cb THEN state[tasks[i].fiber] = "CB"
                   ELSE state[tasks[i].fiber] \in {"READY", "RUNNING"}

ExecState ==
  \A t \in Threads :
    task[t] # NoTask =>
      /\ state[task[t].fiber] # "NONE"
      /\ pc[t] \in {"run_tickle", "dispatch"} =>
           state[task[t].fiber] = IF task[t].cb THEN "CB" ELSE "READY"
      /\ pc[t] \in {"fiber", "fiber_tickle", "requeue_tickle", "yield"} =>
           state[task[t].fiber] = "RUNNING"

SharingInv ==
  /\ QueuedOnce
  /\ ExecOnce
  /\ QueuedWhileExec
  /\ QueuedState
  /\ ExecState

\* What one step does to a fiber, as far as the list and the responsible thread
\* go: nothing; or it is scheduled for the first time; or taken from the list; or
\* its body goes a step further; or its Yield sets the state.
Still(f) ==
  /\ state'[f] = state[f]
  /\ Queued(f)' <=> Queued(f)
  /\ \A t \in Threads :
       /\ Exec(t, f)' <=> Exec(t, f)
       /\ Exec(t, f) => (Pausing(t)' <=> Pausing(t))

Moved(f) ==
  \/ Still(f)
  \/ state[f] = "NONE" /\ Queued(f)'
  \/ /\ Queued(f)
     /\ state'[f] = state[f]
     /\ \A t \in Threads : ~ Exec(t, f)
     /\ \E t \in Threads : (Exec(t, f) /\ ~ Pausing(t))'
  \/ \E t \in Threads :
       /\ Exec(t, f) /\ ~ Pausing(t)
       /\ \/ state'[f] = "TERM" /\ \A u \in Threads : ~ Exec(u, f)'
          \/ (Exec(t, f) /\ (Pausing(t) => Queued(f)))'
  \/ \E t \in Threads :
       /\ Exec(t, f) /\ Pausing(t)
       /\ state'[f] = "READY"
       /\ Queued(f)' <=> Queued(f)
       /\ \A u \in Threads : ~ Exec(u, f)'

\* A fiber that is about to yield is on the list, and one that has not ended is
\* on the list or some thread is responsible.
RequeuedIsQueued ==
  \A t \in Threads, f \in Fibers : Exec(t, f) /\ Pausing(t) => Queued(f)

Reachable ==
  \A f \in Fibers :
    state[f] \in {"CB", "READY", "RUNNING"} =>
      Queued(f) \/ \E t \in Threads : Exec(t, f)

OwnershipInv ==
  /\ SharingInv
  /\ RequeuedIsQueued
  /\ Reachable

\* Without migration a thread keeps a fiber to itself until it has left it.
HeldOnce ==
  \A f \in Fibers : \A t, u \in Threads : Held(t, f) /\ Held(u, f) => t = u

RequeuedForHolder ==
  \A i \in 1..Len(tasks), t \in Threads :
    Held(t, tasks[i].fiber) => tasks[i].thread = t

PinnedInv ==
  /\ HeldOnce
  /\ RequeuedForHolder

------------------------------------------------------------------------------
(* Counting *)

LEMMA ThreadsFinite == IsFiniteSet(Threads)
BY ThreadAssumption, FS_AddElement DEF Threads

\* A thread joins, or leaves, a counted set of threads.
LEMMA CountUp ==
  ASSUME NEW S \in SUBSET Threads, NEW t \in Threads, t \notin S
  PROVE  /\ Cardinality(S) \in Nat
         /\ Cardinality(S \cup {t}) = Cardinality(S) + 1
BY ThreadsFinite, FS_Subset, FS_CardinalityType, FS_AddElement

LEMMA CountDown ==
  ASSUME NEW S \in SUBSET Threads, NEW t \in S
  PROVE  /\ Cardinality(S) \in Nat
         /\ Cardinality(S) - 1 \in Nat
         /\ Cardinality(S \ {t}) = Cardinality(S) - 1
<1>1. IsFiniteSet(S) /\ IsFiniteSet(S \ {t})
  BY ThreadsFinite, FS_Subset, FS_RemoveElement
<1>2. Cardinality(S) \in Nat /\ Cardinality(S \ {t}) \in Nat
  BY <1>1, FS_CardinalityType
<1>3. Cardinality(S \ {t}) = Cardinality(S) - 1
  BY <1>1, FS_RemoveElement
<1> QED BY <1>2, <1>3

LEMMA CountZero ==
  ASSUME NEW S \in SUBSET Threads, Cardinality(S) = 0
  PROVE  S = {}
BY ThreadsFinite, FS_Subset, FS_EmptySet

------------------------------------------------------------------------------
(* ControlInv is inductive *)

LEMMA ControlInit == Init => ControlInv
<1> SUFFICES ASSUME Init PROVE ControlInv
  OBVIOUS
<1> USE ThreadAssumption, FiberAssumption DEF Init
<1>1. TypeOK
  <2>1. tasks \in Seq(Task)
    BY EmptySeq
  <2>2. pc \in [Threads -> Labels] /\ task \in [Threads -> Task \cup {NoTask}]
    BY DEF Labels
  <2>3. yields \in [Fibers -> 0..MaxYields]
    BY SMTT(30)
  <2> QED BY <2>1, <2>2, <2>3 DEF TypeOK
<1>2. Holders = {} /\ Idlers = {}
  BY DEF Holders, Idlers
<1>3. ActiveExact /\ IdleExact
  BY <1>2, FS_EmptySet DEF ActiveExact, IdleExact
<1>4. HoldsWhileWorking /\ OwnerControl
  BY DEF HoldsWhileWorking, OwnerControl, WorkLabels, BodyLabels, OwnerLabels, Threads
<1>5. ExitIsQuiescent
  BY DEF ExitIsQuiescent
<1> QED BY <1>1, <1>3, <1>4, <1>5 DEF CountsInv, ControlInv

LEMMA CountsStep == CountsInv /\ [Next]_vars => CountsInv'
<1> SUFFICES ASSUME CountsInv, [Next]_vars PROVE CountsInv'
  OBVIOUS
<1> USE ThreadAssumption, FiberAssumption DEF CountsInv
<1> Main \in Threads
  BY DEF Threads
<1>0. Len(tasks) \in Nat /\ \A i \in 1..Len(tasks) : tasks[i] \in Task
  BY LenProperties, ElementOfSeq DEF TypeOK
<1>1. CASE MainSchedule
  <2>0. PICK f \in Fibers, cb \in BOOLEAN, thr \in KnownThreads \cup {AnyThread} :
          /\ state[f] = "NONE"
          /\ state' = [state EXCEPT ![f] = IF cb THEN "CB" ELSE "READY"]
          /\ tasks' = Append(tasks, [fiber |-> f, cb |-> cb, thread |-> thr])
    BY <1>1 DEF MainSchedule, ScheduleNew, Schedule
  <2>a. /\ pc[Main] \in {"main_tickle", "main"}
        /\ \E label \in {"main_tickle", "main"} : pc' = [pc EXCEPT ![Main] = label]
        /\ UNCHANGED <<active_thread_count, idle_thread_count, stopping, task,
                       idle_term, yields, tickles>>
    BY <1>1 DEF MainSchedule, Goto, ScheduleNew, Schedule, KnownThreads
  <2>b. [fiber |-> f, cb |-> cb, thread |-> thr] \in Task
    BY DEF Task, KnownThreads, Threads
  <2>c. /\ tasks' \in Seq(Task)
        /\ Len(tasks') = Len(tasks) + 1
        /\ \A i \in 1..Len(tasks) : tasks'[i] = tasks[i]
        /\ tasks'[Len(tasks) + 1].fiber = f
    BY <2>0, <2>b, AppendProperties, SMTT(30) DEF TypeOK
  <2>1. TypeOK'
    BY <2>0, <2>a, <2>c, SMTT(30) DEF TypeOK, Labels, TickleLabels, BodyLabels
  <2>2. ActiveExact' /\ IdleExact'
    <3>1. Holders' = Holders /\ Idlers' = Idlers
      BY <2>a DEF Holders, Idlers, TypeOK
    <3> QED BY <2>a, <3>1 DEF ActiveExact, IdleExact
  <2>3. HoldsWhileWorking' /\ OwnerControl'
    BY <2>a DEF HoldsWhileWorking, OwnerControl, TypeOK, Threads,
       WorkLabels, BodyLabels, OwnerLabels
  <2> QED BY <2>1, <2>2, <2>3
<1>2. CASE Start
  <2>1. TypeOK'
    BY <1>2 DEF Start, Goto, TypeOK, Labels, TickleLabels, BodyLabels
  <2>2. ActiveExact' /\ IdleExact'
    <3>1. Holders' = Holders /\ Idlers' = Idlers
      BY <1>2 DEF Start, Goto, Holders, Idlers, TypeOK
    <3> QED BY <1>2, <3>1 DEF Start, ActiveExact, IdleExact
  <2>3. HoldsWhileWorking' /\ OwnerControl'
    BY <1>2 DEF Start, Goto, HoldsWhileWorking, OwnerControl, TypeOK, Threads,
       WorkLabels, BodyLabels, OwnerLabels
  <2> QED BY <2>1, <2>2, <2>3
<1>3. CASE Stop
  <2>1. TypeOK'
    <3>1. tickles' \in Nat
      BY <1>3, ThreadsFinite, FS_Subset, FS_CardinalityType, SMTT(30) DEF Stop, Threads
    <3> QED BY <1>3, <3>1 DEF Stop, Goto, TypeOK, Labels, TickleLabels, BodyLabels
  <2>2. ActiveExact' /\ IdleExact'
    <3>1. Holders' = Holders /\ Idlers' = Idlers
      BY <1>3 DEF Stop, Goto, Holders, Idlers, TypeOK
    <3> QED BY <1>3, <3>1 DEF Stop, ActiveExact, IdleExact
  <2>3. HoldsWhileWorking' /\ OwnerControl'
    BY <1>3 DEF Stop, Goto, HoldsWhileWorking, OwnerControl, TypeOK, Threads,
       WorkLabels, BodyLabels, OwnerLabels
  <2> QED BY <2>1, <2>2, <2>3
<1>4. CASE StopTickle
  <2>1. TypeOK'
    BY <1>4, SMTT(30) DEF StopTickle, Goto, TypeOK, Labels, TickleLabels, BodyLabels
  <2>2. ActiveExact' /\ IdleExact'
    <3>1. Holders' = Holders /\ Idlers' = Idlers
      BY <1>4 DEF StopTickle, Goto, Holders, Idlers, TypeOK
    <3> QED BY <1>4, <3>1 DEF StopTickle, ActiveExact, IdleExact
  <2>3. HoldsWhileWorking' /\ OwnerControl'
    BY <1>4 DEF StopTickle, Goto, HoldsWhileWorking, OwnerControl, TypeOK, Threads,
       WorkLabels, BodyLabels, OwnerLabels
  <2> QED BY <2>1, <2>2, <2>3
<1>5. CASE StopResume
  <2>1. TypeOK'
    BY <1>5 DEF StopResume, Goto, TypeOK, Labels, TickleLabels, BodyLabels
  <2>2. ActiveExact' /\ IdleExact'
    <3>1. Holders' = Holders /\ Idlers' = Idlers
      BY <1>5 DEF StopResume, Goto, Holders, Idlers, TypeOK
    <3> QED BY <1>5, <3>1 DEF StopResume, ActiveExact, IdleExact
  <2>3. HoldsWhileWorking' /\ OwnerControl'
    BY <1>5 DEF StopResume, Goto, HoldsWhileWorking, OwnerControl, TypeOK, Threads, WorkLabels,
       BodyLabels, OwnerLabels
  <2> QED BY <2>1, <2>2, <2>3
<1>6. CASE StopJoin
  <2>1. TypeOK'
    BY <1>6 DEF StopJoin, Goto, TypeOK, Labels, TickleLabels, BodyLabels
  <2>2. ActiveExact' /\ IdleExact'
    <3>1. Holders' = Holders /\ Idlers' = Idlers
      BY <1>6 DEF StopJoin, Goto, Holders, Idlers, TypeOK
    <3> QED BY <1>6, <3>1 DEF StopJoin, ActiveExact, IdleExact
  <2>3. HoldsWhileWorking' /\ OwnerControl'
    BY <1>6 DEF StopJoin, Goto, HoldsWhileWorking, OwnerControl, TypeOK, Threads,
       WorkLabels, BodyLabels, OwnerLabels
  <2> QED BY <2>1, <2>2, <2>3
<1>7. ASSUME NEW t \in Threads, ScanTake(t)
      PROVE  CountsInv'
  <2>0. PICK i \in 1..Len(tasks) :
          /\ FirstTakeable(t, i)
          /\ task' = [task EXCEPT ![t] = tasks[i]]
          /\ tasks' = Erase(tasks, i)
    BY <1>7 DEF ScanTake
  <2>a. /\ pc[t] = "scan"
        /\ active_thread_count' = active_thread_count + 1
        /\ \E label \in {"run_tickle", "dispatch"} : pc' = [pc EXCEPT ![t] = label]
        /\ UNCHANGED <<idle_thread_count, stopping, idle_term, state, yields, tickles>>
    BY <1>7 DEF ScanTake, Goto
  <2>b. /\ tasks' \in Seq(Task)
        /\ Len(tasks') = Len(tasks) - 1
        /\ \A j \in 1..(Len(tasks) - 1) :
             tasks'[j] = IF j < i THEN tasks[j] ELSE tasks[j + 1]
    <3>1. tasks \in Seq(Task)
      BY DEF TypeOK
    <3>2. tasks' = Erase(tasks, i)
      BY <2>0
    <3> QED BY <3>1, <3>2, EraseProperties
  <2>c. tasks[i] \in Task /\ tasks[i] # NoTask /\ task[t] = NoTask
    BY <1>0, <2>a DEF Task, Threads, HoldsWhileWorking, WorkLabels, BodyLabels
  <2>1. TypeOK'
    BY <2>0, <2>a, <2>b, <2>c, SMTT(30) DEF TypeOK, Labels, TickleLabels, BodyLabels
  <2>2. ActiveExact' /\ IdleExact'
    <3>1. Holders' = Holders \cup {t} /\ t \notin Holders /\ Idlers' = Idlers
      BY <2>0, <2>a, <2>c DEF Holders, Idlers, TypeOK
    <3>2. Holders \in SUBSET Threads
      BY DEF Holders
    <3> QED BY <2>a, <3>1, <3>2, CountUp DEF ActiveExact, IdleExact
  <2>3. HoldsWhileWorking' /\ OwnerControl'
    BY <2>0, <2>a, <2>c, SMTT(30) DEF HoldsWhileWorking, OwnerControl, TypeOK, Threads,
       WorkLabels, BodyLabels, OwnerLabels
  <2> QED BY <2>1, <2>2, <2>3
<1>8. ASSUME NEW t \in Threads, ScanNothing(t)
      PROVE  CountsInv'
  <2>1. TypeOK'
    BY <1>8 DEF ScanNothing, Goto, TypeOK, Labels, TickleLabels, BodyLabels
  <2>2. ActiveExact' /\ IdleExact'
    <3>1. Holders' = Holders /\ Idlers' = Idlers
      BY <1>8 DEF ScanNothing, Goto, Holders, Idlers, TypeOK
    <3> QED BY <1>8, <3>1 DEF ScanNothing, ActiveExact, IdleExact
  <2>3. HoldsWhileWorking' /\ OwnerControl'
    BY <1>8 DEF ScanNothing, Goto, HoldsWhileWorking, OwnerControl, TypeOK, Threads,
       WorkLabels, BodyLabels, OwnerLabels
  <2> QED BY <2>1, <2>2, <2>3
<1>9. ASSUME NEW t \in Threads, Tickle(t)
      PROVE  CountsInv'
  <2>a. PICK label \in {"dispatch", "fiber", "yield", "main"} :
          /\ pc' = [pc EXCEPT ![t] = label]
          /\ \/ pc[t] = "run_tickle" /\ label = "dispatch"
             \/ pc[t] = "fiber_tickle" /\ label = "fiber"
             \/ pc[t] = "requeue_tickle" /\ label = "yield"
             \/ pc[t] = "main_tickle" /\ label = "main"
    <3>1. pc[t] \in TickleLabels /\ pc' = [pc EXCEPT ![t] = AfterTickle[pc[t]]]
      BY <1>9 DEF Tickle, Goto
    <3>2. /\ AfterTickle["run_tickle"] = "dispatch"
          /\ AfterTickle["fiber_tickle"] = "fiber"
          /\ AfterTickle["requeue_tickle"] = "yield"
          /\ AfterTickle["main_tickle"] = "main"
      BY DEF AfterTickle
    <3> QED BY <3>1, <3>2 DEF TickleLabels
  <2>b. UNCHANGED <<tasks, active_thread_count, idle_thread_count, stopping, task,
                    idle_term, state, yields, tickles>>
    BY <1>9 DEF Tickle
  <2>c. pc \in [Threads -> Labels]
    BY DEF TypeOK
  <2>d. pc'[t] = label /\ \A u \in Threads : u # t => pc'[u] = pc[u]
    BY <2>a, <2>c
  <2>1. TypeOK'
    <3>1. pc' \in [Threads -> Labels]
      BY <2>a, <2>c DEF Labels, BodyLabels
    <3> QED BY <2>b, <3>1 DEF TypeOK
  <2>2. ActiveExact' /\ IdleExact'
    <3>1. Holders' = Holders /\ Idlers' = Idlers
      BY <2>a, <2>b, <2>d DEF Holders, Idlers
    <3> QED BY <2>b, <3>1 DEF ActiveExact, IdleExact
  <2>3. HoldsWhileWorking'
    BY <2>a, <2>b, <2>d DEF HoldsWhileWorking, WorkLabels, BodyLabels
  <2>4. OwnerControl'
    BY <2>a, <2>b, <2>d DEF OwnerControl, OwnerLabels, Threads
  <2> QED BY <2>1, <2>2, <2>3, <2>4
<1>10. ASSUME NEW t \in Threads, ResumeTask(t)
      PROVE  CountsInv'
  <2>0. task[t] # NoTask /\ task[t] \in Task /\ task[t].fiber \in Fibers
    BY <1>10 DEF ResumeTask, HoldsWhileWorking, WorkLabels, BodyLabels, TypeOK, Task
  <2>1. TypeOK'
    BY <1>10, <2>0 DEF ResumeTask, Goto, TypeOK, Labels, TickleLabels, BodyLabels
  <2>2. ActiveExact' /\ IdleExact'
    <3>1. Holders' = Holders /\ Idlers' = Idlers
      BY <1>10, <2>0 DEF ResumeTask, Goto, Holders, Idlers, TypeOK
    <3> QED BY <1>10, <3>1 DEF ResumeTask, ActiveExact, IdleExact
  <2>3. HoldsWhileWorking' /\ OwnerControl'
    BY <1>10, <2>0 DEF ResumeTask, Goto, HoldsWhileWorking, OwnerControl, TypeOK, Threads,
       WorkLabels, BodyLabels, OwnerLabels
  <2> QED BY <2>1, <2>2, <2>3
<1>11. ASSUME NEW t \in Threads, TaskReturn(t)
      PROVE  CountsInv'
  <2>0. task[t] # NoTask /\ task[t] \in Task /\ task[t].fiber \in Fibers
    BY <1>11 DEF TaskReturn, HoldsWhileWorking, WorkLabels, BodyLabels, TypeOK, Task
  <2>a. Holders \in SUBSET Threads /\ t \in Holders
    BY <1>11, <2>0 DEF TaskReturn, Holders
  <2>1. TypeOK'
    BY <1>11, <2>a, CountDown DEF TaskReturn, Goto, TypeOK, ActiveExact, Labels, TickleLabels,
       BodyLabels
  <2>2. ActiveExact' /\ IdleExact'
    <3>1. Holders' = Holders \ {t} /\ Idlers' = Idlers
      BY <1>11, <2>0 DEF TaskReturn, Goto, Holders, Idlers, TypeOK
    <3> QED BY <1>11, <3>1, <2>a, CountDown DEF TaskReturn, ActiveExact, IdleExact
  <2>3. HoldsWhileWorking' /\ OwnerControl'
    BY <1>11, <2>0 DEF TaskReturn, Goto, HoldsWhileWorking, OwnerControl, TypeOK, Threads,
       WorkLabels, BodyLabels, OwnerLabels
  <2> QED BY <2>1, <2>2, <2>3
<1>12. ASSUME NEW t \in Threads, ResumeIdle(t)
      PROVE  CountsInv'
  <2>1. TypeOK'
    BY <1>12, SMTT(30) DEF ResumeIdle, Goto, TypeOK, Labels, TickleLabels, BodyLabels
  <2>2. ActiveExact' /\ IdleExact'
    <3>1. Holders' = Holders /\ Idlers' = Idlers \cup {t} /\ t \notin Idlers /\ Idlers \in SUBSET Threads
      BY <1>12 DEF ResumeIdle, Goto, Holders, Idlers, TypeOK
    <3> QED BY <1>12, <3>1, CountUp DEF ResumeIdle, ActiveExact, IdleExact
  <2>3. HoldsWhileWorking' /\ OwnerControl'
    BY <1>12 DEF ResumeIdle, Goto, HoldsWhileWorking, OwnerControl, TypeOK, Threads,
       WorkLabels, BodyLabels, OwnerLabels
  <2> QED BY <2>1, <2>2, <2>3
<1>13. ASSUME NEW t \in Threads, Idle(t)
      PROVE  CountsInv'
  <2>1. TypeOK'
    BY <1>13 DEF Idle, Goto, TypeOK, Stopping, Labels, TickleLabels, BodyLabels
  <2>2. ActiveExact' /\ IdleExact'
    <3>1. Holders' = Holders /\ Idlers' = Idlers
      BY <1>13 DEF Idle, Goto, Holders, Idlers, TypeOK
    <3> QED BY <1>13, <3>1 DEF Idle, ActiveExact, IdleExact
  <2>3. HoldsWhileWorking' /\ OwnerControl'
    BY <1>13 DEF Idle, Goto, HoldsWhileWorking, OwnerControl, TypeOK, Threads,
       WorkLabels, BodyLabels, OwnerLabels
  <2> QED BY <2>1, <2>2, <2>3
<1>14. ASSUME NEW t \in Threads, IdleReturn(t)
      PROVE  CountsInv'
  <2>a. Idlers \in SUBSET Threads /\ t \in Idlers
    BY <1>14 DEF IdleReturn, Idlers
  <2>1. TypeOK'
    BY <1>14, <2>a, CountDown DEF IdleReturn, Goto, TypeOK, IdleExact, Labels, TickleLabels,
       BodyLabels
  <2>2. ActiveExact' /\ IdleExact'
    <3>1. Holders' = Holders /\ Idlers' = Idlers \ {t}
      BY <1>14 DEF IdleReturn, Goto, Holders, Idlers, TypeOK
    <3> QED BY <1>14, <3>1, <2>a, CountDown DEF IdleReturn, ActiveExact, IdleExact
  <2>3. HoldsWhileWorking' /\ OwnerControl'
    BY <1>14 DEF IdleReturn, Goto, HoldsWhileWorking, OwnerControl, TypeOK, Threads,
       WorkLabels, BodyLabels, OwnerLabels
  <2> QED BY <2>1, <2>2, <2>3
<1>15. ASSUME NEW t \in Threads, RunExit(t)
      PROVE  CountsInv'
  <2>1. TypeOK'
    BY <1>15 DEF RunExit, Goto, TypeOK, Labels, TickleLabels, BodyLabels
  <2>2. ActiveExact' /\ IdleExact'
    <3>1. Holders' = Holders /\ Idlers' = Idlers
      BY <1>15 DEF RunExit, Goto, Holders, Idlers, TypeOK
    <3> QED BY <1>15, <3>1 DEF RunExit, ActiveExact, IdleExact
  <2>3. HoldsWhileWorking' /\ OwnerControl'
    BY <1>15 DEF RunExit, Goto, HoldsWhileWorking, OwnerControl, TypeOK, Threads,
       WorkLabels, BodyLabels, OwnerLabels
  <2> QED BY <2>1, <2>2, <2>3
<1>16. ASSUME NEW t \in Threads, FiberSchedule(t)
      PROVE  CountsInv'
  <2>0. PICK f \in Fibers, cb \in BOOLEAN, thr \in KnownThreads \cup {AnyThread} :
          /\ state[f] = "NONE"
          /\ state' = [state EXCEPT ![f] = IF cb THEN "CB" ELSE "READY"]
          /\ tasks' = Append(tasks, [fiber |-> f, cb |-> cb, thread |-> thr])
    BY <1>16 DEF FiberSchedule, ScheduleNew, Schedule
  <2>a. /\ pc[t] \in {"fiber_tickle", "fiber"}
        /\ \E label \in {"fiber_tickle", "fiber"} : pc' = [pc EXCEPT ![t] = label]
        /\ UNCHANGED <<active_thread_count, idle_thread_count, stopping, task,
                       idle_term, yields, tickles>>
    BY <1>16 DEF FiberSchedule, Goto, ScheduleNew, Schedule, KnownThreads
  <2>b. [fiber |-> f, cb |-> cb, thread |-> thr] \in Task
    BY DEF Task, KnownThreads, Threads
  <2>c. /\ tasks' \in Seq(Task)
        /\ Len(tasks') = Len(tasks) + 1
        /\ \A i \in 1..Len(tasks) : tasks'[i] = tasks[i]
        /\ tasks'[Len(tasks) + 1].fiber = f
    BY <2>0, <2>b, AppendProperties, SMTT(30) DEF TypeOK
  <2>1. TypeOK'
    BY <2>0, <2>a, <2>c, SMTT(30) DEF TypeOK, Labels, TickleLabels, BodyLabels
  <2>2. ActiveExact' /\ IdleExact'
    <3>1. Holders' = Holders /\ Idlers' = Idlers
      BY <2>a DEF Holders, Idlers, TypeOK
    <3> QED BY <2>a, <3>1 DEF ActiveExact, IdleExact
  <2>3. HoldsWhileWorking' /\ OwnerControl'
    BY <2>a, SMTT(30) DEF HoldsWhileWorking, OwnerControl, TypeOK, Threads, WorkLabels,
       BodyLabels, OwnerLabels
  <2> QED BY <2>1, <2>2, <2>3
<1>17. ASSUME NEW t \in Threads, FiberRequeue(t)
      PROVE  CountsInv'
  <2>0. PICK thr \in {t, AnyThread} :
          tasks' = Append(tasks, [fiber |-> task[t].fiber, cb |-> FALSE, thread |-> thr])
    BY <1>17 DEF FiberRequeue, Schedule
  <2>a. /\ pc[t] = "fiber"
        /\ yields[task[t].fiber] < MaxYields
        /\ yields' = [yields EXCEPT ![task[t].fiber] = @ + 1]
        /\ \E label \in {"requeue_tickle", "yield"} : pc' = [pc EXCEPT ![t] = label]
        /\ UNCHANGED <<active_thread_count, idle_thread_count, stopping, task,
                       idle_term, state, tickles>>
    BY <1>17 DEF FiberRequeue, Schedule, Goto
  <2>b. task[t] # NoTask /\ task[t] \in Task
    BY <2>a DEF HoldsWhileWorking, WorkLabels, BodyLabels, TypeOK
  <2>c. /\ [fiber |-> task[t].fiber, cb |-> FALSE, thread |-> thr] \in Task
        /\ task[t].fiber \in Fibers
    BY <2>b DEF Task
  <2>d. /\ tasks' \in Seq(Task)
        /\ Len(tasks') = Len(tasks) + 1
        /\ \A i \in 1..Len(tasks) : tasks'[i] = tasks[i]
    BY <2>0, <2>c, AppendProperties, SMTT(30) DEF TypeOK
  <2>1. TypeOK'
    BY <2>a, <2>c, <2>d, SMTT(30) DEF TypeOK, Labels, TickleLabels, BodyLabels
  <2>2. ActiveExact' /\ IdleExact'
    <3>1. Holders' = Holders /\ Idlers' = Idlers
      BY <2>a DEF Holders, Idlers, TypeOK
    <3> QED BY <2>a, <3>1 DEF ActiveExact, IdleExact
  <2>3. HoldsWhileWorking' /\ OwnerControl'
    <3>1. HoldsWhileWorking'
      BY <2>a, <2>b DEF HoldsWhileWorking, TypeOK, WorkLabels, BodyLabels
    <3>2. OwnerControl'
      BY <2>a, <2>b DEF OwnerControl, TypeOK, Threads, BodyLabels, OwnerLabels
    <3> QED BY <3>1, <3>2
  <2> QED BY <2>1, <2>2, <2>3
<1>18. ASSUME NEW t \in Threads, FiberYield(t)
      PROVE  CountsInv'
  <2>0. task[t] # NoTask /\ task[t] \in Task /\ task[t].fiber \in Fibers
    BY <1>18 DEF FiberYield, HoldsWhileWorking, WorkLabels, BodyLabels, TypeOK, Task
  <2>1. TypeOK'
    BY <1>18, <2>0 DEF FiberYield, Goto, TypeOK, Labels, TickleLabels, BodyLabels
  <2>2. ActiveExact' /\ IdleExact'
    <3>1. Holders' = Holders /\ Idlers' = Idlers
      BY <1>18, <2>0 DEF FiberYield, Goto, Holders, Idlers, TypeOK
    <3> QED BY <1>18, <3>1 DEF FiberYield, ActiveExact, IdleExact
  <2>3. HoldsWhileWorking' /\ OwnerControl'
    BY <1>18, <2>0 DEF FiberYield, Goto, HoldsWhileWorking, OwnerControl, TypeOK, Threads,
       WorkLabels, BodyLabels, OwnerLabels
  <2> QED BY <2>1, <2>2, <2>3
<1>19. ASSUME NEW t \in Threads, FiberSwap(t)
      PROVE  CountsInv'
  <2>1. TypeOK'
    BY <1>19 DEF FiberSwap, Goto, TypeOK, Labels, TickleLabels, BodyLabels
  <2>2. ActiveExact' /\ IdleExact'
    <3>1. Holders' = Holders /\ Idlers' = Idlers
      BY <1>19 DEF FiberSwap, Goto, Holders, Idlers, TypeOK
    <3> QED BY <1>19, <3>1 DEF FiberSwap, ActiveExact, IdleExact
  <2>3. HoldsWhileWorking' /\ OwnerControl'
    BY <1>19 DEF FiberSwap, Goto, HoldsWhileWorking, OwnerControl, TypeOK, Threads,
       WorkLabels, BodyLabels, OwnerLabels
  <2> QED BY <2>1, <2>2, <2>3
<1>20. ASSUME NEW t \in Threads, FiberFinish(t)
      PROVE  CountsInv'
  <2>0. task[t] # NoTask /\ task[t] \in Task /\ task[t].fiber \in Fibers
    BY <1>20 DEF FiberFinish, HoldsWhileWorking, WorkLabels, BodyLabels, TypeOK, Task
  <2>1. TypeOK'
    BY <1>20, <2>0 DEF FiberFinish, Goto, TypeOK, Labels, TickleLabels, BodyLabels
  <2>2. ActiveExact' /\ IdleExact'
    <3>1. Holders' = Holders /\ Idlers' = Idlers
      BY <1>20, <2>0 DEF FiberFinish, Goto, Holders, Idlers, TypeOK
    <3> QED BY <1>20, <3>1 DEF FiberFinish, ActiveExact, IdleExact
  <2>3. HoldsWhileWorking' /\ OwnerControl'
    BY <1>20, <2>0 DEF FiberFinish, Goto, HoldsWhileWorking, OwnerControl, TypeOK, Threads,
       WorkLabels, BodyLabels, OwnerLabels
  <2> QED BY <2>1, <2>2, <2>3
<1>21. CASE UNCHANGED vars
  BY <1>21 DEF vars, TypeOK, ActiveExact, IdleExact, Holders, Idlers,
     HoldsWhileWorking, OwnerControl
<1> QED
  BY <1>1, <1>2, <1>3, <1>4, <1>5, <1>6, <1>7, <1>8, <1>9, <1>10,
     <1>11, <1>12, <1>13, <1>14, <1>15, <1>16, <1>17, <1>18, <1>19, <1>20, <1>21
  DEF Next, MainStop, RunStep, Stopped

\* While the idle fiber of a thread has ended nobody is left to schedule: those
\* who schedule hold a task, or are the owner before Stop.
LEMMA ControlStep == ControlInv /\ [Next]_vars => ControlInv'
<1> SUFFICES ASSUME ControlInv, [Next]_vars PROVE ControlInv'
  OBVIOUS
<1>c. CountsInv'
  BY CountsStep DEF ControlInv
<1> SUFFICES ExitIsQuiescent'
  BY <1>c DEF ControlInv
<1> USE ThreadAssumption DEF ControlInv, CountsInv
<1> Main \in Threads
  BY DEF Threads
<1>1. CASE MainSchedule
  BY <1>1 DEF MainSchedule, ScheduleNew, ExitIsQuiescent, Stopping, OwnerControl
<1>2. CASE Start \/ Stop \/ StopTickle \/ StopResume \/ StopJoin
  <2>1. /\ UNCHANGED <<tasks, active_thread_count, task, idle_term>>
        /\ stopping => stopping'
    BY <1>2, SMTT(30) DEF Start, Stop, StopTickle, StopResume, StopJoin
  <2> QED BY <2>1 DEF ExitIsQuiescent, Stopping
<1>3. ASSUME NEW t \in Threads, ScanTake(t)
      PROVE  ExitIsQuiescent'
  <2>1. PICK i \in 1..Len(tasks) : TRUE
    BY <1>3 DEF ScanTake
  <2>2. tasks # <<>>
    BY <2>1, EmptySeq, SMTT(30)
  <2> QED BY <1>3, <2>2 DEF ScanTake, ExitIsQuiescent, Stopping
<1>4. ASSUME NEW t \in Threads,
             \/ ScanNothing(t) \/ Tickle(t) \/ ResumeIdle(t) \/ IdleReturn(t)
             \/ RunExit(t) \/ FiberSwap(t)
      PROVE  ExitIsQuiescent'
  <2>1. UNCHANGED <<tasks, active_thread_count, stopping, task, idle_term>>
    BY <1>4 DEF ScanNothing, Tickle, ResumeIdle, IdleReturn, RunExit, FiberSwap
  <2> QED BY <2>1 DEF ExitIsQuiescent, Stopping
<1>5. ASSUME NEW t \in Threads,
             \/ ResumeTask(t) \/ TaskReturn(t) \/ FiberSchedule(t)
             \/ FiberRequeue(t) \/ FiberYield(t) \/ FiberFinish(t)
      PROVE  ExitIsQuiescent'
  <2>1. task[t] # NoTask /\ idle_term' = idle_term
    BY <1>5 DEF ResumeTask, TaskReturn, FiberSchedule, ScheduleNew, FiberRequeue, FiberYield,
       FiberFinish, HoldsWhileWorking, WorkLabels, BodyLabels
  <2> QED BY <2>1 DEF ExitIsQuiescent
<1>6. ASSUME NEW t \in Threads, Idle(t)
      PROVE  ExitIsQuiescent'
  <2>1. Stopping => Holders = {}
    BY CountZero DEF Stopping, ActiveExact, Holders
  <2> QED BY <1>6, <2>1 DEF Idle, ExitIsQuiescent, Stopping, Holders, TypeOK
<1>7. CASE UNCHANGED vars
  BY <1>7 DEF vars, ExitIsQuiescent, Stopping
<1> QED
  BY <1>1, <1>2, <1>3, <1>4, <1>5, <1>6, <1>7 DEF Next, MainStop, RunStep, Stopped

------------------------------------------------------------------------------
(* SharingInv is inductive, given CountsInv, and what a step does to a fiber *)

LEMMA TaskTypes ==
  ASSUME TypeOK
  PROVE  /\ tasks \in Seq(Task)
         /\ Len(tasks) \in Nat
         /\ \A i \in 1..Len(tasks) : tasks[i] \in Task /\ tasks[i].fiber \in Fibers
         /\ \A t \in Threads :
              task[t] # NoTask => task[t] \in Task /\ task[t].fiber \in Fibers
<1>1. tasks \in Seq(Task) /\ Len(tasks) \in Nat
  BY LenProperties DEF TypeOK
<1>2. \A i \in 1..Len(tasks) : tasks[i] \in Task
  BY <1>1, ElementOfSeq
<1>3. \A tk \in Task : tk.fiber \in Fibers
  BY DEF Task
<1> QED BY <1>1, <1>2, <1>3 DEF TypeOK

\* What Schedule does to the list.
LEMMA Appended ==
  ASSUME TypeOK, NEW new \in Task, tasks' = Append(tasks, new)
  PROVE  /\ tasks' \in Seq(Task)
         /\ Len(tasks') = Len(tasks) + 1
         /\ \A i \in 1..Len(tasks) : tasks'[i] = tasks[i]
         /\ tasks'[Len(tasks) + 1] = new
         /\ \A g : Queued(g)' <=> (Queued(g) \/ g = new.fiber)
<1>1. tasks \in Seq(Task) /\ Len(tasks) \in Nat
  BY TaskTypes
<1>2. /\ tasks' \in Seq(Task)
      /\ Len(tasks') = Len(tasks) + 1
      /\ \A i \in 1..Len(tasks) : tasks'[i] = tasks[i]
      /\ tasks'[Len(tasks) + 1] = new
  BY <1>1, AppendProperties, SMTT(30)
<1>3. \A i : i \in 1..Len(tasks') <=> i \in 1..Len(tasks) \/ i = Len(tasks) + 1
  BY <1>1, <1>2, SMTT(30)
<1>4. \A g : Queued(g)' <=> (Queued(g) \/ g = new.fiber)
  BY <1>2, <1>3 DEF Queued
<1> QED BY <1>2, <1>4

\* A task for a fiber that is not on the list is added, and every thread that is
\* responsible for that fiber is about to yield.
LEMMA SharingAppended ==
  ASSUME CountsInv, SharingInv, NEW new \in Task, tasks' = Append(tasks, new),
         ~ Queued(new.fiber), task' = task, ExecOnce', ExecState',
         \A u \in Threads, g \in Fibers : Exec(u, g)' <=> Exec(u, g),
         \A u \in Threads : Pausing(u) => Pausing(u)',
         \A u \in Threads : Exec(u, new.fiber) => Pausing(u)' /\ ~ new.cb,
         \A g \in Fibers : Queued(g) => state'[g] = state[g],
         IF new.cb THEN state'[new.fiber] = "CB"
                   ELSE state'[new.fiber] \in {"READY", "RUNNING"}
  PROVE  SharingInv'
<1>1. /\ Len(tasks) \in Nat
      /\ \A i \in 1..Len(tasks) : tasks[i].fiber \in Fibers
  BY TaskTypes DEF CountsInv
<1>2. /\ Len(tasks') = Len(tasks) + 1
      /\ \A i \in 1..Len(tasks) : tasks'[i] = tasks[i]
      /\ tasks'[Len(tasks) + 1] = new
  BY Appended DEF CountsInv
<1>3. \A i \in 1..Len(tasks) : tasks[i].fiber # new.fiber /\ Queued(tasks[i].fiber)
  BY DEF Queued
<1>4. new.fiber \in Fibers
  BY DEF Task
<1>5. QueuedOnce'
  <2> SUFFICES ASSUME NEW i \in 1..Len(tasks'), NEW j \in 1..Len(tasks'), i # j
               PROVE  tasks'[i].fiber # tasks'[j].fiber
    BY DEF QueuedOnce
  <2>1. CASE i \in 1..Len(tasks) /\ j \in 1..Len(tasks)
    BY <1>2, <2>1 DEF QueuedOnce, SharingInv
  <2>2. CASE i = Len(tasks) + 1 \/ j = Len(tasks) + 1
    BY <1>1, <1>2, <1>3, <2>2, SMTT(30)
  <2> QED BY <1>1, <1>2, <2>1, <2>2, SMTT(30)
<1>6. QueuedWhileExec'
  <2> SUFFICES ASSUME NEW i \in 1..(Len(tasks) + 1), NEW u \in Threads,
                      Exec(u, tasks[i].fiber)'
               PROVE  Pausing(u)' /\ ~ tasks'[i].cb
    BY <1>2 DEF QueuedWhileExec
  <2>1. CASE i = Len(tasks) + 1
    <3>1. tasks'[i] = new
      BY <1>2, <2>1
    <3>2. Exec(u, new.fiber)'
      BY <3>1 DEF Exec, Held
    <3>3. Exec(u, new.fiber)
      BY <1>4, <3>2
    <3> QED BY <3>1, <3>3
  <2>2. CASE i \in 1..Len(tasks)
    <3>1. tasks'[i] = tasks[i] /\ tasks[i].fiber \in Fibers
      BY <1>1, <1>2, <2>2
    <3>2. Exec(u, tasks[i].fiber)
      BY <3>1 DEF Exec, Held
    <3>3. Pausing(u) /\ ~ tasks[i].cb
      BY <2>2, <3>2 DEF QueuedWhileExec, SharingInv
    <3> QED BY <3>1, <3>3
  <2>3. i = Len(tasks) + 1 \/ i \in 1..Len(tasks)
    BY <1>1, SMTT(30)
  <2> QED BY <2>1, <2>2, <2>3
<1>7. QueuedState'
  <2> SUFFICES ASSUME NEW i \in 1..(Len(tasks) + 1)
               PROVE  IF tasks'[i].cb THEN state'[tasks'[i].fiber] = "CB"
                        ELSE state'[tasks'[i].fiber] \in {"READY", "RUNNING"}
    BY <1>2 DEF QueuedState
  <2>1. CASE i = Len(tasks) + 1
    BY <1>2, <2>1
  <2>2. CASE i \in 1..Len(tasks)
    <3>1. tasks'[i] = tasks[i] /\ state'[tasks[i].fiber] = state[tasks[i].fiber]
      BY <1>1, <1>2, <1>3, <2>2
    <3> QED BY <2>2, <3>1 DEF QueuedState, SharingInv
  <2>3. i = Len(tasks) + 1 \/ i \in 1..Len(tasks)
    BY <1>1, SMTT(30)
  <2> QED BY <2>1, <2>2, <2>3
<1> QED BY <1>5, <1>6, <1>7 DEF SharingInv

\* Steps that move no task and change no fiber: threads without a task move
\* freely, the others only leave a Tickle.
LEMMA SharingFrame ==
  ASSUME CountsInv, SharingInv,
         UNCHANGED <<tasks, task, state>>,
         \A t \in Threads :
           \/ pc'[t] = pc[t]
           \/ pc[t] \in TickleLabels /\ pc'[t] = AfterTickle[pc[t]]
           \/ task[t] = NoTask
  PROVE  SharingInv' /\ \A f \in Fibers : Still(f)
<1> USE DEF SharingInv
<1>1. \A t \in Threads :
        task[t] # NoTask =>
          /\ pc'[t] \in ExecLabels <=> pc[t] \in ExecLabels
          /\ Pausing(t)' <=> Pausing(t)
          /\ pc'[t] \in {"run_tickle", "dispatch"} =>
               pc[t] \in {"run_tickle", "dispatch"}
          /\ pc'[t] \in {"fiber", "fiber_tickle", "requeue_tickle", "yield"} =>
               pc[t] \in {"fiber", "fiber_tickle", "requeue_tickle", "yield"}
  BY SMTT(30) DEF TickleLabels, AfterTickle, ExecLabels, Pausing
<1>2. \A t \in Threads : \A f : Exec(t, f)' <=> Exec(t, f)
  BY <1>1 DEF Exec, Held
<1>3. \A i \in 1..Len(tasks) : tasks[i].fiber \in Fibers
  BY TaskTypes DEF CountsInv
<1>4. \A f : Queued(f)' <=> Queued(f)
  BY DEF Queued
<1>5. QueuedOnce' /\ QueuedState'
  BY DEF QueuedOnce, QueuedState
<1>6. ExecOnce'
  BY <1>2 DEF ExecOnce
<1>7. \A t \in Threads : \A f : Exec(t, f) => (Pausing(t)' <=> Pausing(t))
  BY <1>1 DEF Exec, Held
<1>8. QueuedWhileExec'
  <2> SUFFICES ASSUME NEW i \in 1..Len(tasks), NEW t \in Threads,
                      Exec(t, tasks[i].fiber)'
               PROVE  Pausing(t)' /\ ~ tasks[i].cb
    BY DEF QueuedWhileExec
  <2>1. Exec(t, tasks[i].fiber)
    BY <1>1 DEF Exec, Held
  <2> QED BY <1>7, <2>1 DEF QueuedWhileExec
<1>9. ExecState'
  BY <1>1 DEF ExecState
<1> QED BY <1>2, <1>4, <1>5, <1>6, <1>7, <1>8, <1>9 DEF Still

\* A task for a fiber that was never scheduled goes to the back of the list.
LEMMA SharingScheduleNew ==
  ASSUME CountsInv, SharingInv,
         NEW t \in Threads, NEW tickle, NEW next, ScheduleNew(t, tickle, next),
         \/ pc[t] = "main" /\ tickle = "main_tickle" /\ next = "main"
         \/ pc[t] = "fiber" /\ tickle = "fiber_tickle" /\ next = "fiber"
  PROVE  SharingInv' /\ \A f \in Fibers : Moved(f)
<1> USE DEF SharingInv
<1>1. PICK f \in Fibers, cb \in BOOLEAN, thr \in KnownThreads \cup {AnyThread} :
        /\ state[f] = "NONE"
        /\ state' = [state EXCEPT ![f] = IF cb THEN "CB" ELSE "READY"]
        /\ tasks' = Append(tasks, [fiber |-> f, cb |-> cb, thread |-> thr])
  BY DEF ScheduleNew, Schedule
<1>2. /\ task' = task
      /\ \E label \in {tickle, next} : pc' = [pc EXCEPT ![t] = label]
  BY DEF ScheduleNew, Schedule, Goto
<1>3. PICK new \in Task : new = [fiber |-> f, cb |-> cb, thread |-> thr]
  BY DEF Task, KnownThreads, Threads
<1>4. \A g : Queued(g)' <=> (Queued(g) \/ g = f)
  BY <1>1, <1>3, Appended DEF CountsInv
<1>5. /\ ~ Queued(f)
      /\ \A u \in Threads : task[u] # NoTask => task[u].fiber # f
  BY <1>1 DEF Queued, QueuedState, ExecState
<1>6. /\ state'[f] = (IF cb THEN "CB" ELSE "READY")
      /\ \A g \in Fibers : g # f => state'[g] = state[g]
  BY <1>1 DEF CountsInv, TypeOK
<1>7. /\ \A u \in Threads : u # t => pc'[u] = pc[u]
      /\ pc'[t] \in {tickle, next}
  BY <1>2 DEF CountsInv, TypeOK
<1>8. /\ \A u \in Threads : \A g : Exec(u, g)' <=> Exec(u, g)
      /\ ~ Pausing(t) /\ ~ Pausing(t)'
      /\ pc'[t] \notin {"run_tickle", "dispatch"}
      /\ task[t] # NoTask => pc[t] = "fiber"
  BY <1>2, <1>7 DEF Exec, Held, ExecLabels, Pausing, CountsInv, HoldsWhileWorking,
     WorkLabels, BodyLabels
<1>9. \A u \in Threads : task[u] # NoTask => task[u].fiber \in Fibers
  BY TaskTypes DEF CountsInv
<1>10. \A u \in Threads : Pausing(u)' <=> Pausing(u)
  BY <1>7, <1>8 DEF Pausing
<1>11. ExecOnce'
  BY <1>8 DEF ExecOnce
<1>12. ExecState'
  <2>1. \A u \in Threads : task[u] # NoTask => state'[task[u].fiber] = state[task[u].fiber]
    BY <1>5, <1>6, <1>9
  <2>2. \A u \in Threads :
          /\ pc'[u] \in {"run_tickle", "dispatch"} => pc'[u] = pc[u]
          /\ task[u] # NoTask /\ pc'[u] # pc[u] => pc[u] = "fiber"
    BY <1>7, <1>8
  <2> QED BY <1>2, <2>1, <2>2 DEF ExecState
<1>13. \A u \in Threads : ~ Exec(u, f)
  BY <1>5 DEF Exec, Held
<1>14. SharingInv'
  <2>1. /\ tasks' = Append(tasks, new)
        /\ ~ Queued(new.fiber)
        /\ \A u \in Threads : Exec(u, new.fiber) => Pausing(u)' /\ ~ new.cb
        /\ \A g \in Fibers : Queued(g) => state'[g] = state[g]
        /\ IF new.cb THEN state'[new.fiber] = "CB"
                     ELSE state'[new.fiber] \in {"READY", "RUNNING"}
    BY <1>1, <1>3, <1>5, <1>6, <1>13
  <2> QED BY <1>2, <1>8, <1>10, <1>11, <1>12, <2>1, SharingAppended
<1>15. \A g \in Fibers : g # f => Still(g)
  BY <1>4, <1>6, <1>8, <1>10 DEF Still
<1>16. Moved(f)
  BY <1>1, <1>4 DEF Moved
<1> QED BY <1>14, <1>15, <1>16 DEF Moved

\* The scan takes a fiber for which no thread is responsible: such a fiber is
\* RUNNING while it is on the list, and the scan passes over it.
LEMMA SharingScanTake ==
  ASSUME CountsInv, SharingInv, NEW t \in Threads, ScanTake(t)
  PROVE  SharingInv' /\ \A f \in Fibers : Moved(f)
<1> USE DEF SharingInv
<1>1. PICK i \in 1..Len(tasks) :
        /\ Takeable(t, tasks[i])
        /\ task' = [task EXCEPT ![t] = tasks[i]]
        /\ tasks' = Erase(tasks, i)
  BY DEF ScanTake, FirstTakeable
<1>2. /\ state' = state
      /\ pc[t] = "scan"
      /\ \E label \in {"run_tickle", "dispatch"} : pc' = [pc EXCEPT ![t] = label]
  BY DEF ScanTake, Goto
<1>3. /\ tasks \in Seq(Task)
      /\ Len(tasks) \in Nat
      /\ \A j \in 1..Len(tasks) : tasks[j] \in Task /\ tasks[j].fiber \in Fibers
  BY TaskTypes DEF CountsInv
<1>4. \A u \in Threads :
        task[u] # NoTask => task[u] \in Task /\ task[u].fiber \in Fibers
  BY TaskTypes DEF CountsInv
<1>5. tasks[i] # NoTask
  BY <1>3, FiberAssumption DEF Task, Threads
<1>f. PICK f \in Fibers : f = tasks[i].fiber
  BY <1>3
\* Where the other tasks are after the removal.
<1>6. /\ Len(tasks') = Len(tasks) - 1
      /\ \A j \in 1..(Len(tasks) - 1) :
           tasks'[j] = IF j < i THEN tasks[j] ELSE tasks[j + 1]
  BY <1>1, <1>3, EraseProperties
<1>7. \A j \in 1..Len(tasks') :
        \E k \in 1..Len(tasks) : k # i /\ tasks'[j] = tasks[k]
  BY <1>3, <1>6, SMTT(30)
<1>8. \A k \in 1..Len(tasks) :
        k # i => \E j \in 1..Len(tasks') : tasks'[j] = tasks[k]
  <2> SUFFICES ASSUME NEW k \in 1..Len(tasks), k # i
               PROVE  \E j \in 1..Len(tasks') : tasks'[j] = tasks[k]
    OBVIOUS
  <2>1. CASE k < i
    BY <1>3, <1>6, <2>1, SMTT(30)
  <2>2. CASE k > i
    <3>1. k - 1 \in 1..Len(tasks') /\ tasks'[k - 1] = tasks[k]
      BY <1>3, <1>6, <2>2, SMTT(30)
    <3> QED BY <3>1
  <2> QED BY <1>3, <2>1, <2>2, SMTT(30)
<1>9. \A g : g # f => (Queued(g)' <=> Queued(g))
  BY <1>f, <1>7, <1>8 DEF Queued
\* The thread held nothing, and now holds the task it took.
<1>10. /\ task[t] = NoTask
       /\ task'[t] = tasks[i]
       /\ \A u \in Threads : u # t => task'[u] = task[u] /\ pc'[u] = pc[u]
       /\ pc'[t] \in {"run_tickle", "dispatch"}
  BY <1>1, <1>2 DEF CountsInv, TypeOK, HoldsWhileWorking, WorkLabels, BodyLabels
<1>11. \A u \in Threads : ~ Exec(u, f)
  <2> SUFFICES ASSUME NEW u \in Threads, Exec(u, f) PROVE FALSE
    OBVIOUS
  <2>1. Pausing(u) /\ ~ tasks[i].cb
    BY <1>f DEF QueuedWhileExec
  <2>2. state[f] = "RUNNING"
    BY <2>1 DEF ExecState, Exec, Held, Pausing
  <2> QED BY <1>1, <1>f, <2>1, <2>2 DEF Takeable
<1>12. /\ Exec(t, f)' /\ ~ Pausing(t)'
       /\ \A g : Exec(t, g)' => g = f
       /\ \A g : ~ Exec(t, g)
       /\ \A u \in Threads : \A g : u # t => (Exec(u, g)' <=> Exec(u, g))
       /\ \A u \in Threads : u # t => (Pausing(u)' <=> Pausing(u))
  BY <1>5, <1>f, <1>10 DEF Exec, Held, ExecLabels, Pausing
<1>13. QueuedOnce'
  <2> SUFFICES ASSUME NEW j \in 1..Len(tasks'), NEW k \in 1..Len(tasks'),
                      tasks'[j].fiber = tasks'[k].fiber
               PROVE  j = k
    BY DEF QueuedOnce
  <2> DEFINE Old(x) == IF x < i THEN x ELSE x + 1
  <2>1. /\ Old(j) \in 1..Len(tasks) /\ tasks'[j] = tasks[Old(j)]
        /\ Old(k) \in 1..Len(tasks) /\ tasks'[k] = tasks[Old(k)]
    BY <1>3, <1>6, SMTT(30)
  <2>2. Old(j) = Old(k)
    <3> HIDE DEF Old
    <3> QED BY <2>1 DEF QueuedOnce
  <2> QED BY <1>3, <1>6, <2>2, SMTT(30)
<1>14. ExecOnce'
  BY <1>11, <1>12, SMTT(30) DEF ExecOnce
<1>15. QueuedWhileExec'
  <2> SUFFICES ASSUME NEW j \in 1..Len(tasks'), NEW u \in Threads,
                      Exec(u, tasks[j].fiber)'
               PROVE  (Pausing(u) /\ ~ tasks[j].cb)'
    BY DEF QueuedWhileExec
  <2>1. PICK k \in 1..Len(tasks) : k # i /\ tasks'[j] = tasks[k]
    BY <1>7
  <2>2. tasks[k].fiber # f /\ tasks[k].fiber \in Fibers
    BY <1>3, <1>f, <2>1 DEF QueuedOnce
  <2>3. u # t
    BY <1>f, <1>10, <2>1, <2>2 DEF Exec, Held
  <2>4. Exec(u, tasks[k].fiber)
    BY <1>10, <2>1, <2>3 DEF Exec, Held
  <2> QED BY <1>12, <2>1, <2>3, <2>4 DEF QueuedWhileExec
<1>16. QueuedState'
  BY <1>2, <1>7, SMTT(30) DEF QueuedState
<1>17. ExecState'
  <2>1. /\ state[f] # "NONE"
        /\ state[f] = IF tasks[i].cb THEN "CB" ELSE "READY"
    BY <1>1, <1>f DEF QueuedState, Takeable
  <2>2. task'[t].fiber = f /\ task'[t].cb = tasks[i].cb
    BY <1>f, <1>10
  <2> SUFFICES ASSUME NEW u \in Threads, task'[u] # NoTask
               PROVE  /\ state'[task'[u].fiber] # "NONE"
                      /\ pc'[u] \in {"run_tickle", "dispatch"} =>
                           state'[task'[u].fiber] = IF task'[u].cb THEN "CB" ELSE "READY"
                      /\ pc'[u] \in {"fiber", "fiber_tickle", "requeue_tickle", "yield"} =>
                           state'[task'[u].fiber] = "RUNNING"
    BY DEF ExecState
  <2>3. CASE u = t
    BY <1>2, <1>10, <2>1, <2>2, <2>3
  <2>4. CASE u # t
    BY <1>2, <1>10, <2>4 DEF ExecState
  <2> QED BY <2>3, <2>4
<1>18. \A g \in Fibers : g # f => Still(g)
  BY <1>2, <1>9, <1>12 DEF Still
<1>19. Moved(f)
  <2>1. Queued(f)
    BY <1>f DEF Queued
  <2> QED BY <1>2, <1>11, <1>12, <2>1 DEF Moved
<1> QED BY <1>13, <1>14, <1>15, <1>16, <1>17, <1>18, <1>19 DEF Moved

\* A step of a thread on the fiber it is responsible for that leaves the list
\* alone: Resume(), the assignment of Yield, or the end of the body.
LEMMA SharingOwnStep ==
  ASSUME CountsInv, SharingInv, NEW t \in Threads,
         ResumeTask(t) \/ FiberYield(t) \/ FiberFinish(t)
  PROVE  SharingInv' /\ \A f \in Fibers : Moved(f)
<1> USE DEF SharingInv
<1>1. /\ UNCHANGED <<tasks, task>>
      /\ task[t] # NoTask
      /\ pc[t] \in {"dispatch", "yield", "fiber"}
  BY DEF ResumeTask, FiberYield, FiberFinish, CountsInv, HoldsWhileWorking,
     WorkLabels, BodyLabels
<1>2. PICK f \in Fibers : f = task[t].fiber
  BY <1>1, TaskTypes DEF CountsInv
<1>3. /\ \A u \in Threads : u # t => pc'[u] = pc[u]
      /\ \A g \in Fibers : g # f => state'[g] = state[g]
      /\ \/ pc[t] = "dispatch" /\ pc'[t] = "fiber" /\ state'[f] = "RUNNING"
         \/ pc[t] = "yield" /\ pc'[t] = "swap" /\ state'[f] = "READY"
         \/ pc[t] = "fiber" /\ pc'[t] = "return" /\ state'[f] = "TERM"
  BY <1>2 DEF ResumeTask, FiberYield, FiberFinish, Goto, CountsInv, TypeOK
<1>4. /\ \A i \in 1..Len(tasks) : tasks[i].fiber \in Fibers
      /\ \A u \in Threads : task[u] # NoTask => task[u].fiber \in Fibers
  BY TaskTypes DEF CountsInv
<1>5. /\ \A u \in Threads : \A g : u # t => (Exec(u, g)' <=> Exec(u, g))
      /\ \A g : Exec(t, g)' <=> g = f /\ pc[t] = "dispatch"
      /\ \A g : Exec(t, g) <=> g = f
      /\ \A u \in Threads : u # t => (Pausing(u)' <=> Pausing(u))
  BY <1>1, <1>2, <1>3 DEF Exec, Held, ExecLabels, Pausing
<1>6. Exec(t, f) /\ \A u \in Threads : Exec(u, f) => u = t
  BY <1>5 DEF ExecOnce
<1>7. \A i \in 1..Len(tasks) :
        tasks[i].fiber = f => pc[t] = "yield" /\ ~ tasks[i].cb
  BY <1>1, <1>2, <1>6 DEF QueuedWhileExec, Pausing
<1>8. \A g : Queued(g)' <=> Queued(g)
  BY <1>1 DEF Queued
<1>9. QueuedOnce' /\ ExecOnce'
  BY <1>1, <1>5, <1>6 DEF QueuedOnce, ExecOnce
<1>10. QueuedWhileExec'
  <2> SUFFICES ASSUME NEW i \in 1..Len(tasks), NEW u \in Threads,
                      Exec(u, tasks[i].fiber)'
               PROVE  Pausing(u)' /\ ~ tasks[i].cb
    BY <1>1 DEF QueuedWhileExec
  <2>1. u # t
    BY <1>1, <1>2, <1>3, <1>7 DEF Exec, Held, ExecLabels
  <2>2. Exec(u, tasks[i].fiber)
    BY <1>1, <1>3, <2>1 DEF Exec, Held
  <2> QED BY <1>5, <2>1, <2>2 DEF QueuedWhileExec
<1>11. QueuedState'
  BY <1>1, <1>3, <1>4, <1>7 DEF QueuedState
<1>12. ExecState'
  <2> SUFFICES ASSUME NEW u \in Threads, task[u] # NoTask
               PROVE  (/\ state[task[u].fiber] # "NONE"
                       /\ pc[u] \in {"run_tickle", "dispatch"} =>
                            state[task[u].fiber] = IF task[u].cb THEN "CB" ELSE "READY"
                       /\ pc[u] \in {"fiber", "fiber_tickle", "requeue_tickle", "yield"} =>
                            state[task[u].fiber] = "RUNNING")'
    BY <1>1 DEF ExecState
  <2>1. CASE u = t
    BY <1>1, <1>2, <1>3, <2>1
  <2>2. CASE u # t /\ task[u].fiber = f
    <3>1. pc[u] \notin ExecLabels
      BY <1>6, <2>2 DEF Exec, Held
    <3> QED BY <1>1, <1>3, <2>2, <3>1 DEF ExecLabels
  <2>3. CASE u # t /\ task[u].fiber # f
    BY <1>1, <1>3, <1>4, <2>3 DEF ExecState
  <2> QED BY <2>1, <2>2, <2>3
<1>13. \A g \in Fibers : g # f => Still(g)
  BY <1>3, <1>5, <1>8 DEF Still
<1>14. Moved(f)
  <2>1. CASE pc[t] = "yield"
    <3>1. Pausing(t) /\ state'[f] = "READY" /\ \A u \in Threads : ~ Exec(u, f)'
      BY <1>3, <1>5, <1>6, <2>1 DEF Pausing
    <3> QED BY <1>6, <1>8, <3>1 DEF Moved
  <2>2. CASE pc[t] = "fiber"
    <3>1. ~ Pausing(t) /\ state'[f] = "TERM" /\ \A u \in Threads : ~ Exec(u, f)'
      BY <1>3, <1>5, <1>6, <2>2 DEF Pausing
    <3> QED BY <1>6, <3>1 DEF Moved
  <2>3. CASE pc[t] = "dispatch"
    <3>1. ~ Pausing(t) /\ Exec(t, f)' /\ ~ Pausing(t)'
      BY <1>3, <1>5, <2>3 DEF Pausing
    <3> QED BY <1>6, <3>1 DEF Moved
  <2> QED BY <1>1, <2>1, <2>2, <2>3
<1> QED BY <1>9, <1>10, <1>11, <1>12, <1>13, <1>14 DEF Moved

\* A thread that is no longer responsible for its fiber lets go of it: the swap
\* of Yield, and the end of the task in Run.
LEMMA SharingRelease ==
  ASSUME CountsInv, SharingInv, NEW t \in Threads,
         FiberSwap(t) \/ TaskReturn(t)
  PROVE  SharingInv' /\ \A f \in Fibers : Still(f)
<1> USE DEF SharingInv
<1>1. /\ UNCHANGED <<tasks, state>>
      /\ pc[t] \in {"swap", "return"}
      /\ pc'[t] \in {"return", "scan"}
      /\ task'[t] \in {task[t], NoTask}
      /\ \A u \in Threads : u # t => pc'[u] = pc[u] /\ task'[u] = task[u]
  BY DEF FiberSwap, TaskReturn, Goto, CountsInv, TypeOK
<1>2. \A u \in Threads : \A f : Exec(u, f)' <=> Exec(u, f)
  BY <1>1 DEF Exec, Held, ExecLabels
<1>3. \A u \in Threads : \A f : Exec(u, f) => (Pausing(u)' <=> Pausing(u))
  BY <1>1 DEF Exec, Held, ExecLabels, Pausing
<1>4. \A g : Queued(g)' <=> Queued(g)
  BY <1>1 DEF Queued
<1>5. QueuedOnce' /\ QueuedState'
  BY <1>1 DEF QueuedOnce, QueuedState
<1>6. ExecOnce'
  BY <1>2 DEF ExecOnce
<1>7. QueuedWhileExec'
  <2> SUFFICES ASSUME NEW i \in 1..Len(tasks), NEW u \in Threads,
                      Exec(u, tasks[i].fiber)'
               PROVE  Pausing(u)' /\ ~ tasks[i].cb
    BY <1>1 DEF QueuedWhileExec
  <2>1. PICK f : f = tasks[i].fiber
    OBVIOUS
  <2>2. Exec(u, f)'
    BY <1>1, <2>1 DEF Exec, Held
  <2>3. Exec(u, f) /\ (Pausing(u)' <=> Pausing(u))
    BY <1>2, <1>3, <2>2
  <2> QED BY <2>1, <2>3 DEF QueuedWhileExec
<1>8. ExecState'
  BY <1>1 DEF ExecState
<1> QED BY <1>1, <1>2, <1>3, <1>4, <1>5, <1>6, <1>7, <1>8 DEF Still

\* A running fiber puts itself on the list.
LEMMA SharingRequeue ==
  ASSUME CountsInv, SharingInv, NEW t \in Threads, FiberRequeue(t)
  PROVE  SharingInv' /\ \A f \in Fibers : Moved(f)
<1> USE DEF SharingInv
<1>1. /\ UNCHANGED <<task, state>>
      /\ pc[t] = "fiber"
      /\ task[t] # NoTask
      /\ \A u \in Threads : u # t => pc'[u] = pc[u]
      /\ pc'[t] \in {"requeue_tickle", "yield"}
  BY DEF FiberRequeue, Schedule, Goto, CountsInv, TypeOK, HoldsWhileWorking,
     WorkLabels, BodyLabels
<1>2. PICK f \in Fibers : f = task[t].fiber
  BY <1>1, TaskTypes DEF CountsInv
<1>3. PICK thr \in {t, AnyThread} :
        tasks' = Append(tasks, [fiber |-> f, cb |-> FALSE, thread |-> thr])
  BY <1>2 DEF FiberRequeue, Schedule
<1>4. PICK new \in Task : new = [fiber |-> f, cb |-> FALSE, thread |-> thr]
  <2>1. f \in Fibers /\ FALSE \in BOOLEAN /\ thr \in Threads \cup {AnyThread}
    OBVIOUS
  <2>2. [fiber |-> f, cb |-> FALSE, thread |-> thr] \in Task
    BY <2>1 DEF Task
  <2> QED BY <2>2
<1>5. \A g : Queued(g)' <=> (Queued(g) \/ g = f)
  BY <1>3, <1>4, Appended DEF CountsInv
<1>6. /\ \A u \in Threads : \A g : Exec(u, g)' <=> Exec(u, g)
      /\ \A u \in Threads : u # t => (Pausing(u)' <=> Pausing(u))
      /\ ~ Pausing(t) /\ Pausing(t)'
      /\ \A g : Exec(t, g) <=> g = f
  BY <1>1, <1>2 DEF Exec, Held, ExecLabels, Pausing
<1>7. \A u \in Threads : Exec(u, f) => u = t
  BY <1>6 DEF ExecOnce
<1>8. ~ Queued(f)
  BY <1>6 DEF QueuedWhileExec, Queued
<1>9. ExecOnce'
  BY <1>6 DEF ExecOnce
<1>10. state[f] = "RUNNING"
  BY <1>1, <1>2 DEF ExecState
<1>11. ExecState'
  BY <1>1 DEF ExecState
<1>12. SharingInv'
  <2>1. /\ tasks' = Append(tasks, new)
        /\ ~ Queued(new.fiber)
        /\ \A u \in Threads : Exec(u, new.fiber) => Pausing(u)' /\ ~ new.cb
        /\ IF new.cb THEN state'[new.fiber] = "CB"
                     ELSE state'[new.fiber] \in {"READY", "RUNNING"}
    BY <1>1, <1>3, <1>4, <1>6, <1>7, <1>8, <1>10
  <2>2. \A u \in Threads : Pausing(u) => Pausing(u)'
    BY <1>6
  <2> QED BY <1>1, <1>6, <1>9, <1>11, <2>1, <2>2, SharingAppended
<1>13. \A g \in Fibers : g # f => Still(g)
  BY <1>1, <1>5, <1>6 DEF Still
<1>14. Moved(f)
  BY <1>5, <1>6 DEF Moved
<1> QED BY <1>12, <1>13, <1>14 DEF Moved

LEMMA SharingStep ==
  CountsInv /\ SharingInv /\ [Next]_vars => SharingInv' /\ \A f \in Fibers : Moved(f)
<1> SUFFICES ASSUME CountsInv, SharingInv, [Next]_vars
             PROVE  SharingInv' /\ \A f \in Fibers : Moved(f)
  OBVIOUS
<1>m. Main \in Threads /\ ThreadAssumption
  BY ThreadAssumption DEF Threads
<1>h. \A t \in Threads :
        pc[t] \notin WorkLabels \cup {"run_tickle", "dispatch"} => task[t] = NoTask
  BY DEF CountsInv, HoldsWhileWorking
<1>s. \A f \in Fibers : Still(f) => Moved(f)
  BY DEF Moved
<1>1. CASE MainSchedule
  BY <1>m, <1>1, SharingScheduleNew DEF MainSchedule
<1>2. CASE Start \/ Stop \/ StopTickle \/ StopResume \/ StopJoin
  <2>1. /\ UNCHANGED <<tasks, task, state>>
        /\ \A t \in Threads :
             \/ pc'[t] = pc[t]
             \/ /\ pc[t] \in {"new", "main", "stop_tickle", "stop_join"}
                /\ pc'[t] \in {"scan", "stop_tickle", "stop_join", "stopped"}
    BY <1>m, <1>2 DEF Start, Stop, StopTickle, StopResume, StopJoin, Goto,
       CountsInv, TypeOK, Threads
  <2>2. \A t \in Threads : pc'[t] = pc[t] \/ task[t] = NoTask
    BY <1>h, <2>1 DEF WorkLabels, BodyLabels
  <2> QED BY <1>s, <2>1, <2>2, SharingFrame
<1>3. ASSUME NEW t \in Threads,
             \/ ScanNothing(t) \/ Tickle(t) \/ ResumeIdle(t) \/ Idle(t)
             \/ IdleReturn(t) \/ RunExit(t)
      PROVE  SharingInv' /\ \A f \in Fibers : Moved(f)
  <2>1. /\ UNCHANGED <<tasks, task, state>>
        /\ \A u \in Threads : u # t => pc'[u] = pc[u]
        /\ \/ pc[t] \in TickleLabels /\ pc'[t] = AfterTickle[pc[t]]
           \/ task[t] = NoTask
    BY <1>h, <1>3 DEF ScanNothing, Tickle, ResumeIdle, Idle, IdleReturn, RunExit,
       Goto, CountsInv, TypeOK, WorkLabels, BodyLabels
  <2> QED BY <1>s, <2>1, SharingFrame
<1>4. ASSUME NEW t \in Threads, FiberSchedule(t)
      PROVE  SharingInv' /\ \A f \in Fibers : Moved(f)
  BY <1>4, SharingScheduleNew DEF FiberSchedule
<1>5. CASE UNCHANGED vars
  BY <1>s, <1>5, SharingFrame DEF vars
<1>6. ASSUME NEW t \in Threads, FiberSwap(t) \/ TaskReturn(t)
      PROVE  SharingInv' /\ \A f \in Fibers : Moved(f)
  BY <1>s, <1>6, SharingRelease
<1> QED
  BY <1>1, <1>2, <1>3, <1>4, <1>5, <1>6, SharingScanTake, SharingOwnStep, SharingRequeue
  DEF Next, MainStop, RunStep, Stopped

------------------------------------------------------------------------------
(* OwnershipInv is inductive, given CountsInv *)

LEMMA OwnershipInit == Init => OwnershipInv
<1> SUFFICES ASSUME Init PROVE OwnershipInv
  OBVIOUS
<1>1. Len(tasks) = 0 /\ \A t \in Threads : task[t] = NoTask
  BY EmptySeq DEF Init
<1>2. QueuedOnce /\ QueuedWhileExec /\ QueuedState
  BY <1>1, SMTT(30) DEF QueuedOnce, QueuedWhileExec, QueuedState
<1>3. ExecOnce /\ ExecState /\ RequeuedIsQueued
  BY <1>1 DEF ExecOnce, ExecState, RequeuedIsQueued, Exec, Held
<1>4. Reachable
  BY DEF Init, Reachable
<1> QED BY <1>2, <1>3, <1>4 DEF OwnershipInv, SharingInv

LEMMA OwnershipStep == CountsInv /\ OwnershipInv /\ [Next]_vars => OwnershipInv'
<1> SUFFICES ASSUME CountsInv, OwnershipInv, [Next]_vars PROVE OwnershipInv'
  OBVIOUS
<1>1. SharingInv' /\ \A f \in Fibers : Moved(f)
  BY SharingStep DEF OwnershipInv
<1>2. \A f \in Fibers : \A t, u \in Threads : (Exec(t, f) /\ Exec(u, f))' => t = u
  BY <1>1 DEF SharingInv, ExecOnce
<1>3. RequeuedIsQueued'
  <2> SUFFICES ASSUME NEW f \in Fibers, NEW t \in Threads, Exec(t, f)', Pausing(t)'
               PROVE  Queued(f)'
    BY DEF RequeuedIsQueued
  <2> QED BY <1>1, <1>2 DEF Moved, Still, OwnershipInv, RequeuedIsQueued
<1>4. Reachable'
  <2> SUFFICES ASSUME NEW f \in Fibers, state'[f] \in {"CB", "READY", "RUNNING"}
               PROVE  Queued(f)' \/ \E t \in Threads : Exec(t, f)'
    BY DEF Reachable
  <2> QED BY <1>1 DEF Moved, Still, OwnershipInv, RequeuedIsQueued, Reachable
<1> QED BY <1>1, <1>3, <1>4 DEF OwnershipInv

------------------------------------------------------------------------------
(* PinnedInv is inductive when fibers do not migrate *)

LEMMA PinnedInit == Init => PinnedInv
BY EmptySeq DEF Init, PinnedInv, HeldOnce, RequeuedForHolder, Held

LEMMA PinnedStep ==
  ASSUME ~ MayMigrate, CountsInv, SharingInv, PinnedInv, [Next]_vars
  PROVE  PinnedInv'
<1> USE DEF PinnedInv
<1>m. Main \in Threads
  BY DEF Threads
<1>0. /\ tasks \in Seq(Task)
      /\ Len(tasks) \in Nat
      /\ \A i \in 1..Len(tasks) : tasks[i] \in Task /\ tasks[i].fiber \in Fibers
  BY TaskTypes DEF CountsInv
<1>1. CASE UNCHANGED <<tasks, task>>
  BY <1>1 DEF HeldOnce, RequeuedForHolder, Held
<1>2. ASSUME NEW t \in Threads, NEW tickle, NEW next, ScheduleNew(t, tickle, next)
      PROVE  PinnedInv'
  <2>1. PICK f \in Fibers, cb \in BOOLEAN, thr \in KnownThreads \cup {AnyThread} :
          /\ state[f] = "NONE"
          /\ tasks' = Append(tasks, [fiber |-> f, cb |-> cb, thread |-> thr])
    BY <1>2 DEF ScheduleNew, Schedule
  <2>2. task' = task
    BY <1>2 DEF ScheduleNew
  <2>3. PICK new \in Task : new = [fiber |-> f, cb |-> cb, thread |-> thr]
    BY DEF Task, KnownThreads, Threads
  <2>4. /\ Len(tasks') = Len(tasks) + 1
        /\ \A i \in 1..Len(tasks) : tasks'[i] = tasks[i]
        /\ tasks'[Len(tasks) + 1] = new
    BY <2>1, <2>3, Appended DEF CountsInv
  <2>5. \A u \in Threads : ~ Held(u, f)
    BY <2>1 DEF SharingInv, ExecState, Held
  <2>6. HeldOnce'
    BY <2>2 DEF HeldOnce, Held
  <2>7. RequeuedForHolder'
    <3> SUFFICES ASSUME NEW i \in 1..Len(tasks'), NEW u \in Threads,
                        Held(u, tasks[i].fiber)'
                 PROVE  tasks'[i].thread = u
      BY DEF RequeuedForHolder
    <3>1. i # Len(tasks) + 1
      BY <2>2, <2>3, <2>4, <2>5, SMTT(30) DEF Held
    <3>2. i \in 1..Len(tasks)
      BY <1>0, <2>4, <3>1, SMTT(30)
    <3>3. tasks'[i] = tasks[i] /\ Held(u, tasks[i].fiber)
      BY <2>2, <2>4, <3>2 DEF Held
    <3> QED BY <3>2, <3>3 DEF RequeuedForHolder
  <2> QED BY <2>6, <2>7
<1>3. ASSUME NEW t \in Threads, ScanTake(t)
      PROVE  PinnedInv'
  <2>1. PICK i \in 1..Len(tasks) :
          /\ Takeable(t, tasks[i])
          /\ task' = [task EXCEPT ![t] = tasks[i]]
          /\ tasks' = Erase(tasks, i)
    BY <1>3 DEF ScanTake, FirstTakeable
  <2>2. PICK f \in Fibers : f = tasks[i].fiber
    BY <1>0
  <2>3. /\ task[t] = NoTask
        /\ task'[t] = tasks[i]
        /\ \A u \in Threads : u # t => task'[u] = task[u]
    BY <1>3, <2>1 DEF ScanTake, CountsInv, TypeOK, HoldsWhileWorking, WorkLabels,
       BodyLabels
  <2>4. \A u \in Threads : ~ Held(u, f)
    <3> SUFFICES ASSUME NEW u \in Threads, Held(u, f) PROVE FALSE
      OBVIOUS
    <3>1. tasks[i].thread = u
      BY <2>2 DEF RequeuedForHolder
    <3>2. u # AnyThread
      BY ThreadAssumption DEF Threads
    <3>3. u = t
      BY <2>1, <3>1, <3>2 DEF Takeable, Elsewhere
    <3> QED BY <2>3, <3>3 DEF Held
  <2>5. \A j \in 1..Len(tasks') :
          \E k \in 1..Len(tasks) : k # i /\ tasks'[j] = tasks[k]
    <3>1. /\ Len(tasks') = Len(tasks) - 1
          /\ \A j \in 1..(Len(tasks) - 1) :
               tasks'[j] = IF j < i THEN tasks[j] ELSE tasks[j + 1]
      BY <1>0, <2>1, EraseProperties
    <3> QED BY <1>0, <3>1, SMTT(30)
  <2>6. HeldOnce'
    BY <2>2, <2>3, <2>4, SMTT(30) DEF HeldOnce, Held
  <2>7. RequeuedForHolder'
    <3> SUFFICES ASSUME NEW j \in 1..Len(tasks'), NEW u \in Threads,
                        Held(u, tasks[j].fiber)'
                 PROVE  tasks'[j].thread = u
      BY DEF RequeuedForHolder
    <3>1. PICK k \in 1..Len(tasks) : k # i /\ tasks'[j] = tasks[k]
      BY <2>5
    <3>2. tasks[k].fiber # f
      BY <2>2, <3>1 DEF SharingInv, QueuedOnce
    <3>3. u # t /\ Held(u, tasks[k].fiber)
      BY <2>2, <2>3, <3>1, <3>2 DEF Held
    <3> QED BY <3>1, <3>3 DEF RequeuedForHolder
  <2> QED BY <2>6, <2>7
<1>4. ASSUME NEW t \in Threads, FiberRequeue(t)
      PROVE  PinnedInv'
  <2>1. task' = task /\ task[t] # NoTask
    BY <1>4 DEF FiberRequeue, CountsInv, HoldsWhileWorking, WorkLabels, BodyLabels
  <2>2. PICK f \in Fibers : f = task[t].fiber
    BY <2>1, TaskTypes DEF CountsInv
  <2>3. tasks' = Append(tasks, [fiber |-> f, cb |-> FALSE, thread |-> t])
    BY <1>4, <2>2 DEF FiberRequeue, Schedule
  <2>4. PICK new \in Task : new = [fiber |-> f, cb |-> FALSE, thread |-> t]
    BY DEF Task
  <2>5. /\ Len(tasks') = Len(tasks) + 1
        /\ \A i \in 1..Len(tasks) : tasks'[i] = tasks[i]
        /\ tasks'[Len(tasks) + 1] = new
    BY <2>3, <2>4, Appended DEF CountsInv
  <2>6. \A u \in Threads : Held(u, f) => u = t
    BY <2>1, <2>2 DEF HeldOnce, Held
  <2>7. HeldOnce'
    BY <2>1 DEF HeldOnce, Held
  <2>8. RequeuedForHolder'
    <3> SUFFICES ASSUME NEW i \in 1..Len(tasks'), NEW u \in Threads,
                        Held(u, tasks[i].fiber)'
                 PROVE  tasks'[i].thread = u
      BY DEF RequeuedForHolder
    <3>1. Held(u, tasks'[i].fiber)
      BY <2>1 DEF Held
    <3>2. CASE i = Len(tasks) + 1
      <4>0. tasks'[i] = new
        BY <2>5, <3>2
      <4>1. tasks'[i].fiber = f /\ tasks'[i].thread = t
        BY <2>4, <4>0, SMTT(30)
      <4> QED BY <2>6, <3>1, <4>1
    <3>3. CASE i \in 1..Len(tasks)
      BY <2>5, <3>1, <3>3 DEF RequeuedForHolder
    <3> QED BY <1>0, <2>5, <3>2, <3>3, SMTT(30)
  <2> QED BY <2>7, <2>8
<1>5. ASSUME NEW t \in Threads, TaskReturn(t)
      PROVE  PinnedInv'
  <2>1. /\ tasks' = tasks
        /\ \A u \in Threads : task'[u] \in {task[u], NoTask}
    BY <1>5 DEF TaskReturn, CountsInv, TypeOK
  <2>2. \A u \in Threads : \A f : Held(u, f)' => Held(u, f)
    BY <2>1 DEF Held
  <2>3. \A i \in 1..Len(tasks), u \in Threads :
          Held(u, tasks[i].fiber)' => Held(u, tasks[i].fiber)
    BY <2>1 DEF Held
  <2> QED BY <2>1, <2>2, <2>3 DEF HeldOnce, RequeuedForHolder
<1> QED
  BY <1>m, <1>1, <1>2, <1>3, <1>4, <1>5 DEF Next, MainStop, RunStep, Stopped, vars, MainSchedule,
     FiberSchedule, Start, Stop, StopTickle, StopResume, StopJoin, ScanNothing, Tickle,
     ResumeTask, ResumeIdle, Idle, IdleReturn, RunExit, FiberYield, FiberSwap, FiberFinish

------------------------------------------------------------------------------
(* Theorems *)

LEMMA ControlAlways == Spec => []ControlInv
BY ControlInit, ControlStep, PTL DEF Spec

LEMMA OwnershipAlways == Spec => []OwnershipInv
<1>1. ControlInv => CountsInv
  BY DEF ControlInv, CountsInv
<1> QED BY <1>1, ControlAlways, OwnershipInit, OwnershipStep, PTL DEF Spec

\* The variables keep their types: in particular neither thread count of the
\* scheduler, both of type size_t, ever goes below zero.
THEOREM TypeCorrect == Spec => []TypeOK
<1>1. ControlInv => TypeOK
  BY DEF ControlInv, CountsInv
<1> QED BY <1>1, ControlAlways, PTL

\* Run and Yield never lose a fiber that was scheduled and has not ended.
THEOREM FibersNeverLost == Spec => []NoFiberLost
<1>1. OwnershipInv => NoFiberLost
  BY DEF OwnershipInv, Reachable, NoFiberLost, Exec
<1> QED BY <1>1, OwnershipAlways, PTL

\* A thread leaves Run only when no thread can schedule anything any more.
THEOREM ExitQuiescent == Spec => []ExitIsQuiescent
<1>1. ControlInv => ExitIsQuiescent
  BY DEF ControlInv, CountsInv
<1> QED BY <1>1, ControlAlways, PTL

\* When Stop() has returned every scheduled fiber has been executed to its end.
THEOREM StopComplete == Spec => []StopIsComplete
<1>1. ControlInv /\ OwnershipInv => StopIsComplete
  <2> SUFFICES ASSUME ControlInv, OwnershipInv,
                      pc[Main] = "stopped",
                      UseCaller \/ \E w \in Workers : pc[w] # "new"
               PROVE  /\ tasks = <<>>
                      /\ \A t \in Threads : task[t] = NoTask
                      /\ \A f \in Fibers : state[f] \in {"NONE", "TERM"}
    BY DEF StopIsComplete
  <2>1. \E t \in Threads : idle_term[t]
    BY DEF ControlInv, CountsInv, OwnerControl, Threads
  <2>2. tasks = <<>> /\ \A t \in Threads : task[t] = NoTask
    BY <2>1 DEF ControlInv, ExitIsQuiescent, Stopping
  <2>3. \A f \in Fibers : ~ Queued(f) /\ \A t \in Threads : ~ Exec(t, f)
    BY <2>2, EmptySeq, SMTT(30) DEF Queued, Exec, Held
  <2>4. \A f \in Fibers : state[f] \in {"NONE", "TERM"}
    BY <2>3 DEF OwnershipInv, Reachable, ControlInv, CountsInv, TypeOK
  <2> QED BY <2>2, <2>4
<1> QED BY <1>1, ControlAlways, OwnershipAlways, PTL

\* The assertion at the head of Fiber::Resume never fails in Run, whether or not
\* fibers migrate between threads.
THEOREM ResumeSafe == Spec => []ResumeAssertion
<1>1. OwnershipInv => ResumeAssertion
  BY DEF OwnershipInv, SharingInv, ExecState, ResumeAssertion
<1> QED BY <1>1, OwnershipAlways, PTL

\* If every fiber puts itself back for the thread it runs on, two threads are
\* never on one fiber's stack.
THEOREM FiberExclusive ==
  ASSUME ~ MayMigrate
  PROVE  Spec => []ExclusiveFiber
<1>1. PinnedInv /\ ControlInv => ExclusiveFiber
  <2> SUFFICES ASSUME PinnedInv, ControlInv,
                      NEW t \in Threads, NEW u \in Threads, t # u,
                      pc[t] \in BodyLabels, pc[u] \in BodyLabels
               PROVE  task[t].fiber # task[u].fiber
    BY DEF ExclusiveFiber
  <2>1. task[t] # NoTask /\ task[u] # NoTask
    BY DEF ControlInv, CountsInv, HoldsWhileWorking, WorkLabels
  <2>2. task[t].fiber \in Fibers
    BY <2>1, TaskTypes DEF ControlInv, CountsInv
  <2> QED BY <2>1, <2>2 DEF PinnedInv, HeldOnce, Held
<1>2. Spec => []PinnedInv
  <2>1. PinnedInv /\ ControlInv /\ OwnershipInv /\ [Next]_vars => PinnedInv'
    BY PinnedStep DEF ControlInv, OwnershipInv
  <2> QED BY <2>1, PinnedInit, ControlAlways, OwnershipAlways, PTL DEF Spec
<1> QED BY <1>1, <1>2, ControlAlways, PTL
==============================================================================
