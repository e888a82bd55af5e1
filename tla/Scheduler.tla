------------------------------ MODULE Scheduler ------------------------------
(***************************************************************************)
(* The N:M fiber scheduler: serverframework/fiber/scheduler.{h,cc} and the *)
(* part of fiber/fiber.cc that the scheduling loop drives (Resume, Yield,  *)
(* MainFunc).                                                              *)
(*                                                                         *)
(* Worker threads, and the thread that owns the scheduler when it was      *)
(* built with use_caller, execute Scheduler::Run.  A thread alternates     *)
(* between a scan of the task list under mutex_, an optional Tickle, and   *)
(* the execution of what it took: a fiber, a callback (for which it makes  *)
(* a fiber), or its idle fiber.  A step of the model is one critical       *)
(* section, or the code between two accesses to shared state.              *)
(*                                                                         *)
(* Fiber bodies are user code.  A body may schedule new tasks, put itself  *)
(* back on the task list and then yield (the pattern of                    *)
(* tests/test_scheduler.cc), and it returns in the end.                    *)
(***************************************************************************)
EXTENDS Naturals, FiniteSets, Sequences

CONSTANTS
  Workers,      \* the threads of threads_, created by Start
  Main,         \* the thread that owns the scheduler and calls Start and Stop
  UseCaller,    \* use_caller_: Main runs the scheduling loop inside Stop
  Fibers,       \* the fibers, or callbacks, that are ever scheduled
  AnyThread,    \* thread = -1: the task may run on every thread
  NoTask,       \* a ScheduleTask after reset()
  MayMigrate,   \* a fiber may put itself back for every thread, and not only
                \* for the thread it is running on
  MaxYields     \* bound: how often one fiber yields

ASSUME ThreadAssumption ==
  /\ IsFiniteSet(Workers)
  /\ Main \notin Workers
  /\ AnyThread \notin Workers \cup {Main}
  /\ UseCaller \in BOOLEAN

ASSUME FiberAssumption ==
  /\ NoTask \notin [fiber : Fibers, cb : BOOLEAN,
                    thread : Workers \cup {Main, AnyThread}]
  /\ MayMigrate \in BOOLEAN
  /\ MaxYields \in Nat

VARIABLES
  tasks,                \* tasks_: the list of ScheduleTask
  active_thread_count,  \* active_thread_count_
  idle_thread_count,    \* idle_thread_count_
  stopping,             \* stopping_
  pc,                   \* where each thread is (see Labels)
  task,                 \* what each thread took: Run's local task, or the
                        \* cb_fiber made from it, until the count goes down
  idle_term,            \* the state of each thread's idle_fiber is TERM
  state,                \* Fiber::state_; "NONE": never scheduled, "CB": a
                        \* callback for which no Fiber was made yet
  yields,               \* how often a fiber has yielded
  tickles               \* Tickle() calls Stop has left to make

vars == <<tasks, active_thread_count, idle_thread_count, stopping, pc, task,
          idle_term, state, yields, tickles>>

Threads == Workers \cup {Main}

Task == [fiber : Fibers, cb : BOOLEAN, thread : Threads \cup {AnyThread}]

\* A thread that is inside Tickle() continues at AfterTickle[pc[t]].
AfterTickle == [run_tickle     |-> "dispatch", \* Run, after its scan
                fiber_tickle   |-> "fiber",    \* Schedule, from a fiber body
                requeue_tickle |-> "yield",    \* Schedule(GetThis())
                main_tickle    |-> "main"]     \* Schedule, before Stop

TickleLabels == {"run_tickle", "fiber_tickle", "requeue_tickle", "main_tickle"}

\* Control is inside the body of the fiber task[t].fiber, on its stack.
BodyLabels == {"fiber", "fiber_tickle", "requeue_tickle", "yield", "swap"}

Labels == TickleLabels \cup BodyLabels \cup
  { "new",          \* a worker before Start
    "main",         \* Main before Stop
    "stop_tickle",  \* Main in the Tickle loops of Stop
    "stop_join",    \* Main joins the workers
    "stopped",      \* Stop has returned
    "scan",         \* Run, before it takes mutex_
    "dispatch",     \* Run, after the Tickle
    "return",       \* Run, after Resume() of a task returned
    "idle",         \* the idle fiber, before its call of Stopping()
    "idle_return",  \* Run, after Resume() of the idle fiber returned
    "exit" }        \* Run has returned

Init ==
  /\ tasks = <<>>
  /\ active_thread_count = 0
  /\ idle_thread_count = 0
  /\ stopping = FALSE
  /\ pc = [t \in Threads |-> IF t = Main THEN "main" ELSE "new"]
  /\ task = [t \in Threads |-> NoTask]
  /\ idle_term = [t \in Threads |-> FALSE]
  /\ state = [f \in Fibers |-> "NONE"]
  /\ yields = [f \in Fibers |-> 0]
  /\ tickles = 0

Goto(t, label) == pc' = [pc EXCEPT ![t] = label]

\* Threads that execute Run, now or later, and whose id is known.
KnownThreads ==
  {w \in Workers : pc[w] # "new"} \cup (IF UseCaller THEN {Main} ELSE {})

------------------------------------------------------------------------------
(* Schedule *)

\* The critical section of Schedule: the task goes to the back of the list,
\* and Tickle is called after the unlock if the list was empty.
Schedule(t, tk, tickle, next) ==
  /\ tasks' = Append(tasks, tk)
  /\ Goto(t, IF tasks = <<>> THEN tickle ELSE next)

\* User code schedules something new: a Fiber, in state READY from its
\* construction, or a callback.
ScheduleNew(t, tickle, next) ==
  \E f \in Fibers, cb \in BOOLEAN, thr \in KnownThreads \cup {AnyThread} :
    /\ state[f] = "NONE"
    /\ state' = [state EXCEPT ![f] = IF cb THEN "CB" ELSE "READY"]
    /\ Schedule(t, [fiber |-> f, cb |-> cb, thread |-> thr], tickle, next)
    /\ UNCHANGED <<active_thread_count, idle_thread_count, stopping, task,
                   idle_term, yields, tickles>>

\* Scheduler::Tickle only logs; IOManager overrides it.
Tickle(t) ==
  /\ pc[t] \in TickleLabels
  /\ Goto(t, AfterTickle[pc[t]])
  /\ UNCHANGED <<tasks, active_thread_count, idle_thread_count, stopping, task,
                 idle_term, state, yields, tickles>>

------------------------------------------------------------------------------
(* The owner: Start and Stop *)

MainSchedule == pc[Main] = "main" /\ ScheduleNew(Main, "main_tickle", "main")

\* The threads are created under mutex_, so none passes its first scan before
\* Start has released it.
Start ==
  /\ pc[Main] = "main"
  /\ \A w \in Workers : pc[w] = "new"
  /\ pc' = [t \in Threads |-> IF t \in Workers THEN "scan" ELSE pc[t]]
  /\ UNCHANGED <<tasks, active_thread_count, idle_thread_count, stopping, task,
                 idle_term, state, yields, tickles>>

\* Stopping() is false at the first call, since only Stop sets stopping_.
Stop ==
  /\ pc[Main] = "main"
  /\ stopping' = TRUE
  /\ tickles' = Cardinality(Workers) + (IF UseCaller THEN 1 ELSE 0)
  /\ Goto(Main, "stop_tickle")
  /\ UNCHANGED <<tasks, active_thread_count, idle_thread_count, task, idle_term,
                 state, yields>>

StopTickle ==
  /\ pc[Main] = "stop_tickle"
  /\ tickles > 0
  /\ tickles' = tickles - 1
  /\ UNCHANGED <<tasks, active_thread_count, idle_thread_count, stopping, pc,
                 task, idle_term, state, yields>>

\* root_fiber_->Resume() enters Run on the owner's thread; without use_caller
\* the owner only waits.
StopResume ==
  /\ pc[Main] = "stop_tickle"
  /\ tickles = 0
  /\ Goto(Main, IF UseCaller THEN "scan" ELSE "stop_join")
  /\ UNCHANGED <<tasks, active_thread_count, idle_thread_count, stopping, task,
                 idle_term, state, yields, tickles>>

\* Without a Start there is no thread to join.
StopJoin ==
  /\ pc[Main] = "stop_join"
  /\ \A w \in Workers : pc[w] \in {"new", "exit"}
  /\ Goto(Main, "stopped")
  /\ UNCHANGED <<tasks, active_thread_count, idle_thread_count, stopping, task,
                 idle_term, state, yields, tickles>>

------------------------------------------------------------------------------
(* Run: the scan under mutex_ *)

\* Mutant: the thread a task is pinned to is not looked at.
ElsewhereIgnored(t, tk) == FALSE

Elsewhere(t, tk) == tk.thread \notin {AnyThread, t}

\* A fiber that is still RUNNING is passed over: it was put on the list by
\* itself, or by an event, before it yielded.
Takeable(t, tk) ==
  /\ ~ Elsewhere(t, tk)
  /\ tk.cb \/ state[tk.fiber] # "RUNNING"

\* i is where the loop stops: the first task it takes.
FirstTakeable(t, i) ==
  /\ i \in 1..Len(tasks)
  /\ Takeable(t, tasks[i])
  /\ \A j \in 1..(i - 1) : ~ Takeable(t, tasks[j])

\* tasks_.erase(it), with it at the i-th task.
Erase(list, i) == SubSeq(list, 1, i - 1) \o SubSeq(list, i + 1, Len(list))

\* Mutant: the head of the list is erased instead of the task that was taken.
ScanTakeErasesHead(t) ==
  /\ pc[t] = "scan"
  /\ \E i \in 1..Len(tasks) :
       /\ FirstTakeable(t, i)
       /\ task' = [task EXCEPT ![t] = tasks[i]]
  /\ tasks' = Tail(tasks)
  /\ active_thread_count' = active_thread_count + 1
  /\ Goto(t, "dispatch")
  /\ UNCHANGED <<idle_thread_count, stopping, idle_term, state, yields, tickles>>

\* tickle_me: a task for another thread was passed over, or tasks are left
\* behind the one that was taken.
ScanTake(t) ==
  /\ pc[t] = "scan"
  /\ \E i \in 1..Len(tasks) :
       /\ FirstTakeable(t, i)
       /\ task' = [task EXCEPT ![t] = tasks[i]]
       /\ tasks' = Erase(tasks, i)
       /\ active_thread_count' = active_thread_count + 1
       /\ Goto(t, IF \/ \E j \in 1..(i - 1) : Elsewhere(t, tasks[j])
                     \/ i < Len(tasks)
                  THEN "run_tickle" ELSE "dispatch")
  /\ UNCHANGED <<idle_thread_count, stopping, idle_term, state, yields, tickles>>

ScanNothing(t) ==
  /\ pc[t] = "scan"
  /\ \A i \in 1..Len(tasks) : ~ Takeable(t, tasks[i])
  /\ Goto(t, IF \E i \in 1..Len(tasks) : Elsewhere(t, tasks[i])
             THEN "run_tickle" ELSE "dispatch")
  /\ UNCHANGED <<tasks, active_thread_count, idle_thread_count, stopping, task,
                 idle_term, state, yields, tickles>>

------------------------------------------------------------------------------
(* Run: execution of what was taken *)

\* A READY fiber is resumed; for a callback a Fiber is made and resumed.
\* Resume() asserts that the fiber is neither RUNNING nor TERM.
ResumeTask(t) ==
  /\ pc[t] = "dispatch"
  /\ task[t] # NoTask
  /\ task[t].cb \/ state[task[t].fiber] = "READY"
  /\ state' = [state EXCEPT ![task[t].fiber] = "RUNNING"]
  /\ Goto(t, "fiber")
  /\ UNCHANGED <<tasks, active_thread_count, idle_thread_count, stopping, task,
                 idle_term, yields, tickles>>

\* Mutant: the count does not go down.
TaskReturnUncounted(t) ==
  /\ pc[t] = "return"
  /\ task' = [task EXCEPT ![t] = NoTask]
  /\ Goto(t, "scan")
  /\ UNCHANGED <<tasks, active_thread_count, idle_thread_count, stopping,
                 idle_term, state, yields, tickles>>

\* Resume() has returned: the count goes down and the task is dropped.
TaskReturn(t) ==
  /\ pc[t] = "return"
  /\ active_thread_count' = active_thread_count - 1
  /\ task' = [task EXCEPT ![t] = NoTask]
  /\ Goto(t, "scan")
  /\ UNCHANGED <<tasks, idle_thread_count, stopping, idle_term, state, yields,
                 tickles>>

ResumeIdle(t) ==
  /\ pc[t] = "dispatch"
  /\ task[t] = NoTask
  /\ ~ idle_term[t]
  /\ idle_thread_count' = idle_thread_count + 1
  /\ Goto(t, "idle")
  /\ UNCHANGED <<tasks, active_thread_count, stopping, task, idle_term, state,
                 yields, tickles>>

\* Mutants: a test of Stopping() is forgotten.
StoppingIgnoresActive == stopping /\ tasks = <<>>

StoppingIgnoresTasks == stopping /\ active_thread_count = 0

\* Scheduler::Stopping, which reads all three under mutex_.
Stopping ==
  /\ stopping
  /\ tasks = <<>>
  /\ active_thread_count = 0

\* Scheduler::Idle: it yields at once, or ends when the scheduler may stop.
Idle(t) ==
  /\ pc[t] = "idle"
  /\ idle_term' = [idle_term EXCEPT ![t] = Stopping]
  /\ Goto(t, "idle_return")
  /\ UNCHANGED <<tasks, active_thread_count, idle_thread_count, stopping, task,
                 state, yields, tickles>>

IdleReturn(t) ==
  /\ pc[t] = "idle_return"
  /\ idle_thread_count' = idle_thread_count - 1
  /\ Goto(t, "scan")
  /\ UNCHANGED <<tasks, active_thread_count, stopping, task, idle_term, state,
                 yields, tickles>>

\* The idle fiber has ended and nothing was found: Run returns.  On the
\* owner's thread root_fiber_ ends with it and Stop continues.
RunExit(t) ==
  /\ pc[t] = "dispatch"
  /\ task[t] = NoTask
  /\ idle_term[t]
  /\ Goto(t, IF t = Main THEN "stop_join" ELSE "exit")
  /\ UNCHANGED <<tasks, active_thread_count, idle_thread_count, stopping, task,
                 idle_term, state, yields, tickles>>

------------------------------------------------------------------------------
(* Fiber bodies *)

FiberSchedule(t) ==
  pc[t] = "fiber" /\ ScheduleNew(t, "fiber_tickle", "fiber")

\* Schedule(Fiber::GetThis()): the fiber is on the list while it still runs.
FiberRequeue(t) ==
  /\ pc[t] = "fiber"
  /\ yields[task[t].fiber] < MaxYields
  /\ \E thr \in {t} \cup (IF MayMigrate THEN {AnyThread} ELSE {}) :
       Schedule(t, [fiber |-> task[t].fiber, cb |-> FALSE, thread |-> thr],
                "requeue_tickle", "yield")
  /\ yields' = [yields EXCEPT ![task[t].fiber] = @ + 1]
  /\ UNCHANGED <<active_thread_count, idle_thread_count, stopping, task,
                 idle_term, state, tickles>>

\* Mutant: Yield leaves the fiber RUNNING.
FiberYieldKeepsRunning(t) ==
  /\ pc[t] = "yield"
  /\ Goto(t, "swap")
  /\ UNCHANGED <<tasks, active_thread_count, idle_thread_count, stopping, task,
                 idle_term, state, yields, tickles>>

\* Fiber::Yield sets the state first ...
FiberYield(t) ==
  /\ pc[t] = "yield"
  /\ state' = [state EXCEPT ![task[t].fiber] = "READY"]
  /\ Goto(t, "swap")
  /\ UNCHANGED <<tasks, active_thread_count, idle_thread_count, stopping, task,
                 idle_term, yields, tickles>>

\* ... and leaves the fiber's stack afterwards: only swapcontext saves where
\* the next Resume has to continue.
FiberSwap(t) ==
  /\ pc[t] = "swap"
  /\ Goto(t, "return")
  /\ UNCHANGED <<tasks, active_thread_count, idle_thread_count, stopping, task,
                 idle_term, state, yields, tickles>>

\* The body returns to MainFunc, which ends the fiber.
FiberFinish(t) ==
  /\ pc[t] = "fiber"
  /\ state' = [state EXCEPT ![task[t].fiber] = "TERM"]
  /\ Goto(t, "return")
  /\ UNCHANGED <<tasks, active_thread_count, idle_thread_count, stopping, task,
                 idle_term, yields, tickles>>

------------------------------------------------------------------------------

MainStop == StopTickle \/ StopResume \/ StopJoin

RunStep(t) ==
  \/ ScanTake(t) \/ ScanNothing(t) \/ Tickle(t)
  \/ ResumeTask(t) \/ TaskReturn(t)
  \/ ResumeIdle(t) \/ Idle(t) \/ IdleReturn(t) \/ RunExit(t)
  \/ FiberSchedule(t) \/ FiberRequeue(t) \/ FiberYield(t) \/ FiberSwap(t)
  \/ FiberFinish(t)

\* After Stop and the end of all threads nothing is left to do.
Stopped == pc[Main] = "stopped" /\ UNCHANGED vars

Next ==
  \/ MainSchedule \/ Start \/ Stop \/ MainStop
  \/ \E t \in Threads : RunStep(t)
  \/ Stopped

Spec == Init /\ [][Next]_vars

\* The operating system runs every thread that can run, and bodies return.
\* Whether the owner ever calls Start or Stop is up to the user.
FairSpec ==
  /\ Spec
  /\ WF_vars(MainStop)
  /\ \A t \in Threads : WF_vars(RunStep(t))

------------------------------------------------------------------------------
(* Properties *)

\* The variables have their types.
TypeOK ==
  /\ tasks \in Seq(Task)
  /\ active_thread_count \in Nat
  /\ idle_thread_count \in Nat
  /\ stopping \in BOOLEAN
  /\ pc \in [Threads -> Labels]
  /\ task \in [Threads -> Task \cup {NoTask}]
  /\ idle_term \in [Threads -> BOOLEAN]
  /\ state \in [Fibers -> {"NONE", "CB", "READY", "RUNNING", "TERM"}]
  /\ yields \in [Fibers -> 0..MaxYields]
  /\ tickles \in Nat

\* Fiber f can be reached: it is on the task list, or a thread holds it.
Queued(f) == \E i \in 1..Len(tasks) : tasks[i].fiber = f

Held(t, f) == task[t] # NoTask /\ task[t].fiber = f

\* A scheduled fiber that has not ended is never lost between the task list and
\* the threads: Run's move of a task from tasks_ to its local variable, and a
\* Yield after Schedule(GetThis()), keep it within reach of some thread.
NoFiberLost ==
  \A f \in Fibers :
    state[f] \in {"CB", "READY", "RUNNING"} =>
      Queued(f) \/ \E t \in Threads : Held(t, f)

\* Stop() "returns only after all scheduled tasks have been executed"
\* (scheduler.h:82), provided some thread was there to execute them: the list is
\* empty, no thread is in a fiber, and every fiber that was scheduled has ended.
StopIsComplete ==
  /\ pc[Main] = "stopped"
  /\ UseCaller \/ \E w \in Workers : pc[w] # "new"
  => /\ tasks = <<>>
     /\ \A t \in Threads : task[t] = NoTask
     /\ \A f \in Fibers : state[f] \in {"NONE", "TERM"}

\* A thread leaves Run only when no other thread can still hand it work: from
\* the moment its idle fiber ended on, the list is empty and no thread executes
\* a task, so a task pinned to a thread never finds that thread gone.
ExitIsQuiescent ==
  \A t \in Threads :
    idle_term[t] => /\ Stopping
                    /\ \A u \in Threads : task[u] = NoTask

\* At most one thread is on a fiber's stack.  Run's test for RUNNING
\* (scheduler.cc:168-175) is there to ensure it.
ExclusiveFiber ==
  \A t, u \in Threads :
    /\ t # u
    /\ pc[t] \in BodyLabels
    /\ pc[u] \in BodyLabels
    => task[t].fiber # task[u].fiber

\* The assertion of Fiber::Resume (fiber.cc:146): the fiber a thread is about to
\* resume is neither RUNNING nor TERM.
ResumeAssertion ==
  \A t \in Threads :
    /\ pc[t] = "dispatch"
    /\ task[t] # NoTask
    /\ ~ task[t].cb
    => state[task[t].fiber] = "READY"

\* A call of Stop() returns: neither a finished task nor a pinned one keeps some
\* thread in its loop for ever.
StopReturns == stopping ~> pc[Main] = "stopped"

\* Once the pool was started, every fiber that was scheduled comes to its end,
\* whether or not Stop is called: no task on the list starves, unless it is
\* pinned to the owner, which executes tasks only inside Stop.
TasksComplete ==
  \A f \in Fibers :
    state[f] # "NONE" /\ (\E w \in Workers : pc[w] # "new") ~>
      \/ state[f] = "TERM"
      \/ \E i \in 1..Len(tasks) : tasks[i].fiber = f /\ tasks[i].thread = Main
==============================================================================
