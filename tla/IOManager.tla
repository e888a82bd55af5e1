----------------------------- MODULE IOManager -------------------------------
(***************************************************************************)
(* The IO scheduler: serverframework/net/iomanager.cc on top of Scheduler. *)
(*                                                                         *)
(* IOManager overrides Tickle, Idle and Stopping of Scheduler.  A thread   *)
(* without a task blocks in epoll_wait, for five seconds or until the next *)
(* timer at the latest, and is woken by a byte in the tickle pipe or by a  *)
(* descriptor.  It then schedules the callbacks of expired timers and the  *)
(* fibers whose events happened, and goes back to the loop of              *)
(* Scheduler::Run.  Threads leave only when there are no timers, no        *)
(* pending events and nothing to do.                                       *)
(*                                                                         *)
(* The steps of Scheduler are kept; while a thread's pc is "idle", idle_pc *)
(* says where in IOManager::Idle it is.  What the event table and the      *)
(* timer set do in detail is in IOEvents and TimerManager.  Here a fiber   *)
(* that yields may wait for one event, a timer has one callback, and time  *)
(* passes as it likes.                                                     *)
(***************************************************************************)
EXTENDS Scheduler

VARIABLES
  idle_pc,  \* where each thread is in IOManager::Idle (see IdleLabels)
  edge,     \* the tickle pipe was written and no epoll_wait reported it yet
  waiting,  \* fibers that are registered for an event
  ready,    \* those whose event happened and was not reported yet
  found,    \* what each thread has left of its last epoll_wait
  pending,  \* pending_event_count_
  timers,   \* callbacks of armed timers
  due,      \* those whose timer has expired
  cbs       \* cbs of each thread's last ListExpiredCb

ioVars == <<idle_pc, edge, waiting, ready, found, pending, timers, due, cbs>>
allVars == <<vars, ioVars>>

\* A thread that is inside Tickle() continues at AfterIdleTickle[idle_pc[t]].
AfterIdleTickle == [schedule_tickle |-> "schedule",
                    trigger_tickle  |-> "count"]

IdleLabels ==
  { "timers",           \* Stopping, before GetNextTimer
    "pending",          \* Stopping, before it reads pending_event_count_
    "stopping",         \* Stopping, before Scheduler::Stopping
    "wait",             \* in epoll_wait
    "collect",          \* before ListExpiredCb
    "schedule",         \* in the loop over cbs
    "schedule_tickle",  \* Schedule(cb), before Tickle
    "trigger",          \* in the loop over the result of epoll_wait
    "trigger_tickle",   \* TriggerEvent, in Schedule, before Tickle
    "count" }           \* after TriggerEvent

IOInit ==
  /\ Init
  /\ idle_pc = [t \in Threads |-> "timers"]
  /\ edge = FALSE
  /\ waiting = {}
  /\ ready = {}
  /\ found = [t \in Threads |-> {}]
  /\ pending = 0
  /\ timers = {}
  /\ due = {}
  /\ cbs = [t \in Threads |-> {}]

At(t, label) == pc[t] = "idle" /\ idle_pc[t] = label

IdleGoto(t, label) == idle_pc' = [idle_pc EXCEPT ![t] = label]

------------------------------------------------------------------------------
(* Tickle *)

\* One byte is written if some thread is counted as idle.
WriteT == edge' = (edge \/ idle_thread_count > 0)

IOTickle(t) ==
  /\ Tickle(t)
  /\ WriteT
  /\ UNCHANGED <<idle_pc, waiting, ready, found, pending, timers, due, cbs>>

IOStopTickle ==
  /\ StopTickle
  /\ WriteT
  /\ UNCHANGED <<idle_pc, waiting, ready, found, pending, timers, due, cbs>>

IdleTickle(t) ==
  /\ pc[t] = "idle"
  /\ idle_pc[t] \in {"schedule_tickle", "trigger_tickle"}
  /\ WriteT
  /\ IdleGoto(t, AfterIdleTickle[idle_pc[t]])
  /\ UNCHANGED <<vars, waiting, ready, found, pending, timers, due, cbs>>

------------------------------------------------------------------------------
(* Fiber bodies: events and timers *)

\* AddEvent without a callback registers the fiber that calls it, which then
\* yields (do_io in hook.cc).
FiberWait(t) ==
  /\ pc[t] = "fiber"
  /\ yields[task[t].fiber] < MaxYields
  /\ waiting' = waiting \cup {task[t].fiber}
  /\ pending' = pending + 1
  /\ yields' = [yields EXCEPT ![task[t].fiber] = @ + 1]
  /\ Goto(t, "yield")
  /\ UNCHANGED <<tasks, active_thread_count, idle_thread_count, stopping, task,
                 idle_term, state, tickles, idle_pc, edge, ready, found, timers,
                 due, cbs>>

\* A new timer; Tickle is called if it has become the first one and no other
\* call is on its way.
FiberAddTimer(t) ==
  \E f \in Fibers, at_front \in BOOLEAN :
    /\ pc[t] = "fiber"
    /\ state[f] = "NONE"
    /\ state' = [state EXCEPT ![f] = "CB"]
    /\ timers' = timers \cup {f}
    /\ Goto(t, IF at_front THEN "fiber_tickle" ELSE "fiber")
    /\ UNCHANGED <<tasks, active_thread_count, idle_thread_count, stopping,
                   task, idle_term, yields, tickles, idle_pc, edge, waiting,
                   ready, found, pending, due, cbs>>

\* The event of a fiber happens, or a timer's time has come.
Ready(f) ==
  /\ f \in waiting \ ready
  /\ \A t \in Threads : f \notin found[t]
  /\ ready' = ready \cup {f}
  /\ UNCHANGED <<vars, idle_pc, edge, waiting, found, pending, timers, due, cbs>>

Expire(f) ==
  /\ f \in timers \ due
  /\ due' = due \cup {f}
  /\ UNCHANGED <<vars, idle_pc, edge, waiting, ready, found, pending, timers,
                 cbs>>

------------------------------------------------------------------------------
(* Idle: IOManager::Stopping, in three separate looks *)

StoppingTimers(t) ==
  /\ At(t, "timers")
  /\ IdleGoto(t, IF timers = {} THEN "pending" ELSE "wait")
  /\ UNCHANGED <<vars, edge, waiting, ready, found, pending, timers, due, cbs>>

StoppingPending(t) ==
  /\ At(t, "pending")
  /\ IdleGoto(t, IF pending = 0 THEN "stopping" ELSE "wait")
  /\ UNCHANGED <<vars, edge, waiting, ready, found, pending, timers, due, cbs>>

\* Scheduler::Stopping under mutex_.  If it holds the idle fiber ends.
StoppingScheduler(t) ==
  /\ At(t, "stopping")
  /\ \/ Stopping /\ Idle(t) /\ IdleGoto(t, "timers")
     \/ ~ Stopping /\ IdleGoto(t, "wait") /\ UNCHANGED vars
  /\ UNCHANGED <<edge, waiting, ready, found, pending, timers, due, cbs>>

------------------------------------------------------------------------------
(* Idle: epoll_wait and what follows *)

\* The pipe and the descriptors are edge-triggered: one thread gets to know.
EpollWait(t) ==
  /\ At(t, "wait")
  /\ edge \/ ready # {}
  /\ found' = [found EXCEPT ![t] = ready]
  /\ ready' = {}
  /\ edge' = FALSE
  /\ IdleGoto(t, "collect")
  /\ UNCHANGED <<vars, waiting, pending, timers, due, cbs>>

\* Mutant: without a timer a timeout is taken for EINTR.
EpollTimeoutRetried(t) ==
  /\ At(t, "wait")
  /\ ~ edge /\ ready = {}
  /\ IdleGoto(t, IF timers = {} THEN "wait" ELSE "collect")
  /\ UNCHANGED <<vars, edge, waiting, ready, found, pending, timers, due, cbs>>

\* After five seconds, or when the next timer is due.
EpollTimeout(t) ==
  /\ At(t, "wait")
  /\ ~ edge /\ ready = {}
  /\ IdleGoto(t, "collect")
  /\ UNCHANGED <<vars, edge, waiting, ready, found, pending, timers, due, cbs>>

\* Mutant: the timers that are not due are erased, too.
CollectExpiredErasesAll(t) ==
  /\ At(t, "collect")
  /\ cbs' = [cbs EXCEPT ![t] = due]
  /\ timers' = {}
  /\ due' = {}
  /\ IdleGoto(t, "schedule")
  /\ UNCHANGED <<vars, edge, waiting, ready, found, pending>>

CollectExpired(t) ==
  /\ At(t, "collect")
  /\ cbs' = [cbs EXCEPT ![t] = due]
  /\ timers' = timers \ due
  /\ due' = {}
  /\ IdleGoto(t, "schedule")
  /\ UNCHANGED <<vars, edge, waiting, ready, found, pending>>

\* Schedule, called on the idle fiber.
IdleSchedule(t, f, cb, tickle, next) ==
  /\ tasks' = Append(tasks, [fiber |-> f, cb |-> cb, thread |-> AnyThread])
  /\ IdleGoto(t, IF tasks = <<>> THEN tickle ELSE next)
  /\ UNCHANGED <<active_thread_count, idle_thread_count, stopping, pc, task,
                 idle_term, state, yields, tickles>>

ScheduleCbs(t) ==
  \E f \in cbs[t] :
    /\ At(t, "schedule")
    /\ IdleSchedule(t, f, TRUE, "schedule_tickle", "schedule")
    /\ cbs' = [cbs EXCEPT ![t] = @ \ {f}]
    /\ UNCHANGED <<edge, waiting, ready, found, pending, timers, due>>

ScheduledCbs(t) ==
  /\ At(t, "schedule")
  /\ cbs[t] = {}
  /\ IdleGoto(t, "trigger")
  /\ UNCHANGED <<vars, edge, waiting, ready, found, pending, timers, due, cbs>>

\* TriggerEvent under the mutex of the FdContext: the event is no longer
\* registered and its fiber goes to the task list.  The count follows.
TriggerEvent(t) ==
  \E f \in found[t] :
    /\ At(t, "trigger")
    /\ waiting' = waiting \ {f}
    /\ IdleSchedule(t, f, FALSE, "trigger_tickle", "count")
    /\ found' = [found EXCEPT ![t] = @ \ {f}]
    /\ UNCHANGED <<edge, ready, pending, timers, due, cbs>>

\* Mutant: the count stays.
CountForgotten(t) ==
  /\ At(t, "count")
  /\ IdleGoto(t, "trigger")
  /\ UNCHANGED <<vars, edge, waiting, ready, found, pending, timers, due, cbs>>

CountEvent(t) ==
  /\ At(t, "count")
  /\ pending' = pending - 1
  /\ IdleGoto(t, "trigger")
  /\ UNCHANGED <<vars, edge, waiting, ready, found, timers, due, cbs>>

IdleYield(t) ==
  /\ At(t, "trigger")
  /\ found[t] = {}
  /\ Goto(t, "idle_return")
  /\ IdleGoto(t, "timers")
  /\ UNCHANGED <<tasks, active_thread_count, idle_thread_count, stopping, task,
                 idle_term, state, yields, tickles, edge, waiting, ready, found,
                 pending, timers, due, cbs>>

------------------------------------------------------------------------------

IdleStep(t) ==
  \/ StoppingTimers(t) \/ StoppingPending(t) \/ StoppingScheduler(t)
  \/ EpollWait(t) \/ EpollTimeout(t)
  \/ CollectExpired(t) \/ ScheduleCbs(t) \/ ScheduledCbs(t)
  \/ TriggerEvent(t) \/ CountEvent(t) \/ IdleYield(t) \/ IdleTickle(t)

\* The steps of Scheduler::Run and of fiber bodies that IOManager inherits.
Inherited(t) ==
  \/ ScanTake(t) /\ UNCHANGED ioVars
  \/ ScanNothing(t) /\ UNCHANGED ioVars
  \/ ResumeTask(t) /\ UNCHANGED ioVars
  \/ TaskReturn(t) /\ UNCHANGED ioVars
  \/ ResumeIdle(t) /\ UNCHANGED ioVars
  \/ IdleReturn(t) /\ UNCHANGED ioVars
  \/ RunExit(t) /\ UNCHANGED ioVars
  \/ FiberSchedule(t) /\ UNCHANGED ioVars
  \/ FiberRequeue(t) /\ UNCHANGED ioVars
  \/ FiberYield(t) /\ UNCHANGED ioVars
  \/ FiberSwap(t) /\ UNCHANGED ioVars
  \/ FiberFinish(t) /\ UNCHANGED ioVars

IORunStep(t) ==
  \/ Inherited(t) \/ IOTickle(t) \/ FiberWait(t) \/ FiberAddTimer(t)
  \/ IdleStep(t)

IOMainStop ==
  \/ IOStopTickle
  \/ StopResume /\ UNCHANGED ioVars
  \/ StopJoin /\ UNCHANGED ioVars

\* The constructor of IOManager ends with Start().
Started == \A w \in Workers : pc[w] # "new"

IOStopped == pc[Main] = "stopped" /\ UNCHANGED allVars

IONext ==
  \/ Start /\ UNCHANGED ioVars
  \/ Started /\ MainSchedule /\ UNCHANGED ioVars
  \/ Started /\ Stop /\ UNCHANGED ioVars
  \/ IOMainStop
  \/ \E t \in Threads : IORunStep(t)
  \/ \E f \in Fibers : Ready(f) \/ Expire(f)
  \/ IOStopped

IOSpec == IOInit /\ [][IONext]_allVars

\* Threads run, epoll_wait returns after five seconds at the latest, and time
\* passes.  Stop is meant to wait for pending events, so that what it promises
\* depends on their coming.
IOFairSpec ==
  /\ IOSpec
  /\ WF_allVars(IOMainStop)
  /\ \A t \in Threads : WF_allVars(IORunStep(t))
  /\ \A f \in Fibers : WF_allVars(Expire(f)) /\ WF_allVars(Ready(f))

------------------------------------------------------------------------------
(* Properties *)

\* The variables have their types.
IOTypeOK ==
  /\ TypeOK
  /\ idle_pc \in [Threads -> IdleLabels]
  /\ edge \in BOOLEAN
  /\ waiting \subseteq Fibers
  /\ ready \subseteq waiting
  /\ found \in [Threads -> SUBSET Fibers]
  /\ pending \in Nat
  /\ timers \subseteq Fibers
  /\ due \subseteq timers
  /\ cbs \in [Threads -> SUBSET Fibers]

\* A fiber that has not ended, and the callback of a timer, is always in
\* somebody's hands: the task list, a thread, the event table, the timers or an
\* idle thread that has just collected it.  And it is there once: not on the list
\* twice, nor on the list while it is registered for an event, armed in a timer or
\* about to be scheduled by an idle thread.  The number that Stopping looks at
\* counts the fibers that wait, and goes down only after the task list has got
\* the fiber: an awaited event is never out of sight of a thread that asks
\* whether it may leave.
WorkInOnePlace ==
  /\ IOTypeOK
  /\ \A f \in Fibers :
       state[f] \in {"CB", "READY", "RUNNING"} =>
         \/ Queued(f)
         \/ f \in waiting \cup timers
         \/ \E t \in Threads : Held(t, f) \/ f \in cbs[t]
  /\ \A i \in 1..Len(tasks) :
       LET f == tasks[i].fiber
       IN /\ \A j \in 1..Len(tasks) : tasks[j].fiber = f => j = i
          /\ f \notin waiting \cup timers
          /\ \A t \in Threads : f \notin found[t] \cup cbs[t]
  /\ pending = Cardinality(waiting) +
       Cardinality({t \in Threads : idle_pc[t] \in {"trigger_tickle", "count"}})

\* When Stop has returned nothing is left, no task, no pending event and no
\* timer: "all IO events that are to be scheduled must have been executed before
\* the manager may leave" (iomanager.cc:357).
IOStopIsComplete ==
  pc[Main] = "stopped" =>
     /\ tasks = <<>>
     /\ waiting = {} /\ timers = {}
     /\ \A f \in Fibers : state[f] \in {"NONE", "TERM"}

\* The thread is blocked, and nothing but the timeout of epoll_wait or a new
\* event will wake it.
Sleeping(t) == At(t, "wait") /\ ~ edge /\ ready = {}

\* "If there is a new task the idle state should be left at once"
\* (iomanager.cc:364-365): it never happens that a task for every thread is on
\* the list while all threads that could take it sleep and none is being woken.
WokenForTasks ==
  ~ /\ \E i \in 1..Len(tasks) : \A w \in Workers : Takeable(w, tasks[i])
    /\ pc[Main] = "main"
    /\ \A w \in Workers : Sleeping(w)

\* While nobody stops the manager, every callback that was scheduled or given to
\* a timer is executed to its end, however late the wake-ups are.
IOTasksComplete ==
  \A f \in Fibers :
    state[f] = "CB" ~>
      \/ state[f] = "TERM"
      \/ stopping
      \/ \E i \in 1..Len(tasks) : tasks[i].fiber = f /\ tasks[i].thread = Main
==============================================================================
