---------------------------- MODULE TimerManager -----------------------------
(***************************************************************************)
(* Timers: serverframework/util/timer.{h,cc}.                              *)
(*                                                                         *)
(* The manager keeps the armed timers in a std::set ordered by expiry.     *)
(* Threads add, cancel, refresh and reset timers.  The threads that wait   *)
(* in IOManager::Idle, the collectors, ask for the time to the first       *)
(* expiry (GetNextTimer), sleep for that long, and then take the callbacks *)
(* that are due (ListExpiredCb).  A timer that becomes the first one has   *)
(* to wake a collector (OnTimerInsertedAtFront), at most once between two  *)
(* calls of GetNextTimer (tickled_).                                       *)
(*                                                                         *)
(* A step of the model is one critical section of mutex_ or the code       *)
(* between two of them.  In particular ListExpiredCb, and the constructor  *)
(* of Timer, read the clock before they take the lock.                     *)
(***************************************************************************)
EXTENDS Integers, FiniteSets

CONSTANTS
  Threads,     \* threads that use timers
  Collectors,  \* those of them that execute IOManager::Idle
  Timers,      \* the addresses of the Timer objects that are ever made
  NoTimer,     \* no timer at hand
  Periods,     \* bound: the values of ms
  Boot,        \* GetElapsedMS() when the manager is made
  MaxTime,     \* bound: the last reading of the clock
  Hour,        \* 60 * 60 * 1000 in DetectClockRollover
  Wrap         \* 2^64, the range of uint64_t

ASSUME TimerAssumption ==
  /\ Collectors \subseteq Threads
  /\ Timers \subseteq Nat
  /\ NoTimer \notin Timers
  /\ Periods \subseteq Nat
  /\ Boot \in Nat
  /\ MaxTime \in Nat
  /\ Hour \in Nat
  /\ Wrap \in Nat \ {0}

VARIABLES
  clock,              \* GetElapsedMS(): CLOCK_MONOTONIC_RAW
  made,               \* the Timer objects that were constructed
  next,               \* Timer::next_
  ms,                 \* Timer::ms_
  recurring,          \* Timer::recurring_
  cb,                 \* Timer::cb_ is not null
  timers,             \* timers_: entries with the expiry they are filed under
  tickled,            \* tickled_
  wake,               \* the tickle pipe has an edge that no epoll_wait took
  previous_use_time,  \* previous_use_time_
  pc,                 \* where each thread is
  arg,                \* the timer a thread is adding
  now_ms,             \* now_ms of ListExpiredCb
  deadline,           \* when a collector's sleep ends at the latest
  cbs,                \* cbs of the thread's last ListExpiredCb
  fired,              \* timers whose callback was handed out since they were
                      \* made (history)
  cancelled           \* timers whose Cancel returned true (history)

timerVars == <<made, next, ms, recurring, cb, timers>>
localVars == <<pc, arg, now_ms, deadline, cbs>>
vars == <<clock, timerVars, tickled, wake, previous_use_time, localVars, fired,
          cancelled>>

Forever == Wrap - 1   \* ~0ull: there is no timer

Labels ==
  { "ready",   \* in user code, or in the scheduling loop
    "insert",  \* AddTimer, after the constructor of Timer
    "front",   \* AddTimer, before OnTimerInsertedAtFront
    "idle",    \* IOManager::Idle, before GetNextTimer
    "wait",    \* in epoll_wait
    "list",    \* ListExpiredCb, before it looks whether timers_ is empty
    "collect", \* ListExpiredCb, before it takes the write lock
    "leave" }  \* IOManager::Idle has yielded

Entry(x) == [key |-> next[x], timer |-> x]

\* Timer::Comparator: by expiry, then by address.
Comparator(a, b) ==
  a.key < b.key \/ (a.key = b.key /\ a.timer < b.timer)

\* e would be timers_.begin() if the set held e and S.
First(e, S) == \A d \in S \ {e} : Comparator(e, d)

Init ==
  /\ clock = Boot
  /\ made = {}
  /\ next = [x \in Timers |-> 0]
  /\ ms = [x \in Timers |-> 0]
  /\ recurring = [x \in Timers |-> FALSE]
  /\ cb = [x \in Timers |-> FALSE]
  /\ timers = {}
  /\ tickled = FALSE
  /\ wake = FALSE
  /\ previous_use_time = Boot
  /\ pc = [t \in Threads |-> "ready"]
  /\ arg = [t \in Threads |-> NoTimer]
  /\ now_ms = [t \in Threads |-> 0]
  /\ deadline = [t \in Threads |-> 0]
  /\ cbs = [t \in Threads |-> {}]
  /\ fired = {}
  /\ cancelled = {}

Tick ==
  /\ clock < MaxTime
  /\ clock' = clock + 1
  /\ UNCHANGED <<timerVars, tickled, wake, previous_use_time, localVars,
                 fired, cancelled>>

------------------------------------------------------------------------------
(* AddTimer *)

\* The constructor computes the expiry before the manager is locked.
NewTimer(t) ==
  /\ pc[t] = "ready"
  /\ \E x \in Timers \ made, m \in Periods, r \in BOOLEAN :
       /\ made' = made \cup {x}
       /\ next' = [next EXCEPT ![x] = clock + m]
       /\ ms' = [ms EXCEPT ![x] = m]
       /\ recurring' = [recurring EXCEPT ![x] = r]
       /\ cb' = [cb EXCEPT ![x] = TRUE]
       /\ arg' = [arg EXCEPT ![t] = x]
  /\ pc' = [pc EXCEPT ![t] = "insert"]
  /\ UNCHANGED <<clock, timers, tickled, wake, previous_use_time, now_ms,
                 deadline, cbs, fired, cancelled>>

\* AddTimer(val, lock): e joins the entries S.  The first timer calls
\* OnTimerInsertedAtFront after the unlock, unless a call was made already.
AddTimer(t, e, S) ==
  LET at_front == ~ tickled /\ First(e, S)
  IN /\ timers' = S \cup {e}
     /\ tickled' = (tickled \/ at_front)
     /\ pc' = [pc EXCEPT ![t] = IF at_front THEN "front" ELSE "ready"]

InsertTimer(t) ==
  /\ pc[t] = "insert"
  /\ AddTimer(t, Entry(arg[t]), timers)
  /\ arg' = [arg EXCEPT ![t] = IF pc'[t] = "front" THEN @ ELSE NoTimer]
  /\ UNCHANGED <<clock, made, next, ms, recurring, cb, wake,
                 previous_use_time, now_ms, deadline, cbs, fired, cancelled>>

\* IOManager's Tickle writes to the pipe if idle_thread_count_ is not zero; it
\* counts the threads in Idle.
HasIdleThreads ==
  \E t \in Collectors : pc[t] \in {"idle", "wait", "list", "collect", "leave"}

OnTimerInsertedAtFront(t) ==
  /\ pc[t] = "front"
  /\ wake' = (wake \/ HasIdleThreads)
  /\ pc' = [pc EXCEPT ![t] = "ready"]
  /\ arg' = [arg EXCEPT ![t] = NoTimer]
  /\ UNCHANGED <<clock, timerVars, tickled, previous_use_time, now_ms,
                 deadline, cbs, fired, cancelled>>

------------------------------------------------------------------------------
(* Operations on a timer: AddTimer has returned it to the user. *)

Returned(x) == x \in made /\ \A t \in Threads : arg[t] # x

\* Mutant: the entry stays in the set.
CancelKeepsEntry(t, x) ==
  /\ pc[t] = "ready"
  /\ Returned(x)
  /\ cb[x]
  /\ cb' = [cb EXCEPT ![x] = FALSE]
  /\ cancelled' = cancelled \cup {x}
  /\ UNCHANGED <<clock, made, next, ms, recurring, timers, tickled, wake,
                 previous_use_time, localVars, fired>>

\* Nothing happens to a timer without a callback.  With one, erase(it) needs
\* an entry: find is not checked (see CancelFindsTimer).
Cancel(t, x) ==
  /\ pc[t] = "ready"
  /\ Returned(x)
  /\ cb[x]
  /\ cb' = [cb EXCEPT ![x] = FALSE]
  /\ timers' = timers \ {Entry(x)}
  /\ cancelled' = cancelled \cup {x}
  /\ UNCHANGED <<clock, made, next, ms, recurring, tickled, wake,
                 previous_use_time, localVars, fired>>

\* Mutant: the entry is not filed anew.
RefreshInPlace(t, x) ==
  /\ pc[t] = "ready"
  /\ Returned(x)
  /\ cb[x] /\ Entry(x) \in timers
  /\ next' = [next EXCEPT ![x] = clock + ms[x]]
  /\ UNCHANGED <<clock, made, ms, recurring, cb, timers, tickled, wake,
                 previous_use_time, localVars, fired, cancelled>>

\* The timer starts anew.  Nobody is woken.
Refresh(t, x) ==
  /\ pc[t] = "ready"
  /\ Returned(x)
  /\ cb[x] /\ Entry(x) \in timers
  /\ next' = [next EXCEPT ![x] = clock + ms[x]]
  /\ timers' = (timers \ {Entry(x)}) \cup {Entry(x)'}
  /\ UNCHANGED <<clock, made, ms, recurring, cb, tickled, wake,
                 previous_use_time, localVars, fired, cancelled>>

\* The test for an unchanged period reads ms_ without the lock, so that it may
\* be out of date; a reset that it ends changes nothing.
Reset(t, x) ==
  /\ pc[t] = "ready"
  /\ Returned(x)
  /\ cb[x] /\ Entry(x) \in timers
  /\ \E m \in Periods, from_now \in BOOLEAN :
       /\ ms' = [ms EXCEPT ![x] = m]
       /\ next' = [next EXCEPT
                     ![x] = (IF from_now THEN clock ELSE @ - ms[x]) + m]
  /\ AddTimer(t, Entry(x)', timers \ {Entry(x)})
  /\ UNCHANGED <<clock, made, recurring, cb, wake, previous_use_time, arg,
                 now_ms, deadline, cbs, fired, cancelled>>

------------------------------------------------------------------------------
(* The collectors *)

\* The sleep of t ends with the first expiry, at once if that is past.
SetDeadline(t) ==
  \/ /\ timers = {}
     /\ deadline' = [deadline EXCEPT ![t] = Forever]
  \/ \E e \in timers :
       /\ First(e, timers)
       /\ deadline' = [deadline EXCEPT
                         ![t] = IF clock >= e.key THEN clock ELSE e.key]

\* Run counts the thread as idle and resumes IOManager::Idle, ...
EnterIdle(t) ==
  /\ pc[t] = "ready"
  /\ pc' = [pc EXCEPT ![t] = "idle"]
  /\ UNCHANGED <<clock, timerVars, tickled, wake, previous_use_time, arg,
                 now_ms, deadline, cbs, fired, cancelled>>

\* Mutant: tickled_ stays set.
GetNextTimerKeepsTickled(t) ==
  /\ pc[t] = "idle"
  /\ SetDeadline(t)
  /\ pc' = [pc EXCEPT ![t] = "wait"]
  /\ UNCHANGED <<clock, timerVars, tickled, wake, previous_use_time, arg,
                 now_ms, cbs, fired, cancelled>>

\* ... which asks how long it may sleep, and sleeps.
GetNextTimer(t) ==
  /\ pc[t] = "idle"
  /\ tickled' = FALSE
  /\ SetDeadline(t)
  /\ pc' = [pc EXCEPT ![t] = "wait"]
  /\ UNCHANGED <<clock, timerVars, wake, previous_use_time, arg, now_ms, cbs,
                 fired, cancelled>>

\* The sleep ends: with the deadline, after at most 5 s, or earlier by an event
\* or a wake-up.  The pipe is edge-triggered, so that one epoll_wait takes the
\* wake-up.  ListExpiredCb reads the clock first.
Wake(t) ==
  /\ pc[t] = "wait"
  /\ wake' = FALSE
  /\ now_ms' = [now_ms EXCEPT ![t] = clock]
  /\ cbs' = [cbs EXCEPT ![t] = {}]
  /\ deadline' = [deadline EXCEPT ![t] = 0]
  /\ pc' = [pc EXCEPT ![t] = "list"]
  /\ UNCHANGED <<clock, timerVars, tickled, previous_use_time, arg, fired,
                 cancelled>>

\* Under the read lock.
ListIsEmpty(t) ==
  /\ pc[t] = "list"
  /\ pc' = [pc EXCEPT ![t] = IF timers = {} THEN "leave" ELSE "collect"]
  /\ UNCHANGED <<clock, timerVars, tickled, wake, previous_use_time, arg,
                 now_ms, deadline, cbs, fired, cancelled>>

\* The subtraction is one of unsigned integers.
DetectClockRollover(now) ==
  /\ now < previous_use_time
  /\ now < (previous_use_time - Hour) % Wrap

\* Mutant: one millisecond too early.
ExpiredTooEarly(now) == {e \in timers : e.key <= now + 1}

\* lower_bound and the loop behind it take all entries that are due.
Expired(now) ==
  IF DetectClockRollover(now) THEN timers ELSE {e \in timers : e.key <= now}

\* Under the write lock: the timers that are due leave the set, a recurring one
\* comes back with a new expiry, the others lose their callback.
ListExpiredCb(t) ==
  LET now == now_ms[t]
      out == {e.timer : e \in Expired(now)}
      again == {x \in out : recurring[x]}
  IN /\ pc[t] = "collect"
     /\ timers # {}
     /\ previous_use_time' = now
     /\ next' = [x \in Timers |-> IF x \in again THEN now + ms[x] ELSE next[x]]
     /\ timers' = (timers \ Expired(now)) \cup {Entry(x)' : x \in again}
     /\ cb' = [x \in Timers |-> cb[x] /\ x \notin out \ again]
     /\ cbs' = [cbs EXCEPT ![t] = out]
     /\ fired' = fired \cup out
     /\ pc' = [pc EXCEPT ![t] = "leave"]
     /\ UNCHANGED <<clock, made, ms, recurring, tickled, wake, arg, now_ms,
                    deadline, cancelled>>

\* The set was emptied between the two locks.
ListExpiredCbEmpty(t) ==
  /\ pc[t] = "collect"
  /\ timers = {}
  /\ pc' = [pc EXCEPT ![t] = "leave"]
  /\ UNCHANGED <<clock, timerVars, tickled, wake, previous_use_time, arg,
                 now_ms, deadline, cbs, fired, cancelled>>

\* Run takes the thread out of the idle count.
LeaveIdle(t) ==
  /\ pc[t] = "leave"
  /\ pc' = [pc EXCEPT ![t] = "ready"]
  /\ UNCHANGED <<clock, timerVars, tickled, wake, previous_use_time, arg, now_ms,
                 deadline, cbs, fired, cancelled>>

------------------------------------------------------------------------------

UserStep(t) ==
  \/ NewTimer(t) \/ InsertTimer(t) \/ OnTimerInsertedAtFront(t)
  \/ \E x \in Timers : Cancel(t, x) \/ Refresh(t, x) \/ Reset(t, x)

CollectorStep(t) ==
  \/ EnterIdle(t) \/ GetNextTimer(t) \/ Wake(t) \/ ListIsEmpty(t)
  \/ ListExpiredCb(t) \/ ListExpiredCbEmpty(t) \/ LeaveIdle(t)

Next ==
  \/ Tick
  \/ \E t \in Threads : UserStep(t)
  \/ \E t \in Collectors : CollectorStep(t)

Spec == Init /\ [][Next]_vars

------------------------------------------------------------------------------
(* Properties *)

\* The variables have their types.
TypeOK ==
  /\ clock \in Nat
  /\ made \subseteq Timers
  /\ next \in [Timers -> Nat]
  /\ ms \in [Timers -> Nat]
  /\ recurring \in [Timers -> BOOLEAN]
  /\ cb \in [Timers -> BOOLEAN]
  /\ timers \subseteq [key : Nat, timer : Timers]
  /\ tickled \in BOOLEAN
  /\ wake \in BOOLEAN
  /\ previous_use_time \in Nat
  /\ pc \in [Threads -> Labels]
  /\ arg \in [Threads -> Timers \cup {NoTimer}]
  /\ now_ms \in [Threads -> Nat]
  /\ deadline \in [Threads -> Nat]
  /\ cbs \in [Threads -> SUBSET Timers]
  /\ fired \subseteq Timers
  /\ cancelled \subseteq Timers

\* A timer that the user holds has a callback if and only if the set has an
\* entry for it, under its present expiry.  Cancel (timer.cc:40-41) erases what
\* find returned without a look at it, which is sound only for this reason, and
\* Refresh and reset rely on it for their answer.
CancelFindsTimer ==
  /\ \A x \in Timers : Returned(x) => (cb[x] <=> Entry(x) \in timers)
  /\ \A e \in timers : e = Entry(e.timer)

\* A callback is handed out at most once for a timer that is not recurring, and
\* never after a Cancel that returned true: of a Cancel and a ListExpiredCb that
\* race, exactly one wins.
HandedOutOnce ==
  [][\A t \in Threads :
       cbs'[t] # cbs[t] =>
         \A x \in cbs'[t] :
           x \notin cancelled /\ (recurring[x] \/ x \notin fired)]_vars

\* No callback is handed out before its expiry.
NeverEarly ==
  [][\A t \in Threads :
       cbs'[t] # cbs[t] => \A x \in cbs'[t] : next[x] <= clock]_vars

\* A timer was armed no later than now and expires no later than a full period
\* from now, so that Refresh never brings an expiry forward: it is sound that
\* Refresh (timer.cc:56-58) wakes nobody.
ArmedInThePast ==
  \A x \in made : ms[x] <= next[x] /\ next[x] <= clock + ms[x]

\* Collector t sleeps past the first expiry.
Oversleeps(t) ==
  /\ pc[t] = "wait"
  /\ deadline[t] > clock
  /\ \E e \in timers : deadline[t] > e.key

\* What OnTimerInsertedAtFront is for (iomanager.h:174): while a collector sleeps
\* past the first expiry, a wake-up is in the pipe, or a thread is about to send
\* one, or another collector is in Idle and will be in time.
SleeperKnowsFront ==
  \A t \in Collectors :
    Oversleeps(t) =>
      \/ wake
      \/ \E u \in Threads : pc[u] = "front"
      \/ \E u \in Collectors :
           pc[u] \in {"idle", "wait", "list", "collect"} /\ ~ Oversleeps(u)
==============================================================================
