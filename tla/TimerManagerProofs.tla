------------------------- MODULE TimerManagerProofs --------------------------
(***************************************************************************)
(* Proofs about TimerManager, for every set of threads and timers, every   *)
(* set of periods and every length of the run.                             *)
(*                                                                         *)
(* TimerInv says what the set and the timers have to do with each other,   *)
(* and holds for any number of collectors.  SoleInv is about the one       *)
(* collector of an IOManager with a single thread.                         *)
(***************************************************************************)
EXTENDS TimerManager, TLAPS

\* Most leaves are first-order logic over sets and functions.  Those that need
\* arithmetic name the SMT solver.
USE ZenonT(30)

\* AddTimer of some thread has made x and not filed it yet.
Inserting(x) == \E t \in Threads : pc[t] = "insert" /\ arg[t] = x

\* What a thread knows of the timer it adds, which nobody else adds.
ArgInv ==
  /\ \A t \in Threads :
       arg[t] # NoTimer => arg[t] \in made /\ pc[t] \in {"insert", "front"}
  /\ \A t \in Threads : pc[t] = "insert" => arg[t] # NoTimer
  /\ \A t, u \in Threads : arg[t] = arg[u] /\ arg[t] # NoTimer => t = u

\* Entries are filed under the present expiry, and have a callback to hand out.
FiledInv ==
  \A e \in timers :
    /\ e = Entry(e.timer)
    /\ e.timer \in made
    /\ cb[e.timer]
    /\ ~ Inserting(e.timer)

\* A timer with a callback is filed or about to be.
CallbackInv ==
  \A x \in made :
    /\ Inserting(x) => cb[x]
    /\ cb[x] => Entry(x) \in timers \/ Inserting(x)

\* A callback that is left was not cancelled, nor handed out for good.
HistoryInv ==
  /\ \A x \in made : cb[x] => x \notin cancelled /\ (recurring[x] \/ x \notin fired)
  /\ fired \subseteq made
  /\ cancelled \subseteq made

\* Readings of the clock are not from the future.
ClockInv == previous_use_time <= clock /\ \A t \in Threads : now_ms[t] <= clock

TimerInv ==
  /\ TypeOK /\ ArmedInThePast
  /\ ArgInv /\ FiledInv /\ CallbackInv /\ HistoryInv /\ ClockInv

\* There is at most one collector.
SoleCollector == \A t, u \in Collectors : t = u

\* The last use of the clock was the collector's own.
OwnUse ==
  \A t \in Collectors :
    pc[t] \in {"list", "collect"} => previous_use_time <= now_ms[t]

\* tickled_ means to a sleeper that a wake-up is on its way.
OnItsWay == wake \/ \E u \in Threads : pc[u] = "front"

TickledInv == \A t \in Collectors : pc[t] = "wait" /\ tickled => OnItsWay

SleepInv == \A t \in Collectors : Oversleeps(t) => OnItsWay

SoleInv == OwnUse /\ TickledInv /\ SleepInv
------------------------------------------------------------------------------
(* TimerInv *)

\* The manager starts with no timer.
LEMMA InitTimer ==
  ASSUME Init
  PROVE  TimerInv
<1> USE TimerAssumption DEF Init
<1>1. TypeOK
  BY DEF TypeOK, Labels
<1>2. ArmedInThePast
  BY DEF TypeOK, ArmedInThePast
<1>3. ArgInv
  BY DEF TypeOK, ArgInv
<1>4. FiledInv
  BY DEF TypeOK, FiledInv, Inserting, Entry
<1>5. CallbackInv
  BY DEF TypeOK, CallbackInv, Inserting, Entry
<1>6. HistoryInv
  BY DEF TypeOK, HistoryInv
<1>7. ClockInv
  BY SMTT(30) DEF TypeOK, ClockInv
<1> QED BY <1>1, <1>2, <1>3, <1>4, <1>5, <1>6, <1>7 DEF TimerInv

\* Time passes.
LEMMA TickStep ==
  ASSUME TimerInv, Tick
  PROVE  TimerInv'
<1> USE TimerAssumption DEF Tick, timerVars, localVars
<1>1. TypeOK'
  BY SMTT(30) DEF TimerInv, TypeOK, Labels
<1>2. ArmedInThePast'
  BY SMTT(30) DEF TimerInv, TypeOK, ArmedInThePast
<1>3. ArgInv'
  BY DEF TimerInv, TypeOK, ArgInv
<1>4. FiledInv'
  BY DEF TimerInv, TypeOK, FiledInv, Inserting, Entry
<1>5. CallbackInv'
  BY DEF TimerInv, TypeOK, CallbackInv, Inserting, Entry
<1>6. HistoryInv'
  BY DEF TimerInv, TypeOK, HistoryInv
<1>7. ClockInv'
  BY SMTT(30) DEF TimerInv, TypeOK, ClockInv
<1> QED BY <1>1, <1>2, <1>3, <1>4, <1>5, <1>6, <1>7 DEF TimerInv

\* The constructor of Timer.
LEMMA NewTimerStep ==
  ASSUME NEW t \in Threads, TimerInv, NewTimer(t)
  PROVE  TimerInv'
<1> USE TimerAssumption
<1>0. PICK x \in Timers \ made, m \in Periods, r \in BOOLEAN :
        /\ made' = made \cup {x}
        /\ next' = [next EXCEPT ![x] = clock + m]
        /\ ms' = [ms EXCEPT ![x] = m]
        /\ recurring' = [recurring EXCEPT ![x] = r]
        /\ cb' = [cb EXCEPT ![x] = TRUE]
        /\ arg' = [arg EXCEPT ![t] = x]
  BY DEF NewTimer
<1>a. /\ pc[t] = "ready"
      /\ pc' = [pc EXCEPT ![t] = "insert"]
      /\ UNCHANGED <<clock, timers, tickled, wake, previous_use_time, now_ms,
                     deadline, cbs, fired, cancelled>>
  BY DEF NewTimer
<1>b. m \in Nat /\ x \in Timers /\ x \notin made
  OBVIOUS
<1>1. TypeOK'
  BY <1>0, <1>a, <1>b, SMTT(30) DEF TimerInv, TypeOK, Labels
<1>2. ArmedInThePast'
  BY <1>0, <1>a, <1>b, SMTT(30) DEF TimerInv, TypeOK, ArmedInThePast
<1>3. ArgInv'
  BY <1>0, <1>a, <1>b DEF TimerInv, TypeOK, ArgInv
<1>4. FiledInv'
  BY <1>0, <1>a, <1>b, SMTT(30) DEF TimerInv, TypeOK, FiledInv, Inserting, Entry
<1>5. CallbackInv'
  <2> SUFFICES ASSUME NEW y \in made'
               PROVE  (/\ Inserting(y) => cb[y]
                       /\ cb[y] => Entry(y) \in timers \/ Inserting(y))'
    BY DEF CallbackInv
  <2>1. CASE y = x
    BY <2>1, <1>0, <1>a, <1>b DEF TimerInv, TypeOK, Inserting
  <2>2. CASE y # x
    <3>1. y \in made /\ y \in Timers /\ cb'[y] = cb[y] /\ Entry(y)' = Entry(y)
      BY <2>2, <1>0, <1>a, <1>b DEF TimerInv, TypeOK, Entry
    <3>2. Inserting(y)' <=> Inserting(y)
      BY <2>2, <1>0, <1>a, <1>b DEF TimerInv, TypeOK, Inserting
    <3> QED BY <3>1, <3>2, <1>a DEF TimerInv, CallbackInv
  <2> QED BY <2>1, <2>2
<1>6. HistoryInv'
  BY <1>0, <1>a, <1>b DEF TimerInv, TypeOK, HistoryInv
<1>7. ClockInv'
  BY <1>0, <1>a, <1>b DEF TimerInv, TypeOK, ClockInv
<1> QED BY <1>1, <1>2, <1>3, <1>4, <1>5, <1>6, <1>7 DEF TimerInv

\* AddTimer files the new timer.
LEMMA InsertTimerStep ==
  ASSUME NEW t \in Threads, TimerInv, InsertTimer(t)
  PROVE  TimerInv'
<1> USE TimerAssumption DEF InsertTimer, AddTimer
<1>a. arg[t] \in made /\ arg[t] \in Timers /\ arg[t] # NoTimer /\ cb[arg[t]]
  BY DEF TimerInv, TypeOK, ArgInv, CallbackInv, Inserting
<1>b. Entry(arg[t]) \in [key : Nat, timer : Timers]
  BY <1>a DEF TimerInv, TypeOK, Entry
<1>c. pc'[t] \in {"front", "ready"} /\ pc' = [pc EXCEPT ![t] = pc'[t]]
  BY DEF TimerInv, TypeOK
<1>d. timers' = timers \cup {Entry(arg[t])}
  OBVIOUS
<1>e. \A y \in Timers : Entry(y)' = Entry(y)
  BY DEF Entry
<1>f. \A y \in Timers : Inserting(y)' <=> Inserting(y) /\ y # arg[t]
  BY <1>a, <1>c, SMTT(30) DEF TimerInv, TypeOK, ArgInv, Inserting
<1>1. TypeOK'
  BY <1>b, <1>c DEF TimerInv, TypeOK, Labels
<1>2. ArmedInThePast'
  BY DEF TimerInv, TypeOK, ArmedInThePast
<1>3. ArgInv'
  BY <1>c DEF TimerInv, TypeOK, ArgInv
<1>4. FiledInv'
  <2> SUFFICES ASSUME NEW e \in timers'
               PROVE  (/\ e = Entry(e.timer)
                       /\ e.timer \in made
                       /\ cb[e.timer]
                       /\ ~ Inserting(e.timer))'
    BY DEF FiledInv
  <2>1. CASE e = Entry(arg[t])
    <3>1. e.timer = arg[t]
      BY <2>1 DEF Entry
    <3> QED BY <2>1, <3>1, <1>a, <1>e, <1>f
  <2>2. CASE e \in timers
    <3>1. e.timer \in Timers
      BY <2>2 DEF TimerInv, TypeOK
    <3> QED BY <2>2, <3>1, <1>e, <1>f DEF TimerInv, FiledInv
  <2> QED BY <2>1, <2>2, <1>d
<1>5. CallbackInv'
  BY <1>a, <1>d, <1>e, <1>f DEF TimerInv, TypeOK, CallbackInv
<1>6. HistoryInv'
  BY DEF TimerInv, TypeOK, HistoryInv
<1>7. ClockInv'
  BY DEF TimerInv, TypeOK, ClockInv
<1> QED BY <1>1, <1>2, <1>3, <1>4, <1>5, <1>6, <1>7 DEF TimerInv

\* OnTimerInsertedAtFront touches no timer.
LEMMA FrontStep ==
  ASSUME NEW t \in Threads, TimerInv, OnTimerInsertedAtFront(t)
  PROVE  TimerInv'
<1> USE TimerAssumption DEF OnTimerInsertedAtFront, timerVars
<1>1. TypeOK'
  BY DEF TimerInv, TypeOK, Labels
<1>2. ArmedInThePast'
  BY DEF TimerInv, TypeOK, ArmedInThePast
<1>3. ArgInv'
  BY DEF TimerInv, TypeOK, ArgInv
<1>4. FiledInv'
  BY DEF TimerInv, TypeOK, FiledInv, Inserting, Entry
<1>5. CallbackInv'
  BY DEF TimerInv, TypeOK, CallbackInv, Inserting, Entry
<1>6. HistoryInv'
  BY DEF TimerInv, TypeOK, HistoryInv
<1>7. ClockInv'
  BY DEF TimerInv, TypeOK, ClockInv
<1> QED BY <1>1, <1>2, <1>3, <1>4, <1>5, <1>6, <1>7 DEF TimerInv

\* Cancel takes callback and entry away together.
LEMMA CancelStep ==
  ASSUME NEW t \in Threads, NEW x \in Timers, TimerInv, Cancel(t, x)
  PROVE  TimerInv'
<1> USE TimerAssumption DEF Cancel, Returned, localVars
<1>1. TypeOK'
  BY DEF TimerInv, TypeOK, Labels
<1>2. ArmedInThePast'
  BY DEF TimerInv, TypeOK, ArmedInThePast
<1>3. ArgInv'
  BY DEF TimerInv, TypeOK, ArgInv
<1>4. FiledInv'
  BY DEF TimerInv, TypeOK, FiledInv, Inserting, Entry
<1>5. CallbackInv'
  BY SMTT(30) DEF TimerInv, TypeOK, CallbackInv, Inserting, Entry
<1>6. HistoryInv'
  BY DEF TimerInv, TypeOK, HistoryInv
<1>7. ClockInv'
  BY DEF TimerInv, TypeOK, ClockInv
<1> QED BY <1>1, <1>2, <1>3, <1>4, <1>5, <1>6, <1>7 DEF TimerInv

\* Refresh files the timer anew.
LEMMA RefreshStep ==
  ASSUME NEW t \in Threads, NEW x \in Timers, TimerInv, Refresh(t, x)
  PROVE  TimerInv'
<1> USE TimerAssumption DEF Refresh, Returned, localVars
<1>a. next' \in [Timers -> Nat] /\ ms' \in [Timers -> Nat]
  BY SMTT(30) DEF TimerInv, TypeOK, ArmedInThePast
<1>b. Entry(x)' \in [key : Nat, timer : Timers]
  BY <1>a DEF Entry
<1>1. TypeOK'
  BY <1>a, <1>b DEF TimerInv, TypeOK, Labels
<1>2. ArmedInThePast'
  BY SMTT(30) DEF TimerInv, TypeOK, ArmedInThePast
<1>3. ArgInv'
  BY DEF TimerInv, TypeOK, ArgInv
<1>4. FiledInv'
  BY SMTT(30) DEF TimerInv, TypeOK, FiledInv, Inserting, Entry
<1>5. CallbackInv'
  BY DEF TimerInv, TypeOK, CallbackInv, Inserting, Entry
<1>6. HistoryInv'
  BY DEF TimerInv, TypeOK, HistoryInv
<1>7. ClockInv'
  BY DEF TimerInv, TypeOK, ClockInv
<1> QED BY <1>1, <1>2, <1>3, <1>4, <1>5, <1>6, <1>7 DEF TimerInv

\* reset files the timer anew, under another period.
LEMMA ResetStep ==
  ASSUME NEW t \in Threads, NEW x \in Timers, TimerInv, Reset(t, x)
  PROVE  TimerInv'
<1> USE TimerAssumption DEF Reset, Returned, AddTimer
<1>a. next' \in [Timers -> Nat] /\ ms' \in [Timers -> Nat]
  BY SMTT(30) DEF TimerInv, TypeOK, ArmedInThePast
<1>b. Entry(x)' \in [key : Nat, timer : Timers]
  BY <1>a DEF Entry
<1>1. TypeOK'
  BY <1>a, <1>b DEF TimerInv, TypeOK, Labels
<1>2. ArmedInThePast'
  BY SMTT(30) DEF TimerInv, TypeOK, ArmedInThePast
<1>3. ArgInv'
  BY SMTT(30) DEF TimerInv, TypeOK, ArgInv
<1>4. FiledInv'
  BY SMTT(30) DEF TimerInv, TypeOK, FiledInv, Inserting, Entry
<1>5. CallbackInv'
  BY SMTT(30) DEF TimerInv, TypeOK, CallbackInv, Inserting, Entry
<1>6. HistoryInv'
  BY DEF TimerInv, TypeOK, HistoryInv
<1>7. ClockInv'
  BY DEF TimerInv, TypeOK, ClockInv
<1> QED BY <1>1, <1>2, <1>3, <1>4, <1>5, <1>6, <1>7 DEF TimerInv

\* ListExpiredCb takes the expired timers out.
LEMMA ListExpiredStep ==
  ASSUME NEW t \in Threads, TimerInv, ListExpiredCb(t)
  PROVE  TimerInv'
<1> USE TimerAssumption
<1>0. PICK now \in Nat : now = now_ms[t]
  BY DEF TimerInv, TypeOK
<1>a. PICK gone \in SUBSET timers : gone = Expired(now)
  BY DEF Expired
<1>b. PICK out \in SUBSET Timers : out = {e.timer : e \in gone}
  <2>1. \A e \in gone : e.timer \in Timers
    BY DEF TimerInv, TypeOK
  <2>2. {e.timer : e \in gone} \in SUBSET Timers
    BY <2>1
  <2> QED BY <2>2
<1>c. PICK again \in SUBSET out : again = {x \in out : recurring[x]}
  OBVIOUS
<1>d. /\ pc[t] = "collect"
      /\ previous_use_time' = now
      /\ next' = [x \in Timers |-> IF x \in again THEN now + ms[x] ELSE next[x]]
      /\ timers' = (timers \ gone) \cup {Entry(x)' : x \in again}
      /\ cb' = [x \in Timers |-> cb[x] /\ x \notin out \ again]
      /\ cbs' = [cbs EXCEPT ![t] = out]
      /\ fired' = fired \cup out
      /\ pc' = [pc EXCEPT ![t] = "leave"]
      /\ UNCHANGED <<clock, made, ms, recurring, tickled, wake, arg, now_ms,
                     deadline, cancelled>>
  BY <1>0, <1>a, <1>b, <1>c DEF ListExpiredCb
<1>e. now <= clock
  BY <1>0 DEF TimerInv, ClockInv
<1>f. \A x \in out : x \in made /\ cb[x] /\ ~ Inserting(x) /\ Entry(x) \in gone
  BY <1>b DEF TimerInv, FiledInv
<1>g. \A x \in Timers : Inserting(x)' <=> Inserting(x)
  BY <1>d DEF TimerInv, TypeOK, Inserting
<1>h. \A x \in Timers : x \notin again => Entry(x)' = Entry(x)
  BY <1>d DEF Entry
<1>i. \A e \in timers \ gone : e.timer \notin out
  BY <1>f DEF TimerInv, FiledInv
<1>j. next' \in [Timers -> Nat]
  BY <1>d, SMTT(30) DEF TimerInv, TypeOK
<1>1. TypeOK'
  <2>1. timers' \subseteq [key : Nat, timer : Timers]
    BY <1>d, <1>j, SMTT(30) DEF TimerInv, TypeOK, Entry
  <2>2. cb' \in [Timers -> BOOLEAN]
    BY <1>d DEF TimerInv, TypeOK
  <2> QED BY <2>1, <2>2, <1>d, <1>j DEF TimerInv, TypeOK, Labels
<1>2. ArmedInThePast'
  BY <1>d, <1>e, <1>j, SMTT(30) DEF TimerInv, TypeOK, ArmedInThePast
<1>3. ArgInv'
  BY <1>d DEF TimerInv, TypeOK, ArgInv
<1>4. FiledInv'
  <2> SUFFICES ASSUME NEW e \in timers'
               PROVE  (/\ e = Entry(e.timer)
                       /\ e.timer \in made
                       /\ cb[e.timer]
                       /\ ~ Inserting(e.timer))'
    BY DEF FiledInv
  <2>1. CASE e \in timers \ gone
    <3>1. e.timer \in Timers /\ e.timer \notin out
      BY <2>1, <1>i DEF TimerInv, TypeOK
    <3>2. Entry(e.timer)' = Entry(e.timer)
      BY <3>1, <1>h
    <3>3. cb'[e.timer] = cb[e.timer]
      BY <3>1, <1>d DEF TimerInv, TypeOK
    <3> QED BY <2>1, <3>1, <3>2, <3>3, <1>d, <1>g DEF TimerInv, FiledInv
  <2>2. CASE e \notin timers \ gone
    <3>1. PICK x \in again : e = Entry(x)'
      BY <2>2, <1>d
    <3>2. e.timer = x /\ x \in Timers /\ x \in out
      BY <3>1 DEF Entry
    <3>3. cb'[x]
      BY <3>1, <3>2, <1>f, <1>d
    <3> QED BY <3>1, <3>2, <3>3, <1>f, <1>d, <1>g
  <2> QED BY <2>1, <2>2
<1>5. CallbackInv'
  <2> SUFFICES ASSUME NEW x \in made
               PROVE  (/\ Inserting(x) => cb[x]
                       /\ cb[x] => Entry(x) \in timers \/ Inserting(x))'
    BY <1>d DEF CallbackInv
  <2>0. x \in Timers
    BY DEF TimerInv, TypeOK
  <2>1. CASE x \in again
    <3>1. Entry(x)' \in timers'
      BY <2>1, <1>d
    <3>2. ~ Inserting(x)'
      BY <2>0, <2>1, <1>f, <1>g
    <3> QED BY <3>1, <3>2
  <2>2. CASE x \in out \ again
    <3>1. ~ cb'[x]
      BY <2>0, <2>2, <1>d
    <3>2. ~ Inserting(x)'
      BY <2>0, <2>2, <1>f, <1>g
    <3> QED BY <3>1, <3>2
  <2>3. CASE x \notin out
    <3>1. cb'[x] = cb[x] /\ Entry(x)' = Entry(x)
      BY <2>0, <2>3, <1>d, <1>h DEF TimerInv, TypeOK
    <3>2. Entry(x) \notin gone
      BY <2>3, <1>b, SMTT(30) DEF Entry
    <3> QED BY <2>0, <3>1, <3>2, <1>d, <1>g DEF TimerInv, CallbackInv
  <2> QED BY <2>1, <2>2, <2>3
<1>6. HistoryInv'
  <2>1. \A x \in made : cb'[x] => x \notin cancelled /\ (recurring[x] \/ x \notin fired')
    <3> SUFFICES ASSUME NEW x \in made, cb'[x]
                 PROVE  x \notin cancelled /\ (recurring[x] \/ x \notin fired')
      OBVIOUS
    <3>1. x \in Timers /\ cb[x] /\ x \notin out \ again
      BY <1>d DEF TimerInv, TypeOK
    <3> QED BY <3>1, <1>c, <1>d DEF TimerInv, HistoryInv
  <2> QED BY <2>1, <1>f, <1>d DEF TimerInv, HistoryInv
<1>7. ClockInv'
  BY <1>d, <1>e DEF TimerInv, TypeOK, ClockInv
<1> QED BY <1>1, <1>2, <1>3, <1>4, <1>5, <1>6, <1>7 DEF TimerInv

\* The other steps of a collector touch no timer.
LEMMA CollectorStepRest ==
  ASSUME NEW t \in Threads, TimerInv,
         \/ EnterIdle(t) \/ GetNextTimer(t) \/ Wake(t) \/ ListIsEmpty(t)
         \/ ListExpiredCbEmpty(t) \/ LeaveIdle(t)
  PROVE  TimerInv'
<1> USE TimerAssumption
<1>1. UNCHANGED <<clock, timerVars, previous_use_time, arg, fired, cancelled>>
  BY DEF EnterIdle, GetNextTimer, Wake, ListIsEmpty, ListExpiredCbEmpty, LeaveIdle
<1>2. pc[t] \notin {"insert", "front"} /\ pc'[t] \notin {"insert", "front"}
  BY DEF EnterIdle, GetNextTimer, Wake, ListIsEmpty, ListExpiredCbEmpty,
         LeaveIdle, TimerInv, TypeOK
<1>3. \E l \in Labels : pc' = [pc EXCEPT ![t] = l]
  BY DEF EnterIdle, GetNextTimer, Wake, ListIsEmpty, ListExpiredCbEmpty,
         LeaveIdle, Labels
<1>4. \A u \in Threads : u # t => pc'[u] = pc[u]
  BY <1>3 DEF TimerInv, TypeOK
<1>5. now_ms' \in [Threads -> Nat] /\ \A u \in Threads : now_ms'[u] <= clock
  <2>1. CASE Wake(t)
    BY <2>1, SMTT(30) DEF Wake, TimerInv, TypeOK, ClockInv
  <2>2. CASE ~ Wake(t)
    BY <2>2 DEF EnterIdle, GetNextTimer, ListIsEmpty, ListExpiredCbEmpty,
           LeaveIdle, TimerInv, TypeOK, ClockInv
  <2> QED BY <2>1, <2>2
<1>6. deadline' \in [Threads -> Nat]
  <2>1. CASE GetNextTimer(t)
    <3>1. Forever \in Nat
      BY SMTT(30) DEF Forever
    <3>2. \A e \in timers : e.key \in Nat
      BY DEF TimerInv, TypeOK
    <3> QED BY <2>1, <3>1, <3>2 DEF GetNextTimer, SetDeadline, TimerInv, TypeOK
  <2>2. CASE ~ GetNextTimer(t)
    BY <2>2, SMTT(30) DEF EnterIdle, Wake, ListIsEmpty, ListExpiredCbEmpty, LeaveIdle, TimerInv,
       TypeOK
  <2> QED BY <2>1, <2>2
<1>7. tickled' \in BOOLEAN /\ wake' \in BOOLEAN /\ cbs' \in [Threads -> SUBSET Timers]
  BY DEF EnterIdle, GetNextTimer, Wake, ListIsEmpty, ListExpiredCbEmpty, LeaveIdle, TimerInv, TypeOK
<1>8. TypeOK'
  <2>1. pc' \in [Threads -> Labels]
    BY <1>3 DEF TimerInv, TypeOK
  <2> QED BY <2>1, <1>1, <1>5, <1>6, <1>7 DEF timerVars, TimerInv, TypeOK
<1>9. ArmedInThePast' /\ HistoryInv'
  BY <1>1 DEF timerVars, TimerInv, ArmedInThePast, HistoryInv
<1>10. ArgInv'
  <2>1. arg' = arg /\ made' = made /\ arg[t] = NoTimer
    BY <1>1, <1>2 DEF timerVars, TimerInv, ArgInv
  <2> QED BY <2>1, <1>2, <1>4 DEF TimerInv, ArgInv
<1>11. \A x \in Timers : Inserting(x)' <=> Inserting(x)
  BY <1>1, <1>2, <1>4 DEF Inserting
<1>12. \A x \in Timers : Entry(x)' = Entry(x)
  BY <1>1 DEF timerVars, Entry
<1>13. FiledInv'
  BY <1>1, <1>11, <1>12 DEF timerVars, TimerInv, TypeOK, FiledInv
<1>14. CallbackInv'
  BY <1>1, <1>11, <1>12 DEF timerVars, TimerInv, TypeOK, CallbackInv
<1>15. ClockInv'
  BY <1>1, <1>5 DEF TimerInv, ClockInv
<1> QED
  BY <1>8, <1>9, <1>10, <1>13, <1>14, <1>15 DEF TimerInv

\* Every step preserves TimerInv.
LEMMA TimerStep ==
  ASSUME TimerInv, [Next]_vars
  PROVE  TimerInv'
<1> USE TimerAssumption
<1>1. CASE Tick
  BY <1>1, TickStep
<1>2. ASSUME NEW t \in Threads, UserStep(t)
      PROVE  TimerInv'
  <2>1. ASSUME NEW x \in Timers, Cancel(t, x) \/ Refresh(t, x) \/ Reset(t, x)
        PROVE  TimerInv'
    BY <2>1, CancelStep, RefreshStep, ResetStep
  <2> QED
    BY <1>2, <2>1, NewTimerStep, InsertTimerStep, FrontStep DEF UserStep
<1>3. ASSUME NEW t \in Collectors, CollectorStep(t)
      PROVE  TimerInv'
  <2>1. t \in Threads
    OBVIOUS
  <2> QED BY <1>3, <2>1, CollectorStepRest, ListExpiredStep DEF CollectorStep
<1>4. CASE UNCHANGED vars
  BY <1>4 DEF vars, timerVars, localVars, TimerInv, TypeOK, ArmedInThePast,
     ArgInv, FiledInv, CallbackInv, HistoryInv, ClockInv, Inserting, Entry
<1> QED BY <1>1, <1>2, <1>3, <1>4 DEF Next

LEMMA TimerInvariant == Spec => []TimerInv
<1> QED BY InitTimer, TimerStep, PTL DEF Spec

------------------------------------------------------------------------------
(* Results for any number of collectors *)

\* Type correctness: no unsigned subtraction of reset goes below zero.
THEOREM TypeCorrect == Spec => []TypeOK
<1>1. TimerInv => TypeOK
  BY DEF TimerInv
<1> QED BY <1>1, TimerInvariant, PTL

\* Cancel always has an entry to erase.
THEOREM CancelSafe == Spec => []CancelFindsTimer
<1>1. ASSUME TimerInv PROVE CancelFindsTimer
  <2>1. ASSUME NEW x \in Timers, Returned(x)
        PROVE  cb[x] <=> Entry(x) \in timers
    <3>1. x \in made /\ ~ Inserting(x)
      BY <2>1 DEF Returned, Inserting
    <3>2. Entry(x) \in timers => cb[x]
      BY <1>1 DEF TimerInv, FiledInv, Entry
    <3> QED BY <1>1, <3>1, <3>2 DEF TimerInv, CallbackInv
  <2> QED BY <1>1, <2>1 DEF CancelFindsTimer, TimerInv, FiledInv
<1> QED BY <1>1, TimerInvariant, PTL

\* Refresh never brings an expiry forward.
THEOREM RefreshNeverEarlier == Spec => []ArmedInThePast
<1>1. TimerInv => ArmedInThePast
  BY DEF TimerInv
<1> QED BY <1>1, TimerInvariant, PTL

\* Only ListExpiredCb hands out callbacks; Wake forgets the last ones.
LEMMA HandOut ==
  ASSUME TimerInv, [Next]_vars, NEW t \in Threads, cbs'[t] # cbs[t],
         NEW x \in cbs'[t]
  PROVE  /\ t \in Collectors
         /\ pc[t] = "collect"
         /\ \E e \in Expired(now_ms[t]) : e.timer = x
<1> USE TimerAssumption
<1>1. PICK u \in Collectors : Wake(u) \/ ListExpiredCb(u)
  BY DEF Next, vars, Tick, localVars, UserStep, NewTimer, InsertTimer, OnTimerInsertedAtFront,
     Cancel, Refresh, Reset, CollectorStep, EnterIdle, GetNextTimer, ListIsEmpty,
     ListExpiredCbEmpty, LeaveIdle
<1>2. ~ Wake(u)
  BY DEF Wake, TimerInv, TypeOK
<1>3. pc[u] = "collect"
      /\ cbs' = [cbs EXCEPT ![u] = {e.timer : e \in Expired(now_ms[u])}]
  BY <1>1, <1>2 DEF ListExpiredCb
<1>4. t = u
  BY <1>3 DEF TimerInv, TypeOK
<1> QED BY <1>3, <1>4 DEF TimerInv, TypeOK

\* An expired entry is an entry.
LEMMA ExpiredIsFiled == \A now : Expired(now) \subseteq timers
<1> QED BY DEF Expired

\* Of a Cancel and a ListExpiredCb that race exactly one wins.
THEOREM CallbackOnce == Spec => HandedOutOnce
<1>1. ASSUME TimerInv, [Next]_vars
      PROVE  [\A t \in Threads :
                cbs'[t] # cbs[t] =>
                  \A x \in cbs'[t] :
                    x \notin cancelled /\ (recurring[x] \/ x \notin fired)]_vars
  <2> SUFFICES ASSUME NEW t \in Threads, cbs'[t] # cbs[t], NEW x \in cbs'[t]
               PROVE  x \notin cancelled /\ (recurring[x] \/ x \notin fired)
    OBVIOUS
  <2>1. PICK e \in Expired(now_ms[t]) : e.timer = x
    BY <1>1, HandOut
  <2>2. e \in timers
    BY ExpiredIsFiled
  <2>3. x \in made /\ cb[x]
    BY <1>1, <2>1, <2>2 DEF TimerInv, FiledInv
  <2> QED BY <1>1, <2>3 DEF TimerInv, HistoryInv
<1> QED BY <1>1, TimerInvariant, PTL DEF Spec, HandedOutOnce

------------------------------------------------------------------------------
(* Results for one collector *)

\* What a step of a user does to the sleep of the collector.
LEMMA UserSoleStep ==
  ASSUME NEW t \in Threads, TimerInv, SoleInv, UserStep(t)
  PROVE  SoleInv'
<1> USE TimerAssumption
<1>1. /\ UNCHANGED <<clock, previous_use_time, now_ms, deadline>>
      /\ pc[t] \in {"ready", "insert", "front"}
      /\ pc'[t] \in {"ready", "insert", "front"}
      /\ \A u \in Threads : u # t => pc'[u] = pc[u]
  <2>1. /\ UNCHANGED <<clock, previous_use_time, now_ms, deadline>>
        /\ pc[t] \in {"ready", "insert", "front"}
    BY DEF UserStep, NewTimer, InsertTimer, OnTimerInsertedAtFront, Cancel, Refresh, Reset,
       localVars
  <2>2. \/ pc' = pc
        \/ \E l \in {"ready", "insert", "front"} : pc' = [pc EXCEPT ![t] = l]
    <3>1. ASSUME NEW x \in Timers, Cancel(t, x) \/ Refresh(t, x)
          PROVE  pc' = pc
      BY <3>1 DEF Cancel, Refresh, localVars
    <3>2. ASSUME NEW x \in Timers, Reset(t, x)
          PROVE  \E l \in {"ready", "front"} : pc' = [pc EXCEPT ![t] = l]
      BY <3>2 DEF Reset, AddTimer
    <3>3. CASE NewTimer(t) \/ InsertTimer(t) \/ OnTimerInsertedAtFront(t)
      BY <3>3 DEF NewTimer, InsertTimer, OnTimerInsertedAtFront, AddTimer
    <3> QED BY <3>1, <3>2, <3>3 DEF UserStep
  <2> QED BY <2>1, <2>2 DEF TimerInv, TypeOK
<1>2. OwnUse'
  BY <1>1 DEF SoleInv, OwnUse
<1>3. \A c \in Collectors : pc'[c] = "wait" => c # t /\ pc[c] = "wait"
  BY <1>1
<1>4. ASSUME NEW c \in Collectors, pc[c] = "wait", OnItsWay
      PROVE  OnItsWay'
  <2>1. CASE OnTimerInsertedAtFront(t)
    BY <2>1, <1>4 DEF OnTimerInsertedAtFront, HasIdleThreads, OnItsWay
  <2>2. CASE ~ OnTimerInsertedAtFront(t)
    <3>1. wake' = wake /\ pc[t] # "front"
      BY <2>2 DEF UserStep, NewTimer, InsertTimer, Cancel, Refresh, Reset, AddTimer
    <3> QED BY <1>1, <1>4, <3>1 DEF OnItsWay
  <2> QED BY <2>1, <2>2
\* An insertion at the front is on its way to Tickle, unless one was before.
<1>5. ASSUME NEW c \in Collectors, pc[c] = "wait", NEW e, NEW S,
             AddTimer(t, e, S), ~ OnItsWay'
      PROVE  ~ tickled' /\ ~ First(e, S)
  <2>1. ~ OnItsWay
    BY <1>4, <1>5
  <2>2. ~ tickled
    BY <1>5, <2>1 DEF SoleInv, TickledInv
  <2>3. pc'[t] # "front"
    BY <1>5 DEF OnItsWay
  <2> QED BY <1>5, <2>2, <2>3 DEF AddTimer, TimerInv, TypeOK
<1>6. TickledInv'
  <2> SUFFICES ASSUME NEW c \in Collectors, pc'[c] = "wait", tickled',
                      ~ OnItsWay'
               PROVE  FALSE
    BY DEF TickledInv
  <2>1. pc[c] = "wait" /\ ~ OnItsWay
    BY <1>3, <1>4
  <2>2. ~ tickled
    BY <2>1 DEF SoleInv, TickledInv
  <2>3. PICK e, S : AddTimer(t, e, S)
    BY <2>2 DEF UserStep, NewTimer, InsertTimer, OnTimerInsertedAtFront, Cancel, Refresh, Reset
  <2> QED BY <2>1, <2>3, <1>5
<1>7. SleepInv'
  <2> SUFFICES ASSUME NEW c \in Collectors, Oversleeps(c)', ~ OnItsWay'
               PROVE  FALSE
    BY DEF SleepInv
  <2>1. /\ pc[c] = "wait"
        /\ ~ OnItsWay
        /\ deadline[c] > clock
        /\ deadline[c] \in Nat
        /\ clock \in Nat
    BY <1>1, <1>3, <1>4 DEF Oversleeps, TimerInv, TypeOK
  <2>2. \A d \in timers : ~ deadline[c] > d.key
    BY <2>1 DEF SoleInv, SleepInv, Oversleeps
  <2>3. PICK e \in timers' : deadline[c] > e.key
    BY <1>1 DEF Oversleeps
  <2>4. e \notin timers
    BY <2>2, <2>3
  <2>5. CASE InsertTimer(t)
    <3>1. AddTimer(t, Entry(arg[t]), timers) /\ e = Entry(arg[t])
      BY <2>4, <2>5 DEF InsertTimer, AddTimer
    <3>2. PICK d \in timers : ~ Comparator(e, d)
      BY <2>1, <3>1, <1>5 DEF First
    <3>3. d.key \in Nat /\ e.key \in Nat /\ d.key <= e.key
      <4>1. TypeOK'
        BY <2>5, InsertTimerStep DEF TimerInv
      <4>2. d.key \in Nat /\ e.key \in Nat
        BY <4>1 DEF TimerInv, TypeOK
      <4> QED BY <4>2, <3>2, SMTT(30) DEF Comparator
    <3> QED BY <2>1, <2>2, <2>3, <3>3, SMTT(30)
  <2>6. ASSUME NEW x \in Timers, Reset(t, x)
        PROVE  FALSE
    <3>1. PICK E : E = Entry(x)'
      OBVIOUS
    <3>2. AddTimer(t, E, timers \ {Entry(x)}) /\ e = E
      BY <2>4, <2>6, <3>1 DEF Reset, AddTimer
    <3>3. PICK d \in timers : ~ Comparator(e, d)
      BY <2>1, <3>2, <1>5, SMTT(30) DEF First
    <3>4. d.key \in Nat /\ e.key \in Nat /\ d.key <= e.key
      <4>1. TypeOK'
        BY <2>6, ResetStep DEF TimerInv
      <4>2. d.key \in Nat /\ e.key \in Nat
        BY <4>1 DEF TimerInv, TypeOK
      <4> QED BY <4>2, <3>3, SMTT(30) DEF Comparator
    <3> QED BY <2>1, <2>2, <2>3, <3>4, SMTT(30)
  <2>7. ASSUME NEW x \in Timers, Refresh(t, x)
        PROVE  FALSE
    <3>1. e = Entry(x)' /\ Entry(x) \in timers /\ x \in made
      BY <2>4, <2>7 DEF Refresh, Returned
    <3>2. e.key = clock + ms[x] /\ Entry(x).key = next[x]
      BY <2>7, <3>1 DEF Refresh, Entry, TimerInv, TypeOK
    <3>3. next[x] <= clock + ms[x] /\ next[x] \in Nat /\ ms[x] \in Nat
      BY <3>1 DEF TimerInv, TypeOK, ArmedInThePast
    <3>4. ~ deadline[c] > next[x]
      BY <2>2, <3>1, <3>2
    <3>5. deadline[c] > clock + ms[x]
      BY <2>3, <3>2
    <3> QED BY <2>1, <3>3, <3>4, <3>5, SMTT(30)
  <2>8. CASE \/ NewTimer(t) \/ OnTimerInsertedAtFront(t)
             \/ \E x \in Timers : Cancel(t, x)
    <3>1. timers' \subseteq timers
      BY <2>8 DEF NewTimer, OnTimerInsertedAtFront, Cancel, timerVars
    <3> QED BY <2>4, <3>1
  <2> QED BY <2>5, <2>6, <2>7, <2>8 DEF UserStep
<1> QED BY <1>2, <1>6, <1>7 DEF SoleInv

\* What the collector does to its own sleep.
LEMMA CollectorSoleStep ==
  ASSUME SoleCollector, NEW t \in Collectors, TimerInv, SoleInv,
         CollectorStep(t)
  PROVE  SoleInv'
<1> USE TimerAssumption
<1>0. \A c \in Collectors : c = t
  BY DEF SoleCollector
<1>1. OwnUse'
  <2>1. CASE Wake(t)
    BY <1>0, <2>1 DEF Wake, OwnUse, TimerInv, TypeOK, ClockInv
  <2>2. CASE ListIsEmpty(t)
    BY <1>0, <2>2 DEF ListIsEmpty, SoleInv, OwnUse, TimerInv, TypeOK
  <2>3. CASE ~ Wake(t) /\ ~ ListIsEmpty(t)
    <3>1. pc'[t] \notin {"list", "collect"}
      <4>0. pc \in [Threads -> Labels] /\ t \in Threads
        BY DEF TimerInv, TypeOK
      <4>1. CASE EnterIdle(t) \/ LeaveIdle(t)
        BY <4>0, <4>1 DEF EnterIdle, LeaveIdle
      <4>2. CASE GetNextTimer(t)
        BY <4>0, <4>2 DEF GetNextTimer
      <4>3. CASE ListExpiredCb(t) \/ ListExpiredCbEmpty(t)
        BY <4>0, <4>3 DEF ListExpiredCb, ListExpiredCbEmpty
      <4> QED BY <2>3, <4>1, <4>2, <4>3 DEF CollectorStep
    <3> QED BY <1>0, <3>1 DEF OwnUse
  <2> QED BY <2>1, <2>2, <2>3
<1>2. CASE GetNextTimer(t)
  <2>1. ~ tickled' /\ clock' = clock /\ timers' = timers
    BY <1>2 DEF GetNextTimer, timerVars
  <2>2. ~ Oversleeps(t)'
    <3> SUFFICES ASSUME deadline'[t] > clock
                 PROVE  \A e \in timers : ~ deadline'[t] > e.key
      BY <2>1 DEF Oversleeps
    <3>1. CASE timers = {}
      BY <3>1
    <3>2. CASE timers # {}
      <4>1. PICK e \in timers :
              /\ First(e, timers)
              /\ deadline'[t] = IF clock >= e.key THEN clock ELSE e.key
        BY <1>2, <3>2 DEF GetNextTimer, SetDeadline, TimerInv, TypeOK
      <4>2. deadline'[t] = e.key
        BY <4>1, SMTT(30) DEF TimerInv, TypeOK
      <4>3. \A d \in timers : e.key \in Nat /\ d.key \in Nat
        BY DEF TimerInv, TypeOK
      <4>4. \A d \in timers : e.key <= d.key
        BY <4>1, <4>3, SMTT(30) DEF First, Comparator
      <4> QED BY <4>2, <4>3, <4>4, SMTT(30)
    <3> QED BY <3>1, <3>2
  <2> QED BY <1>0, <1>1, <2>1, <2>2 DEF SoleInv, TickledInv, SleepInv
<1>3. CASE ~ GetNextTimer(t)
  <2>1. pc'[t] # "wait"
    BY <1>3 DEF CollectorStep, EnterIdle, Wake, ListIsEmpty, ListExpiredCb, ListExpiredCbEmpty,
       LeaveIdle, TimerInv, TypeOK
  <2> QED BY <1>0, <1>1, <2>1 DEF SoleInv, TickledInv, SleepInv, Oversleeps
<1> QED BY <1>2, <1>3

LEMMA SoleInvariant ==
  ASSUME SoleCollector
  PROVE  Spec => [](TimerInv /\ SoleInv)
<1> USE TimerAssumption
<1>1. Init => SoleInv
  BY DEF Init, SoleInv, OwnUse, TickledInv, SleepInv, Oversleeps
<1>2. ASSUME TimerInv, SoleInv, [Next]_vars
      PROVE  SoleInv'
  <2>1. CASE Tick
    BY <1>2, <2>1, SMTT(30) DEF Tick, localVars, timerVars, SoleInv, OwnUse, TickledInv, SleepInv,
       Oversleeps, OnItsWay, TimerInv, TypeOK
  <2>2. CASE UNCHANGED vars
    BY <1>2, <2>2 DEF vars, localVars, timerVars, SoleInv, OwnUse, TickledInv, SleepInv,
       Oversleeps, OnItsWay
  <2> QED
    BY <1>2, <2>1, <2>2, UserSoleStep, CollectorSoleStep DEF Next
<1> QED BY <1>1, <1>2, InitTimer, TimerStep, PTL DEF Spec

\* With one collector, no callback is handed out before its expiry: its readings
\* of the clock are in order, so that DetectClockRollover stays false.
THEOREM NoEarlyCallback ==
  ASSUME SoleCollector
  PROVE  Spec => NeverEarly
<1>1. ASSUME TimerInv, SoleInv, [Next]_vars
      PROVE  [\A t \in Threads :
                cbs'[t] # cbs[t] => \A x \in cbs'[t] : next[x] <= clock]_vars
  <2> SUFFICES ASSUME NEW t \in Threads, cbs'[t] # cbs[t], NEW x \in cbs'[t]
               PROVE  next[x] <= clock
    OBVIOUS
  <2>1. t \in Collectors /\ pc[t] = "collect"
    BY <1>1, HandOut
  <2>2. PICK e \in Expired(now_ms[t]) : e.timer = x
    BY <1>1, HandOut
  <2>3. ~ DetectClockRollover(now_ms[t])
    BY <1>1, <2>1, SMTT(30) DEF SoleInv, OwnUse, DetectClockRollover, TimerInv, TypeOK
  <2>4. e \in timers /\ e.key <= now_ms[t]
    BY <2>2, <2>3 DEF Expired
  <2>5. e.key = next[x] /\ next[x] \in Nat
    BY <1>1, <2>2, <2>4, SMTT(30) DEF TimerInv, TypeOK, FiledInv, Entry
  <2> QED BY <1>1, <2>4, <2>5, SMTT(30) DEF TimerInv, TypeOK, ClockInv
<1> QED BY <1>1, SoleInvariant, PTL DEF Spec, NeverEarly

\* With one collector, the protocol of tickled_ and the shortcut of Tickle when
\* nobody is idle never let the collector sleep past the first expiry unwoken.
THEOREM NoOversleeping ==
  ASSUME SoleCollector
  PROVE  Spec => []SleeperKnowsFront
<1>1. SoleInv => SleeperKnowsFront
  BY DEF SoleInv, SleepInv, OnItsWay, SleeperKnowsFront
<1> QED BY <1>1, SoleInvariant, PTL
==============================================================================
