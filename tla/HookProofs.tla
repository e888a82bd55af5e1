----------------------------- MODULE HookProofs ------------------------------
(***************************************************************************)
(* The steps of do_io, connect_with_timeout and sleep and those of the     *)
(* timers keep HookInv, and so every step does; the properties of the      *)
(* hooked calls follow.                                                    *)
(***************************************************************************)
EXTENDS HookLemmas

\* Most leaves are first-order logic over sets and functions.  Those that need
\* arithmetic name the SMT solver.
USE ZenonT(30)

------------------------------------------------------------------------------
(* Steps of do_io, connect_with_timeout and sleep *)

\* The calls and the objects of the manager are left alone but for the call of
\* u, which is not in socket, accept or close, before the step and after it.
LEMMA OutsideManager ==
  ASSUME TypeOK, Control, Objects, Exclusive, Contexts, NEW u \in Users, OthersStay(u),
         ~ Managing(u), ~ Managing(u)', Touched, UNCHANGED <<datas, size, tainted>>
  PROVE  /\ Objects' /\ Exclusive' /\ Contexts' /\ GoesOn
         /\ \A w \in Users : op'[w].pc \in {"del", "close"} =>
                               op[w].pc \in {"del", "close"} /\ op'[w].fd = op[w].fd
<1>1. \A v \in Users : Managing(v) \/ Managing(v)' =>
                         op'[v].pc = op[v].pc /\ op'[v].fd = op[v].fd
  BY DEF OthersStay, Managing
<1>2. Exclusive' /\ Contexts'
  BY <1>1, ContextsKept DEF Touched
<1>3. Objects' /\ GoesOn
  BY TouchedKeeps
<1>4. \A w \in Users : op'[w].pc \in {"del", "close"} =>
                         op[w].pc \in {"del", "close"} /\ op'[w].fd = op[w].fd
  BY <1>1 DEF Managing
<1> QED BY <1>2, <1>3, <1>4

\* The registrations stay when the table does, and nobody starts or ends to wait.
LEMMA RegistrationsStay ==
  ASSUME TypeOK, Control, Registrations, GoesOn, NEW u \in Users, OthersStay(u), Touched,
         event' = event,
         \A v \in Users : v # u => wake'[v] = wake[v] /\ (v \in late => v \in late'),
         ~ Registered(u), ~ Registered(u)',
         \A w \in Users : op'[w].pc \in {"del", "close"} =>
                            op[w].pc \in {"del", "close"} /\ op'[w].fd = op[w].fd
  PROVE  Registrations'
<1>1. \A v \in Users : v # u => op'[v] = op[v] /\ Registered(v)' = Registered(v)
  BY DEF OthersStay, Registered, InIo, InWait
<1>2. \A v \in Users : Registered(v) /\ ~ Missable(v) =>
        /\ kernel'[Fd(v)].open /\ kernel'[Fd(v)].gen = kernel[Fd(v)].gen
        /\ ~ \E w \in Users : op'[w].fd = Fd(v) /\ op'[w].pc \in {"del", "close"}
  BY NotClosed DEF Touched
<1> QED BY <1>1, <1>2, RegistrationsKept DEF GoesOn

\* u enters do_io or connect_with_timeout.
LEMMA EntersIo ==
  ASSUME HookInv, NEW u \in Users, NEW fd \in Fds, NEW kind \in Kinds, kind \in Waiting,
         NEW to \in BOOLEAN, NEW pc \in Labels, pc = "try", Enter(u, kind, fd, pc, to),
         Usable(fd), OwnEvent(u, kind, fd), ~ Passes(u, fd),
         UNCHANGED <<hooked, datas, size, kernel, last, wake, event, timers, late, tainted>>
  PROVE  HookInv'
<1> USE DEF HookInv
<1>1. /\ op' \in [Users -> Calls] /\ OthersStay(u)
      /\ op[u].pc = "idle" /\ op'[u].pc = "try" /\ op'[u].kind = kind /\ op'[u].fd = fd
      /\ op'[u].gen = kernel[fd].gen
      /\ ~ op'[u].cancelled /\ op'[u].by = "no" /\ op'[u].call = op[u].call + 1
  BY Entering, SMTT(30)
<1>2. Touched
  BY Untouched
<1>3. ~ Managing(u) /\ ~ Managing(u)' /\ ~ Registered(u) /\ ~ Registered(u)'
  BY <1>1 DEF Managing, Registered, InWait
<1>4. \A v \in Users : v # u => op'[v] = op[v]
  BY <1>1 DEF OthersStay
<1>5. TypeOK'
  BY <1>1 DEF TypeOK
<1>6. Control'
  <2>1. kind # "sleep"
    BY Subsets
  <2>2. wake[u] = "no"
    BY <1>1 DEF Control
  <2> QED BY <1>1, <1>4, <2>1, <2>2 DEF Control
<1>7. /\ Objects' /\ Exclusive' /\ Contexts' /\ GoesOn
      /\ \A w \in Users : op'[w].pc \in {"del", "close"} =>
                            op[w].pc \in {"del", "close"} /\ op'[w].fd = op[w].fd
  BY <1>1, <1>2, <1>3, OutsideManager
<1>8. Registrations'
  BY <1>1, <1>2, <1>3, <1>7, RegistrationsStay
<1>9. /\ kernel[fd].open /\ kernel[fd].gen > 0 /\ kernel[fd].gen <= last
      /\ fd \in tainted \/ (kernel[fd].managed /\ kernel[fd].nonblock)
  <2>1. datas[fd].gen # 0
    BY Got DEF Passes
  <2> QED BY <2>1 DEF Usable, Objects, Contexts
<1>10. Waiters'
  <2>1. \A v \in Users : v # u => /\ InIo(v)' = InIo(v) /\ Fd(v)' = Fd(v) /\ Ev(v)' = Ev(v)
                                  /\ Reused(v)' = Reused(v)
    BY <1>4 DEF InIo, Fd, Ev, Reused
  <2>2. Fd(u)' = fd /\ Ev(u)' = EventOf(kind) /\ ~ Reused(u)'
    BY <1>1 DEF Fd, Ev, Reused
  <2>3. \A v \in Users : InIo(v)' => op'[v].gen > 0 /\ op'[v].gen <= last'
    BY <1>1, <1>4, <1>9, <2>1 DEF Waiters
  <2>4. \A v \in Users : InIo(v)' =>
          Reused(v)' \/ Fd(v)' \in tainted' \/ (kernel'[Fd(v)'].managed /\ kernel'[Fd(v)'].nonblock)
    BY <1>9, <2>1, <2>2 DEF Waiters
  <2>5. ASSUME NEW v \in Users, v # u, InIo(v)', Fd(v)' = fd, op'[v].gen = kernel[fd].gen
        PROVE  Ev(v)' # EventOf(kind)
    BY <1>4, <2>1, <2>5 DEF OwnEvent, InIo, Fd
  <2>6. ASSUME NEW v \in Users, NEW w \in Users, InIo(v)', InIo(w)', Fd(v)' = Fd(w)',
               op'[v].gen = op'[w].gen, Ev(v)' = Ev(w)'
        PROVE  v = w
    <3>1. CASE v = u
      BY <1>1, <2>2, <2>5, <2>6, <3>1
    <3>2. CASE w = u
      BY <1>1, <2>2, <2>5, <2>6, <3>2
    <3>3. CASE v # u /\ w # u
      BY <1>4, <2>1, <2>6, <3>3 DEF Waiters
    <3> QED BY <3>1, <3>2, <3>3
  <2> QED BY <2>3, <2>4, <2>6 DEF Waiters
<1>11. Timing'
  <2>1. ASSUME NEW t \in timers
        PROVE  TimerRight(t)'
    <3>1. TimerRight(t) /\ t.user \in Users
      BY TimerTypes DEF Timing
    <3>2. op[t.user].call \in Nat /\ op'[t.user].call \in Nat
      BY <1>1, <3>1, CallTypes, CallFields
    <3>3. CASE t.user = u
      <4>1. op[t.user].call < op'[t.user].call /\ ~ t.sleep
        BY ONLY <1>1, <3>1, <3>2, <3>3, SMTT(30) DEF TimerRight, InWait
      <4> QED BY <3>1, <3>2, <4>1, TimerKept, SMTT(30)
    <3>4. CASE t.user # u
      <4>1. op'[t.user] = op[t.user] /\ InIo(t.user)' = InIo(t.user)
        BY <1>4, <3>1, <3>4 DEF InIo
      <4>2. t.sleep => Asleep(t.user)'
        BY <3>1, <4>1 DEF TimerRight, Asleep, InWait
      <4> QED BY <3>1, <3>2, <4>1, <4>2, TimerKept, SMTT(30)
    <3> QED BY <3>3, <3>4
  <2>2. \A v \in Users : v # u => Attended(v)'
    BY <1>4, AttendedKept DEF Timing
  <2>3. Attended(u)'
    BY <1>1 DEF Attended, InWait
  <2> QED BY <2>1, <2>2, <2>3 DEF Timing
<1>12. Connects'
  <2>1. StaleStays
    BY DEF StaleStays
  <2>2. \A v \in Users : v # u => Connecting(v)'
    BY <1>4, <1>7, <2>1, ConnectKept DEF Connects
  <2>3. Connecting(u)'
    BY <1>1 DEF Connecting
  <2> QED BY <2>2, <2>3 DEF Connects
<1> QED BY <1>5, <1>6, <1>7, <1>8, <1>10, <1>11, <1>12

LEMMA DoIoStep ==
  ASSUME HookInv, NEW u \in Users, NEW e \in Io, NEW fd \in Fds, DoIo(u, e, fd)
  PROVE  HookInv'
<1>1. PICK kind \in Kinds : kind = e /\ kind \in Waiting
  BY Subsets DEF Kinds, Waiting
<1>2. /\ Usable(fd) /\ OwnEvent(u, kind, fd) /\ ~ Passes(u, fd)
      /\ Enter(u, kind, fd, "try", GetTimeout(Get(fd), kind))
      /\ UNCHANGED <<hooked, datas, size, kernel, last, wake, event, timers, late, tainted>>
  BY <1>1 DEF DoIo
<1>3. GetTimeout(Get(fd), kind) \in BOOLEAN
  <2>1. Get(fd) = datas[fd] /\ kind \in Event
    BY <1>1, <1>2, Got, Subsets DEF Passes, HookInv
  <2> QED BY <2>1, CtxTypes DEF GetTimeout, HookInv
<1>4. PICK to \in BOOLEAN, pc \in Labels : to = GetTimeout(Get(fd), kind) /\ pc = "try"
  BY <1>3 DEF Labels
<1>5. Enter(u, kind, fd, pc, to)
  BY <1>2, <1>4
<1> QED BY <1>1, <1>2, <1>4, <1>5, EntersIo

LEMMA ConnectStep ==
  ASSUME HookInv, NEW u \in Users, NEW fd \in Fds, ConnectWithTimeout(u, fd)
  PROVE  HookInv'
<1>1. PICK kind \in Kinds : kind = "connect" /\ kind \in Waiting
  BY DEF Kinds, Waiting
<1>2. PICK to \in BOOLEAN, pc \in Labels : to = Timed /\ pc = "try"
  BY BoundsAssumption DEF Labels
<1>3. /\ Usable(fd) /\ OwnEvent(u, kind, fd) /\ ~ Passes(u, fd)
      /\ Enter(u, kind, fd, pc, to)
      /\ UNCHANGED <<hooked, datas, size, kernel, last, wake, event, timers, late, tainted>>
  BY <1>1, <1>2 DEF ConnectWithTimeout
<1> QED BY <1>1, <1>2, <1>3, EntersIo

\* What a step of u does not do to the timers and to the calls of the others.
LEMMA OthersTimers ==
  ASSUME TypeOK, Timing, NEW u \in Users, op' \in [Users -> Calls], OthersStay(u),
         \A v \in Users : v # u => wake'[v] = wake[v]
  PROVE  /\ \A t \in timers : t.user # u => TimerRight(t)'
         /\ (\A t \in timers : t.user # u => t \in timers') =>
              \A v \in Users : v # u => Attended(v)'
<1>1. ASSUME NEW t \in timers, t.user # u
      PROVE  TimerRight(t)'
  <2>1. TimerRight(t) /\ t.user \in Users
    BY TimerTypes DEF Timing
  <2>2. op'[t.user] = op[t.user] /\ op[t.user].call \in Nat
    BY <1>1, <2>1, CallTypes DEF OthersStay
  <2>3. InIo(t.user)' = InIo(t.user)
    BY <2>2 DEF InIo
  <2>4. t.sleep => Asleep(t.user)'
    BY <1>1, <2>1, <2>2 DEF TimerRight, Asleep, InWait
  <2> QED BY <2>1, <2>2, <2>3, <2>4, TimerKept, SMTT(30)
<1>2. ASSUME \A t \in timers : t.user # u => t \in timers', NEW v \in Users, v # u
      PROVE  Attended(v)'
  <2>1. op'[v] = op[v] /\ Attended(v)
    BY <1>2 DEF OthersStay, Timing
  <2>2. \A t \in timers : CallOf(t, v) => t \in timers'
    BY <1>2 DEF CallOf
  <2> QED BY <1>2, <2>1, <2>2, AttendedKept
<1> QED BY <1>1, <1>2

LEMMA OthersConnecting ==
  ASSUME TypeOK, Control, Objects, Waiters, Registrations, Connects, GoesOn, StaleStays,
         NEW u \in Users, OthersStay(u), \A v \in Users : v # u => wake'[v] = wake[v],
         Connecting(u)'
  PROVE  Connects'
<1>1. ASSUME NEW v \in Users, v # u
      PROVE  Connecting(v)'
  <2>1. op'[v] = op[v] /\ wake'[v] = wake[v] /\ Connecting(v)
    BY <1>1 DEF OthersStay, Connects
  <2> QED BY <2>1, ConnectKept
<1> QED BY <1>1 DEF Connects

\* u goes on with its call.
KeepsCall(u) ==
  /\ op'[u].kind = op[u].kind /\ op'[u].fd = op[u].fd /\ op'[u].gen = op[u].gen
  /\ op'[u].to = op[u].to /\ op'[u].call = op[u].call
  /\ op'[u].cancelled = op[u].cancelled /\ op'[u].fired = op[u].fired

\* Timers of u, when its call goes on or ends.
LEMMA OwnTimers ==
  ASSUME TypeOK, Timing, NEW u \in Users, op' \in [Users -> Calls], ~ Asleep(u),
         op'[u].call = op[u].call, KeepsCall(u) \/ ~ InIo(u)',
         NEW t \in timers, t.user = u
  PROVE  TimerRight(t)'
<1>1. TimerRight(t) /\ op[u].call \in Nat
  BY CallTypes DEF Timing
<1>2. ~ t.sleep
  BY <1>1 DEF TimerRight, Asleep
<1>3. InIo(u)' => KeepsCall(u) /\ InIo(u)
  BY DEF KeepsCall, InIo
<1> QED BY <1>1, <1>2, <1>3, TimerKept, SMTT(30) DEF KeepsCall

\* A step of u in do_io or connect_with_timeout: all but its own wait.
LEMMA IoStep ==
  ASSUME HookInv, NEW u \in Users, op' \in [Users -> Calls], OthersStay(u),
         ~ Managing(u), ~ Managing(u)', Touched, UNCHANGED <<datas, size, tainted>>,
         KeepsCall(u) \/ ~ InIo(u)'
  PROVE  /\ Objects' /\ Exclusive' /\ Contexts' /\ GoesOn /\ Waiters'
         /\ \A w \in Users : op'[w].pc \in {"del", "close"} =>
                               op[w].pc \in {"del", "close"} /\ op'[w].fd = op[w].fd
<1> USE DEF HookInv
<1>1. /\ Objects' /\ Exclusive' /\ Contexts' /\ GoesOn
      /\ \A w \in Users : op'[w].pc \in {"del", "close"} =>
                            op[w].pc \in {"del", "close"} /\ op'[w].fd = op[w].fd
  BY OutsideManager
<1>2. ASSUME NEW v \in Users, InIo(v)'
      PROVE  /\ InIo(v) /\ op'[v].fd = op[v].fd
             /\ op'[v].gen = op[v].gen /\ op'[v].kind = op[v].kind
  BY <1>2 DEF OthersStay, KeepsCall, InIo
<1>3. Waiters'
  BY <1>1, <1>2, WaitersKept
<1> QED BY <1>1, <1>3

\* The attempt would block.
LEMMA TryBlocks ==
  ASSUME HookInv, NEW u \in Users, op[u].pc = "try",
         WouldBlock(Fd(u), op[u].kind), Goto(u, "add"),
         timers' = IF op[u].to THEN timers \cup {Timeout(u)} ELSE timers,
         UNCHANGED <<hooked, datas, size, wake, event, late, tainted>>
  PROVE  HookInv'
<1> USE DEF HookInv
<1>1. InIo(u) /\ Fd(u) \in Fds /\ Ev(u) \in Event
  BY InIoTypes DEF Control, InIo
<1>2. PICK fd \in Fds, kind \in Waiting : fd = Fd(u) /\ kind = op[u].kind
  BY <1>1 DEF InIo
<1>3. Touched
  BY <1>2, Answered
<1>4. /\ op' \in [Users -> Calls] /\ OthersStay(u) /\ KeepsCall(u) /\ op'[u].pc = "add"
      /\ op'[u].by = op[u].by
  <2>1. "add" \in Labels
    BY DEF Labels
  <2> QED BY <2>1, WhereTo DEF KeepsCall
<1>5. /\ ~ Managing(u) /\ ~ Managing(u)' /\ ~ Registered(u) /\ ~ Registered(u)' /\ ~ Asleep(u)
      /\ ~ InWait(u)'
  BY <1>4 DEF Managing, Registered, InWait, Asleep
<1>6. /\ Objects' /\ Exclusive' /\ Contexts' /\ GoesOn /\ Waiters'
      /\ \A w \in Users : op'[w].pc \in {"del", "close"} =>
                            op[w].pc \in {"del", "close"} /\ op'[w].fd = op[w].fd
  BY <1>3, <1>4, <1>5, IoStep
<1>7. Registrations'
  BY <1>3, <1>4, <1>5, <1>6, RegistrationsStay
<1>8. PICK t0 : t0 = Timeout(u)
  OBVIOUS
<1>9. /\ t0 \in Timers /\ t0.user = u /\ t0.call = op[u].call /\ t0.fd = Fd(u)
      /\ t0.phase = "armed" /\ ~ t0.sleep
  BY <1>1, <1>8, CallTypes DEF Timeout, Timers
<1>10. timers' \subseteq timers \cup {t0} /\ timers \subseteq timers' /\ (op[u].to => t0 \in timers')
  BY <1>8
<1>11. TypeOK'
  <2>1. timers' \subseteq Timers
    BY <1>9, <1>10 DEF TypeOK
  <2> QED BY <1>3, <1>4, <2>1 DEF TypeOK, Touched
<1>12. Control'
  BY ONLY HookInv, <1>1, <1>4, op[u].pc = "try", wake' = wake, SMTT(30)
    DEF HookInv, Control, OthersStay, KeepsCall, InIo, Fd
<1>13. Timing'
  <2>1. \A t \in timers : t.user # u => TimerRight(t)'
    BY <1>4, OthersTimers
  <2>2. \A t \in timers : t.user = u => TimerRight(t)'
    BY <1>4, <1>5, OwnTimers DEF KeepsCall
  <2>3. TimerRight(t0)'
    <3>1. op'[u].call = op[u].call /\ op[u].call \in Nat
      BY <1>4, CallTypes DEF KeepsCall
    <3> QED BY ONLY <1>1, <1>9, <3>1, SMTT(30) DEF TimerRight
  <2>4. \A t \in timers' : TimerRight(t)'
    BY <1>10, <2>1, <2>2, <2>3
  <2>5. \A t, s \in timers' : t.sleep /\ s.sleep /\ t.user = s.user => t = s
    BY <1>9, <1>10 DEF Timing
  <2>6. \A v \in Users : v # u => Attended(v)'
    BY <1>4, <1>10, OthersTimers
  <2>7. Attended(u)'
    <3>1. Attended(u)
      BY DEF Timing
    <3>2. op[u].to => t0 \in timers' /\ CallOf(t0, u)'
      BY <1>4, <1>9, <1>10 DEF CallOf, KeepsCall
    <3> QED BY <1>1, <1>4, <1>5, <3>1, <3>2 DEF Attended, KeepsCall
  <2> QED BY <2>4, <2>5, <2>6, <2>7 DEF Timing
<1>14. Connects'
  <2>1. StaleStays
    BY DEF StaleStays
  <2>2. Connecting(u)'
    <3> SUFFICES ASSUME op'[u].kind = "connect", ~ Reused(u)'
                 PROVE  kernel'[Fd(u)'].conn # "no" /\ op'[u].by = "no"
      BY <1>4 DEF Connecting
    <3>1. Fd(u)' = fd /\ op[u].kind = "connect" /\ ~ Reused(u)
      BY <1>2, <1>3, <1>4 DEF KeepsCall, Fd, Reused, Touched
    <3>2. op[u].by = "no"
      BY <3>1 DEF Connects, Connecting
    <3>3. kernel' = [kernel EXCEPT ![fd].conn = "pending", ![fd].ready["WRITE"] = FALSE]
      BY <1>2, <3>1 DEF WouldBlock, Event
    <3>4. kernel'[fd].conn = "pending"
      BY <3>3, ObjectTypes DEF TypeOK, KernelObjects
    <3> QED BY <1>4, <3>1, <3>2, <3>4
  <2> QED BY <1>4, <1>6, <2>1, <2>2, OthersConnecting
<1> QED BY <1>6, <1>7, <1>11, <1>12, <1>13, <1>14

LEMMA TryStep ==
  ASSUME HookInv, NEW u \in Users, Try(u)
  PROVE  HookInv'
<1>1. op[u].pc = "try" /\ UNCHANGED <<hooked, datas, size, wake, event, late, tainted>>
  BY DEF Try
<1>2. CASE /\ \/ (Done(Fd(u), op[u].kind) \/ SysError) /\ Return(u)
              \/ Accepted(u, Fd(u), op[u].kind, op[u].call)
           /\ UNCHANGED timers
  BY <1>1, <1>2, TryEnds
<1>3. CASE /\ WouldBlock(Fd(u), op[u].kind) /\ Goto(u, "add")
           /\ timers' = IF op[u].to THEN timers \cup {Timeout(u)} ELSE timers
  BY <1>1, <1>3, TryBlocks
<1> QED BY <1>2, <1>3 DEF Try

LEMMA AddStep ==
  ASSUME HookInv, NEW u \in Users, Add(u)
  PROVE  HookInv'
<1> USE DEF HookInv
<1>1. /\ op[u].pc = "add" /\ ~ AddEventFails(u) /\ event[<<Fd(u), Ev(u)>>].user = NoUser
      /\ Goto(u, "wait")
      /\ event' = [event EXCEPT ![<<Fd(u), Ev(u)>>] = [user |-> u, gen |-> kernel[Fd(u)].gen]]
      /\ late' = IF TooLate(u) THEN late \cup {u} ELSE late
      /\ UNCHANGED <<hooked, datas, size, kernel, last, wake, timers, tainted>>
  BY DEF Add
<1>2. InIo(u) /\ Fd(u) \in Fds /\ Ev(u) \in Event /\ wake[u] = "no"
  BY <1>1, InIoTypes DEF Control, InIo
<1>3. PICK fd \in Fds, e \in Event : fd = Fd(u) /\ e = Ev(u)
  BY <1>2
<1>4. /\ op' \in [Users -> Calls] /\ OthersStay(u) /\ KeepsCall(u) /\ op'[u].pc = "wait"
      /\ op'[u].by = op[u].by
  <2>1. "wait" \in Labels
    BY DEF Labels
  <2> QED BY <1>1, <2>1, WhereTo DEF KeepsCall
<1>5. /\ ~ Managing(u) /\ ~ Managing(u)' /\ ~ Registered(u) /\ ~ Asleep(u)
      /\ InIo(u)' /\ InWait(u)' /\ Fd(u)' = fd /\ Ev(u)' = e
  BY <1>1, <1>2, <1>3, <1>4 DEF Managing, Registered, InWait, Asleep, InIo, KeepsCall, Fd, Ev
<1>6. Touched
  BY <1>1, Untouched
<1>7. /\ Objects' /\ Exclusive' /\ Contexts' /\ GoesOn /\ Waiters'
      /\ \A w \in Users : op'[w].pc \in {"del", "close"} =>
                            op[w].pc \in {"del", "close"} /\ op'[w].fd = op[w].fd
  BY <1>1, <1>4, <1>5, <1>6, IoStep
<1>8. /\ kernel[fd].open /\ kernel[fd].gen > 0 /\ kernel[fd].gen <= last
      /\ kernel[fd].gen \in 0..MaxGen
  BY <1>1, <1>3, ObjectTypes DEF AddEventFails, Objects
<1>9. PICK c \in EventContexts : c = [user |-> u, gen |-> kernel[fd].gen]
  BY <1>8 DEF EventContexts
<1>10. /\ event' \in [Fds \X Event -> EventContexts] /\ event'[<<fd, e>>] = c
       /\ \A x \in Fds \X Event : x # <<fd, e>> => event'[x] = event[x]
  BY <1>1, <1>3, <1>9 DEF TypeOK
<1>11. TypeOK'
  BY <1>1, <1>4, <1>10 DEF TypeOK
<1>12. Control'
  BY ONLY HookInv, <1>1, <1>2, <1>4, SMTT(30)
    DEF HookInv, Control, OthersStay, KeepsCall, InIo, Fd
<1>13. \A v \in Users : v # u => /\ op'[v] = op[v] /\ Registered(v)' = Registered(v)
                                 /\ Fd(v)' = Fd(v) /\ Ev(v)' = Ev(v)
  BY <1>1, <1>4 DEF OthersStay, Registered, InIo, InWait, Fd, Ev
<1>14. ASSUME NEW x \in Fds, NEW f \in Event, event[<<x, f>>].user # NoUser
       PROVE  event'[<<x, f>>] = event[<<x, f>>] /\ event[<<x, f>>].user # u
  <2>1. <<x, f>> # <<fd, e>>
    BY <1>1, <1>3, <1>14
  <2>2. event[<<x, f>>].user # u
    BY <1>5, <1>14 DEF Registrations, Registered
  <2> QED BY <1>10, <2>1, <2>2
<1>15. Registrations'
  <2>1. ASSUME NEW x \in Fds, NEW f \in Event, event'[<<x, f>>].user # NoUser
        PROVE  (/\ event[<<x, f>>].gen > 0 /\ event[<<x, f>>].gen <= last
                /\ InIo(event[<<x, f>>].user) /\ InWait(event[<<x, f>>].user)
                /\ Fd(event[<<x, f>>].user) = x /\ Ev(event[<<x, f>>].user) = f)'
    <3>1. CASE x = fd /\ f = e
      <4>1. event'[<<x, f>>].user = u /\ event'[<<x, f>>].gen = kernel[fd].gen /\ last' = last
        BY ONLY <1>1, <1>9, <1>10, <3>1, SMTT(30)
      <4>2. InIo(u)' /\ InWait(u)' /\ Fd(u)' = x /\ Ev(u)' = f
        BY <1>5, <3>1
      <4> QED BY <1>8, <4>1, <4>2 DEF InIo, InWait, Fd, Ev
    <3>2. CASE ~ (x = fd /\ f = e)
      <4>1. event'[<<x, f>>] = event[<<x, f>>]
        BY <1>10, <3>2
      <4>2. PICK v \in Users : v = event[<<x, f>>].user
        BY <2>1, <4>1, EventTypes
      <4>3. v # u
        BY <1>14, <2>1, <4>1, <4>2
      <4>4. /\ event[<<x, f>>].gen > 0 /\ event[<<x, f>>].gen <= last
            /\ InIo(v) /\ InWait(v) /\ Fd(v) = x /\ Ev(v) = f
        BY <2>1, <4>1, <4>2 DEF Registrations
      <4>5. InIo(v)' /\ InWait(v)' /\ Fd(v)' = x /\ Ev(v)' = f
        BY <1>13, <4>3, <4>4 DEF Registered
      <4>6. event'[<<x, f>>].user = v /\ last' = last
        BY <1>1, <4>1, <4>2
      <4> QED BY <4>1, <4>4, <4>5, <4>6 DEF InIo, InWait, Fd, Ev
    <3> QED BY <3>1, <3>2
  <2>2. ASSUME NEW v \in Users, Registered(v)'
        PROVE  (/\ event[<<Fd(v), Ev(v)>>].user = v
                /\ Missable(v) \/ (Watched(Fd(v), Ev(v)) /\ ~ Closing(Fd(v))))'
    <3>1. CASE v = u
      <4>1. event'[<<Fd(v)', Ev(v)'>>] = c /\ c.user = u /\ c.gen = kernel[fd].gen
        BY ONLY <1>5, <1>9, <1>10, <3>1, SMTT(30)
      <4>2. Watched(Fd(v), Ev(v))'
        BY <1>1, <1>5, <1>8, <3>1, <4>1, Subsets DEF Watched
      <4>3. Closing(fd)' => Closing(fd)
        BY <1>7 DEF Closing
      <4>4. Closing(fd) => u \in late'
        BY <1>1, <1>3 DEF TooLate
      <4>5. Closing(Fd(v))' => Missable(v)'
        BY <1>5, <3>1, <4>3, <4>4 DEF Missable, Closing
      <4> QED BY <3>1, <4>1, <4>2, <4>5
    <3>2. CASE v # u
      <4>1. PICK x \in Fds, f \in Event : x = Fd(v) /\ f = Ev(v) /\ Registered(v)
        BY <1>13, <2>2, <3>2, InIoTypes DEF Registered
      <4>2. event[<<x, f>>].user = v /\ (Missable(v) \/ (Watched(x, f) /\ ~ Closing(x)))
        BY <4>1 DEF Registrations, Registered
      <4>3. event'[<<x, f>>] = event[<<x, f>>]
        BY <1>14, <4>2, Subsets
      <4>4. Fd(v)' = x /\ Ev(v)' = f /\ op'[v] = op[v]
        BY <1>13, <3>2, <4>1
      <4>5. Missable(v) => Missable(v)'
        BY <1>1, <4>1, <4>3, <4>4 DEF Missable
      <4>6. Watched(x, f) => Watched(Fd(v), Ev(v))'
        BY <1>1, <4>3, <4>4 DEF Watched
      <4>7. Closing(Fd(v))' => Closing(x)
        BY <1>7, <4>4 DEF Closing
      <4>8. event'[<<Fd(v)', Ev(v)'>>].user = v
        BY <4>2, <4>3, <4>4
      <4> QED BY <4>2, <4>5, <4>6, <4>7, <4>8
    <3> QED BY <3>1, <3>2
  <2> QED BY <2>1, <2>2 DEF Registrations, Registered
<1>16. Timing'
  <2>1. \A t \in timers : t.user # u => TimerRight(t)'
    BY <1>1, <1>4, OthersTimers
  <2>2. \A t \in timers : t.user = u => TimerRight(t)'
    BY <1>4, <1>5, OwnTimers DEF KeepsCall
  <2>3. \A v \in Users : v # u => Attended(v)'
    BY <1>1, <1>4, OthersTimers
  <2>4. Attended(u)'
    <3>1. Attended(u) /\ op[u].kind # "sleep"
      BY <1>2, Subsets DEF Timing, InIo
    <3>2. op[u].to => op[u].cancelled \/ \E t \in timers' : CallOf(t, u)'
      BY <1>1, <1>4, <3>1 DEF Attended, CallOf, KeepsCall
    <3> QED BY <1>2, <1>4, <3>1, <3>2 DEF Attended, KeepsCall
  <2> QED BY <1>1, <2>1, <2>2, <2>3, <2>4 DEF Timing
<1>17. Connects'
  <2>1. StaleStays
    BY <1>14 DEF StaleStays
  <2>2. Connecting(u)'
    <3> SUFFICES ASSUME op'[u].kind = "connect", ~ Reused(u)'
                 PROVE  kernel'[Fd(u)'].conn # "no" /\ wake'[u] # "event" /\ op'[u].by = "no"
      BY <1>4 DEF Connecting
    <3>1. op[u].kind = "connect" /\ ~ Reused(u) /\ Fd(u)' = Fd(u)
      BY <1>1, <1>4 DEF KeepsCall, Fd, Reused
    <3> QED BY <1>1, <1>2, <1>4, <3>1 DEF Connects, Connecting
  <2> QED BY <1>1, <1>4, <1>7, <2>1, <2>2, OthersConnecting
<1> QED BY <1>7, <1>11, <1>12, <1>15, <1>16, <1>17

\* u leaves its call, or goes back to try, and cancels its timer.
LEMMA Leaves ==
  ASSUME HookInv, NEW u \in Users, op' \in [Users -> Calls], OthersStay(u),
         ~ Managing(u), ~ Registered(u), ~ Asleep(u), ~ Managing(u)',
         op'[u].pc \notin {"add", "wait"}, op'[u].call = op[u].call,
         \/ KeepsCall(u) /\ InIo(u)
         \/ op'[u].kind \notin Waiting \cup {"sleep"},
         Control', Connecting(u)', CancelTimer(u),
         wake' \in [Users -> {"no", "event", "cancel"}],
         \A v \in Users : v # u => wake'[v] = wake[v] /\ (v \in late => v \in late'),
         late' \subseteq Users,
         UNCHANGED <<hooked, datas, size, kernel, last, event, tainted>>
  PROVE  HookInv'
<1> USE DEF HookInv
<1>1. Touched
  BY Untouched
<1>2. KeepsCall(u) \/ ~ InIo(u)'
  BY DEF InIo
<1>3. /\ Objects' /\ Exclusive' /\ Contexts' /\ GoesOn /\ Waiters'
      /\ \A w \in Users : op'[w].pc \in {"del", "close"} =>
                            op[w].pc \in {"del", "close"} /\ op'[w].fd = op[w].fd
  BY <1>1, <1>2, IoStep
<1>4. ~ Registered(u)' /\ ~ InWait(u)'
  BY DEF Registered, InWait
<1>5. Registrations'
  BY <1>1, <1>3, <1>4, RegistrationsStay
<1>6. timers' \subseteq timers /\ \A t \in timers : t.user # u => t \in timers'
  BY DEF CancelTimer, CallOf
<1>7. TypeOK'
  BY <1>6 DEF TypeOK
<1>8. Timing'
  <2>1. \A t \in timers : t.user # u => TimerRight(t)'
    BY OthersTimers
  <2>2. \A t \in timers : t.user = u => TimerRight(t)'
    BY <1>2, OwnTimers
  <2>3. \A v \in Users : v # u => Attended(v)'
    BY <1>6, OthersTimers
  <2>4. Attended(u)'
    <3>1. InIo(u)' /\ op'[u].cancelled => op'[u].fired
      BY <1>2 DEF Timing, Attended, KeepsCall, InIo
    <3> QED BY <1>4, <3>1 DEF Attended
  <2>5. \A t, s \in timers' : t.sleep /\ s.sleep /\ t.user = s.user => t = s
    BY <1>6 DEF Timing
  <2> QED BY <1>6, <2>1, <2>2, <2>3, <2>4, <2>5 DEF Timing
<1>9. Connects'
  <2>1. StaleStays
    BY DEF StaleStays
  <2> QED BY <1>3, <2>1, OthersConnecting
<1> QED BY <1>3, <1>5, <1>7, <1>8, <1>9

LEMMA AddFailsStep ==
  ASSUME HookInv, NEW u \in Users, AddFails(u)
  PROVE  HookInv'
<1> USE DEF HookInv
<1>1. /\ op[u].pc = "add" /\ AddEventFails(u) /\ CancelTimer(u)
      /\ UNCHANGED <<hooked, datas, size, kernel, last, wake, event, late, tainted>>
  BY DEF AddFails
<1>2. InIo(u) /\ Fd(u) \in Fds /\ wake[u] = "no"
  BY <1>1, InIoTypes DEF Control, InIo
<1>3. ~ Managing(u) /\ ~ Registered(u) /\ ~ Asleep(u)
  BY <1>1 DEF Managing, Registered, Asleep, InWait
<1>4. /\ wake' \in [Users -> {"no", "event", "cancel"}] /\ late' \subseteq Users
      /\ \A v \in Users : v # u => wake'[v] = wake[v] /\ (v \in late => v \in late')
  BY <1>1 DEF TypeOK
<1>5. CASE op[u].kind = "connect"
  <2>1. Goto(u, "sockerr") /\ "sockerr" \in Labels
    BY <1>5 DEF AddFails, Labels
  <2>2. /\ op' \in [Users -> Calls] /\ OthersStay(u) /\ KeepsCall(u) /\ op'[u].pc = "sockerr"
        /\ op'[u].by = op[u].by /\ op'[u].call = op[u].call
    BY <2>1, WhereTo DEF KeepsCall
  <2>3. Control'
    BY ONLY HookInv, <1>1, <1>2, <1>5, <2>2, SMTT(30)
      DEF HookInv, Control, OthersStay, KeepsCall, Fd
  <2>4. Connecting(u)'
    <3> SUFFICES ASSUME ~ Reused(u)'
                 PROVE  op'[u].by = "no" /\ Missed(Fd(u))'
      BY <2>2 DEF Connecting
    <3>1. ~ Reused(u) /\ Fd(u)' = Fd(u)
      BY <1>1, <2>2 DEF KeepsCall, Fd, Reused
    <3>2. op[u].by = "no"
      BY <1>1, <1>5, <3>1 DEF Connects, Connecting
    <3>3. kernel[Fd(u)].open
      BY <1>2, <3>1 DEF Waiters, Reused, Objects
    <3>4. PICK fd \in Fds : fd = Fd(u) /\ Missed(fd)
      BY <1>1, <1>2, <3>3 DEF AddEventFails
    <3>5. Missed(fd)'
      BY <1>1, <3>4 DEF Missed, Watched
    <3>6. Missed(Fd(u))'
      BY <3>1, <3>4, <3>5 DEF Missed, Watched
    <3> QED BY <2>2, <3>2, <3>6
  <2>5. ~ Managing(u)' /\ op'[u].pc \notin {"add", "wait"}
    BY <2>2 DEF Managing
  <2> QED BY <1>1, <1>2, <1>3, <1>4, <2>2, <2>3, <2>4, <2>5, Leaves
<1>6. CASE op[u].kind # "connect"
  <2>1. Return(u)
    BY <1>6 DEF AddFails
  <2>2. /\ op' \in [Users -> Calls] /\ OthersStay(u)
        /\ op'[u].pc = "idle" /\ op'[u].kind \notin Waiting \cup {"sleep"}
        /\ ~ op'[u].to /\ op'[u].call = op[u].call
    BY <2>1, ReturnedElsewhere
  <2>3. Control'
    BY <1>1, <1>2, <2>2 DEF Control, OthersStay
  <2>4. Connecting(u)'
    BY <2>2, Subsets DEF Connecting
  <2>5. ~ Managing(u)' /\ op'[u].pc \notin {"add", "wait"}
    BY <2>2 DEF Managing
  <2> QED BY <1>1, <1>3, <1>4, <2>2, <2>3, <2>4, <2>5, Leaves
<1> QED BY <1>5, <1>6

LEMMA ResumeStep ==
  ASSUME HookInv, NEW u \in Users, Resume(u)
  PROVE  HookInv'
<1> USE DEF HookInv
<1>1. /\ op[u].pc = "wait" /\ wake[u] # "no" /\ CancelTimer(u)
      /\ op' = [op EXCEPT ![u] = Woken([op[u] EXCEPT !.by = wake[u]])]
      /\ wake' = [wake EXCEPT ![u] = "no"] /\ late' = late \ {u}
      /\ UNCHANGED <<hooked, datas, size, kernel, last, event, tainted>>
  BY DEF Resume
<1>2. ~ Managing(u) /\ ~ Registered(u) /\ ~ Asleep(u)
  BY <1>1 DEF Managing, Registered, Asleep, InWait
<1>3. /\ wake' \in [Users -> {"no", "event", "cancel"}] /\ late' \subseteq Users /\ wake'[u] = "no"
      /\ \A v \in Users : v # u => wake'[v] = wake[v] /\ (v \in late => v \in late')
  BY <1>1 DEF TypeOK
<1>4. PICK o : o = [op[u] EXCEPT !.by = wake[u]]
  OBVIOUS
<1>5. /\ o \in Calls /\ o.pc = op[u].pc /\ o.kind = op[u].kind /\ o.fd = op[u].fd
      /\ o.gen = op[u].gen /\ o.to = op[u].to /\ o.cancelled = op[u].cancelled
      /\ o.fired = op[u].fired /\ o.by = wake[u] /\ o.call = op[u].call
  BY <1>4, CallTypes DEF Calls
<1>6. CASE o.cancelled \/ o.kind = "sleep"
  <2>1. Return(u)
    BY <1>1, <1>4, <1>5, <1>6 DEF Woken, Return
  <2>2. /\ op' \in [Users -> Calls] /\ OthersStay(u)
        /\ op'[u].pc = "idle" /\ op'[u].kind \notin Waiting \cup {"sleep"}
        /\ ~ op'[u].to /\ op'[u].call = op[u].call
    BY <2>1, ReturnedElsewhere
  <2>3. Control'
    BY ONLY HookInv, <1>3, <2>2, SMTT(30) DEF HookInv, Control, OthersStay
  <2>4. Connecting(u)'
    BY <2>2, Subsets DEF Connecting
  <2>5. ~ Managing(u)' /\ op'[u].pc \notin {"add", "wait"}
    BY <2>2 DEF Managing
  <2> QED BY <1>1, <1>2, <1>3, <2>2, <2>3, <2>4, <2>5, Leaves
<1>7. CASE ~ (o.cancelled \/ o.kind = "sleep")
  <2>1. PICK pc \in Labels : pc = IF o.kind = "connect" THEN "sockerr" ELSE "try"
    BY DEF Labels
  <2>2. PICK r : r = [o EXCEPT !.pc = pc]
    OBVIOUS
  <2>3. /\ r \in Calls /\ r.pc = pc /\ r.kind = o.kind /\ r.fd = o.fd
        /\ r.gen = o.gen /\ r.to = o.to /\ r.cancelled = o.cancelled
        /\ r.fired = o.fired /\ r.by = o.by /\ r.call = o.call
    BY <1>5, <2>2 DEF Calls
  <2>4. op' = [op EXCEPT ![u] = r]
    BY <1>1, <1>4, <1>7, <2>1, <2>2 DEF Woken
  <2>5. op' \in [Users -> Calls] /\ OthersStay(u) /\ op'[u] = r
    BY <2>3, <2>4 DEF TypeOK, OthersStay
  <2>6. /\ KeepsCall(u) /\ op'[u].call = op[u].call /\ op'[u].pc = pc /\ op'[u].by = wake[u]
        /\ op'[u].kind = op[u].kind
    BY <1>5, <2>3, <2>5 DEF KeepsCall
  <2>7. InIo(u) /\ op[u].kind # "sleep"
    BY <1>1, <1>5, <1>7 DEF Control, InIo
  <2>8. Control'
    <3>1. op'[u].kind \in Waiting /\ op'[u].fd \in Fds
      BY <1>1, <2>6, <2>7 DEF InIo, Control, KeepsCall
    <3>2. op'[u].pc = "sockerr" => op'[u].kind = "connect"
      BY <1>5, <2>1, <2>6
    <3>3. op'[u].kind # "sleep" /\ op'[u].pc \in {"sockerr", "try"}
      BY <2>1, <2>6, <2>7
    <3> QED BY ONLY HookInv, <1>3, <2>5, <3>1, <3>2, <3>3, SMTT(30) DEF HookInv, Control, OthersStay
  <2>9. Connecting(u)'
    <3> SUFFICES ASSUME op'[u].kind = "connect", ~ Reused(u)'
                 PROVE  /\ op'[u].pc = "sockerr"
                        /\ \/ op'[u].by = "event" /\ kernel'[Fd(u)'].conn \in {"yes", "refused"}
                           \/ op'[u].by = "cancel"
      BY DEF Connecting
    <3>1. op[u].kind = "connect" /\ ~ Reused(u) /\ Fd(u)' = Fd(u) /\ kernel' = kernel
      BY <1>1, <2>6 DEF KeepsCall, Fd, Reused
    <3>2. op'[u].pc = "sockerr"
      BY <1>5, <2>1, <2>6, <3>1
    <3>3. wake[u] = "event" => kernel[Fd(u)].conn \in {"yes", "refused"}
      BY <1>1, <3>1 DEF Connects, Connecting
    <3>4. wake[u] \in {"event", "cancel"}
      BY <1>1, CallTypes
    <3> QED BY <2>6, <3>1, <3>2, <3>3, <3>4
  <2>10. ~ Managing(u)' /\ op'[u].pc \notin {"add", "wait"}
    BY <2>1, <2>6 DEF Managing
  <2> QED BY <1>1, <1>2, <1>3, <2>5, <2>6, <2>7, <2>8, <2>9, <2>10, Leaves
<1> QED BY <1>6, <1>7

LEMMA SleepStep ==
  ASSUME HookInv, NEW u \in Users, Sleep(u)
  PROVE  HookInv'
<1> USE DEF HookInv
<1>1. /\ op[u].pc = "idle" /\ op[u].call \in Nat /\ wake[u] = "no"
      /\ UNCHANGED <<hooked, datas, size, kernel, last, wake, event, late, tainted>>
  BY CallTypes DEF Sleep, MayCall, Control
<1>a. PICK c \in Nat : c = op[u].call + 1
  BY ONLY <1>1, SMTT(30)
<1>2. PICK r : r = [NoOp EXCEPT !.pc = "wait", !.kind = "sleep", !.call = c]
  OBVIOUS
<1>3. /\ r \in Calls /\ r.pc = "wait" /\ r.kind = "sleep" /\ ~ r.to /\ r.call = op[u].call + 1
  <2>1. "wait" \in Labels /\ "sleep" \in Kinds
    BY DEF Labels, Kinds
  <2> QED BY <1>a, <1>2, <2>1, NoCall DEF Calls
<1>4. op' \in [Users -> Calls] /\ OthersStay(u) /\ op'[u] = r
  BY <1>a, <1>2, <1>3 DEF Sleep, TypeOK, OthersStay
<1>5. PICK t0 : t0 = [user |-> u, call |-> op[u].call + 1, fd |-> 0, e |-> "READ",
                      sleep |-> TRUE, phase |-> "armed"]
  OBVIOUS
<1>6. t0 \in Timers /\ t0.user = u /\ t0.call = op[u].call + 1 /\ t0.sleep /\ t0.phase = "armed"
  BY ONLY <1>1, <1>5, SMTT(30) DEF Timers, Event
<1>7. timers' = timers \cup {t0}
  BY <1>5 DEF Sleep
<1>8. /\ ~ Managing(u) /\ ~ Managing(u)' /\ ~ Registered(u) /\ ~ Registered(u)' /\ ~ Asleep(u)
      /\ ~ InIo(u)' /\ InWait(u)'
  BY <1>1, <1>3, <1>4, Subsets DEF Managing, Registered, InWait, Asleep, InIo
<1>9. Touched
  BY <1>1, Untouched
<1>10. /\ Objects' /\ Exclusive' /\ Contexts' /\ GoesOn /\ Waiters'
       /\ \A w \in Users : op'[w].pc \in {"del", "close"} =>
                             op[w].pc \in {"del", "close"} /\ op'[w].fd = op[w].fd
  BY <1>1, <1>4, <1>8, <1>9, IoStep
<1>11. Registrations'
  BY <1>1, <1>4, <1>8, <1>9, <1>10, RegistrationsStay
<1>12. TypeOK'
  BY <1>1, <1>4, <1>6, <1>7 DEF TypeOK
<1>13. Control'
  BY <1>1, <1>3, <1>4 DEF Control, OthersStay
<1>14. Timing'
  <2>1. \A t \in timers : t.user = u => ~ t.sleep
    BY <1>8 DEF Timing, TimerRight, Asleep
  <2>2. \A t \in timers : t.user # u => TimerRight(t)'
    BY <1>1, <1>4, OthersTimers
  <2>3. ASSUME NEW t \in timers, t.user = u PROVE TimerRight(t)'
    <3>1. TimerRight(t) /\ ~ t.sleep
      BY <2>1, <2>3 DEF Timing
    <3>2. op'[u].call \in Nat /\ op[u].call <= op'[u].call
      BY ONLY <1>1, <1>3, <1>4, SMTT(30)
    <3> QED BY <1>8, <2>3, <3>1, <3>2, TimerKept
  <2>4. TimerRight(t0)'
    <3>1. op'[u].call = op[u].call + 1 /\ op'[u].kind = "sleep"
      BY <1>3, <1>4
    <3>2. CallOf(t0, u)' /\ t0.call <= op'[u].call
      BY ONLY <1>1, <1>6, <3>1, SMTT(30) DEF CallOf
    <3> QED BY <1>6, <1>8, <3>1, <3>2 DEF TimerRight
  <2>5. \A t, s \in timers' : t.sleep /\ s.sleep /\ t.user = s.user => t = s
    BY <1>6, <1>7, <2>1 DEF Timing
  <2>6. \A v \in Users : v # u => Attended(v)'
    BY <1>1, <1>4, <1>7, OthersTimers
  <2>7. Attended(u)'
    <3>1. t0 \in timers' /\ CallOf(t0, u)' /\ t0.sleep
      BY <1>3, <1>4, <1>6, <1>7 DEF CallOf
    <3> QED BY <1>3, <1>4, <1>8, <3>1 DEF Attended
  <2> QED BY <1>7, <2>2, <2>3, <2>4, <2>5, <2>6, <2>7 DEF Timing
<1>15. Connects'
  <2>1. StaleStays /\ Connecting(u)'
    BY <1>1, <1>3, <1>4 DEF StaleStays, Connecting
  <2> QED BY <1>1, <1>4, <1>10, <2>1, OthersConnecting
<1> QED BY <1>10, <1>11, <1>12, <1>13, <1>14, <1>15

------------------------------------------------------------------------------
(* Steps of the timers *)

\* The callback of a sleep.
LEMMA SleepCallbackStep ==
  ASSUME HookInv, NEW t \in timers, SleepCallback(t)
  PROVE  HookInv'
<1> USE DEF HookInv
<1>1. /\ t.sleep /\ timers' = timers \ {t} /\ wake' = [wake EXCEPT ![t.user] = "event"]
      /\ UNCHANGED <<hooked, datas, size, kernel, last, op, event, late, tainted>>
  BY DEF SleepCallback
<1>2. PICK u \in Users : u = t.user
  BY TimerTypes
<1>3. Asleep(u) /\ ~ op[u].to /\ ~ InIo(u) /\ op[u].pc = "wait"
  BY <1>1, <1>2, Subsets DEF Timing, TimerRight, Asleep, InWait, InIo, Control
<1>4. /\ wake' \in [Users -> {"no", "event", "cancel"}] /\ wake'[u] = "event"
      /\ \A v \in Users : v # u => wake'[v] = wake[v]
  BY <1>1, <1>2 DEF TypeOK
<1>5. op' \in [Users -> Calls] /\ OthersStay(u)
  BY <1>1 DEF TypeOK, OthersStay
<1>6. /\ ~ Managing(u) /\ ~ Managing(u)' /\ ~ Registered(u) /\ ~ Registered(u)' /\ ~ InIo(u)'
      /\ ~ InWait(u)'
  BY <1>1, <1>3, <1>4 DEF Managing, Registered, InWait, InIo
<1>7. Touched
  BY <1>1, Untouched
<1>8. /\ Objects' /\ Exclusive' /\ Contexts' /\ GoesOn /\ Waiters'
      /\ \A w \in Users : op'[w].pc \in {"del", "close"} =>
                            op[w].pc \in {"del", "close"} /\ op'[w].fd = op[w].fd
  BY <1>1, <1>5, <1>6, <1>7, IoStep
<1>9. Registrations'
  BY <1>1, <1>4, <1>5, <1>6, <1>7, <1>8, RegistrationsStay
<1>10. TypeOK'
  BY <1>1, <1>4 DEF TypeOK
<1>11. Control'
  BY <1>1, <1>3, <1>4 DEF Control
<1>12. Timing'
  <2>1. \A s \in timers : s.user # u => TimerRight(s)'
    BY <1>4, <1>5, OthersTimers
  <2>2. ASSUME NEW s \in timers', s.user = u PROVE TimerRight(s)'
    <3>1. s \in timers /\ TimerRight(s) /\ ~ s.sleep /\ op[u].call \in Nat
      BY <1>1, <1>2, <2>2, CallTypes DEF Timing
    <3> QED BY <1>1, <1>6, <2>2, <3>1, TimerKept, SMTT(30)
  <2>3. \A v \in Users : v # u => Attended(v)'
    BY <1>1, <1>2, <1>4, <1>5, OthersTimers
  <2>4. Attended(u)'
    BY <1>1, <1>3, <1>6 DEF Attended
  <2>5. \A r, s \in timers' : r.sleep /\ s.sleep /\ r.user = s.user => r = s
    BY <1>1 DEF Timing
  <2> QED BY <1>1, <2>1, <2>2, <2>3, <2>4, <2>5 DEF Timing
<1>13. Connects'
  <2>1. StaleStays /\ Connecting(u)'
    BY <1>1, <1>3 DEF StaleStays, Connecting, Asleep
  <2> QED BY <1>4, <1>5, <1>8, <2>1, OthersConnecting
<1> QED BY <1>8, <1>9, <1>10, <1>11, <1>12, <1>13

\* Nothing changes but the timers and what they have done to the call of u.
LEMMA OnlyTimers ==
  ASSUME HookInv, NEW u \in Users, op' \in [Users -> Calls], OthersStay(u),
         op'[u].pc = op[u].pc, op'[u].kind = op[u].kind, op'[u].fd = op[u].fd,
         op'[u].gen = op[u].gen, op'[u].to = op[u].to, op'[u].by = op[u].by,
         timers' \subseteq Timers, Timing',
         UNCHANGED <<hooked, datas, size, kernel, last, wake, event, late, tainted>>
  PROVE  HookInv'
<1> USE DEF HookInv
<1>1. \A v \in Users : /\ op'[v].pc = op[v].pc /\ op'[v].kind = op[v].kind /\ op'[v].fd = op[v].fd
                       /\ op'[v].gen = op[v].gen /\ op'[v].to = op[v].to /\ op'[v].by = op[v].by
                       /\ InIo(v)' = InIo(v) /\ Registered(v)' = Registered(v)
  BY DEF OthersStay, InIo, Registered, InWait
<1>2. TypeOK'
  BY DEF TypeOK
<1>3. Control'
  BY ONLY HookInv, <1>1, wake' = wake, SMTT(30) DEF HookInv, Control
<1>4. Touched
  BY Untouched
<1>5. Objects' /\ GoesOn
  BY <1>4, TouchedKeeps
<1>6. Exclusive' /\ Contexts'
  BY <1>1, ContextsKept
<1>7. Waiters'
  BY <1>1, <1>5, WaitersKept
<1>8. Registrations'
  <2>1. \A v \in Users : Registered(v) /\ ~ Missable(v) =>
          /\ kernel'[Fd(v)].open /\ kernel'[Fd(v)].gen = kernel[Fd(v)].gen
          /\ ~ \E w \in Users : op'[w].fd = Fd(v) /\ op'[w].pc \in {"del", "close"}
    BY <1>1, <1>4, NotClosed DEF Touched
  <2> QED BY <1>1, <1>5, <2>1, RegistrationsKept DEF GoesOn
<1>9. Connects'
  <2>1. StaleStays
    BY DEF StaleStays
  <2> QED BY <1>1, <1>5, <2>1, ConnectsKept
<1> QED BY <1>2, <1>3, <1>5, <1>6, <1>7, <1>8, <1>9

\* t becomes s, the same timer in another phase.
LEMMA TimerMoves ==
  ASSUME HookInv, NEW t \in timers, NEW s \in Timers, NEW u \in Users, u = t.user,
         s.user = t.user, s.call = t.call, s.fd = t.fd, s.sleep = t.sleep,
         timers' = (timers \ {t}) \cup {s},
         op' \in [Users -> Calls], OthersStay(u),
         op'[u].pc = op[u].pc, op'[u].kind = op[u].kind, op'[u].fd = op[u].fd,
         op'[u].gen = op[u].gen, op'[u].to = op[u].to, op'[u].by = op[u].by,
         op'[u].call = op[u].call,
         op[u].fired => op'[u].fired, op[u].cancelled => op'[u].cancelled,
         TimerRight(s)', Attended(u)',
         UNCHANGED <<hooked, datas, size, kernel, last, wake, event, late, tainted>>
  PROVE  HookInv'
<1> USE DEF HookInv
<1>1. timers' \subseteq Timers
  BY DEF TypeOK
<1>2. InIo(u)' = InIo(u) /\ Asleep(u)' = Asleep(u) /\ op[u].call \in Nat
  <2>1. wake'[u] = wake[u] /\ op[u].call \in Nat
    BY Counts
  <2>2. InIo(u)' = InIo(u)
    BY DEF InIo
  <2>3. Asleep(u)' = Asleep(u)
    BY <2>1 DEF Asleep, InWait
  <2> QED BY <2>1, <2>2, <2>3
<1>3. ASSUME NEW r \in timers, r.user = u PROVE TimerRight(r)'
  <2>1. TimerRight(r) /\ (r.sleep => Asleep(u))
    BY <1>3 DEF Timing, TimerRight, Asleep
  <2> QED BY ONLY HookInv, <1>2, <1>3, <2>1, op'[u].call = op[u].call,
                  op[u].fired => op'[u].fired, op[u].cancelled => op'[u].cancelled,
                  TimerKept, SMTT(30) DEF HookInv
<1>4. \A r \in timers : r.user # u => TimerRight(r)'
  BY OthersTimers
<1>5. \A r, q \in timers' : r.sleep /\ q.sleep /\ r.user = q.user => r = q
  <2>1. \A r, q \in timers : r.sleep /\ q.sleep /\ r.user = q.user => r = q
    BY DEF Timing
  <2> QED BY ONLY <2>1, t \in timers, timers' = (timers \ {t}) \cup {s}, s.user = t.user,
                  s.sleep = t.sleep, SMTT(30)
<1>6. \A v \in Users : v # u => Attended(v)'
  BY OthersTimers
<1>7. Timing'
  BY <1>3, <1>4, <1>5, <1>6 DEF Timing
<1> HIDE DEF HookInv
<1> QED BY <1>1, <1>7, OnlyTimers

LEMMA FireStep ==
  ASSUME HookInv, NEW t \in timers, Fire(t)
  PROVE  HookInv'
<1> USE DEF HookInv
<1>1. PICK u \in Users : u = t.user
  BY TimerTypes
<1>2. /\ t.phase = "armed" /\ op' = [op EXCEPT ![u].fired = op[u].fired \/ CallOf(t, u)]
      /\ timers' = (timers \ {t}) \cup {[t EXCEPT !.phase = "due"]}
      /\ UNCHANGED <<hooked, datas, size, kernel, last, wake, event, late, tainted>>
  BY <1>1 DEF Fire
<1>3. PICK s : s = [t EXCEPT !.phase = "due"]
  OBVIOUS
<1>4. /\ s \in Timers /\ s.user = t.user /\ s.call = t.call /\ s.fd = t.fd /\ s.sleep = t.sleep
      /\ s.phase = "due"
  BY <1>3, TimerTypes DEF Timers
<1>5. (op[u].fired \/ CallOf(t, u)) \in BOOLEAN
  BY CallTypes
<1>6. PICK b \in BOOLEAN : b = (op[u].fired \/ CallOf(t, u))
  BY <1>5
<1>7. PICK r : r = [op[u] EXCEPT !.fired = b]
  OBVIOUS
<1>8. /\ r \in Calls /\ r.pc = op[u].pc /\ r.kind = op[u].kind /\ r.fd = op[u].fd
      /\ r.gen = op[u].gen /\ r.to = op[u].to /\ r.by = op[u].by /\ r.call = op[u].call
      /\ r.cancelled = op[u].cancelled /\ r.fired = b
  BY <1>7, CallTypes DEF Calls
<1>9. op' = [op EXCEPT ![u] = r]
  BY <1>2, <1>6, <1>7
<1>10. op' \in [Users -> Calls] /\ OthersStay(u) /\ op'[u] = r
  BY <1>8, <1>9 DEF TypeOK, OthersStay
<1>11. (op[u].fired => op'[u].fired) /\ (CallOf(t, u) => op'[u].fired)
  BY <1>6, <1>8, <1>10
<1>12. InIo(u)' = InIo(u) /\ InWait(u)' = InWait(u) /\ CallOf(t, u)' = CallOf(t, u)
  BY <1>2, <1>8, <1>10 DEF InIo, InWait, CallOf
<1>13. TimerRight(s)'
  <2>1. TimerRight(t)
    BY DEF Timing
  <2>2. CallAlive(s)' => op'[u].fired
    BY <1>1, <1>4, <1>8, <1>10, <1>11 DEF CallAlive, CallOf
  <2>3. s.sleep => (CallOf(s, s.user) /\ InWait(s.user) /\ op[s.user].kind = "sleep")'
    BY <1>1, <1>4, <1>8, <1>10, <1>12, <2>1 DEF TimerRight, CallOf
  <2> QED BY <1>1, <1>4, <1>8, <1>10, <2>1, <2>2, <2>3 DEF TimerRight
<1>14. Attended(u)'
  <2>1. Attended(u) /\ wake'[u] = wake[u]
    BY <1>2 DEF Timing
  <2>2. \A q \in timers : CallOf(q, u) =>
          \E p \in timers' : p.user = q.user /\ p.call = q.call /\ p.sleep = q.sleep
    BY <1>2, <1>3, <1>4
  <2> QED BY <1>8, <1>10, <1>11, <2>1, <2>2, AttendedKept
<1>15. timers' = (timers \ {t}) \cup {s}
  BY <1>2, <1>3
<1>16. /\ op'[u].pc = op[u].pc /\ op'[u].kind = op[u].kind /\ op'[u].fd = op[u].fd
       /\ op'[u].gen = op[u].gen /\ op'[u].to = op[u].to /\ op'[u].by = op[u].by
       /\ op'[u].call = op[u].call /\ op'[u].cancelled = op[u].cancelled
  BY <1>8, <1>10
<1> HIDE DEF HookInv
<1> QED BY ONLY HookInv, <1>1, <1>2, <1>4, <1>10, <1>11, <1>13, <1>14, <1>15, <1>16,
                TimerMoves, SMTT(30)

LEMMA TimeoutCallbackStep ==
  ASSUME HookInv, NEW t \in timers, TimeoutCallback(t)
  PROVE  HookInv'
<1> USE DEF HookInv
<1>1. PICK u \in Users : u = t.user
  BY TimerTypes
<1>2. /\ t.phase = "due" /\ ~ t.sleep
      /\ UNCHANGED <<hooked, datas, size, kernel, last, wake, event, late, tainted>>
  BY DEF TimeoutCallback
<1>3. CASE CallAlive(t) /\ ~ op[t.user].cancelled
  <2>1. /\ op' = [op EXCEPT ![u].cancelled = TRUE]
        /\ timers' = (timers \ {t}) \cup {[t EXCEPT !.phase = "cancel"]}
    BY <1>1, <1>3 DEF TimeoutCallback
  <2>2. PICK s : s = [t EXCEPT !.phase = "cancel"]
    OBVIOUS
  <2>3. /\ s \in Timers /\ s.user = t.user /\ s.call = t.call /\ s.fd = t.fd /\ s.sleep = t.sleep
        /\ s.phase = "cancel"
    BY <2>2, TimerTypes DEF Timers
  <2>4. PICK r : r = [op[u] EXCEPT !.cancelled = TRUE]
    OBVIOUS
  <2>5. /\ r \in Calls /\ r.pc = op[u].pc /\ r.kind = op[u].kind /\ r.fd = op[u].fd
        /\ r.gen = op[u].gen /\ r.to = op[u].to /\ r.by = op[u].by /\ r.call = op[u].call
        /\ r.cancelled /\ r.fired = op[u].fired
    BY <2>4, CallTypes DEF Calls
  <2>6. op' = [op EXCEPT ![u] = r]
    BY <2>1, <2>4
  <2>7. op' \in [Users -> Calls] /\ OthersStay(u) /\ op'[u] = r
    BY <2>5, <2>6 DEF TypeOK, OthersStay
  <2>8. TimerRight(t) /\ op[u].fired /\ op[u].kind \in Waiting /\ op[u].kind # "sleep"
    BY <1>1, <1>2, <1>3, Subsets DEF Timing, TimerRight, CallAlive
  <2>9. TimerRight(s)'
    BY <1>1, <1>2, <2>3, <2>5, <2>7, <2>8 DEF TimerRight
  <2>10. Attended(u)'
    BY <2>5, <2>7, <2>8 DEF Attended
  <2>11. timers' = (timers \ {t}) \cup {s}
    BY <2>1, <2>2
  <2>12. /\ op'[u].pc = op[u].pc /\ op'[u].kind = op[u].kind /\ op'[u].fd = op[u].fd
         /\ op'[u].gen = op[u].gen /\ op'[u].to = op[u].to /\ op'[u].by = op[u].by
         /\ op'[u].call = op[u].call /\ op'[u].cancelled /\ op'[u].fired = op[u].fired
    BY <2>5, <2>7
  <2> HIDE DEF HookInv
  <2> QED BY <1>1, <1>2, <2>3, <2>7, <2>9, <2>10, <2>11, <2>12, TimerMoves
<1>4. CASE ~ (CallAlive(t) /\ ~ op[t.user].cancelled)
  <2>1. timers' = timers \ {t} /\ op' = op
    BY <1>4 DEF TimeoutCallback
  <2>2. /\ timers' \subseteq timers
        /\ \A s \in timers \ timers' : ~ s.sleep /\ (CallAlive(s) => op[s.user].cancelled)
    BY <1>2, <1>4, <2>1
  <2>3. \A v \in Users : op'[v].call \in Nat /\ op[v].call <= op'[v].call
    BY <2>1, Counts
  <2>4. \A v \in Users : /\ InIo(v)' = InIo(v) /\ Asleep(v)' = Asleep(v)
                         /\ Patient(v)' = Patient(v)
    BY <1>2, <2>1 DEF InIo, Asleep, Patient, InWait
  <2>5. \A v \in Users : Patient(v) => InIo(v)
    BY CallTypes DEF Patient, InWait, InIo, Control
  <2>6. Timing'
    BY <2>1, <2>2, <2>3, <2>4, <2>5, TimingKept
  <2>7. op' \in [Users -> Calls] /\ OthersStay(u) /\ timers' \subseteq Timers
    BY <2>1, <2>2 DEF TypeOK, OthersStay
  <2> HIDE DEF HookInv
  <2> QED BY <1>2, <2>1, <2>6, <2>7, OnlyTimers
<1> QED BY <1>3, <1>4

------------------------------------------------------------------------------
(* The invariant *)

LEMMA CallStep ==
  ASSUME HookInv, NEW u \in Users, Call(u)
  PROVE  HookInv'
<1>1. CASE Sleep(u)
  BY <1>1, SleepStep
<1>2. CASE \E flag \in BOOLEAN : SetHookEnable(u, flag)
  BY <1>2, SetHookEnableStep
<1>3. ASSUME NEW fd \in Fds,
             \/ \E e \in Io : DoIo(u, e, fd) \/ SetSockOpt(u, fd, e)
             \/ \E kind \in Io \cup {"connect"} : Direct(u, fd, kind)
             \/ ConnectWithTimeout(u, fd)
             \/ Socket(u, fd)
             \/ Close(u, fd)
             \/ \E b \in BOOLEAN : FcntlSetFl(u, fd, b)
             \/ \E b \in BOOLEAN : Ioctl(u, fd, b)
      PROVE  HookInv'
  <2>1. ASSUME NEW e \in Io, DoIo(u, e, fd) PROVE HookInv'
    BY <2>1, DoIoStep
  <2>2. ASSUME NEW e \in Io, SetSockOpt(u, fd, e) PROVE HookInv'
    <3>1. e \in Event
      BY Subsets
    <3> QED BY <2>2, <3>1, SetSockOptStep
  <2>3. ASSUME NEW kind \in Io \cup {"connect"}, Direct(u, fd, kind) PROVE HookInv'
    <3>1. kind \in Waiting
      BY Subsets
    <3> QED BY <2>3, <3>1, DirectStep
  <2>4. CASE ConnectWithTimeout(u, fd)
    BY <2>4, ConnectStep
  <2>5. CASE Socket(u, fd)
    BY <2>5, SocketStep
  <2>6. CASE Close(u, fd)
    BY <2>6, CloseStep
  <2>7. CASE \E b \in BOOLEAN : FcntlSetFl(u, fd, b)
    BY <2>7, FcntlSetFlStep
  <2>8. CASE \E b \in BOOLEAN : Ioctl(u, fd, b)
    BY <2>8, IoctlStep
  <2> QED BY <1>3, <2>1, <2>2, <2>3, <2>4, <2>5, <2>6, <2>7, <2>8
<1> QED BY <1>1, <1>2, <1>3 DEF Call

LEMMA HookStep ==
  ASSUME HookInv, [Next]_vars
  PROVE  HookInv'
<1>1. ASSUME NEW u \in Users, Call(u) PROVE HookInv'
  BY <1>1, CallStep
<1>2. ASSUME NEW u \in Users, Step(u) PROVE HookInv'
  <2>1. CASE Try(u)
    BY <2>1, TryStep
  <2>2. CASE Add(u)
    BY <2>2, AddStep
  <2>3. CASE AddFails(u)
    BY <2>3, AddFailsStep
  <2>4. CASE Resume(u)
    BY <2>4, ResumeStep
  <2>5. CASE SockErr(u)
    BY <2>5, SockErrStep
  <2>6. CASE GetLookup(u)
    BY <2>6, GetLookupStep
  <2>7. CASE GetCreate(u)
    BY <2>7, GetCreateStep
  <2>8. CASE CloseDel(u)
    BY <2>8, CloseDelStep
  <2>9. CASE CloseSys(u)
    BY <2>9, CloseSysStep
  <2> QED BY <1>2, <2>1, <2>2, <2>3, <2>4, <2>5, <2>6, <2>7, <2>8, <2>9 DEF Step
<1>3. ASSUME NEW t \in timers,
             Fire(t) \/ TimeoutCallback(t) \/ TimeoutCancel(t) \/ SleepCallback(t)
      PROVE  HookInv'
  BY <1>3, FireStep, TimeoutCallbackStep, TimeoutCancelStep, SleepCallbackStep
<1>4. ASSUME NEW u \in Users, Clock(u) PROVE HookInv'
  BY <1>3, <1>4 DEF Clock
<1>5. ASSUME NEW fd \in Fds, NEW e \in Event, Report(fd, e) PROVE HookInv'
  BY <1>5, ReportStep
<1>6. ASSUME NEW fd \in Fds, NEW e \in Io, Arrive(fd, e) PROVE HookInv'
  <2>1. e \in Event
    BY Subsets
  <2> QED BY <1>6, <2>1, ArriveStep
<1>7. ASSUME NEW fd \in Fds, NEW r \in {"yes", "refused"}, Answer(fd, r) PROVE HookInv'
  BY <1>7, AnswerStep
<1>8. CASE UNCHANGED vars
  BY <1>8, HookStutters
<1> QED BY <1>1, <1>2, <1>4, <1>5, <1>6, <1>7, <1>8 DEF Next

LEMMA HookInvariant == Spec => []HookInv
<1>1. Init => HookInv
  BY HookInitially
<1>2. HookInv /\ [Next]_vars => HookInv'
  BY HookStep
<1> QED BY <1>1, <1>2, PTL DEF Spec

------------------------------------------------------------------------------
(* The properties *)

\* A fiber that has yielded goes on by being resumed, and in no other way.
LEMMA LeavesWait ==
  ASSUME HookInv, [Next]_vars, NEW u \in Users, op[u].pc = "wait", op'[u].pc # "wait"
  PROVE  Resume(u)
<1>1. op \in [Users -> Calls]
  BY DEF HookInv, TypeOK
<1>2. op' # op
  OBVIOUS
<1>3. ASSUME NEW w \in Users, MayCall(w), NEW r, op' = [op EXCEPT ![w] = r]
      PROVE  FALSE
  BY <1>1, <1>3 DEF MayCall
<1>4. ASSUME NEW w \in Users, Passing(w) PROVE FALSE
  BY <1>1, <1>3, <1>4 DEF Passing
<1>5. ASSUME NEW w \in Users, Call(w) PROVE FALSE
  <2>1. ASSUME NEW kind, NEW fd, NEW pc, NEW to, Enter(w, kind, fd, pc, to) PROVE FALSE
    BY <1>3, <2>1 DEF Enter
  <2>2. ASSUME NEW fd, NEW c, MayCall(w), Creates(w, fd, c) PROVE FALSE
    BY <1>3, <2>2 DEF Creates
  <2>3. ASSUME NEW fd \in Fds, NEW kind, Direct(w, fd, kind) PROVE FALSE
    BY <1>4, <2>2, <2>3 DEF Direct, Accepted
  <2>4. ASSUME NEW fd \in Fds, NEW e \in Io, DoIo(w, e, fd) \/ SetSockOpt(w, fd, e) PROVE FALSE
    BY <1>4, <2>1, <2>4 DEF DoIo, SetSockOpt
  <2>5. ASSUME NEW fd \in Fds, ConnectWithTimeout(w, fd) \/ Close(w, fd) PROVE FALSE
    BY <2>1, <2>5 DEF ConnectWithTimeout, Close
  <2>6. ASSUME NEW fd \in Fds, Socket(w, fd) PROVE FALSE
    BY <1>4, <2>2, <2>6 DEF Socket
  <2>7. ASSUME NEW fd \in Fds, NEW b \in BOOLEAN, FcntlSetFl(w, fd, b) \/ Ioctl(w, fd, b)
        PROVE  FALSE
    BY <1>4, <2>7 DEF FcntlSetFl, Ioctl
  <2>8. ASSUME Sleep(w) PROVE FALSE
    BY <1>3, <2>8 DEF Sleep
  <2>9. ASSUME NEW flag \in BOOLEAN, SetHookEnable(w, flag) PROVE FALSE
    BY <1>4, <2>9 DEF SetHookEnable
  <2> QED BY <1>5, <2>3, <2>4, <2>5, <2>6, <2>7, <2>8, <2>9 DEF Call
<1>6. ASSUME NEW w \in Users, Step(w), ~ Resume(u) PROVE FALSE
  <2>1. ASSUME NEW r, op[w].pc # "wait", op' = [op EXCEPT ![w] = r] PROVE FALSE
    BY <1>1, <2>1
  <2>2. ASSUME op[w].pc # "wait", NEW pc, Goto(w, pc) \/ Return(w) PROVE FALSE
    BY <1>1, <2>1, <2>2 DEF Goto, Return
  <2>3. ASSUME Try(w) PROVE FALSE
    BY <2>1, <2>2, <2>3 DEF Try, Accepted, Creates
  <2>4. ASSUME Add(w) \/ AddFails(w) PROVE FALSE
    BY <2>2, <2>4 DEF Add, AddFails
  <2>5. ASSUME SockErr(w) \/ GetLookup(w) \/ GetCreate(w) \/ CloseDel(w) \/ CloseSys(w) PROVE FALSE
    BY <2>2, <2>5 DEF SockErr, GetLookup, GetCreate, CloseDel, CloseSys
  <2>6. ASSUME Resume(w) PROVE FALSE
    BY <1>1, <1>6, <2>6 DEF Resume
  <2> QED BY <1>6, <2>3, <2>4, <2>5, <2>6 DEF Step
<1>7. ASSUME NEW t \in timers,
             Fire(t) \/ TimeoutCallback(t) \/ TimeoutCancel(t) \/ SleepCallback(t)
      PROVE  FALSE
  <2>1. t.user \in Users
    BY TimerTypes DEF HookInv
  <2>2. ASSUME NEW b, op' = [op EXCEPT ![t.user].fired = b] PROVE FALSE
    BY <1>1, <2>1, <2>2 DEF Calls
  <2>3. ASSUME NEW b, op' = [op EXCEPT ![t.user].cancelled = b] PROVE FALSE
    BY <1>1, <2>1, <2>3 DEF Calls
  <2>4. ASSUME Fire(t) PROVE FALSE
    BY <2>2, <2>4 DEF Fire
  <2>5. ASSUME TimeoutCallback(t) PROVE FALSE
    BY <1>2, <2>3, <2>5 DEF TimeoutCallback
  <2> QED BY <1>2, <1>7, <2>4, <2>5 DEF TimeoutCancel, SleepCallback
<1>8. ASSUME NEW w \in Users, Clock(w) PROVE FALSE
  BY <1>7, <1>8 DEF Clock
<1>9. ASSUME NEW fd \in Fds, NEW e, Report(fd, e) \/ Arrive(fd, e) \/ Answer(fd, e) PROVE FALSE
  BY <1>2, <1>9 DEF Report, Arrive, Answer
<1> QED BY <1>2, <1>5, <1>6, <1>8, <1>9 DEF Next, vars

LEMMA TimeoutsOwn ==
  ASSUME HookInv, [Next]_vars, NEW u \in Users,
         op[u].pc = "wait", op'[u].pc = "idle", op[u].kind # "sleep"
  PROVE  op[u].fired
<1>1. Resume(u)
  BY LeavesWait
<1>2. PICK o : o = [op[u] EXCEPT !.by = wake[u]]
  OBVIOUS
<1>3. o \in Calls /\ o.kind = op[u].kind /\ o.cancelled = op[u].cancelled
  BY <1>2, CallTypes DEF Calls, HookInv
<1>4. op'[u] = Woken(o)
  BY <1>1, <1>2 DEF Resume, HookInv, TypeOK
<1>5. op[u].cancelled
  <2> SUFFICES ASSUME ~ op[u].cancelled PROVE FALSE
    OBVIOUS
  <2>1. op'[u] = [o EXCEPT !.pc = IF o.kind = "connect" THEN "sockerr" ELSE "try"]
    BY <1>3, <1>4 DEF Woken
  <2>2. op'[u].pc \in {"sockerr", "try"}
    BY <1>3, <2>1 DEF Calls
  <2> QED BY <2>2
<1>6. InIo(u)
  BY DEF HookInv, Control, InIo
<1> QED BY <1>5, <1>6 DEF HookInv, Timing, Attended

\* Outside socket, accept and close the table has a context for every socket
\* made through the hooks and for no other descriptor, and it is the one of the
\* object that has the number now, unless a thread without the hook closed it
\* or changed its flags: for any number of users, descriptors and calls.
THEOREM ContextsAlwaysMatch == Spec => []ContextMatches
<1>1. HookInv => ContextMatches
  BY ContextsMatch
<1> QED BY <1>1, HookInvariant, PTL

\* The system call that do_io or connect_with_timeout makes finds the object
\* non-blocking, so the thread with all its fibers is never blocked in it.
THEOREM HooksNeverBlock == Spec => []NeverBlocks
<1>1. HookInv => NeverBlocks
  BY TriesNonblocking
<1> QED BY <1>1, HookInvariant, PTL

\* A fiber that has yielded in a hooked call is in the event table and in the
\* epoll set, or one of the named races has taken it out; one with a timeout,
\* or asleep, has a timer under way.
THEOREM WaitersStayReachable == Spec => []WaiterReachable
<1>1. HookInv => WaiterReachable
  BY WaitersReachable
<1> QED BY <1>1, HookInvariant, PTL

\* The assertion of AddEvent that the event is not registered holds for the
\* calls of do_io and connect_with_timeout, but for the named races.
THEOREM AddEventAssertion == Spec => []AddAssertion
<1>1. HookInv => AddAssertion
  BY AddAsserts
<1> QED BY <1>1, HookInvariant, PTL

\* A call that ends with ETIMEDOUT has seen its own timer expire.
THEOREM TimeoutsAreOwn == Spec => TimeoutIsOwn
<1>1. ASSUME HookInv, [Next]_vars
      PROVE  [\A u \in Users :
                op[u].pc = "wait" /\ op'[u].pc = "idle" /\ op[u].kind # "sleep" =>
                  op[u].fired]_vars
  BY <1>1, TimeoutsOwn
<1> QED BY <1>1, HookInvariant, PTL DEF Spec, TimeoutIsOwn

\* connect_with_timeout returns 0 for a connection that exists, but for the
\* named races.
THEOREM ConnectsAreRight == Spec => ConnectMeansConnected
<1>1. ASSUME HookInv, [Next]_vars
      PROVE  [\A u \in Users :
                op[u].pc = "sockerr" /\ op'[u].pc = "idle" /\ NoError(Fd(u)) =>
                  \/ kernel[Fd(u)].conn = "yes"
                  \/ op[u].by = "cancel" \/ Reused(u)
                  \/ op[u].by = "no" /\ Missed(Fd(u))]_vars
  BY <1>1, ConnectsConnected
<1> QED BY <1>1, HookInvariant, PTL DEF Spec, ConnectMeansConnected
==============================================================================
