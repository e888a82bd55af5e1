----------------------------- MODULE HookLemmas ------------------------------
(***************************************************************************)
(* The inductive invariant of the hooked system calls, for any number of   *)
(* users, calls and descriptors.                                           *)
(*                                                                         *)
(* Each conjunct of HookInv holds one thing together: the call of a user,  *)
(* the objects of the kernel, the table of contexts, the calls that wait   *)
(* on an object, the registrations, the timers, and the connects.  Init    *)
(* has it, the properties follow from it, and the steps of a user that     *)
(* does not wait, those that trigger events and those of the network keep  *)
(* it.                                                                     *)
(***************************************************************************)
EXTENDS Hook, TLAPS

\* Most leaves are first-order logic over sets and functions.  Those that need
\* arithmetic name the SMT solver.
USE ZenonT(30)

\* What a call is about at each point.
Control ==
  \A u \in Users :
    /\ op[u].pc \in {"try", "add"} => op[u].kind \in Waiting
    /\ op[u].pc = "wait" => op[u].kind \in Waiting \cup {"sleep"}
    /\ op[u].pc = "sockerr" => op[u].kind = "connect"
    /\ op[u].pc \in {"idle", "get", "insert", "del", "close"} =>
         op[u].kind \notin Waiting \cup {"sleep"}
    /\ op[u].pc # "idle" /\ op[u].kind # "sleep" => op[u].fd \in Fds
    /\ op[u].kind = "sleep" => ~ op[u].to
    /\ wake[u] # "no" => op[u].pc = "wait"

\* Generations are given out in turn; a number that is free has none.
Objects ==
  \A fd \in Fds :
    /\ kernel[fd].open <=> kernel[fd].gen > 0
    /\ kernel[fd].gen <= last
    /\ ~ kernel[fd].open => ~ kernel[fd].managed
    /\ kernel[fd].conn = "pending" => kernel[fd].open /\ ~ kernel[fd].ready["WRITE"]

\* u is in the part of socket, accept or close that has the number to itself.
Managing(u) == op[u].pc \in {"get", "insert", "del", "close"}

Exclusive ==
  /\ \A u, v \in Users : Managing(u) /\ Managing(v) /\ Fd(u) = Fd(v) => u = v
  /\ \A u \in Users : Managing(u) => kernel[Fd(u)].open
  /\ \A u \in Users : op[u].pc \in {"get", "insert"} => kernel[Fd(u)].managed

\* Where nobody has gone behind the manager's back, a context is that of the
\* object, which it has made non-blocking.
Contexts ==
  /\ size >= 2
  /\ \A fd \in Fds : datas[fd].gen # 0 => fd < size
  /\ \A fd \in Fds : datas[fd].is_socket => datas[fd].sys_nonblock
  /\ \A fd \in Fds \ tainted :
       datas[fd].gen # 0 => /\ kernel[fd].managed /\ kernel[fd].nonblock
                            /\ kernel[fd].gen = datas[fd].gen
  /\ \A fd \in Fds \ tainted :
       kernel[fd].managed =>
         (datas[fd].gen = 0 <=>
            \E u \in Users : Fd(u) = fd /\ op[u].pc \in {"get", "insert", "close"})
  /\ \A u \in Users :
       op[u].pc = "close" => Fd(u) \in tainted \/ datas[Fd(u)].gen = 0

InIo(u) == op[u].kind \in Waiting

\* A call that waits is for a non-blocking object of the manager as long as it
\* is the one that the call was entered for, and no two wait for one event.
Waiters ==
  /\ \A u \in Users : InIo(u) => op[u].gen > 0 /\ op[u].gen <= last
  /\ \A u \in Users :
       InIo(u) => \/ Reused(u) \/ Fd(u) \in tainted
                  \/ kernel[Fd(u)].managed /\ kernel[Fd(u)].nonblock
  /\ \A u, v \in Users :
       InIo(u) /\ InIo(v) /\ Fd(u) = Fd(v) /\ op[u].gen = op[v].gen /\ Ev(u) = Ev(v) => u = v

\* An event in the table is that of a user who has yielded and was not woken.
\* It is in the epoll set, and nobody has called CancelAll to close its
\* descriptor, unless that close may miss it.
Registrations ==
  /\ \A fd \in Fds, e \in Event :
       event[<<fd, e>>].user # NoUser =>
         /\ event[<<fd, e>>].gen > 0 /\ event[<<fd, e>>].gen <= last
         /\ InIo(event[<<fd, e>>].user) /\ InWait(event[<<fd, e>>].user)
         /\ Fd(event[<<fd, e>>].user) = fd /\ Ev(event[<<fd, e>>].user) = e
  /\ \A u \in Users : InIo(u) /\ InWait(u) =>
       /\ event[<<Fd(u), Ev(u)>>].user = u
       /\ Missable(u) \/ (Watched(Fd(u), Ev(u)) /\ ~ Closing(Fd(u)))

\* A timer is one of the call that armed it, for as long as that call goes on.
TimerRight(t) ==
  /\ t.call <= op[t.user].call
  /\ t.phase = "cancel" => ~ t.sleep
  /\ ~ t.sleep => t.fd \in Fds
  /\ t.phase # "armed" /\ CallAlive(t) => op[t.user].fired
  /\ t.phase = "cancel" /\ CallAlive(t) => op[t.user].cancelled
  /\ t.sleep => CallOf(t, t.user) /\ InWait(t.user) /\ op[t.user].kind = "sleep"

\* A user who sleeps has its timer, one with a timeout too until it has expired.
Attended(u) ==
  /\ InWait(u) /\ op[u].kind = "sleep" => \E t \in timers : t.sleep /\ CallOf(t, u)
  /\ (op[u].pc = "add" \/ InWait(u)) /\ op[u].to =>
       op[u].cancelled \/ \E t \in timers : CallOf(t, u)
  /\ InIo(u) /\ op[u].cancelled => op[u].fired

Timing ==
  /\ \A t \in timers : TimerRight(t)
  /\ \A t, s \in timers : t.sleep /\ s.sleep /\ t.user = s.user => t = s
  /\ \A u \in Users : Attended(u)

\* A connect that is under way has been answered when an event has woken it.
Connecting(u) ==
  op[u].kind = "connect" /\ ~ Reused(u) =>
    /\ op[u].pc \in {"add", "wait"} => kernel[Fd(u)].conn # "no"
    /\ op[u].pc = "wait" /\ wake[u] = "event" => kernel[Fd(u)].conn \in {"yes", "refused"}
    /\ op[u].pc # "sockerr" => op[u].by = "no"
    /\ op[u].pc = "sockerr" =>
         \/ op[u].by = "event" /\ kernel[Fd(u)].conn \in {"yes", "refused"}
         \/ op[u].by = "cancel"
         \/ op[u].by = "no" /\ Missed(Fd(u))

Connects == \A u \in Users : Connecting(u)

HookInv ==
  /\ TypeOK /\ Control /\ Objects /\ Exclusive /\ Contexts
  /\ Waiters /\ Registrations /\ Timing /\ Connects

------------------------------------------------------------------------------
(* The fields of what the variables hold *)

LEMMA Subsets ==
  /\ Fds \subseteq Nat
  /\ MaxGen \in Nat /\ MaxGen >= 1
  /\ Event = {"READ", "WRITE"} /\ Io \subseteq Event
  /\ Waiting = {"READ", "WRITE", "connect"}
  /\ NoUser \notin Users
BY ONLY FdsAssumption, BoundsAssumption, IoAssumption, UsersAssumption, SMTT(30) DEF Event, Waiting

LEMMA CallFields ==
  ASSUME NEW r \in Calls
  PROVE  /\ r.pc \in Labels /\ r.kind \in Kinds /\ r.fd \in Fds \cup {0}
         /\ r.gen \in 0..MaxGen /\ r.to \in BOOLEAN /\ r.cancelled \in BOOLEAN
         /\ r.fired \in BOOLEAN /\ r.by \in {"no", "event", "cancel"} /\ r.call \in Nat
BY DEF Calls

LEMMA NoCall ==
  /\ NoOp \in Calls
  /\ NoOp.pc = "idle" /\ NoOp.kind = "none" /\ NoOp.fd = 0
  /\ ~ NoOp.to /\ ~ NoOp.cancelled /\ ~ NoOp.fired /\ NoOp.by = "no" /\ NoOp.call = 0
<1>1. 0 \in 0..MaxGen
  BY ONLY Subsets, SMTT(30)
<1> QED BY <1>1 DEF NoOp, Calls, Labels, Kinds

LEMMA CallTypes ==
  ASSUME TypeOK, NEW u \in Users
  PROVE  /\ op[u] \in Calls
         /\ op[u].pc \in Labels /\ op[u].kind \in Kinds /\ op[u].fd \in Fds \cup {0}
         /\ op[u].gen \in 0..MaxGen /\ op[u].to \in BOOLEAN /\ op[u].cancelled \in BOOLEAN
         /\ op[u].fired \in BOOLEAN /\ op[u].by \in {"no", "event", "cancel"}
         /\ op[u].call \in Nat
         /\ wake[u] \in {"no", "event", "cancel"}
BY CallFields DEF TypeOK

LEMMA ObjectTypes ==
  ASSUME TypeOK, NEW fd \in Fds
  PROVE  /\ kernel[fd] \in KernelObjects
         /\ kernel[fd].open \in BOOLEAN /\ kernel[fd].gen \in 0..MaxGen
         /\ kernel[fd].nonblock \in BOOLEAN /\ kernel[fd].managed \in BOOLEAN
         /\ kernel[fd].ready \in [Event -> BOOLEAN]
         /\ kernel[fd].conn \in {"no", "pending", "yes", "refused"}
BY DEF TypeOK, KernelObjects

LEMMA CtxTypes ==
  ASSUME TypeOK, NEW fd \in Fds
  PROVE  /\ datas[fd] \in FdCtxs
         /\ datas[fd].gen \in 0..MaxGen /\ datas[fd].is_socket \in BOOLEAN
         /\ datas[fd].sys_nonblock \in BOOLEAN /\ datas[fd].user_nonblock \in BOOLEAN
         /\ datas[fd].timeout \in [Event -> BOOLEAN]
BY DEF TypeOK, FdCtxs

LEMMA EventTypes ==
  ASSUME TypeOK, NEW fd \in Fds, NEW e \in Event
  PROVE  /\ event[<<fd, e>>] \in EventContexts
         /\ event[<<fd, e>>].user \in Users \cup {NoUser}
         /\ event[<<fd, e>>].gen \in 0..MaxGen
         /\ event[<<fd, e>>].gen \in Nat /\ last \in Nat
<1>1. event[<<fd, e>>] \in EventContexts /\ last \in 0..MaxGen
  BY DEF TypeOK
<1>2. event[<<fd, e>>].gen \in 0..MaxGen /\ event[<<fd, e>>].user \in Users \cup {NoUser}
  BY <1>1 DEF EventContexts
<1> QED BY ONLY <1>1, <1>2, Subsets, SMTT(30)

\* Generations, calls and the size of the table are numbers.
LEMMA Counts ==
  ASSUME TypeOK
  PROVE  /\ last \in Nat /\ last <= last /\ size \in Nat /\ size <= size
         /\ \A fd \in Fds : kernel[fd].gen \in Nat
         /\ \A u \in Users : op[u].call \in Nat /\ op[u].call <= op[u].call
<1>1. last \in 0..MaxGen /\ size \in Nat
  BY DEF TypeOK
<1>2. \A fd \in Fds : kernel[fd].gen \in 0..MaxGen
  BY ObjectTypes
<1>3. \A u \in Users : op[u].call \in Nat
  BY CallTypes
<1> QED BY ONLY <1>1, <1>2, <1>3, Subsets, SMTT(30)

LEMMA TimerTypes ==
  ASSUME TypeOK, NEW t \in timers
  PROVE  /\ t \in Timers
         /\ t.user \in Users /\ t.call \in Nat /\ t.fd \in Fds \cup {0} /\ t.e \in Event
         /\ t.sleep \in BOOLEAN /\ t.phase \in {"armed", "due", "cancel"}
<1>1. t \in Timers
  BY DEF TypeOK
<1> QED BY <1>1 DEF Timers

\* A user in do_io or connect_with_timeout is about an event of a descriptor.
LEMMA InIoTypes ==
  ASSUME TypeOK, Control, NEW u \in Users, InIo(u)
  PROVE  Fd(u) \in Fds /\ Ev(u) \in Event /\ op[u].pc \in {"try", "add", "wait", "sockerr"}
<1>1. op[u].pc \in {"try", "add", "wait", "sockerr"}
  BY CallTypes DEF InIo, Control, Labels
<1>2. op[u].kind # "sleep"
  BY DEF InIo, Waiting, Event
<1> QED BY <1>1, <1>2 DEF InIo, Control, Fd, Ev, EventOf, Waiting, Event

------------------------------------------------------------------------------
(* How a step changes the call of a user *)

OthersStay(u) == \A v \in Users : v # u => op'[v] = op[v]

LEMMA WhereTo ==
  ASSUME TypeOK, NEW u \in Users, NEW pc \in Labels, Goto(u, pc)
  PROVE  /\ op' \in [Users -> Calls] /\ OthersStay(u)
         /\ op'[u].pc = pc
         /\ op'[u].kind = op[u].kind /\ op'[u].fd = op[u].fd /\ op'[u].gen = op[u].gen
         /\ op'[u].to = op[u].to /\ op'[u].cancelled = op[u].cancelled
         /\ op'[u].fired = op[u].fired /\ op'[u].by = op[u].by /\ op'[u].call = op[u].call
<1>1. op' = [op EXCEPT ![u].pc = pc] /\ op \in [Users -> Calls] /\ op[u] \in Calls
  BY DEF Goto, TypeOK
<1>2. [op[u] EXCEPT !.pc = pc] \in Calls
  BY <1>1 DEF Calls
<1> QED BY <1>1, <1>2 DEF Calls, OthersStay

LEMMA Returned ==
  ASSUME TypeOK, NEW u \in Users, Return(u)
  PROVE  /\ op' \in [Users -> Calls] /\ OthersStay(u)
         /\ op'[u].pc = "idle" /\ op'[u].kind = "none" /\ op'[u].fd = 0
         /\ ~ op'[u].to /\ ~ op'[u].cancelled /\ op'[u].call = op[u].call
<1>1. op' = [op EXCEPT ![u] = [NoOp EXCEPT !.call = op[u].call]] /\ op \in [Users -> Calls]
  BY DEF Return, TypeOK
<1>2. op[u].call \in Nat
  BY CallTypes
<1>3. PICK r : r = [NoOp EXCEPT !.call = op[u].call]
  OBVIOUS
<1>4. /\ r \in Calls
      /\ r.pc = "idle" /\ r.kind = "none" /\ r.fd = 0 /\ ~ r.to /\ ~ r.cancelled
      /\ r.call = op[u].call
  BY <1>2, <1>3, NoCall DEF Calls
<1> QED BY <1>1, <1>3, <1>4 DEF OthersStay

LEMMA Passed ==
  ASSUME TypeOK, NEW u \in Users, Passing(u)
  PROVE  /\ op' \in [Users -> Calls] /\ OthersStay(u)
         /\ op[u].pc = "idle" /\ op'[u].pc = "idle"
         /\ op'[u].kind = op[u].kind /\ op'[u].fd = op[u].fd /\ op'[u].to = op[u].to
         /\ op'[u].call = op[u].call + 1
<1>1. /\ op' = [op EXCEPT ![u].call = op[u].call + 1] /\ op \in [Users -> Calls]
      /\ op[u] \in Calls /\ op[u].pc = "idle"
  BY DEF Passing, MayCall, TypeOK
<1>2. [op[u] EXCEPT !.call = op[u].call + 1] \in Calls
  BY ONLY <1>1, SMTT(30) DEF Calls
<1> QED BY <1>1, <1>2 DEF Calls, OthersStay

LEMMA Made ==
  ASSUME TypeOK, NEW u \in Users, NEW fd \in Fds, NEW c \in Nat, last < MaxGen, Creates(u, fd, c)
  PROVE  /\ op' \in [Users -> Calls] /\ OthersStay(u)
         /\ op'[u].pc = "get" /\ op'[u].kind = "socket" /\ op'[u].fd = fd
         /\ ~ op'[u].to /\ op'[u].call = c
<1>1. PICK r : r = [NoOp EXCEPT !.pc = "get", !.kind = "socket", !.fd = fd,
                                !.gen = last + 1, !.call = c]
  OBVIOUS
<1>2. op' = [op EXCEPT ![u] = r] /\ op \in [Users -> Calls]
  BY <1>1 DEF Creates, TypeOK
<1>3. last + 1 \in 0..MaxGen
  BY Subsets, SMTT(30) DEF TypeOK
<1>4. /\ r \in Calls
      /\ r.pc = "get" /\ r.kind = "socket" /\ r.fd = fd /\ ~ r.to /\ r.call = c
  BY <1>1, <1>3, NoCall DEF Calls, Labels, Kinds
<1> QED BY <1>2, <1>4 DEF OthersStay

LEMMA Entering ==
  ASSUME TypeOK, NEW u \in Users, NEW fd \in Fds, NEW kind \in Kinds, NEW pc \in Labels,
         NEW to \in BOOLEAN, Enter(u, kind, fd, pc, to)
  PROVE  /\ op' \in [Users -> Calls] /\ OthersStay(u)
         /\ op[u].pc = "idle" /\ op'[u].pc = pc /\ op'[u].kind = kind /\ op'[u].fd = fd
         /\ op'[u].gen = kernel[fd].gen /\ op'[u].to = to
         /\ ~ op'[u].cancelled /\ ~ op'[u].fired /\ op'[u].by = "no"
         /\ op'[u].call = op[u].call + 1
<1> DEFINE r == [pc |-> pc, kind |-> kind, fd |-> fd, gen |-> kernel[fd].gen, to |-> to,
                 cancelled |-> FALSE, fired |-> FALSE, by |-> "no", call |-> op[u].call + 1]
<1>1. op' = [op EXCEPT ![u] = r] /\ op \in [Users -> Calls] /\ op[u].pc = "idle"
  BY DEF Enter, MayCall, TypeOK
<1>2. kernel[fd].gen \in 0..MaxGen /\ op[u].call + 1 \in Nat
  BY ObjectTypes, CallTypes, SMTT(30)
<1>3. r \in Calls
  BY <1>2 DEF Calls
<1> QED BY <1>1, <1>3 DEF OthersStay

------------------------------------------------------------------------------
(* What no step does *)

\* The object behind fd stays, with what the manager and a connect rely on.
SameObject(fd) ==
  /\ kernel'[fd].gen = kernel[fd].gen
  /\ kernel'[fd].managed = kernel[fd].managed
  /\ kernel[fd].managed /\ kernel[fd].nonblock => kernel'[fd].nonblock \/ fd \in tainted'
  /\ kernel[fd].conn # "no" => kernel'[fd].conn # "no"
  /\ kernel[fd].conn \in {"yes", "refused"} => kernel'[fd].conn \in {"yes", "refused"}

\* A number that gets another object gets a new generation.
GoesOn ==
  /\ last' \in Nat /\ last <= last'
  /\ tainted \subseteq tainted'
  /\ \A fd \in Fds : SameObject(fd) \/ kernel'[fd].gen = 0 \/ kernel'[fd].gen > last

\* A registration that is not in the epoll set stays in the table.
StaleStays ==
  \A fd \in Fds, e \in Event :
    event[<<fd, e>>].user # NoUser /\ ~ Watched(fd, e) => event'[<<fd, e>>] = event[<<fd, e>>]

LEMMA StillReused ==
  ASSUME TypeOK, Control, Waiters, GoesOn, NEW u \in Users, InIo(u),
         op'[u].fd = op[u].fd, op'[u].gen = op[u].gen, ~ Reused(u)'
  PROVE  ~ Reused(u) /\ SameObject(Fd(u))
<1>1. Fd(u) \in Fds /\ op[u].gen > 0 /\ op[u].gen <= last /\ op[u].gen \in Nat /\ last \in Nat
  BY InIoTypes, CallTypes, Subsets, SMTT(30) DEF Waiters, TypeOK
<1>2. kernel'[op[u].fd].gen = op[u].gen
  BY DEF Reused, Fd
<1>3. SameObject(Fd(u))
  BY <1>1, <1>2, SMTT(30) DEF GoesOn, Fd
<1> QED BY <1>2, <1>3 DEF SameObject, Reused, Fd

LEMMA WaitersKept ==
  ASSUME TypeOK, Control, Waiters, GoesOn,
         \A v \in Users : InIo(v)' => /\ InIo(v) /\ op'[v].fd = op[v].fd
                                      /\ op'[v].gen = op[v].gen /\ op'[v].kind = op[v].kind
  PROVE  Waiters'
<1>1. \A u \in Users : InIo(u)' => op'[u].gen > 0 /\ op'[u].gen <= last'
  <2> SUFFICES ASSUME NEW u \in Users, InIo(u)'
               PROVE  op'[u].gen > 0 /\ op'[u].gen <= last'
    OBVIOUS
  <2>1. op[u].gen > 0 /\ op[u].gen <= last /\ op[u].gen \in Nat /\ last \in Nat
    BY CallTypes, Subsets, SMTT(30) DEF Waiters, TypeOK
  <2> QED BY <2>1, SMTT(30) DEF GoesOn
<1>2. ASSUME NEW u \in Users, InIo(u)'
      PROVE  (Reused(u) \/ Fd(u) \in tainted \/ (kernel[Fd(u)].managed /\ kernel[Fd(u)].nonblock))'
  <2> SUFFICES ASSUME ~ Reused(u)', Fd(u) \notin tainted'
               PROVE  kernel'[Fd(u)].managed /\ kernel'[Fd(u)].nonblock
    BY <1>2 DEF Fd
  <2>1. InIo(u) /\ op'[u].fd = op[u].fd /\ op'[u].gen = op[u].gen
    BY <1>2
  <2>2. ~ Reused(u) /\ SameObject(Fd(u))
    BY <2>1, StillReused
  <2>3. Fd(u) \notin tainted
    BY <2>1 DEF GoesOn
  <2>4. kernel[Fd(u)].managed /\ kernel[Fd(u)].nonblock
    BY <2>1, <2>2, <2>3 DEF Waiters
  <2> QED BY <2>1, <2>2, <2>4 DEF SameObject, Fd
<1>3. \A u, v \in Users :
        InIo(u)' /\ InIo(v)' /\ Fd(u)' = Fd(v)' /\ op'[u].gen = op'[v].gen /\ Ev(u)' = Ev(v)' =>
          u = v
  BY DEF Waiters, Fd, Ev
<1> QED BY <1>1, <1>2, <1>3 DEF Waiters

LEMMA MissedStays ==
  ASSUME TypeOK, Objects, Registrations, GoesOn, StaleStays, NEW fd \in Fds, Missed(fd)
  PROVE  Missed(fd)'
<1>1. PICK e \in Event : event[<<fd, e>>].user # NoUser /\ ~ Watched(fd, e)
  BY DEF Missed
<1>2. event'[<<fd, e>>] = event[<<fd, e>>]
  BY <1>1 DEF StaleStays
<1>3. /\ event[<<fd, e>>].gen > 0 /\ event[<<fd, e>>].gen <= last
      /\ event[<<fd, e>>].gen \in Nat /\ last \in Nat
  <2>1. event[<<fd, e>>].gen > 0 /\ event[<<fd, e>>].gen <= last
    BY <1>1 DEF Registrations
  <2> QED BY <2>1, EventTypes
<1>4. event[<<fd, e>>].gen # kernel[fd].gen
  <2>1. kernel[fd].open => event[<<fd, e>>].gen # kernel[fd].gen
    BY <1>1 DEF Watched
  <2>2. ~ kernel[fd].open => ~ (kernel[fd].gen > 0)
    BY ObjectTypes DEF Objects
  <2> QED BY <1>3, <2>1, <2>2
<1>5. event[<<fd, e>>].gen # kernel'[fd].gen
  BY <1>3, <1>4, SMTT(30) DEF GoesOn, SameObject
<1> QED BY <1>1, <1>2, <1>5 DEF Missed, Watched

LEMMA ConnectKept ==
  ASSUME TypeOK, Control, Objects, Waiters, Registrations, GoesOn, StaleStays,
         NEW u \in Users, Connecting(u),
         op'[u].kind = "connect" =>
           /\ op[u].kind = "connect" /\ op'[u].pc = op[u].pc /\ op'[u].fd = op[u].fd
           /\ op'[u].gen = op[u].gen /\ op'[u].by = op[u].by
           /\ wake'[u] = "event" => \/ wake[u] = "event" \/ Reused(u)
                                    \/ kernel[Fd(u)].conn \in {"yes", "refused"}
  PROVE  Connecting(u)'
<1> SUFFICES ASSUME op'[u].kind = "connect", ~ Reused(u)'
             PROVE  /\ op'[u].pc \in {"add", "wait"} => kernel'[Fd(u)'].conn # "no"
                    /\ op'[u].pc = "wait" /\ wake'[u] = "event" =>
                         kernel'[Fd(u)'].conn \in {"yes", "refused"}
                    /\ op'[u].pc # "sockerr" => op'[u].by = "no"
                    /\ op'[u].pc = "sockerr" =>
                         \/ op'[u].by = "event" /\ kernel'[Fd(u)'].conn \in {"yes", "refused"}
                         \/ op'[u].by = "cancel"
                         \/ op'[u].by = "no" /\ Missed(Fd(u))'
  BY DEF Connecting
<1>1. /\ op[u].kind = "connect" /\ op'[u].pc = op[u].pc /\ op'[u].fd = op[u].fd
      /\ op'[u].gen = op[u].gen /\ op'[u].by = op[u].by /\ Fd(u)' = Fd(u)
  BY DEF Fd
<1>2. InIo(u)
  BY <1>1 DEF InIo, Waiting
<1>3. ~ Reused(u) /\ SameObject(Fd(u)) /\ Fd(u) \in Fds
  BY <1>1, <1>2, StillReused, InIoTypes
<1>4. op[u].pc \in {"add", "wait"} => kernel'[Fd(u)].conn # "no"
  BY <1>1, <1>3 DEF Connecting, SameObject
<1>5. op[u].pc = "wait" /\ wake'[u] = "event" => kernel'[Fd(u)].conn \in {"yes", "refused"}
  <2>1. op[u].pc = "wait" /\ wake'[u] = "event" => kernel[Fd(u)].conn \in {"yes", "refused"}
    BY <1>1, <1>3 DEF Connecting
  <2> QED BY <1>3, <2>1 DEF SameObject
<1>6. op[u].pc # "sockerr" => op[u].by = "no"
  BY <1>1, <1>3 DEF Connecting
<1>7. Missed(Fd(u)) => Missed(Fd(u))'
  <2>1. Missed(op[u].fd) => Missed(op[u].fd)'
    <3>1. PICK fd \in Fds : fd = op[u].fd
      BY <1>3 DEF Fd
    <3>2. Missed(fd) => Missed(fd)'
      BY MissedStays
    <3>3. op'[u].fd = fd
      BY <1>1, <3>1
    <3> QED BY <3>1, <3>2, <3>3 DEF Missed, Watched
  <2> QED BY <2>1 DEF Fd
<1>8. op[u].pc = "sockerr" =>
        \/ op[u].by = "event" /\ kernel'[Fd(u)].conn \in {"yes", "refused"}
        \/ op[u].by = "cancel"
        \/ op[u].by = "no" /\ Missed(Fd(u))'
  BY <1>1, <1>3, <1>7 DEF Connecting, SameObject
<1> QED BY <1>1, <1>4, <1>5, <1>6, <1>8

LEMMA ConnectsKept ==
  ASSUME TypeOK, Control, Objects, Waiters, Registrations, Connects, GoesOn, StaleStays,
         \A v \in Users : op'[v].kind = "connect" =>
           /\ op[v].kind = "connect" /\ op'[v].pc = op[v].pc /\ op'[v].fd = op[v].fd
           /\ op'[v].gen = op[v].gen /\ op'[v].by = op[v].by
           /\ wake'[v] = "event" => \/ wake[v] = "event" \/ Reused(v)
                                    \/ kernel[Fd(v)].conn \in {"yes", "refused"}
  PROVE  Connects'
<1> SUFFICES ASSUME NEW u \in Users PROVE Connecting(u)'
  BY DEF Connects
<1>1. Connecting(u)
  BY DEF Connects
<1> QED BY <1>1, ConnectKept

\* A user waits for its event: it is in the table, and nobody has woken it.
Registered(v) == InIo(v) /\ InWait(v)

LEMMA RegistrationsKept ==
  ASSUME TypeOK, Control, Registrations, last' \in Nat, last <= last', tainted \subseteq tainted',
         event' = event, \A v \in Users : Registered(v) /\ v \in late => v \in late',
         \A v \in Users : Registered(v) <=> Registered(v)',
         \A v \in Users : Registered(v) => /\ op'[v].fd = op[v].fd /\ op'[v].kind = op[v].kind
                                           /\ op'[v].gen = op[v].gen,
         \A v \in Users : Registered(v) /\ ~ Missable(v) =>
           \/ Fd(v) \in tainted'
           \/ /\ kernel'[Fd(v)].open /\ kernel'[Fd(v)].gen = kernel[Fd(v)].gen
              /\ ~ \E w \in Users : op'[w].fd = Fd(v) /\ op'[w].pc \in {"del", "close"}
  PROVE  Registrations'
<1>1. ASSUME NEW fd \in Fds, NEW e \in Event, event'[<<fd, e>>].user # NoUser
      PROVE  (/\ event[<<fd, e>>].gen > 0 /\ event[<<fd, e>>].gen <= last
              /\ InIo(event[<<fd, e>>].user) /\ InWait(event[<<fd, e>>].user)
              /\ Fd(event[<<fd, e>>].user) = fd /\ Ev(event[<<fd, e>>].user) = e)'
  <2>1. PICK v \in Users : v = event[<<fd, e>>].user
    BY <1>1, EventTypes
  <2>2. /\ event[<<fd, e>>].gen > 0 /\ event[<<fd, e>>].gen <= last
        /\ InIo(v) /\ InWait(v) /\ Fd(v) = fd /\ Ev(v) = e
    BY <1>1, <2>1 DEF Registrations
  <2>3. event[<<fd, e>>].gen \in Nat /\ last \in Nat
    BY EventTypes
  <2>4. InIo(v)' /\ InWait(v)' /\ Fd(v)' = fd /\ Ev(v)' = e
    BY <2>2 DEF Registered, Fd, Ev
  <2>5. event'[<<fd, e>>].user = v
    BY <2>1
  <2> QED BY <2>2, <2>3, <2>4, <2>5, SMTT(30) DEF InIo, InWait, Fd, Ev
<1>2. ASSUME NEW u \in Users, InIo(u)', InWait(u)'
      PROVE  (/\ event[<<Fd(u), Ev(u)>>].user = u
              /\ Missable(u) \/ (Watched(Fd(u), Ev(u)) /\ ~ Closing(Fd(u))))'
  <2>1. Registered(u)
    BY <1>2 DEF Registered
  <2>2. Fd(u)' = Fd(u) /\ Ev(u)' = Ev(u) /\ op'[u].gen = op[u].gen
    BY <2>1 DEF Fd, Ev
  <2>3. /\ event[<<Fd(u), Ev(u)>>].user = u
        /\ Missable(u) \/ (Watched(Fd(u), Ev(u)) /\ ~ Closing(Fd(u)))
    BY <2>1 DEF Registered, Registrations
  <2>4. Missable(u) => Missable(u)'
    BY <2>1, <2>2 DEF Missable
  <2>5. ~ Missable(u) => (Watched(Fd(u), Ev(u)) /\ ~ Closing(Fd(u)))' \/ Fd(u)' \in tainted'
    BY <2>1, <2>2, <2>3, SMTT(30) DEF Watched, Closing
  <2>6. Fd(u)' \in tainted' => Missable(u)'
    BY DEF Missable
  <2>7. (event[<<Fd(u), Ev(u)>>].user = u)'
    BY <2>2, <2>3
  <2> QED BY <2>3, <2>4, <2>5, <2>6, <2>7
<1> QED BY <1>1, <1>2 DEF Registrations

\* A user sleeps, and its timer has not woken it.
Asleep(v) == op[v].kind = "sleep" /\ InWait(v)

\* A user with a timeout is about to wait, or waits.
Patient(v) == (op[v].pc = "add" \/ InWait(v)) /\ op[v].to

\* What keeps a timer right: its call goes on, or is over.
LEMMA TimerKept ==
  ASSUME TypeOK, NEW t \in timers, TimerRight(t),
         op'[t.user].call \in Nat, op[t.user].call <= op'[t.user].call,
         InIo(t.user)' =>
           \/ op[t.user].call < op'[t.user].call
           \/ /\ InIo(t.user)
              /\ op[t.user].fired => op'[t.user].fired
              /\ op[t.user].cancelled => op'[t.user].cancelled,
         t.sleep => Asleep(t.user)' /\ op'[t.user].call = op[t.user].call
  PROVE  TimerRight(t)'
<1>1. t.user \in Users /\ t.call \in Nat /\ op[t.user].call \in Nat
  BY TimerTypes, CallTypes
<1>2. CallAlive(t)' => /\ CallAlive(t) /\ (op[t.user].fired => op'[t.user].fired)
                       /\ (op[t.user].cancelled => op'[t.user].cancelled)
  <2> SUFFICES ASSUME CallAlive(t)'
               PROVE  /\ CallAlive(t) /\ (op[t.user].fired => op'[t.user].fired)
                      /\ (op[t.user].cancelled => op'[t.user].cancelled)
    OBVIOUS
  <2>1. t.call = op'[t.user].call /\ InIo(t.user)' /\ t.call <= op[t.user].call
    BY DEF CallAlive, CallOf, InIo, TimerRight
  <2>2. op[t.user].call = op'[t.user].call
    BY <1>1, <2>1, SMTT(30)
  <2>3. ~ (op[t.user].call < op'[t.user].call)
    BY ONLY <1>1, <2>2, SMTT(30)
  <2>4. /\ InIo(t.user) /\ (op[t.user].fired => op'[t.user].fired)
        /\ (op[t.user].cancelled => op'[t.user].cancelled)
    BY <2>1, <2>3
  <2> QED BY <2>1, <2>2, <2>4 DEF CallAlive, CallOf, InIo
<1>3. t.call <= op'[t.user].call
  BY <1>1, SMTT(30) DEF TimerRight
<1>4. t.sleep => (CallOf(t, t.user) /\ InWait(t.user) /\ op[t.user].kind = "sleep")'
  BY DEF TimerRight, CallOf, Asleep
<1> QED BY <1>2, <1>3, <1>4 DEF TimerRight

\* A user that takes no step keeps its timers, which may expire.
LEMMA AttendedKept ==
  ASSUME NEW v \in Users, Attended(v), wake'[v] = wake[v],
         op'[v].pc = op[v].pc, op'[v].kind = op[v].kind, op'[v].to = op[v].to,
         op'[v].call = op[v].call, op'[v].cancelled = op[v].cancelled,
         op[v].fired => op'[v].fired,
         \A t \in timers : CallOf(t, v) =>
           \E s \in timers' : s.user = t.user /\ s.call = t.call /\ s.sleep = t.sleep
  PROVE  Attended(v)'
<1>1. InIo(v)' = InIo(v) /\ InWait(v)' = InWait(v)
  BY DEF InIo, InWait
<1>2. ASSUME NEW t \in timers, CallOf(t, v)
      PROVE  \E s \in timers' : CallOf(s, v)' /\ s.sleep = t.sleep
  BY <1>2, SMTT(30) DEF CallOf
<1> QED BY <1>1, <1>2 DEF Attended

LEMMA TimingKept ==
  ASSUME TypeOK, Control, Timing, timers' \subseteq timers,
         \A t \in timers \ timers' :
           ~ t.sleep /\ (CallAlive(t) /\ Patient(t.user)' => op[t.user].cancelled),
         \A v \in Users : op'[v].call \in Nat /\ op[v].call <= op'[v].call,
         \A v \in Users : InIo(v)' => /\ InIo(v) /\ op'[v].call = op[v].call
                                      /\ op'[v].cancelled = op[v].cancelled
                                      /\ op[v].fired => op'[v].fired,
         \A v \in Users : Asleep(v) <=> Asleep(v)',
         \A v \in Users : Asleep(v) => op'[v].call = op[v].call,
         \A v \in Users : Patient(v)' => Patient(v) /\ InIo(v)'
  PROVE  Timing'
<1>1. ASSUME NEW t \in timers'
      PROVE  TimerRight(t)'
  <2>1. t \in timers /\ TimerRight(t) /\ t.user \in Users
    BY TimerTypes DEF Timing
  <2>2. t.sleep => Asleep(t.user)' /\ op'[t.user].call = op[t.user].call
    BY <2>1 DEF TimerRight, Asleep
  <2> QED BY <2>1, <2>2, TimerKept
<1>2. \A t, s \in timers' : t.sleep /\ s.sleep /\ t.user = s.user => t = s
  BY DEF Timing
<1>3. ASSUME NEW u \in Users, InWait(u)', op'[u].kind = "sleep"
      PROVE  \E t \in timers' : t.sleep /\ CallOf(t, u)'
  <2>1. Asleep(u) /\ op'[u].call = op[u].call
    BY <1>3 DEF Asleep
  <2>2. PICK t \in timers : t.sleep /\ CallOf(t, u)
    BY <2>1 DEF Asleep, Timing, Attended
  <2> QED BY <2>1, <2>2 DEF CallOf
<1>4. ASSUME NEW u \in Users, Patient(u)'
      PROVE  op'[u].cancelled \/ \E t \in timers' : CallOf(t, u)'
  <2>1. Patient(u) /\ op'[u].call = op[u].call /\ op'[u].cancelled = op[u].cancelled
    BY <1>4
  <2>2. op[u].cancelled \/ \E t \in timers : CallOf(t, u)
    BY <2>1 DEF Patient, Timing, Attended
  <2>3. ASSUME ~ op[u].cancelled, NEW t \in timers, CallOf(t, u)
        PROVE  t \in timers' /\ CallOf(t, u)'
    <3>1. CallAlive(t) /\ t.user = u
      BY <1>4, <2>3 DEF CallAlive, CallOf, InIo
    <3>2. t \in timers'
      BY <1>4, <2>3, <3>1
    <3> QED BY <2>1, <2>3, <3>2 DEF CallOf
  <2> QED BY <2>1, <2>2, <2>3
<1>5. \A u \in Users : InIo(u)' /\ op'[u].cancelled => op'[u].fired
  BY DEF Timing, Attended
<1>6. \A u \in Users : Attended(u)'
  BY <1>3, <1>4, <1>5 DEF Attended, Patient
<1> QED BY <1>1, <1>2, <1>6 DEF Timing

LEMMA ContextsKept ==
  ASSUME TypeOK, Control, Exclusive, Contexts, UNCHANGED <<datas, size, tainted>>,
         \A fd \in Fds : /\ kernel'[fd].open = kernel[fd].open
                         /\ kernel'[fd].gen = kernel[fd].gen
                         /\ kernel'[fd].managed = kernel[fd].managed
                         /\ kernel'[fd].nonblock = kernel[fd].nonblock,
         \A v \in Users : Managing(v) \/ Managing(v)' =>
                            op'[v].pc = op[v].pc /\ op'[v].fd = op[v].fd
  PROVE  Exclusive' /\ Contexts'
<1>1. \A v \in Users : Managing(v) => Fd(v) \in Fds
  BY DEF Managing, Control, Fd
<1>2. Exclusive'
  BY <1>1, SMTT(30) DEF Exclusive, Managing, Fd
<1>3. \A fd \in Fds : (\E u \in Users : Fd(u)' = fd /\ op'[u].pc \in {"get", "insert", "close"})
                      <=> \E u \in Users : Fd(u) = fd /\ op[u].pc \in {"get", "insert", "close"}
  BY DEF Managing, Fd
<1>4. \A u \in Users : op'[u].pc = "close" => Fd(u)' \in tainted' \/ datas'[Fd(u)'].gen = 0
  BY SMTT(30) DEF Contexts, Managing, Fd
<1>5. Contexts'
  BY <1>3, <1>4, SMTT(30) DEF Contexts
<1> QED BY <1>2, <1>5

\* A step that does nothing to a waiting call but, perhaps, end it before it waits.
LEMMA Elsewhere ==
  ASSUME TypeOK, Control, Objects, Waiters, Registrations, Timing, Connects, GoesOn,
         NEW u \in Users, OthersStay(u), UNCHANGED <<event, wake, timers, late>>,
         op[u].pc # "wait", op'[u].kind \notin Waiting \cup {"sleep"},
         op'[u].pc \notin {"add", "wait"},
         op'[u].call \in Nat, op[u].call <= op'[u].call,
         \A v \in Users : Registered(v) /\ ~ Missable(v) =>
           \/ Fd(v) \in tainted'
           \/ /\ kernel'[Fd(v)].open /\ kernel'[Fd(v)].gen = kernel[Fd(v)].gen
              /\ ~ \E w \in Users : op'[w].fd = Fd(v) /\ op'[w].pc \in {"del", "close"}
  PROVE  Waiters' /\ Registrations' /\ Timing' /\ Connects'
<1>1. /\ ~ InIo(u)' /\ ~ Registered(u) /\ ~ Registered(u)' /\ ~ Asleep(u) /\ ~ Asleep(u)'
      /\ ~ Patient(u)' /\ op'[u].kind # "connect"
  BY DEF InIo, Registered, Asleep, Patient, InWait, Waiting
<1>2. \A v \in Users : v # u =>
        /\ op'[v] = op[v] /\ InIo(v)' = InIo(v) /\ Registered(v)' = Registered(v)
        /\ Asleep(v)' = Asleep(v) /\ Patient(v)' = Patient(v)
  BY DEF OthersStay, InIo, Registered, Asleep, Patient, InWait
<1>3. \A v \in Users : Patient(v) => InIo(v)
  BY CallTypes DEF Patient, InWait, InIo, Control
<1>4. Waiters'
  BY <1>1, <1>2, WaitersKept
<1>5. Registrations'
  BY <1>1, <1>2, RegistrationsKept DEF GoesOn
<1>6. Timing'
  <2>1. \A v \in Users : op'[v].call \in Nat /\ op[v].call <= op'[v].call
    BY <1>2, CallTypes, SMTT(30)
  <2>2. timers' = timers
    OBVIOUS
  <2> QED BY <1>1, <1>2, <1>3, <2>1, <2>2, TimingKept
<1>7. StaleStays
  BY DEF StaleStays
<1>8. Connects'
  BY <1>1, <1>2, <1>7, ConnectsKept
<1> QED BY <1>4, <1>5, <1>6, <1>8

------------------------------------------------------------------------------
(* How a step changes the objects of the kernel *)

\* Only what is ready, and how far a connect is.
Touched ==
  /\ kernel' \in [Fds -> KernelObjects] /\ last' = last
  /\ \A fd \in Fds :
       /\ kernel'[fd].open = kernel[fd].open /\ kernel'[fd].gen = kernel[fd].gen
       /\ kernel'[fd].managed = kernel[fd].managed
       /\ kernel'[fd].nonblock = kernel[fd].nonblock
       /\ kernel[fd].conn # "no" => kernel'[fd].conn # "no"
       /\ kernel[fd].conn \in {"yes", "refused"} => kernel'[fd].conn = kernel[fd].conn
       /\ kernel'[fd].conn = "pending" => kernel[fd].open /\ ~ kernel'[fd].ready["WRITE"]

\* kernel gets k for fd.
LEMMA TouchedAt ==
  ASSUME TypeOK, Objects, last' = last, NEW fd \in Fds, NEW k \in KernelObjects,
         kernel' = [kernel EXCEPT ![fd] = k],
         k.open = kernel[fd].open, k.gen = kernel[fd].gen, k.managed = kernel[fd].managed,
         k.nonblock = kernel[fd].nonblock,
         kernel[fd].conn # "no" => k.conn # "no",
         kernel[fd].conn \in {"yes", "refused"} => k.conn = kernel[fd].conn,
         k.conn = "pending" => kernel[fd].open /\ ~ k.ready["WRITE"]
  PROVE  Touched
<1>1. kernel \in [Fds -> KernelObjects]
  BY DEF TypeOK
<1>2. kernel'[fd] = k /\ \A x \in Fds : x # fd => kernel'[x] = kernel[x]
  BY <1>1
<1>3. kernel' \in [Fds -> KernelObjects]
  BY <1>1
<1> QED BY <1>2, <1>3 DEF Touched, Objects

LEMMA Untouched == ASSUME TypeOK, Objects, UNCHANGED <<kernel, last>> PROVE Touched
BY DEF Touched, TypeOK, Objects

\* The answer of a system call.
LEMMA Answered ==
  ASSUME TypeOK, Objects, NEW fd \in Fds, NEW kind \in Waiting,
         Done(fd, kind) \/ SysError \/ WouldBlock(fd, kind)
  PROVE  Touched
<1>0. /\ kernel[fd] \in KernelObjects /\ kernel[fd].ready \in [Event -> BOOLEAN]
      /\ kernel[fd].conn = "pending" => ~ kernel[fd].ready["WRITE"]
      /\ kernel[fd].conn = "pending" => kernel[fd].open
  BY ObjectTypes DEF Objects
<1>1. CASE UNCHANGED <<kernel, last>>
  BY <1>1, Untouched
<1>2. CASE Done(fd, kind)
  <2>1. last' = last /\ kernel[fd].open
    BY <1>2 DEF Done
  <2>2. ASSUME kind \in Event, kernel' = [kernel EXCEPT ![fd].ready[kind] = FALSE]
        PROVE  Touched
    <3>1. PICK r \in [Event -> BOOLEAN] : r = [kernel[fd].ready EXCEPT ![kind] = FALSE]
      BY <1>0, <2>2
    <3>2. ~ kernel[fd].ready["WRITE"] => ~ r["WRITE"]
      BY <1>0, <3>1 DEF Event
    <3>3. PICK k : k = [kernel[fd] EXCEPT !.ready = r]
      OBVIOUS
    <3>4. /\ k \in KernelObjects /\ k.open = kernel[fd].open /\ k.gen = kernel[fd].gen
          /\ k.managed = kernel[fd].managed /\ k.nonblock = kernel[fd].nonblock
          /\ k.conn = kernel[fd].conn /\ k.ready = r
      BY <1>0, <3>3 DEF KernelObjects
    <3>5. kernel' = [kernel EXCEPT ![fd] = k]
      BY <2>2, <3>1, <3>3
    <3> QED BY <1>0, <2>1, <3>2, <3>4, <3>5, TouchedAt
  <2>3. ASSUME kernel[fd].conn = "no", kernel' = [kernel EXCEPT ![fd].conn = "yes"]
        PROVE  Touched
    <3>3. PICK k : k = [kernel[fd] EXCEPT !.conn = "yes"]
      OBVIOUS
    <3>4. /\ k \in KernelObjects /\ k.open = kernel[fd].open /\ k.gen = kernel[fd].gen
          /\ k.managed = kernel[fd].managed /\ k.nonblock = kernel[fd].nonblock
          /\ k.conn = "yes"
      BY <1>0, <3>3 DEF KernelObjects
    <3>5. kernel' = [kernel EXCEPT ![fd] = k]
      BY <2>3, <3>3
    <3> QED BY <2>1, <2>3, <3>4, <3>5, TouchedAt
  <2> QED BY <1>2, <2>2, <2>3 DEF Done
<1>3. CASE WouldBlock(fd, kind)
  <2>1. last' = last /\ kernel[fd].open
    BY <1>3 DEF WouldBlock
  <2>2. CASE kernel' = kernel
    BY <2>1, <2>2, Untouched
  <2>3. ASSUME kernel[fd].conn = "no",
               kernel' = [kernel EXCEPT ![fd].conn = "pending", ![fd].ready["WRITE"] = FALSE]
        PROVE  Touched
    <3>1. PICK r \in [Event -> BOOLEAN] : r = [kernel[fd].ready EXCEPT !["WRITE"] = FALSE]
      BY <1>0 DEF Event
    <3>2. ~ r["WRITE"]
      BY <1>0, <3>1 DEF Event
    <3>3. PICK k : k = [kernel[fd] EXCEPT !.conn = "pending", !.ready = r]
      OBVIOUS
    <3>4. /\ k \in KernelObjects /\ k.open = kernel[fd].open /\ k.gen = kernel[fd].gen
          /\ k.managed = kernel[fd].managed /\ k.nonblock = kernel[fd].nonblock
          /\ k.conn = "pending" /\ k.ready = r
      BY <1>0, <3>3 DEF KernelObjects
    <3>5. kernel' = [kernel EXCEPT ![fd] = k]
      <4>1. kernel'[fd] = [[kernel[fd] EXCEPT !.conn = "pending"] EXCEPT !.ready = r]
        BY <1>0, <2>3, <3>1 DEF TypeOK, KernelObjects
      <4>2. kernel'[fd] = k
        BY <1>0, <3>3, <4>1 DEF KernelObjects
      <4> QED BY <2>3, <4>2 DEF TypeOK
    <3> QED BY <2>1, <2>3, <3>2, <3>4, <3>5, TouchedAt
  <2> QED BY <1>3, <2>2, <2>3 DEF WouldBlock
<1> QED BY <1>1, <1>2, <1>3 DEF SysError

LEMMA Networked ==
  ASSUME TypeOK, Objects, NEW fd \in Fds, NEW e \in Event, NEW r \in {"yes", "refused"},
         Arrive(fd, e) \/ Answer(fd, r)
  PROVE  Touched
<1>0. /\ kernel[fd] \in KernelObjects /\ kernel[fd].ready \in [Event -> BOOLEAN]
      /\ kernel[fd].conn = "pending" => kernel[fd].open
  BY ObjectTypes DEF Objects
<1>1. CASE Arrive(fd, e)
  <2>1. /\ last' = last /\ kernel[fd].conn # "pending"
        /\ kernel' = [kernel EXCEPT ![fd].ready[e] = TRUE]
    BY <1>1 DEF Arrive
  <2>2. PICK q \in [Event -> BOOLEAN] : q = [kernel[fd].ready EXCEPT ![e] = TRUE]
    BY <1>0
  <2>3. PICK k : k = [kernel[fd] EXCEPT !.ready = q]
    OBVIOUS
  <2>4. /\ k \in KernelObjects /\ k.open = kernel[fd].open /\ k.gen = kernel[fd].gen
        /\ k.managed = kernel[fd].managed /\ k.nonblock = kernel[fd].nonblock
        /\ k.conn = kernel[fd].conn
    BY <1>0, <2>3 DEF KernelObjects
  <2>5. kernel' = [kernel EXCEPT ![fd] = k]
    BY <2>1, <2>2, <2>3
  <2> QED BY <2>1, <2>4, <2>5, TouchedAt
<1>2. CASE Answer(fd, r)
  <2>1. /\ last' = last /\ kernel[fd].conn = "pending"
        /\ kernel' = [kernel EXCEPT ![fd].conn = r, ![fd].ready["WRITE"] = TRUE]
    BY <1>2 DEF Answer
  <2>2. PICK q \in [Event -> BOOLEAN] : q = [kernel[fd].ready EXCEPT !["WRITE"] = TRUE]
    BY <1>0 DEF Event
  <2>3. PICK k : k = [kernel[fd] EXCEPT !.conn = r, !.ready = q]
    OBVIOUS
  <2>4. /\ k \in KernelObjects /\ k.open = kernel[fd].open /\ k.gen = kernel[fd].gen
        /\ k.managed = kernel[fd].managed /\ k.nonblock = kernel[fd].nonblock
        /\ k.conn = r
    BY <1>0, <2>3 DEF KernelObjects
  <2>5. kernel' = [kernel EXCEPT ![fd] = k]
    <3>1. kernel'[fd] = [[kernel[fd] EXCEPT !.conn = r] EXCEPT !.ready = q]
      BY <1>0, <2>1, <2>2 DEF TypeOK, KernelObjects
    <3>2. kernel'[fd] = k
      BY <1>0, <2>3, <3>1 DEF KernelObjects
    <3> QED BY <2>1, <3>2 DEF TypeOK
  <2> QED BY <2>1, <2>4, <2>5, TouchedAt
<1> QED BY <1>1, <1>2

LEMMA TouchedKeeps ==
  ASSUME TypeOK, Objects, Touched, tainted' = tainted
  PROVE  Objects' /\ GoesOn
<1>1. last \in Nat
  BY Subsets, SMTT(30) DEF TypeOK
<1> QED BY <1>1, SMTT(30) DEF Touched, Objects, GoesOn, SameObject

------------------------------------------------------------------------------
(* Steps of a user that is not waiting *)

\* What a step leaves of the objects that somebody waits for.
LEMMA NotClosed ==
  ASSUME TypeOK, Control, Registrations,
         \A fd \in Fds : kernel[fd].open => kernel'[fd].open /\ kernel'[fd].gen = kernel[fd].gen,
         \A w \in Users : op'[w].pc \in {"del", "close"} =>
                            op[w].pc \in {"del", "close"} /\ op'[w].fd = op[w].fd,
         NEW v \in Users, Registered(v), ~ Missable(v)
  PROVE  /\ kernel'[Fd(v)].open /\ kernel'[Fd(v)].gen = kernel[Fd(v)].gen
         /\ ~ \E w \in Users : op'[w].fd = Fd(v) /\ op'[w].pc \in {"del", "close"}
<1>1. Fd(v) \in Fds
  BY InIoTypes DEF Registered
<1>2. Watched(Fd(v), Ev(v)) /\ ~ Closing(Fd(v))
  BY DEF Registrations, Registered
<1> QED BY <1>1, <1>2 DEF Watched, Closing

\* The call of u ends, or a call passes, without a trace in the manager.
LEMMA Plain ==
  ASSUME HookInv, Touched, NEW u \in Users, op' \in [Users -> Calls], OthersStay(u),
         UNCHANGED <<datas, size, tainted, event, wake, timers, late>>, hooked' \subseteq Users,
         ~ Managing(u), op[u].pc # "wait",
         op'[u].pc = "idle", op'[u].kind \notin Waiting \cup {"sleep"}, op[u].call <= op'[u].call
  PROVE  HookInv'
<1> USE DEF HookInv
<1>1. TypeOK'
  BY DEF TypeOK, Touched
<1>2. Control'
  BY DEF Control, OthersStay
<1>3. Objects' /\ GoesOn
  BY TouchedKeeps
<1>4. ~ Managing(u)'
  BY DEF Managing
<1>5. \A v \in Users : Managing(v) \/ Managing(v)' =>
                         op'[v].pc = op[v].pc /\ op'[v].fd = op[v].fd
  BY <1>4 DEF OthersStay, Managing
<1>6. Exclusive' /\ Contexts'
  BY <1>5, ContextsKept DEF Touched
<1>7. \A v \in Users : Registered(v) /\ ~ Missable(v) =>
        /\ kernel'[Fd(v)].open /\ kernel'[Fd(v)].gen = kernel[Fd(v)].gen
        /\ ~ \E w \in Users : op'[w].fd = Fd(v) /\ op'[w].pc \in {"del", "close"}
  <2>1. \A w \in Users : op'[w].pc \in {"del", "close"} =>
                           op[w].pc \in {"del", "close"} /\ op'[w].fd = op[w].fd
    BY DEF OthersStay
  <2> QED BY <2>1, NotClosed DEF Touched
<1>8. op'[u].call \in Nat
  BY CallFields
<1>9. Waiters' /\ Registrations' /\ Timing' /\ Connects'
  BY <1>3, <1>7, <1>8, Elsewhere
<1> QED BY <1>1, <1>2, <1>3, <1>6, <1>9

\* A call that passes is made by a user that is in no call.
LEMMA PassedElsewhere ==
  ASSUME TypeOK, Control, NEW u \in Users, Passing(u)
  PROVE  /\ op' \in [Users -> Calls] /\ OthersStay(u) /\ ~ Managing(u) /\ op[u].pc = "idle"
         /\ op'[u].pc = "idle" /\ op'[u].kind \notin Waiting \cup {"sleep"}
         /\ op'[u].fd = op[u].fd /\ op'[u].to = op[u].to
         /\ op[u].call <= op'[u].call
<1>1. op[u].call \in Nat
  BY CallTypes
<1> QED BY <1>1, Passed, SMTT(30) DEF Managing, Control

LEMMA ReturnedElsewhere ==
  ASSUME TypeOK, Control, NEW u \in Users, Return(u)
  PROVE  /\ op' \in [Users -> Calls] /\ OthersStay(u)
         /\ op'[u].pc = "idle" /\ op'[u].kind \notin Waiting \cup {"sleep"}
         /\ ~ op'[u].to /\ op'[u].call = op[u].call /\ op[u].call <= op'[u].call
<1>1. op[u].call \in Nat
  BY CallTypes
<1> QED BY <1>1, Returned, Subsets, SMTT(30)

LEMMA SetHookEnableStep ==
  ASSUME HookInv, NEW u \in Users, NEW flag \in BOOLEAN, SetHookEnable(u, flag)
  PROVE  HookInv'
<1>1. Touched /\ hooked' \subseteq Users
  BY Untouched DEF SetHookEnable, HookInv, TypeOK
<1>2. Passing(u) /\ UNCHANGED <<datas, size, tainted, event, wake, timers, late>>
  BY DEF SetHookEnable
<1> QED BY <1>1, <1>2, PassedElsewhere, Plain DEF HookInv

LEMMA SockErrStep ==
  ASSUME HookInv, NEW u \in Users, SockErr(u)
  PROVE  HookInv'
<1>1. Touched /\ hooked' \subseteq Users
  BY Untouched DEF SockErr, HookInv, TypeOK
<1>2. /\ Return(u) /\ UNCHANGED <<datas, size, tainted, event, wake, timers, late>>
      /\ op[u].pc = "sockerr"
  BY DEF SockErr
<1>3. ~ Managing(u) /\ op[u].pc # "wait"
  BY <1>2 DEF Managing
<1> QED BY <1>1, <1>2, <1>3, ReturnedElsewhere, Plain DEF HookInv

\* The kernel opens new, which was free, for u.
LEMMA NewObject ==
  ASSUME HookInv, NEW u \in Users, op' \in [Users -> Calls], OthersStay(u),
         UNCHANGED <<hooked, datas, size, tainted, event, wake, timers, late>>,
         ~ Managing(u), op[u].pc # "wait",
         NEW new \in Fds, ~ kernel[new].open, last < MaxGen, last' = last + 1,
         kernel' \in [Fds -> KernelObjects],
         kernel'[new].open, kernel'[new].gen = last + 1, kernel'[new].conn = "no",
         \A x \in Fds : x # new =>
           /\ kernel'[x].open = kernel[x].open /\ kernel'[x].gen = kernel[x].gen
           /\ kernel'[x].managed = kernel[x].managed /\ kernel'[x].nonblock = kernel[x].nonblock
           /\ kernel'[x].conn = kernel[x].conn
           /\ kernel'[x].ready["WRITE"] = kernel[x].ready["WRITE"],
         \/ op'[u].pc = "get" /\ op'[u].fd = new /\ kernel'[new].managed
         \/ op'[u].pc = "idle" /\ ~ kernel'[new].managed,
         op'[u].kind \notin Waiting \cup {"sleep"}, op[u].call <= op'[u].call
  PROVE  HookInv'
<1> USE DEF HookInv
<1>0. last \in Nat /\ MaxGen \in Nat /\ new \in Nat
  BY Counts, Subsets
<1>1. TypeOK'
  <2>1. last' \in 0..MaxGen
    BY ONLY <1>0, last < MaxGen, last' = last + 1, SMTT(30)
  <2> QED BY <2>1 DEF TypeOK
<1>2. Control'
  <2>1. /\ wake' = wake /\ op[u].pc # "wait" /\ op'[u].kind \notin Waiting \cup {"sleep"}
        /\ (op'[u].pc = "get" /\ op'[u].fd \in Fds) \/ op'[u].pc = "idle"
    OBVIOUS
  <2> QED BY ONLY HookInv, OthersStay(u), <2>1, SMTT(30) DEF HookInv, Control, OthersStay
<1>3. Objects'
  <2>1. \A fd \in Fds : kernel[fd].gen \in Nat
    BY Counts
  <2>2. \A fd \in Fds : fd # new =>
          /\ kernel'[fd].open <=> kernel'[fd].gen > 0
          /\ kernel'[fd].gen <= last'
          /\ ~ kernel'[fd].open => ~ kernel'[fd].managed
          /\ kernel'[fd].conn = "pending" => kernel'[fd].open /\ ~ kernel'[fd].ready["WRITE"]
    BY <1>0, <2>1, SMTT(30) DEF Objects
  <2>3. /\ kernel'[new].open <=> kernel'[new].gen > 0
        /\ kernel'[new].gen <= last' /\ kernel'[new].conn # "pending"
    BY <1>0, SMTT(30)
  <2> QED BY <2>2, <2>3 DEF Objects
<1>4. GoesOn
  <2>1. \A fd \in Fds : fd # new => SameObject(fd)
    BY DEF SameObject
  <2>2. kernel'[new].gen > last /\ last' \in Nat /\ last <= last'
    BY <1>0, SMTT(30)
  <2> QED BY <2>1, <2>2 DEF GoesOn
<1>5. \A v \in Users : Managing(v) => v # u /\ Fd(v) \in Fds /\ Fd(v) # new
  BY DEF Exclusive, Managing, Control, Fd
<1>6. \A v \in Users : v # u => op'[v] = op[v] /\ Fd(v)' = Fd(v) /\ Managing(v)' = Managing(v)
  BY DEF OthersStay, Fd, Managing
<1>7. Managing(u)' => op'[u].pc = "get" /\ Fd(u)' = new /\ kernel'[new].managed
  BY DEF Managing, Fd
<1>8. Exclusive'
  <2>1. \A v, w \in Users : Managing(v)' /\ Managing(w)' /\ Fd(v)' = Fd(w)' => v = w
    BY ONLY HookInv, <1>5, <1>6, <1>7, SMTT(30) DEF HookInv, Exclusive
  <2>2. \A v \in Users : Managing(v)' => kernel'[Fd(v)'].open
    BY <1>5, <1>6, <1>7 DEF Exclusive
  <2>3. \A v \in Users : op'[v].pc \in {"get", "insert"} => kernel'[Fd(v)'].managed
    <3> SUFFICES ASSUME NEW v \in Users, op'[v].pc \in {"get", "insert"}
                 PROVE  kernel'[Fd(v)'].managed
      OBVIOUS
    <3>1. Managing(v)'
      BY DEF Managing
    <3> QED BY <1>5, <1>6, <1>7, <3>1 DEF Exclusive
  <2> QED BY <2>1, <2>2, <2>3 DEF Exclusive
<1>9. Contexts'
  <2>1. new \notin tainted => datas[new].gen = 0
    BY DEF Contexts, Objects
  <2>2. ASSUME NEW fd \in Fds \ tainted, datas[fd].gen # 0
        PROVE  /\ kernel'[fd].managed /\ kernel'[fd].nonblock
               /\ kernel'[fd].gen = datas[fd].gen
    BY <2>1, <2>2 DEF Contexts
  <2>3. ASSUME NEW fd \in Fds \ tainted, kernel'[fd].managed
        PROVE  datas[fd].gen = 0 <=>
                 \E v \in Users : Fd(v)' = fd /\ op'[v].pc \in {"get", "insert", "close"}
    <3>1. CASE fd = new
      BY <1>7, <2>1, <2>3, <3>1 DEF Managing, Fd
    <3>2. CASE fd # new
      <4>1. \A v \in Users : Fd(v)' = fd /\ op'[v].pc \in {"get", "insert", "close"} <=>
                             Fd(v) = fd /\ op[v].pc \in {"get", "insert", "close"}
        BY <1>5, <1>6, <1>7, <3>2 DEF Managing
      <4> QED BY <2>3, <3>2, <4>1 DEF Contexts
    <3> QED BY <3>1, <3>2
  <2>4. \A v \in Users : op'[v].pc = "close" => Fd(v)' \in tainted \/ datas[Fd(v)'].gen = 0
    BY ONLY HookInv, <1>6, <1>7, SMTT(30) DEF HookInv, Contexts, Managing
  <2> QED BY <2>2, <2>3, <2>4 DEF Contexts
<1>10. \A v \in Users : Registered(v) /\ ~ Missable(v) =>
        /\ kernel'[Fd(v)].open /\ kernel'[Fd(v)].gen = kernel[Fd(v)].gen
        /\ ~ \E w \in Users : op'[w].fd = Fd(v) /\ op'[w].pc \in {"del", "close"}
  <2>1. \A w \in Users : op'[w].pc \in {"del", "close"} =>
                           op[w].pc \in {"del", "close"} /\ op'[w].fd = op[w].fd
    BY DEF OthersStay
  <2>2. \A fd \in Fds : kernel[fd].open => kernel'[fd].open /\ kernel'[fd].gen = kernel[fd].gen
    OBVIOUS
  <2> QED BY <2>1, <2>2, NotClosed
<1>11. op'[u].call \in Nat
  BY CallFields
<1>12. Waiters' /\ Registrations' /\ Timing' /\ Connects'
  BY <1>4, <1>10, <1>11, Elsewhere
<1> QED BY <1>1, <1>2, <1>3, <1>8, <1>9, <1>12

\* What socket and accept get from the kernel.
LEMMA OpenedFields ==
  ASSUME TypeOK, last < MaxGen, NEW m \in BOOLEAN
  PROVE  /\ Opened(m) \in KernelObjects /\ Opened(m).open /\ Opened(m).gen = last + 1
         /\ Opened(m).managed = m /\ Opened(m).conn = "no"
<1>1. last + 1 \in 0..MaxGen /\ 0 \in 0..MaxGen
  BY Subsets, SMTT(30) DEF TypeOK
<1>2. /\ Closed \in KernelObjects /\ Closed.conn = "no"
  BY <1>1 DEF Closed, KernelObjects
<1>3. PICK k : k = Closed
  OBVIOUS
<1>4. Opened(m) = [k EXCEPT !.open = TRUE, !.gen = last + 1, !.managed = m]
  BY <1>3 DEF Opened
<1> QED BY <1>1, <1>2, <1>3, <1>4 DEF KernelObjects

LEMMA SocketStep ==
  ASSUME HookInv, NEW u \in Users, NEW fd \in Fds, Socket(u, fd)
  PROVE  HookInv'
<1> USE DEF HookInv
<1>0. (u \in hooked) \in BOOLEAN
  BY ONLY SMTT(30)
<1>1. PICK m \in BOOLEAN : m = (u \in hooked)
  BY <1>0
<1>2. /\ ~ kernel[fd].open /\ last < MaxGen /\ last' = last + 1
      /\ kernel' = [kernel EXCEPT ![fd] = Opened(m)]
      /\ UNCHANGED <<hooked, datas, size, tainted, event, wake, timers, late>>
  BY <1>1 DEF Socket, NextFree
<1>3. PICK k \in KernelObjects : k = Opened(m)
  BY <1>2, OpenedFields
<1>4. k.open /\ k.gen = last + 1 /\ k.managed = m /\ k.conn = "no"
  BY <1>2, <1>3, OpenedFields
<1>5. /\ kernel' \in [Fds -> KernelObjects] /\ kernel'[fd] = k
      /\ \A x \in Fds : x # fd => kernel'[x] = kernel[x]
  BY <1>2, <1>3 DEF TypeOK
<1>6. op[u].pc = "idle" /\ ~ Managing(u) /\ op[u].call \in Nat
  BY CallTypes DEF Socket, Passing, MayCall, Managing
<1>7. CASE m
  <2>1. Creates(u, fd, op[u].call + 1)
    BY <1>1, <1>7 DEF Socket
  <2>2. /\ op' \in [Users -> Calls] /\ OthersStay(u)
        /\ op'[u].pc = "get" /\ op'[u].kind = "socket" /\ op'[u].fd = fd
        /\ op'[u].call = op[u].call + 1
    <3>1. PICK c \in Nat : c = op[u].call + 1
      BY ONLY <1>6, SMTT(30)
    <3> QED BY <1>2, <2>1, <3>1, Made
  <2>3. op'[u].kind \notin Waiting \cup {"sleep"} /\ op[u].call <= op'[u].call
    BY ONLY <1>6, <2>2, Subsets, SMTT(30)
  <2>4. /\ kernel'[fd].open /\ kernel'[fd].gen = last + 1 /\ kernel'[fd].conn = "no"
        /\ kernel'[fd].managed /\ op[u].pc # "wait"
    BY <1>4, <1>5, <1>6, <1>7
  <2> QED BY <1>2, <1>5, <1>6, <2>2, <2>3, <2>4, NewObject
<1>8. CASE ~ m
  <2>1. Passing(u)
    BY <1>1, <1>8 DEF Socket
  <2>2. /\ op' \in [Users -> Calls] /\ OthersStay(u) /\ op'[u].pc = "idle"
        /\ op'[u].kind \notin Waiting \cup {"sleep"} /\ op[u].call <= op'[u].call
    BY <2>1, PassedElsewhere
  <2> QED BY <1>2, <1>4, <1>5, <1>6, <1>8, <2>2, NewObject
<1> QED BY <1>7, <1>8

\* accept, in a call of do_io or without the hook.
LEMMA AcceptedStep ==
  ASSUME HookInv, NEW u \in Users, NEW fd \in Fds, NEW kind, NEW c \in Nat,
         Accepted(u, fd, kind, c), op[u].call <= c,
         UNCHANGED <<hooked, datas, size, tainted, event, wake, timers, late>>,
         ~ Managing(u), op[u].pc # "wait"
  PROVE  HookInv'
<1> USE DEF HookInv
<1>1. PICK new \in Fds :
        /\ ~ kernel[new].open
        /\ kernel' = [kernel EXCEPT ![fd].ready["READ"] = FALSE, ![new] = Opened(TRUE)]
        /\ Creates(u, new, c)
  BY DEF Accepted, NextFree
<1>2. last < MaxGen /\ last' = last + 1 /\ kernel[fd].open
  BY DEF Accepted
<1>3. fd # new
  BY <1>1, <1>2
<1>4. PICK k \in KernelObjects : k = Opened(TRUE)
  BY <1>2, OpenedFields
<1>5. k.open /\ k.gen = last + 1 /\ k.managed = TRUE /\ k.conn = "no"
  BY <1>2, <1>4, OpenedFields
<1>6. PICK r \in [Event -> BOOLEAN] : r = [kernel[fd].ready EXCEPT !["READ"] = FALSE]
  BY ObjectTypes DEF Event
<1>7. r["WRITE"] = kernel[fd].ready["WRITE"]
  BY <1>6, ObjectTypes DEF Event
<1>8. PICK j : j = [kernel[fd] EXCEPT !.ready = r]
  OBVIOUS
<1>9. /\ j \in KernelObjects /\ j.open = kernel[fd].open /\ j.gen = kernel[fd].gen
      /\ j.managed = kernel[fd].managed /\ j.nonblock = kernel[fd].nonblock
      /\ j.conn = kernel[fd].conn /\ j.ready = r
  BY <1>8, ObjectTypes DEF KernelObjects
<1>10. kernel' = [[kernel EXCEPT ![fd] = j] EXCEPT ![new] = k]
  BY <1>1, <1>4, <1>6, <1>8
<1>11. /\ kernel' \in [Fds -> KernelObjects] /\ kernel'[new] = k /\ kernel'[fd] = j
       /\ \A x \in Fds : x # new /\ x # fd => kernel'[x] = kernel[x]
  BY <1>3, <1>9, <1>10 DEF TypeOK
<1>12. /\ op' \in [Users -> Calls] /\ OthersStay(u)
       /\ op'[u].pc = "get" /\ op'[u].kind = "socket" /\ op'[u].fd = new
       /\ op'[u].call = c
  BY <1>1, <1>2, Made
<1>13. op'[u].kind \notin Waiting \cup {"sleep"} /\ op[u].call <= op'[u].call
  BY <1>12, Subsets
<1>14. \A x \in Fds : x # new =>
         /\ kernel'[x].open = kernel[x].open /\ kernel'[x].gen = kernel[x].gen
         /\ kernel'[x].managed = kernel[x].managed /\ kernel'[x].nonblock = kernel[x].nonblock
         /\ kernel'[x].conn = kernel[x].conn
         /\ kernel'[x].ready["WRITE"] = kernel[x].ready["WRITE"]
  BY <1>7, <1>9, <1>11
<1>15. /\ kernel'[new].open /\ kernel'[new].gen = last + 1 /\ kernel'[new].conn = "no"
       /\ kernel'[new].managed
  BY <1>5, <1>11
<1> QED BY <1>1, <1>2, <1>11, <1>12, <1>13, <1>14, <1>15, NewObject

LEMMA DirectStep ==
  ASSUME HookInv, NEW u \in Users, NEW fd \in Fds, NEW kind \in Waiting, Direct(u, fd, kind)
  PROVE  HookInv'
<1> USE DEF HookInv
<1>1. UNCHANGED <<hooked, datas, size, tainted, event, wake, timers, late>>
  BY DEF Direct
<1>2. CASE (Done(fd, kind) \/ SysError \/ WouldBlock(fd, kind)) /\ Passing(u)
  <2>1. Touched
    BY <1>2, Answered
  <2>2. hooked' \subseteq Users
    BY <1>1 DEF TypeOK
  <2> QED BY <1>1, <1>2, <2>1, <2>2, PassedElsewhere, Plain
<1>3. CASE MayCall(u) /\ Accepted(u, fd, kind, op[u].call + 1)
  <2>1. op[u].pc = "idle" /\ ~ Managing(u) /\ op[u].call \in Nat
    BY <1>3, CallTypes DEF MayCall, Managing
  <2>2. PICK c \in Nat : c = op[u].call + 1
    BY ONLY <2>1, SMTT(30)
  <2> QED BY <1>1, <1>3, <2>1, <2>2, AcceptedStep, SMTT(30)
<1> QED BY <1>2, <1>3 DEF Direct

\* Try, when the system call answers.
LEMMA TryEnds ==
  ASSUME HookInv, NEW u \in Users, op[u].pc = "try",
         UNCHANGED <<hooked, datas, size, tainted, event, wake, timers, late>>,
         \/ (Done(Fd(u), op[u].kind) \/ SysError) /\ Return(u)
         \/ Accepted(u, Fd(u), op[u].kind, op[u].call)
  PROVE  HookInv'
<1> USE DEF HookInv
<1>1. InIo(u) /\ Fd(u) \in Fds /\ ~ Managing(u) /\ op[u].call \in Nat
  BY CallTypes, InIoTypes DEF Control, InIo, Managing
<1>2. PICK fd \in Fds, kind \in Waiting : fd = Fd(u) /\ kind = op[u].kind
  BY <1>1 DEF InIo
<1>3. CASE (Done(Fd(u), op[u].kind) \/ SysError) /\ Return(u)
  <2>1. Touched
    BY <1>2, <1>3, Answered
  <2>2. hooked' \subseteq Users
    BY DEF TypeOK
  <2> QED BY <1>1, <1>3, <2>1, <2>2, ReturnedElsewhere, Plain
<1>4. CASE Accepted(u, Fd(u), op[u].kind, op[u].call)
  <2>1. PICK c \in Nat : c = op[u].call
    BY <1>1
  <2> QED BY <1>1, <1>2, <1>4, <2>1, AcceptedStep, SMTT(30)
<1> QED BY <1>3, <1>4

------------------------------------------------------------------------------
(* The initial states *)

LEMMA NoContext == NoCtx \in FdCtxs /\ NoCtx.gen = 0 /\ ~ NoCtx.is_socket
<1>1. 0 \in 0..MaxGen
  BY ONLY Subsets, SMTT(30)
<1> QED BY <1>1 DEF NoCtx, FdCtx, FdCtxs

\* fd * 1.5 is enough: the table has two slots at least.
LEMMA RoomMade ==
  ASSUME NEW fd \in Nat, fd >= 2
  PROVE  Resized(fd) \in Nat /\ fd < Resized(fd)
BY SMTT(30) DEF Resized

LEMMA HookInitially ==
  ASSUME Init
  PROVE  HookInv
<1>0. PICK fd0 \in Fds : fd0 = First
  <2>1. \E fd \in Fds : \A x \in Fds : fd <= x
    BY FdsAssumption
  <2>2. First \in Fds
    BY <2>1 DEF First
  <2> QED BY <2>2
<1>1. 0 \in 0..MaxGen /\ 1 \in 0..MaxGen /\ fd0 \in Nat /\ InitialSize \in Nat /\ InitialSize >= 2
  BY ONLY Subsets, InitialSizeAssumption, SMTT(30)
<1>2. PICK to \in BOOLEAN :
        datas = [fd \in Fds |->
          IF fd = fd0 THEN [FdCtx(1, TRUE) EXCEPT !.timeout["READ"] = to] ELSE NoCtx]
  BY <1>0 DEF Init
<1>3. PICK d : d = [FdCtx(1, TRUE) EXCEPT !.timeout["READ"] = to]
  OBVIOUS
<1>4. d \in FdCtxs /\ d.gen = 1 /\ d.sys_nonblock
  <2>1. PICK c \in FdCtxs : c = FdCtx(1, TRUE)
    BY <1>1 DEF FdCtx, FdCtxs
  <2>2. c.gen = 1 /\ c.sys_nonblock /\ c.timeout \in [Event -> BOOLEAN]
    BY <2>1 DEF FdCtx, FdCtxs
  <2>3. PICK q \in [Event -> BOOLEAN] : q = [c.timeout EXCEPT !["READ"] = to]
    BY <2>2 DEF Event
  <2>4. d = [c EXCEPT !.timeout = q]
    BY <1>3, <2>1, <2>3
  <2> QED BY <2>2, <2>4 DEF FdCtxs
<1>5. /\ datas \in [Fds -> FdCtxs] /\ datas[fd0] = d
      /\ \A x \in Fds : x # fd0 => datas[x].gen = 0 /\ ~ datas[x].is_socket
  BY <1>2, <1>3, <1>4, NoContext
<1>6. size \in Nat /\ size >= 2 /\ fd0 < size
  <2>1. size = IF fd0 >= InitialSize THEN Resized(fd0) ELSE InitialSize
    BY <1>0 DEF Init
  <2>2. CASE fd0 >= InitialSize
    <3>1. Resized(fd0) \in Nat /\ fd0 < Resized(fd0)
      BY ONLY <1>1, <2>2, RoomMade, SMTT(30)
    <3> QED BY ONLY <1>1, <2>1, <2>2, <3>1, SMTT(30)
  <2> QED BY ONLY <1>1, <2>1, <2>2, SMTT(30)
<1>7. Closed \in KernelObjects /\ ~ Closed.open /\ Closed.gen = 0 /\ ~ Closed.managed
      /\ Closed.conn = "no"
  BY <1>1 DEF Closed, KernelObjects
<1>8. PICK k : k = [Closed EXCEPT !.open = TRUE, !.gen = 1, !.nonblock = TRUE, !.managed = TRUE]
  OBVIOUS
<1>9. k \in KernelObjects /\ k.open /\ k.gen = 1 /\ k.nonblock /\ k.managed /\ k.conn = "no"
  <2>1. PICK c \in KernelObjects : c = Closed /\ c.conn = "no"
    BY <1>7
  <2> QED BY <1>1, <1>8, <2>1 DEF KernelObjects
<1>10. /\ kernel \in [Fds -> KernelObjects] /\ kernel[fd0] = k
       /\ \A x \in Fds : x # fd0 => kernel[x] = Closed
  BY <1>0, <1>7, <1>8, <1>9 DEF Init
<1>11. /\ last = 1 /\ hooked = Users /\ timers = {} /\ late = {} /\ tainted = {}
       /\ \A u \in Users : op[u] = NoOp /\ wake[u] = "no"
       /\ op \in [Users -> Calls] /\ wake \in [Users -> {"no", "event", "cancel"}]
  BY NoCall DEF Init
<1>12. /\ event \in [Fds \X Event -> EventContexts]
       /\ \A x \in Fds, e \in Event : event[<<x, e>>].user = NoUser
  <2>1. NoEvent \in EventContexts /\ NoEvent.user = NoUser
    BY <1>1 DEF NoEvent, EventContexts
  <2>2. event = [x \in Fds \X Event |-> NoEvent]
    BY DEF Init
  <2> QED BY <2>1, <2>2
<1>13. TypeOK
  BY <1>1, <1>5, <1>6, <1>10, <1>11, <1>12 DEF TypeOK
<1>14. \A u \in Users : /\ op[u].pc = "idle" /\ op[u].kind = "none" /\ ~ op[u].to
                        /\ op[u].kind \notin Waiting \cup {"sleep"}
  BY <1>11, NoCall, Subsets
<1>15. Control
  BY <1>11, <1>14 DEF Control
<1>16. Objects
  BY <1>1, <1>7, <1>9, <1>10, <1>11, SMTT(30) DEF Objects
<1>17. Exclusive
  BY <1>14 DEF Exclusive, Managing
<1>18. Contexts
  <2>1. \A u \in Users : op[u].pc \notin {"get", "insert", "close"}
    BY <1>14
  <2>2. \A fd \in Fds : datas[fd].gen # 0 => fd < size
    BY <1>5, <1>6
  <2>3. \A fd \in Fds : datas[fd].is_socket => datas[fd].sys_nonblock
    BY <1>4, <1>5
  <2>4. \A fd \in Fds : datas[fd].gen # 0 => /\ kernel[fd].managed /\ kernel[fd].nonblock
                                             /\ kernel[fd].gen = datas[fd].gen
    BY <1>4, <1>5, <1>9, <1>10
  <2>5. \A fd \in Fds : kernel[fd].managed => datas[fd].gen # 0
    BY ONLY <1>4, <1>5, <1>7, <1>10, SMTT(30)
  <2> QED BY <1>6, <2>1, <2>2, <2>3, <2>4, <2>5 DEF Contexts
<1>19. Waiters
  BY <1>14 DEF Waiters, InIo
<1>20. Registrations
  BY <1>12, <1>14 DEF Registrations, InIo
<1>21. Timing
  BY <1>11, <1>14 DEF Timing, Attended, InWait, InIo
<1>22. Connects
  BY <1>14 DEF Connects, Connecting
<1> QED BY <1>13, <1>15, <1>16, <1>17, <1>18, <1>19, <1>20, <1>21, <1>22 DEF HookInv

------------------------------------------------------------------------------
(* Steps in the table of contexts *)

\* Whether a context is there does not depend on the size of the table.
LEMMA Got ==
  ASSUME TypeOK, Contexts, NEW fd \in Fds
  PROVE  /\ Get(fd).gen = datas[fd].gen
         /\ Get(fd).gen # 0 => Get(fd) = datas[fd]
<1>1. NoCtx.gen = 0
  BY DEF NoCtx, FdCtx
<1>2. datas[fd].gen # 0 => ~ (size <= fd)
  BY Subsets, SMTT(30) DEF TypeOK, Contexts
<1> QED BY <1>1, <1>2 DEF Get

\* Setting flags of a context and of its object.
LEMMA Settings ==
  ASSUME HookInv, NEW u \in Users, Passing(u),
         UNCHANGED <<hooked, size, last, event, wake, timers, late>>,
         datas' \in [Fds -> FdCtxs], kernel' \in [Fds -> KernelObjects],
         \A fd \in Fds : /\ datas'[fd].gen = datas[fd].gen
                         /\ datas'[fd].is_socket = datas[fd].is_socket
                         /\ datas'[fd].sys_nonblock = datas[fd].sys_nonblock,
         \A fd \in Fds :
           /\ kernel'[fd].open = kernel[fd].open /\ kernel'[fd].gen = kernel[fd].gen
           /\ kernel'[fd].managed = kernel[fd].managed
           /\ kernel'[fd].conn = kernel[fd].conn /\ kernel'[fd].ready = kernel[fd].ready,
         tainted \subseteq tainted', tainted' \subseteq Fds,
         \A fd \in Fds : kernel[fd].managed /\ kernel[fd].nonblock =>
                           kernel'[fd].nonblock \/ fd \in tainted'
  PROVE  HookInv'
<1> USE DEF HookInv
<1>1. /\ op' \in [Users -> Calls] /\ OthersStay(u) /\ ~ Managing(u) /\ op[u].pc = "idle"
      /\ op'[u].pc = "idle" /\ op'[u].kind \notin Waiting \cup {"sleep"}
      /\ op'[u].fd = op[u].fd /\ op'[u].to = op[u].to /\ op[u].call <= op'[u].call
      /\ op'[u].call \in Nat
  BY PassedElsewhere, CallFields
<1>2. TypeOK'
  BY <1>1 DEF TypeOK
<1>3. Control'
  BY ONLY HookInv, <1>1, wake' = wake, SMTT(30) DEF HookInv, Control, OthersStay
<1>4. Objects'
  BY DEF Objects
<1>5. GoesOn
  <2>1. last' \in Nat /\ last <= last'
    BY Counts
  <2> QED BY <2>1 DEF GoesOn, SameObject
<1>6. \A v \in Users : op'[v].pc = op[v].pc /\ Fd(v)' = Fd(v) /\ Managing(v)' = Managing(v)
  BY <1>1 DEF OthersStay, Fd, Managing
<1>7. \A v \in Users : Managing(v) => Fd(v) \in Fds
  BY DEF Managing, Control, Fd
<1>8. Exclusive'
  <2>1. \A v \in Users : op'[v].pc \in {"get", "insert"} => Managing(v)
    BY <1>6 DEF Managing
  <2>2. \A v, w \in Users : Managing(v)' /\ Managing(w)' /\ Fd(v)' = Fd(w)' => v = w
    BY <1>6 DEF Exclusive
  <2>3. \A v \in Users : Managing(v)' => kernel'[Fd(v)'].open
    BY <1>6, <1>7 DEF Exclusive
  <2>4. \A v \in Users : op'[v].pc \in {"get", "insert"} => kernel'[Fd(v)'].managed
    BY <1>6, <1>7, <2>1 DEF Exclusive
  <2> QED BY <2>2, <2>3, <2>4 DEF Exclusive
<1>9. Contexts'
  <2>1. ASSUME NEW fd \in Fds \ tainted', datas'[fd].gen # 0
        PROVE  /\ kernel'[fd].managed /\ kernel'[fd].nonblock
               /\ kernel'[fd].gen = datas'[fd].gen
    <3>1. fd \in Fds \ tainted /\ datas[fd].gen # 0
      BY <2>1
    <3>2. kernel[fd].managed /\ kernel[fd].nonblock /\ kernel[fd].gen = datas[fd].gen
      BY <3>1 DEF Contexts
    <3> QED BY <2>1, <3>2
  <2>2. ASSUME NEW fd \in Fds \ tainted', kernel'[fd].managed
        PROVE  datas'[fd].gen = 0 <=>
                 \E v \in Users : Fd(v)' = fd /\ op'[v].pc \in {"get", "insert", "close"}
    <3>1. \A v \in Users : Fd(v)' = fd /\ op'[v].pc \in {"get", "insert", "close"} <=>
                           Fd(v) = fd /\ op[v].pc \in {"get", "insert", "close"}
      BY <1>6
    <3> QED BY <2>2, <3>1 DEF Contexts
  <2>3. ASSUME NEW v \in Users, op'[v].pc = "close"
        PROVE  Fd(v)' \in tainted' \/ datas'[Fd(v)'].gen = 0
    <3>1. op[v].pc = "close" /\ Fd(v)' = Fd(v)
      BY <1>6, <2>3
    <3>2. Fd(v) \in Fds
      BY <1>7, <3>1 DEF Managing
    <3>3. Fd(v) \in tainted \/ datas[Fd(v)].gen = 0
      BY <3>1 DEF Contexts
    <3> QED BY <3>1, <3>2, <3>3
  <2>4. \A fd \in Fds : datas'[fd].gen # 0 => fd < size'
    BY DEF Contexts
  <2>5. \A fd \in Fds : datas'[fd].is_socket => datas'[fd].sys_nonblock
    BY DEF Contexts
  <2> QED BY <2>1, <2>2, <2>3, <2>4, <2>5 DEF Contexts
<1>10. \A v \in Users : Registered(v) /\ ~ Missable(v) =>
        /\ kernel'[Fd(v)].open /\ kernel'[Fd(v)].gen = kernel[Fd(v)].gen
        /\ ~ \E w \in Users : op'[w].fd = Fd(v) /\ op'[w].pc \in {"del", "close"}
  <2>1. \A w \in Users : op'[w].pc \in {"del", "close"} =>
                           op[w].pc \in {"del", "close"} /\ op'[w].fd = op[w].fd
    BY <1>6 DEF Fd
  <2> QED BY <2>1, NotClosed
<1>11. Waiters' /\ Registrations' /\ Timing' /\ Connects'
  BY <1>1, <1>5, <1>10, Elsewhere
<1> QED BY <1>2, <1>3, <1>4, <1>8, <1>9, <1>11

\* The user's wish in the context of fd, the flag of the object.
LEMMA UserNonblock ==
  ASSUME TypeOK, NEW fd \in Fds, NEW b \in BOOLEAN, NEW c \in BOOLEAN,
         datas' = datas \/ datas' = [datas EXCEPT ![fd].user_nonblock = b],
         kernel' = [kernel EXCEPT ![fd].nonblock = c]
  PROVE  /\ datas' \in [Fds -> FdCtxs] /\ kernel' \in [Fds -> KernelObjects]
         /\ \A x \in Fds : /\ datas'[x].gen = datas[x].gen
                           /\ datas'[x].is_socket = datas[x].is_socket
                           /\ datas'[x].sys_nonblock = datas[x].sys_nonblock
         /\ \A x \in Fds :
              /\ kernel'[x].open = kernel[x].open /\ kernel'[x].gen = kernel[x].gen
              /\ kernel'[x].managed = kernel[x].managed
              /\ kernel'[x].conn = kernel[x].conn /\ kernel'[x].ready = kernel[x].ready
         /\ kernel'[fd].nonblock = c
         /\ \A x \in Fds : x # fd => kernel'[x].nonblock = kernel[x].nonblock
<1>1. PICK d : d = [datas[fd] EXCEPT !.user_nonblock = b]
  OBVIOUS
<1>2. /\ d \in FdCtxs /\ d.gen = datas[fd].gen /\ d.is_socket = datas[fd].is_socket
      /\ d.sys_nonblock = datas[fd].sys_nonblock
  BY <1>1, CtxTypes DEF FdCtxs
<1>3. datas' = datas \/ datas' = [datas EXCEPT ![fd] = d]
  BY <1>1
<1>4. PICK k : k = [kernel[fd] EXCEPT !.nonblock = c]
  OBVIOUS
<1>5. /\ k \in KernelObjects /\ k.open = kernel[fd].open /\ k.gen = kernel[fd].gen
      /\ k.managed = kernel[fd].managed /\ k.conn = kernel[fd].conn /\ k.ready = kernel[fd].ready
      /\ k.nonblock = c
  BY <1>4, ObjectTypes DEF KernelObjects
<1>6. kernel' = [kernel EXCEPT ![fd] = k]
  BY <1>4
<1>7. /\ datas' \in [Fds -> FdCtxs]
      /\ \A x \in Fds : /\ datas'[x].gen = datas[x].gen
                        /\ datas'[x].is_socket = datas[x].is_socket
                        /\ datas'[x].sys_nonblock = datas[x].sys_nonblock
  BY <1>2, <1>3 DEF TypeOK
<1>8. /\ kernel' \in [Fds -> KernelObjects] /\ kernel'[fd] = k
      /\ \A x \in Fds : x # fd => kernel'[x] = kernel[x]
  BY <1>5, <1>6 DEF TypeOK
<1> QED BY <1>5, <1>7, <1>8

LEMMA SetSockOptStep ==
  ASSUME HookInv, NEW u \in Users, NEW fd \in Fds, NEW e \in Event, SetSockOpt(u, fd, e)
  PROVE  HookInv'
<1> USE DEF HookInv
<1>1. /\ Passing(u) /\ datas' = [datas EXCEPT ![fd] = SetTimeout(datas[fd], e, TRUE)]
      /\ UNCHANGED <<hooked, size, kernel, last, wake, event, timers, late, tainted>>
  BY DEF SetSockOpt
<1>2. PICK q \in [Event -> BOOLEAN] : q = [datas[fd].timeout EXCEPT ![e] = TRUE]
  BY CtxTypes
<1>3. PICK d : d = [datas[fd] EXCEPT !.timeout = q]
  OBVIOUS
<1>4. /\ d \in FdCtxs /\ d.gen = datas[fd].gen /\ d.is_socket = datas[fd].is_socket
      /\ d.sys_nonblock = datas[fd].sys_nonblock
  BY <1>3, CtxTypes DEF FdCtxs
<1>5. datas' = [datas EXCEPT ![fd] = d]
  BY <1>1, <1>2, <1>3 DEF SetTimeout
<1>6. /\ datas' \in [Fds -> FdCtxs]
      /\ \A x \in Fds : /\ datas'[x].gen = datas[x].gen
                        /\ datas'[x].is_socket = datas[x].is_socket
                        /\ datas'[x].sys_nonblock = datas[x].sys_nonblock
  BY <1>4, <1>5 DEF TypeOK
<1>7. kernel' \in [Fds -> KernelObjects] /\ tainted' \subseteq Fds
  BY <1>1 DEF TypeOK
<1> QED BY <1>1, <1>6, <1>7, Settings

LEMMA FcntlSetFlStep ==
  ASSUME HookInv, NEW u \in Users, NEW fd \in Fds, NEW b \in BOOLEAN, FcntlSetFl(u, fd, b)
  PROVE  HookInv'
<1> USE DEF HookInv
<1>1. Passing(u) /\ UNCHANGED <<hooked, size, last, wake, event, timers, late>>
  BY DEF FcntlSetFl
<1>2. CASE Get(fd).gen # 0 /\ Get(fd).is_socket
  <2>1. /\ datas' = [datas EXCEPT ![fd].user_nonblock = b] /\ tainted' = tainted
        /\ kernel' = [kernel EXCEPT ![fd].nonblock = Get(fd).sys_nonblock]
    BY <1>2 DEF FcntlSetFl
  <2>2. Get(fd).sys_nonblock /\ Get(fd).sys_nonblock \in BOOLEAN
    BY <1>2, Got, CtxTypes DEF Contexts
  <2>3. PICK c \in BOOLEAN : c = Get(fd).sys_nonblock
    BY <2>2
  <2>4. \A x \in Fds : kernel[x].managed /\ kernel[x].nonblock =>
                         kernel'[x].nonblock \/ x \in tainted'
    BY <2>1, <2>2, <2>3, UserNonblock
  <2>5. tainted \subseteq tainted' /\ tainted' \subseteq Fds
    BY <2>1 DEF TypeOK
  <2> QED BY <1>1, <2>1, <2>3, <2>4, <2>5, UserNonblock, Settings
<1>3. CASE ~ (Get(fd).gen # 0 /\ Get(fd).is_socket)
  <2>1. /\ datas' = datas /\ kernel' = [kernel EXCEPT ![fd].nonblock = b]
        /\ tainted' = IF kernel[fd].managed THEN tainted \cup {fd} ELSE tainted
    BY <1>3 DEF FcntlSetFl
  <2>2. \A x \in Fds : kernel[x].managed /\ kernel[x].nonblock =>
                         kernel'[x].nonblock \/ x \in tainted'
    BY <2>1, UserNonblock
  <2>3. tainted \subseteq tainted' /\ tainted' \subseteq Fds
    BY <2>1 DEF TypeOK
  <2> QED BY <1>1, <2>1, <2>2, <2>3, UserNonblock, Settings
<1> QED BY <1>2, <1>3

LEMMA IoctlStep ==
  ASSUME HookInv, NEW u \in Users, NEW fd \in Fds, NEW b \in BOOLEAN, Ioctl(u, fd, b)
  PROVE  HookInv'
<1> USE DEF HookInv
<1>1. /\ Passing(u) /\ UNCHANGED <<hooked, size, last, wake, event, timers, late>>
      /\ datas' = datas \/ datas' = [datas EXCEPT ![fd].user_nonblock = b]
      /\ kernel' = [kernel EXCEPT ![fd].nonblock = b]
      /\ tainted' = IF b THEN tainted ELSE tainted \cup {fd}
  BY DEF Ioctl
<1>2. \A x \in Fds : kernel[x].managed /\ kernel[x].nonblock =>
                       kernel'[x].nonblock \/ x \in tainted'
  BY ONLY <1>1, UserNonblock, SMTT(30)
<1>3. tainted \subseteq tainted' /\ tainted' \subseteq Fds
  BY <1>1 DEF TypeOK
<1> QED BY <1>1, <1>2, <1>3, UserNonblock, Settings

\* u has the number fd to itself and takes a step in the table of contexts.
LEMMA ManagerStep ==
  ASSUME HookInv, NEW u \in Users, NEW fd \in Fds, Managing(u), fd = Fd(u),
         op' \in [Users -> Calls], OthersStay(u),
         op'[u].pc \in {"idle", "insert", "close"}, op'[u].kind \notin Waiting \cup {"sleep"},
         op'[u].pc # "idle" => op'[u].fd = fd, op'[u].call = op[u].call,
         UNCHANGED <<hooked, last, wake, event, timers, late, tainted>>,
         datas' \in [Fds -> FdCtxs], size' \in Nat, size <= size',
         kernel' \in [Fds -> KernelObjects],
         \A x \in Fds : x # fd => datas'[x] = datas[x] /\ kernel'[x] = kernel[x],
         datas'[fd].gen # 0 => fd < size',
         datas'[fd].is_socket => datas'[fd].sys_nonblock,
         \/ kernel' = kernel
         \/ SameObject(fd) /\ kernel'[fd].open /\ kernel'[fd].conn = kernel[fd].conn
                           /\ kernel'[fd].ready = kernel[fd].ready
         \/ op[u].pc = "close" /\ op'[u].pc = "idle" /\ kernel'[fd] = Closed,
         op'[u].pc = "insert" => op[u].pc = "get",
         fd \notin tainted /\ datas'[fd].gen # 0 =>
           kernel'[fd].managed /\ kernel'[fd].nonblock /\ kernel'[fd].gen = datas'[fd].gen,
         fd \notin tainted /\ kernel'[fd].managed =>
           (datas'[fd].gen = 0 <=> op'[u].pc \in {"insert", "close"}),
         op'[u].pc = "close" => op[u].pc = "del" /\ datas'[fd].gen = 0
  PROVE  HookInv'
<1> USE DEF HookInv
<1>0. /\ last \in Nat /\ kernel[fd].gen \in Nat /\ kernel[fd].open /\ op[u].call \in Nat
      /\ size \in Nat
  BY Counts DEF Exclusive
<1>1. TypeOK'
  BY DEF TypeOK
<1>2. Control'
  <2>1. \A v \in Users : v # u => op'[v] = op[v] /\ wake'[v] = wake[v]
    BY DEF OthersStay
  <2>2. wake'[u] = "no"
    BY DEF Control, Managing
  <2>3. op'[u].kind # "sleep" /\ op'[u].kind # "connect"
    BY Subsets
  <2>4. /\ op'[u].pc \in {"idle", "insert", "close"} /\ op'[u].kind \notin Waiting \cup {"sleep"}
        /\ op'[u].pc # "idle" => op'[u].fd \in Fds
    OBVIOUS
  <2> QED BY ONLY HookInv, <2>1, <2>2, <2>3, <2>4, SMTT(30) DEF HookInv, Control
<1>3. Closed.gen = 0 /\ ~ Closed.open /\ ~ Closed.managed /\ Closed.conn = "no"
  BY DEF Closed
<1>4. Objects'
  <2>1. \A x \in Fds : x # fd =>
          /\ kernel'[x].open <=> kernel'[x].gen > 0
          /\ kernel'[x].gen <= last'
          /\ ~ kernel'[x].open => ~ kernel'[x].managed
          /\ kernel'[x].conn = "pending" => kernel'[x].open /\ ~ kernel'[x].ready["WRITE"]
    BY DEF Objects
  <2>2. /\ kernel'[fd].open <=> kernel'[fd].gen > 0
        /\ kernel'[fd].gen <= last'
        /\ ~ kernel'[fd].open => ~ kernel'[fd].managed
        /\ kernel'[fd].conn = "pending" => kernel'[fd].open /\ ~ kernel'[fd].ready["WRITE"]
    <3>1. \/ kernel'[fd] = Closed
          \/ /\ kernel'[fd].open /\ kernel'[fd].gen = kernel[fd].gen
             /\ kernel'[fd].conn = kernel[fd].conn /\ kernel'[fd].ready = kernel[fd].ready
      BY <1>0 DEF SameObject
    <3> QED BY ONLY HookInv, <1>0, <1>3, <3>1, last' = last, SMTT(30) DEF HookInv, Objects
  <2> QED BY <2>1, <2>2 DEF Objects
<1>5. GoesOn
  <2>1. \A x \in Fds : kernel'[x] = kernel[x] => SameObject(x)
    BY DEF SameObject
  <2>2. SameObject(fd) \/ kernel'[fd].gen = 0
    BY <1>3, <2>1
  <2> QED BY <1>0, <2>1, <2>2, Counts DEF GoesOn
<1>6. \A v \in Users : v # u => /\ op'[v] = op[v] /\ Fd(v)' = Fd(v) /\ Managing(v)' = Managing(v)
                                /\ Managing(v) => Fd(v) # fd /\ Fd(v) \in Fds
  BY DEF OthersStay, Fd, Managing, Exclusive, Control
<1>7. Managing(u)' => Fd(u)' = fd /\ kernel'[fd].open
  BY <1>0 DEF Managing, Fd
<1>8. Exclusive'
  <2>1. \A v, w \in Users : Managing(v)' /\ Managing(w)' /\ Fd(v)' = Fd(w)' => v = w
    BY ONLY HookInv, <1>6, <1>7, SMTT(30) DEF HookInv, Exclusive
  <2>2. ASSUME NEW v \in Users, Managing(v)' PROVE kernel'[Fd(v)'].open
    <3>1. CASE v = u
      BY <1>7, <2>2, <3>1
    <3>2. CASE v # u
      <4>1. Managing(v) /\ Fd(v)' = Fd(v) /\ Fd(v) # fd /\ Fd(v) \in Fds
        BY <1>6, <2>2, <3>2
      <4>2. kernel[Fd(v)].open
        BY <4>1 DEF Exclusive
      <4> QED BY <4>1, <4>2
    <3> QED BY <3>1, <3>2
  <2>3. \A v \in Users : v # u /\ op'[v].pc \in {"get", "insert"} => kernel'[Fd(v)'].managed
    <3> SUFFICES ASSUME NEW v \in Users, v # u, op'[v].pc \in {"get", "insert"}
                 PROVE  kernel'[Fd(v)'].managed
      OBVIOUS
    <3>1. Managing(v) /\ op[v].pc \in {"get", "insert"}
      BY <1>6 DEF Managing
    <3> QED BY <1>6, <3>1 DEF Exclusive
  <2>4. op'[u].pc \in {"get", "insert"} => kernel'[Fd(u)'].managed
    <3> SUFFICES ASSUME op'[u].pc \in {"get", "insert"}
                 PROVE  kernel'[Fd(u)'].managed
      OBVIOUS
    <3>1. op'[u].pc = "insert" /\ op[u].pc = "get" /\ Fd(u)' = fd
      BY DEF Fd
    <3>2. kernel[fd].managed
      BY <3>1 DEF Exclusive
    <3> QED BY <3>1, <3>2 DEF SameObject
  <2> QED BY <2>1, <2>2, <2>3, <2>4 DEF Exclusive
<1>9. Contexts'
  <2>1. size' >= 2 /\ \A x \in Fds : datas'[x].gen # 0 => x < size'
    <3>1. \A x \in Fds : x # fd => datas'[x].gen = datas[x].gen
      OBVIOUS
    <3> QED BY ONLY HookInv, <1>0, <3>1, Subsets, size' \in Nat, size <= size',
                    datas'[fd].gen # 0 => fd < size', SMTT(30) DEF HookInv, Contexts
  <2>2. \A x \in Fds : datas'[x].is_socket => datas'[x].sys_nonblock
    BY DEF Contexts
  <2>3. ASSUME NEW x \in Fds \ tainted, datas'[x].gen # 0
        PROVE  kernel'[x].managed /\ kernel'[x].nonblock /\ kernel'[x].gen = datas'[x].gen
    <3>1. CASE x = fd
      BY <2>3, <3>1
    <3>2. CASE x # fd
      BY <2>3, <3>2 DEF Contexts
    <3> QED BY <3>1, <3>2
  <2>4. ASSUME NEW x \in Fds \ tainted, kernel'[x].managed
        PROVE  datas'[x].gen = 0 <=>
                 \E v \in Users : Fd(v)' = x /\ op'[v].pc \in {"get", "insert", "close"}
    <3>1. CASE x = fd
      <4>1. \A v \in Users : v # u /\ op'[v].pc \in {"get", "insert", "close"} => Fd(v)' # fd
        BY ONLY <1>6, SMTT(30) DEF Managing
      <4>2. op'[u].pc \in {"get", "insert", "close"} <=> op'[u].pc \in {"insert", "close"}
        OBVIOUS
      <4>3. op'[u].pc \in {"insert", "close"} => Fd(u)' = fd
        BY <1>7 DEF Managing
      <4> QED BY <2>4, <3>1, <4>1, <4>2, <4>3
    <3>2. CASE x # fd
      <4>1. \A v \in Users : Fd(v)' = x /\ op'[v].pc \in {"get", "insert", "close"} <=>
                             Fd(v) = x /\ op[v].pc \in {"get", "insert", "close"}
        BY <1>6, <1>7, <3>2 DEF Managing
      <4> QED BY <2>4, <3>2, <4>1 DEF Contexts
    <3> QED BY <3>1, <3>2
  <2>5. \A v \in Users : op'[v].pc = "close" => Fd(v)' \in tainted \/ datas'[Fd(v)'].gen = 0
    <3>1. op'[u].pc = "close" => Fd(u)' = fd
      BY <1>7 DEF Managing
    <3>2. ASSUME NEW v \in Users, v # u, op'[v].pc = "close"
          PROVE  Fd(v)' \in tainted \/ datas'[Fd(v)'].gen = 0
      <4>1. op[v].pc = "close" /\ Fd(v)' = Fd(v) /\ Fd(v) # fd /\ Fd(v) \in Fds
        BY <1>6, <3>2 DEF Managing
      <4>2. Fd(v) \in tainted \/ datas[Fd(v)].gen = 0
        BY <4>1 DEF Contexts
      <4> QED BY <4>1, <4>2
    <3> QED BY <3>1, <3>2
  <2> QED BY <2>1, <2>2, <2>3, <2>4, <2>5 DEF Contexts
<1>10. \A v \in Users : Registered(v) /\ ~ Missable(v) =>
        /\ kernel'[Fd(v)].open /\ kernel'[Fd(v)].gen = kernel[Fd(v)].gen
        /\ ~ \E w \in Users : op'[w].fd = Fd(v) /\ op'[w].pc \in {"del", "close"}
  <2> SUFFICES ASSUME NEW v \in Users, Registered(v), ~ Missable(v)
               PROVE  /\ kernel'[Fd(v)].open /\ kernel'[Fd(v)].gen = kernel[Fd(v)].gen
                      /\ ~ \E w \in Users : op'[w].fd = Fd(v) /\ op'[w].pc \in {"del", "close"}
    OBVIOUS
  <2>1. Fd(v) \in Fds
    BY InIoTypes DEF Registered
  <2>2. kernel[Fd(v)].open /\ ~ Closing(Fd(v))
    BY DEF Registrations, Registered, Watched
  <2>3. op[u].pc \in {"del", "close"} => Fd(v) # fd
    BY <2>2 DEF Closing, Fd
  <2>4. \A w \in Users : op'[w].pc \in {"del", "close"} =>
                           op[w].pc \in {"del", "close"} /\ op'[w].fd = op[w].fd
    BY DEF OthersStay, Fd
  <2>5. ~ \E w \in Users : op'[w].fd = Fd(v) /\ op'[w].pc \in {"del", "close"}
    BY <2>2, <2>4 DEF Closing
  <2>6. kernel'[Fd(v)].open /\ kernel'[Fd(v)].gen = kernel[Fd(v)].gen
    BY <2>1, <2>2, <2>3 DEF SameObject
  <2> QED BY <2>5, <2>6
<1>11. /\ op[u].pc # "wait" /\ op'[u].pc \notin {"add", "wait"}
       /\ op'[u].call \in Nat /\ op[u].call <= op'[u].call
  BY <1>0, Counts DEF Managing
<1>12. Waiters' /\ Registrations' /\ Timing' /\ Connects'
  BY <1>5, <1>10, <1>11, Elsewhere
<1> QED BY <1>1, <1>2, <1>4, <1>8, <1>9, <1>12

LEMMA GetLookupStep ==
  ASSUME HookInv, NEW u \in Users, GetLookup(u)
  PROVE  HookInv'
<1> USE DEF HookInv
<1>1. /\ op[u].pc = "get" /\ Managing(u)
      /\ UNCHANGED <<hooked, datas, size, kernel, last, wake, event, timers, late, tainted>>
  BY DEF GetLookup, Managing
<1>2. PICK fd \in Fds : fd = Fd(u)
  BY <1>1 DEF Control, Fd
<1>3. op[u].kind \notin Waiting \cup {"sleep"}
  BY <1>1 DEF Control
<1>4. /\ kernel[fd].managed /\ (fd \notin tainted => datas[fd].gen = 0)
      /\ Get(fd).gen = datas[fd].gen
  BY <1>1, <1>2, Got DEF Exclusive, Contexts
<1>5. /\ datas' \in [Fds -> FdCtxs] /\ size' \in Nat /\ size <= size'
      /\ kernel' \in [Fds -> KernelObjects]
  BY <1>1, Counts DEF TypeOK
<1>6. datas'[fd].gen # 0 => fd < size'
  BY <1>1 DEF Contexts
<1>7. datas'[fd].is_socket => datas'[fd].sys_nonblock
  BY <1>1 DEF Contexts
<1>8. CASE Get(fd).gen = 0
  <2>1. Goto(u, "insert") /\ "insert" \in Labels
    BY <1>2, <1>8 DEF GetLookup, Labels
  <2>2. /\ op' \in [Users -> Calls] /\ OthersStay(u) /\ op'[u].pc = "insert"
        /\ op'[u].kind \notin Waiting \cup {"sleep"} /\ op'[u].fd = fd
        /\ op'[u].call = op[u].call
    BY <1>2, <1>3, <2>1, WhereTo DEF Fd
  <2> QED BY <1>1, <1>2, <1>4, <1>5, <1>6, <1>7, <1>8, <2>2, ManagerStep
<1>9. CASE Get(fd).gen # 0
  <2>1. Return(u)
    BY <1>2, <1>9 DEF GetLookup
  <2>2. fd \in tainted
    BY <1>4, <1>9
  <2> QED BY <1>1, <1>2, <1>5, <1>6, <1>7, <2>1, <2>2, ReturnedElsewhere, ManagerStep
<1> QED BY <1>8, <1>9

LEMMA GetCreateStep ==
  ASSUME HookInv, NEW u \in Users, GetCreate(u)
  PROVE  HookInv'
<1> USE DEF HookInv
<1>1. /\ op[u].pc = "insert" /\ Managing(u) /\ Return(u)
      /\ UNCHANGED <<hooked, last, wake, event, timers, late, tainted>>
  BY DEF GetCreate, Managing
<1>2. PICK fd \in Fds : fd = Fd(u)
  BY <1>1 DEF Control, Fd
<1>3. /\ kernel[fd].open /\ kernel[fd].managed
      /\ kernel[fd] \in KernelObjects /\ kernel[fd].gen \in 0..MaxGen
  BY <1>1, <1>2, ObjectTypes DEF Exclusive
<1>4. PICK k : k = [kernel[fd] EXCEPT !.nonblock = TRUE]
  OBVIOUS
<1>5. /\ k \in KernelObjects /\ k.open = kernel[fd].open /\ k.gen = kernel[fd].gen
      /\ k.managed = kernel[fd].managed /\ k.conn = kernel[fd].conn /\ k.ready = kernel[fd].ready
      /\ k.nonblock
  BY <1>3, <1>4 DEF KernelObjects
<1>6. kernel' = [kernel EXCEPT ![fd] = k]
  <2>1. kernel' = [kernel EXCEPT ![fd].nonblock = kernel[fd].nonblock \/ kernel[fd].open]
    BY <1>2 DEF GetCreate
  <2>2. (kernel[fd].nonblock \/ kernel[fd].open) = TRUE
    BY <1>3
  <2> QED BY <1>4, <2>1, <2>2
<1>7. /\ kernel' \in [Fds -> KernelObjects] /\ kernel'[fd] = k
      /\ \A x \in Fds : x # fd => kernel'[x] = kernel[x]
  BY <1>5, <1>6 DEF TypeOK
<1>8. PICK d : d = FdCtx(kernel[fd].gen, kernel[fd].open)
  OBVIOUS
<1>9. d \in FdCtxs /\ d.gen = kernel[fd].gen /\ (d.is_socket => d.sys_nonblock)
  BY <1>3, <1>8, ObjectTypes DEF FdCtx, FdCtxs
<1>10. /\ datas' = [datas EXCEPT ![fd] = d]
       /\ size' = IF fd >= size THEN Resized(fd) ELSE size
  BY <1>2, <1>8 DEF GetCreate, GetInsert
<1>11. /\ datas' \in [Fds -> FdCtxs] /\ datas'[fd] = d
       /\ \A x \in Fds : x # fd => datas'[x] = datas[x]
  BY <1>9, <1>10 DEF TypeOK
<1>12. size' \in Nat /\ size <= size' /\ fd < size'
  <2>1. size \in Nat /\ size >= 2 /\ fd \in Nat
    BY Subsets DEF TypeOK, Contexts
  <2>2. CASE fd >= size
    <3>1. Resized(fd) \in Nat /\ fd < Resized(fd)
      BY ONLY <2>1, <2>2, RoomMade, SMTT(30)
    <3> QED BY ONLY <1>10, <2>1, <2>2, <3>1, SMTT(30)
  <2> QED BY ONLY <1>10, <2>1, <2>2, SMTT(30)
<1>13. SameObject(fd) /\ kernel'[fd].open /\ kernel'[fd].conn = kernel[fd].conn
                      /\ kernel'[fd].ready = kernel[fd].ready
  BY <1>3, <1>5, <1>7 DEF SameObject
<1>14. /\ kernel'[fd].managed /\ kernel'[fd].nonblock /\ kernel'[fd].gen = datas'[fd].gen
       /\ datas'[fd].gen # 0 /\ (datas'[fd].is_socket => datas'[fd].sys_nonblock)
  <2>1. kernel[fd].gen # 0
    BY <1>3, SMTT(30) DEF Objects
  <2> QED BY <1>3, <1>5, <1>7, <1>9, <1>11, <2>1
<1>15. /\ op' \in [Users -> Calls] /\ OthersStay(u)
       /\ op'[u].pc = "idle" /\ op'[u].kind \notin Waiting \cup {"sleep"}
       /\ op'[u].call = op[u].call
  BY <1>1, ReturnedElsewhere
<1> QED BY <1>1, <1>2, <1>7, <1>11, <1>12, <1>13, <1>14, <1>15, ManagerStep

LEMMA CloseDelStep ==
  ASSUME HookInv, NEW u \in Users, CloseDel(u)
  PROVE  HookInv'
<1> USE DEF HookInv
<1>1. /\ op[u].pc = "del" /\ Managing(u) /\ Goto(u, "close")
      /\ UNCHANGED <<hooked, kernel, last, wake, event, timers, late, tainted>>
  BY DEF CloseDel, Managing
<1>2. PICK fd \in Fds : fd = Fd(u)
  BY <1>1 DEF Control, Fd
<1>3. datas' = (IF size <= fd THEN datas ELSE [datas EXCEPT ![fd] = NoCtx]) /\ size' = size
  BY <1>2 DEF CloseDel, Del
<1>4. /\ datas' \in [Fds -> FdCtxs] /\ datas'[fd].gen = 0
      /\ \A x \in Fds : x # fd => datas'[x] = datas[x]
  <2>1. CASE size <= fd
    <3>1. datas' = datas
      BY <1>3, <2>1
    <3>2. datas[fd].gen = 0
      BY ONLY HookInv, <2>1, Counts, Subsets, SMTT(30) DEF HookInv, Contexts
    <3> QED BY <3>1, <3>2 DEF TypeOK
  <2>2. CASE ~ (size <= fd)
    <3>1. datas' = [datas EXCEPT ![fd] = NoCtx]
      BY <1>3, <2>2
    <3> QED BY <3>1, NoContext DEF TypeOK
  <2> QED BY <2>1, <2>2
<1>5. datas'[fd].is_socket => datas'[fd].sys_nonblock
  BY <1>3, NoContext DEF Contexts, TypeOK
<1>6. size' \in Nat /\ size <= size' /\ kernel' \in [Fds -> KernelObjects]
  BY <1>1, <1>3, Counts DEF TypeOK
<1>7. /\ op' \in [Users -> Calls] /\ OthersStay(u) /\ op'[u].pc = "close"
      /\ op'[u].kind \notin Waiting \cup {"sleep"} /\ op'[u].fd = fd /\ op'[u].call = op[u].call
  <2>1. "close" \in Labels
    BY DEF Labels
  <2> QED BY <1>1, <1>2, <2>1, WhereTo DEF Control, Fd
<1> QED BY <1>1, <1>2, <1>4, <1>5, <1>6, <1>7, ManagerStep

LEMMA CloseSysStep ==
  ASSUME HookInv, NEW u \in Users, CloseSys(u)
  PROVE  HookInv'
<1> USE DEF HookInv
<1>1. /\ op[u].pc = "close" /\ Managing(u) /\ Return(u)
      /\ UNCHANGED <<hooked, datas, size, last, wake, event, timers, late, tainted>>
  BY DEF CloseSys, Managing
<1>2. PICK fd \in Fds : fd = Fd(u)
  BY <1>1 DEF Control, Fd
<1>3. Closed \in KernelObjects /\ ~ Closed.managed
  <2>1. 0 \in 0..MaxGen
    BY ONLY Subsets, SMTT(30)
  <2> QED BY <2>1 DEF Closed, KernelObjects
<1>4. /\ kernel' \in [Fds -> KernelObjects] /\ kernel'[fd] = Closed
      /\ \A x \in Fds : x # fd => kernel'[x] = kernel[x]
  BY <1>2, <1>3 DEF CloseSys, TypeOK
<1>5. /\ datas' \in [Fds -> FdCtxs] /\ size' \in Nat /\ size <= size'
      /\ \A x \in Fds : x # fd => datas'[x] = datas[x]
  BY <1>1, Counts DEF TypeOK
<1>6. datas'[fd].gen # 0 => fd < size'
  BY <1>1 DEF Contexts
<1>7. datas'[fd].is_socket => datas'[fd].sys_nonblock
  BY <1>1 DEF Contexts
<1>8. fd \notin tainted => datas'[fd].gen = 0
  BY <1>1, <1>2 DEF Contexts
<1>9. /\ op' \in [Users -> Calls] /\ OthersStay(u)
      /\ op'[u].pc = "idle" /\ op'[u].kind \notin Waiting \cup {"sleep"}
      /\ op'[u].call = op[u].call
  BY <1>1, ReturnedElsewhere
<1> QED BY <1>1, <1>2, <1>3, <1>4, <1>5, <1>6, <1>7, <1>8, <1>9, ManagerStep

------------------------------------------------------------------------------
(* Steps that trigger events *)

\* The calls do not change, but for that of u, which may enter close.
EntersClose(u) ==
  \/ op'[u] = op[u]
  \/ /\ op[u].pc = "idle" /\ op'[u].pc \in {"del", "close"} /\ op'[u].kind = "close"
     /\ op'[u].call = op[u].call + 1

LEMMA Triggers ==
  ASSUME HookInv, NEW S \in SUBSET (Fds \X Event), NEW why \in {"event", "cancel"},
         \A fd \in Fds, e \in Event : <<fd, e>> \in S =>
           /\ Watched(fd, e)
           /\ why = "event" => kernel[fd].ready[e],
         Triggered(S, why),
         NEW u \in Users, op' \in [Users -> Calls], OthersStay(u), EntersClose(u),
         UNCHANGED <<kernel, last, late>>, tainted \subseteq tainted',
         timers' \subseteq timers,
         \A t \in timers \ timers' : ~ t.sleep /\ (CallAlive(t) => op[t.user].cancelled),
         \A v \in Users : Registered(v) /\ ~ Missable(v) /\ <<Fd(v), Ev(v)>> \notin S =>
           \/ Fd(v) \in tainted'
           \/ ~ \E w \in Users : op'[w].fd = Fd(v) /\ op'[w].pc \in {"del", "close"}
  PROVE  /\ event' \in [Fds \X Event -> EventContexts]
         /\ wake' \in [Users -> {"no", "event", "cancel"}]
         /\ \A v \in Users : wake'[v] # "no" => op[v].pc = "wait"
         /\ Waiters' /\ Registrations' /\ Timing' /\ Connects'
<1> USE DEF HookInv
<1> DEFINE Struck(v) == \E x \in S : event[x].user = v
<1>1. /\ event' = [x \in Fds \X Event |-> IF x \in S THEN NoEvent ELSE event[x]]
      /\ wake' = [v \in Users |-> IF Struck(v) THEN why ELSE wake[v]]
  BY DEF Triggered, TypeOK
<1>2. NoEvent \in EventContexts /\ NoEvent.user = NoUser
  <2>1. 0 \in 0..MaxGen
    BY ONLY Subsets, SMTT(30)
  <2> QED BY <2>1 DEF NoEvent, EventContexts
<1>3. event' \in [Fds \X Event -> EventContexts]
  BY <1>1, <1>2 DEF TypeOK
<1>4. wake' \in [Users -> {"no", "event", "cancel"}]
  BY <1>1 DEF TypeOK
<1>5. ASSUME NEW v \in Users, Struck(v)
      PROVE  /\ Registered(v) /\ <<Fd(v), Ev(v)>> \in S /\ Fd(v) \in Fds /\ Ev(v) \in Event
             /\ event[<<Fd(v), Ev(v)>>].user = v
  <2>1. PICK fd \in Fds, e \in Event : <<fd, e>> \in S /\ event[<<fd, e>>].user = v
    BY ONLY <1>5, SMTT(30)
  <2>2. v # NoUser
    BY Subsets
  <2>3. InIo(v) /\ InWait(v) /\ Fd(v) = fd /\ Ev(v) = e
    BY <2>1, <2>2 DEF Registrations
  <2> QED BY <2>1, <2>3 DEF Registered
<1>6. \A v \in Users : ~ Struck(v) => wake'[v] = wake[v]
  BY <1>1
<1>7. \A v \in Users : Struck(v) => wake'[v] = why
  BY <1>1
<1>8. ASSUME NEW fd \in Fds, NEW e \in Event
      PROVE  /\ <<fd, e>> \in S => event'[<<fd, e>>].user = NoUser
             /\ <<fd, e>> \notin S => event'[<<fd, e>>] = event[<<fd, e>>]
  BY <1>1, <1>2
<1> HIDE DEF Struck
<1>9. \A v \in Users : v # u => op'[v] = op[v]
  BY DEF OthersStay
<1>10. ASSUME NEW v \in Users, op[v].pc # "idle"
       PROVE  op'[v] = op[v]
  BY <1>9, <1>10 DEF EntersClose
<1>11. ASSUME NEW v \in Users, op'[v] # op[v]
       PROVE  /\ ~ InIo(v) /\ ~ InIo(v)' /\ op'[v].pc \in {"del", "close"}
              /\ op[v].pc = "idle" /\ op'[v].kind = "close" /\ op'[v].call = op[v].call + 1
  BY <1>9, <1>11, Subsets DEF EntersClose, InIo, Control
<1>12. ASSUME NEW v \in Users, InIo(v) \/ InIo(v)'
       PROVE  op'[v] = op[v]
  BY <1>11, <1>12
<1>13. \A v \in Users : wake'[v] # "no" => op[v].pc = "wait"
  BY <1>5, <1>6 DEF Registered, InWait, Control
<1>14. \A v \in Users : Registered(v)' <=> Registered(v) /\ ~ Struck(v)
  <2> SUFFICES ASSUME NEW v \in Users PROVE Registered(v)' <=> Registered(v) /\ ~ Struck(v)
    OBVIOUS
  <2>1. CASE op'[v] # op[v]
    BY <1>11, <2>1 DEF Registered
  <2>2. CASE op'[v] = op[v]
    BY <1>6, <1>7, <2>2 DEF Registered, InIo, InWait
  <2> QED BY <2>1, <2>2
<1>15. ASSUME NEW v \in Users, Registered(v), ~ Struck(v)
       PROVE  /\ <<Fd(v), Ev(v)>> \notin S /\ Fd(v) \in Fds /\ Ev(v) \in Event
              /\ Fd(v)' = Fd(v) /\ Ev(v)' = Ev(v) /\ op'[v] = op[v]
  <2>1. Fd(v) \in Fds /\ Ev(v) \in Event /\ event[<<Fd(v), Ev(v)>>].user = v
    BY <1>15, InIoTypes DEF Registered, Registrations
  <2>2. <<Fd(v), Ev(v)>> \notin S
    BY <1>15, <2>1 DEF Struck
  <2>3. op'[v] = op[v]
    BY <1>12, <1>15 DEF Registered
  <2> QED BY <2>1, <2>2, <2>3 DEF Fd, Ev
<1>16. GoesOn
  BY Counts DEF GoesOn, SameObject
<1>17. StaleStays
  <2> SUFFICES ASSUME NEW fd \in Fds, NEW e \in Event, ~ Watched(fd, e)
               PROVE  event'[<<fd, e>>] = event[<<fd, e>>]
    BY DEF StaleStays
  <2> QED BY <1>8
<1>18. Waiters'
  BY <1>12, <1>16, WaitersKept DEF InIo
<1>19. Registrations'
  <2>1. ASSUME NEW fd \in Fds, NEW e \in Event, event'[<<fd, e>>].user # NoUser
        PROVE  (/\ event[<<fd, e>>].gen > 0 /\ event[<<fd, e>>].gen <= last
                /\ InIo(event[<<fd, e>>].user) /\ InWait(event[<<fd, e>>].user)
                /\ Fd(event[<<fd, e>>].user) = fd /\ Ev(event[<<fd, e>>].user) = e)'
    <3>1. <<fd, e>> \notin S /\ event'[<<fd, e>>] = event[<<fd, e>>]
      BY <1>8, <2>1
    <3>2. PICK v \in Users : v = event[<<fd, e>>].user
      BY <2>1, <3>1, EventTypes
    <3>3. /\ event[<<fd, e>>].gen > 0 /\ event[<<fd, e>>].gen <= last
          /\ InIo(v) /\ InWait(v) /\ Fd(v) = fd /\ Ev(v) = e
      BY <2>1, <3>1, <3>2 DEF Registrations
    <3>4. Registered(v) /\ ~ Struck(v)
      BY <1>5, <3>1, <3>3 DEF Registered
    <3>5. Registered(v)' /\ Fd(v)' = fd /\ Ev(v)' = e
      BY <1>14, <1>15, <3>3, <3>4
    <3>6. event'[<<fd, e>>].user = v /\ last' = last
      BY <3>1, <3>2
    <3>7. InIo(v)' /\ InWait(v)'
      BY <3>5 DEF Registered
    <3> QED BY <3>1, <3>3, <3>5, <3>6, <3>7 DEF InIo, InWait, Fd, Ev
  <2>2. ASSUME NEW v \in Users, InIo(v)', InWait(v)'
        PROVE  (/\ event[<<Fd(v), Ev(v)>>].user = v
                /\ Missable(v) \/ (Watched(Fd(v), Ev(v)) /\ ~ Closing(Fd(v))))'
    <3>1. Registered(v)'
      BY <2>2 DEF Registered
    <3>2. Registered(v) /\ ~ Struck(v)
      BY <1>14, <3>1
    <3>3. PICK fd \in Fds, e \in Event : fd = Fd(v) /\ e = Ev(v)
      BY <1>15, <3>2
    <3>4. /\ <<fd, e>> \notin S /\ Fd(v)' = fd /\ Ev(v)' = e /\ op'[v] = op[v]
          /\ event'[<<fd, e>>] = event[<<fd, e>>]
      BY <1>8, <1>15, <3>2, <3>3
    <3>5. event[<<fd, e>>].user = v /\ (Missable(v) \/ Watched(fd, e))
      BY <3>2, <3>3 DEF Registered, Registrations
    <3>6. Missable(v) => Missable(v)'
      BY <3>3, <3>4 DEF Missable
    <3>7. ~ Missable(v) => fd \in tainted' \/ (Watched(fd, e) /\ ~ Closing(fd))'
      <4>1. Watched(fd, e) => Watched(fd, e)'
        BY <3>4 DEF Watched
      <4>2. ~ Missable(v) => fd \in tainted' \/ ~ Closing(fd)'
        BY <3>2, <3>3, <3>4 DEF Closing
      <4> QED BY <3>5, <4>1, <4>2
    <3>8. fd \in tainted' => Missable(v)'
      BY <3>4 DEF Missable
    <3>9. event'[<<Fd(v)', Ev(v)'>>].user = v
      BY <3>4, <3>5
    <3>10. (Watched(fd, e) /\ ~ Closing(fd))' => (Watched(Fd(v), Ev(v)) /\ ~ Closing(Fd(v)))'
      BY <3>4 DEF Watched, Closing
    <3> QED BY <3>6, <3>7, <3>8, <3>9, <3>10
  <2> QED BY <2>1, <2>2 DEF Registrations
<1>20. Timing'
  <2>1. \A v \in Users : op'[v].call \in Nat /\ op[v].call <= op'[v].call
    <3> SUFFICES ASSUME NEW v \in Users PROVE op'[v].call \in Nat /\ op[v].call <= op'[v].call
      OBVIOUS
    <3>1. op[v].call \in Nat /\ op'[v].call \in Nat
      BY CallTypes, CallFields
    <3> QED BY ONLY <1>11, <3>1, SMTT(30)
  <2>2. \A v \in Users : Asleep(v) <=> Asleep(v)'
    <3> SUFFICES ASSUME NEW v \in Users PROVE Asleep(v) <=> Asleep(v)'
      OBVIOUS
    <3>1. CASE op'[v] # op[v]
      BY <1>11, <3>1 DEF Asleep, InWait
    <3>2. CASE op'[v] = op[v]
      <4>1. op[v].kind = "sleep" => ~ Struck(v)
        BY <1>5, Subsets DEF Registered, InIo
      <4> QED BY <1>6, <3>2, <4>1 DEF Asleep, InWait
    <3> QED BY <3>1, <3>2
  <2>3. \A v \in Users : Asleep(v) => op'[v].call = op[v].call
    BY <1>10 DEF Asleep, InWait
  <2>4. \A v \in Users : Patient(v)' => Patient(v) /\ InIo(v)'
    <3> SUFFICES ASSUME NEW v \in Users, Patient(v)' PROVE Patient(v) /\ InIo(v)'
      OBVIOUS
    <3>1. op'[v] = op[v]
      BY <1>11 DEF Patient, InWait
    <3>2. InWait(v)' => InWait(v)
      BY <1>6, <1>7, <3>1 DEF InWait
    <3>3. Patient(v)
      BY <3>1, <3>2 DEF Patient
    <3>4. InIo(v)
      BY <3>3, CallTypes DEF Patient, InWait, InIo, Control
    <3> QED BY <3>1, <3>3, <3>4 DEF InIo
  <2>5. \A v \in Users : InIo(v)' => /\ InIo(v) /\ op'[v].call = op[v].call
                                     /\ op'[v].cancelled = op[v].cancelled
                                     /\ op[v].fired => op'[v].fired
    BY <1>12 DEF InIo
  <2> QED BY <2>1, <2>2, <2>3, <2>4, <2>5, TimingKept
<1>21. Connects'
  <2>1. ASSUME NEW v \in Users, op'[v].kind = "connect"
        PROVE  /\ op[v].kind = "connect" /\ op'[v].pc = op[v].pc /\ op'[v].fd = op[v].fd
               /\ op'[v].gen = op[v].gen /\ op'[v].by = op[v].by
               /\ wake'[v] = "event" => \/ wake[v] = "event" \/ Reused(v)
                                        \/ kernel[Fd(v)].conn \in {"yes", "refused"}
    <3>1. op'[v] = op[v]
      BY <1>12, <2>1, Subsets DEF InIo
    <3>2. ASSUME wake'[v] = "event", wake[v] # "event", ~ Reused(v)
          PROVE  kernel[Fd(v)].conn \in {"yes", "refused"}
      <4>1. Struck(v) /\ why = "event"
        BY <1>6, <1>7, <3>2
      <4>2. PICK fd \in Fds : fd = Fd(v)
        BY <1>5, <4>1
      <4>3. Ev(v) = "WRITE" /\ "WRITE" \in Event
        BY <2>1, <3>1 DEF Ev, EventOf, Event
      <4>4. kernel[fd].ready["WRITE"] /\ op[v].pc = "wait"
        BY <1>5, <4>1, <4>2, <4>3 DEF Registered, InWait
      <4>5. kernel[fd].conn # "no" /\ kernel[fd].conn # "pending"
        BY <2>1, <3>1, <3>2, <4>2, <4>4 DEF Connects, Connecting, Objects
      <4> QED BY <4>2, <4>5, ObjectTypes
    <3> QED BY <2>1, <3>1, <3>2
  <2> QED BY <1>16, <1>17, <2>1, ConnectsKept
<1> QED BY <1>3, <1>4, <1>13, <1>18, <1>19, <1>20, <1>21

\* Events are triggered, and the calls do not change.
LEMMA TriggersOnly ==
  ASSUME HookInv, NEW S \in SUBSET (Fds \X Event), NEW why \in {"event", "cancel"},
         \A fd \in Fds, e \in Event : <<fd, e>> \in S =>
           /\ Watched(fd, e)
           /\ why = "event" => kernel[fd].ready[e],
         Triggered(S, why), NEW u \in Users,
         UNCHANGED <<hooked, datas, size, kernel, last, op, late, tainted>>,
         timers' \subseteq timers,
         \A t \in timers \ timers' : ~ t.sleep /\ (CallAlive(t) => op[t.user].cancelled)
  PROVE  HookInv'
<1> USE DEF HookInv
<1>1. op' \in [Users -> Calls] /\ OthersStay(u) /\ EntersClose(u)
  BY DEF TypeOK, OthersStay, EntersClose
<1>2. ASSUME NEW v \in Users, Registered(v), ~ Missable(v)
      PROVE  ~ \E w \in Users : op'[w].fd = Fd(v) /\ op'[w].pc \in {"del", "close"}
  BY <1>2 DEF Registered, Registrations, Closing
<1>3. /\ event' \in [Fds \X Event -> EventContexts]
      /\ wake' \in [Users -> {"no", "event", "cancel"}]
      /\ \A v \in Users : wake'[v] # "no" => op[v].pc = "wait"
      /\ Waiters' /\ Registrations' /\ Timing' /\ Connects'
  <2>1. UNCHANGED <<kernel, last, late>> /\ tainted \subseteq tainted'
    OBVIOUS
  <2> QED BY <1>1, <1>2, <2>1, Triggers
<1>4. TypeOK'
  BY <1>3 DEF TypeOK
<1>5. Control'
  BY <1>3 DEF Control
<1>6. Objects'
  BY DEF Objects
<1>7. Exclusive' /\ Contexts'
  BY ContextsKept
<1> QED BY <1>3, <1>4, <1>5, <1>6, <1>7

LEMMA ReportStep ==
  ASSUME HookInv, NEW fd \in Fds, NEW e \in Event, Report(fd, e)
  PROVE  HookInv'
<1>1. /\ Watched(fd, e) /\ kernel[fd].ready[e] /\ Triggered({<<fd, e>>}, "event")
      /\ UNCHANGED <<hooked, datas, size, kernel, last, op, late, tainted>> /\ timers' = timers
  BY DEF Report
<1>2. PICK u \in Users : u = event[<<fd, e>>].user
  BY <1>1, EventTypes DEF Watched, HookInv
<1>3. PICK S \in SUBSET (Fds \X Event) : S = {<<fd, e>>}
  <2>1. {<<fd, e>>} \in SUBSET (Fds \X Event)
    BY ONLY SMTT(30)
  <2> QED BY <2>1
<1>4. \A x \in Fds, f \in Event : <<x, f>> \in S =>
        Watched(x, f) /\ kernel[x].ready[f]
  BY <1>1, <1>3
<1>5. /\ timers' \subseteq timers
      /\ \A t \in timers \ timers' : ~ t.sleep /\ (CallAlive(t) => op[t.user].cancelled)
  BY <1>1
<1>6. PICK why \in {"event", "cancel"} : why = "event"
  OBVIOUS
<1>7. Triggered(S, why)
  BY <1>1, <1>3, <1>6
<1> QED BY <1>1, <1>4, <1>5, <1>7, TriggersOnly

LEMMA TimeoutCancelStep ==
  ASSUME HookInv, NEW t \in timers, TimeoutCancel(t)
  PROVE  HookInv'
<1>1. /\ t.phase = "cancel" /\ timers' = timers \ {t} /\ CancelEvent(t.fd, t.e)
      /\ UNCHANGED <<hooked, datas, size, kernel, last, op, late, tainted>>
  BY DEF TimeoutCancel
<1>2. t.user \in Users /\ ~ t.sleep /\ t.fd \in Fds /\ t.e \in Event
  BY <1>1, TimerTypes DEF HookInv, Timing, TimerRight
<1>3. PICK S \in SUBSET (Fds \X Event) : S = IF Watched(t.fd, t.e) THEN {<<t.fd, t.e>>} ELSE {}
  <2>1. {<<t.fd, t.e>>} \in SUBSET (Fds \X Event) /\ {} \in SUBSET (Fds \X Event)
    BY ONLY <1>2, SMTT(30)
  <2> QED BY <2>1
<1>4. PICK why \in {"event", "cancel"} : why = "cancel"
  OBVIOUS
<1>5. Triggered(S, why)
  BY <1>1, <1>3, <1>4 DEF CancelEvent
<1>6. \A x \in Fds, f \in Event : <<x, f>> \in S => Watched(x, f)
  BY <1>3
<1>7. /\ timers' \subseteq timers
      /\ \A s \in timers \ timers' : ~ s.sleep /\ (CallAlive(s) => op[s.user].cancelled)
  BY <1>1, <1>2 DEF HookInv, Timing, TimerRight
<1> QED BY <1>1, <1>2, <1>4, <1>5, <1>6, <1>7, TriggersOnly

\* Nobody else has the number that u is about to close.
LEMMA ClosedByOne ==
  ASSUME NEW u \in Users, NEW fd \in Fds, Usable(fd), ~ Closing(fd)
  PROVE  kernel[fd].open /\ \A v \in Users : Managing(v) => Fd(v) # fd
BY DEF Usable, Closing, Managing, Fd

\* close up to CancelAll, which triggers S.
LEMMA ClosesWith ==
  ASSUME HookInv, NEW u \in Users, NEW fd \in Fds, Usable(fd), ~ Closing(fd),
         NEW pc \in {"del", "close"}, NEW kind \in Kinds, kind = "close",
         NEW to \in BOOLEAN, Enter(u, kind, fd, pc, to),
         NEW S \in SUBSET (Fds \X Event),
         \A x \in Fds, e \in Event : <<x, e>> \in S => Watched(x, e),
         NEW why \in {"event", "cancel"}, why = "cancel", Triggered(S, why),
         UNCHANGED <<hooked, datas, size, kernel, last, timers, late>>,
         tainted \subseteq tainted', tainted' \subseteq tainted \cup {fd},
         pc = "close" => datas[fd].gen = 0 \/ fd \in tainted',
         \A v \in Users : Registered(v) /\ ~ Missable(v) /\ <<Fd(v), Ev(v)>> \notin S =>
           Fd(v) \in tainted' \/ Fd(v) # fd
  PROVE  HookInv'
<1> USE DEF HookInv
<1>1. pc \in Labels
  BY DEF Labels
<1>2. /\ op' \in [Users -> Calls] /\ OthersStay(u)
      /\ op[u].pc = "idle" /\ op'[u].pc = pc /\ op'[u].kind = "close" /\ op'[u].fd = fd
      /\ op'[u].call = op[u].call + 1
  BY ONLY HookInv, <1>1, Enter(u, kind, fd, pc, to), kind = "close", Entering, SMTT(30)
    DEF HookInv
<1>3. EntersClose(u)
  BY <1>2 DEF EntersClose
<1>4. kernel[fd].open /\ \A v \in Users : Managing(v) => Fd(v) # fd
  BY ClosedByOne
<1>5. ASSUME NEW v \in Users, Registered(v), ~ Missable(v), <<Fd(v), Ev(v)>> \notin S
      PROVE  \/ Fd(v) \in tainted'
             \/ ~ \E w \in Users : op'[w].fd = Fd(v) /\ op'[w].pc \in {"del", "close"}
  <2> SUFFICES ASSUME Fd(v) \notin tainted'
               PROVE  ~ \E w \in Users : op'[w].fd = Fd(v) /\ op'[w].pc \in {"del", "close"}
    OBVIOUS
  <2>1. Fd(v) # fd /\ ~ Closing(Fd(v))
    BY <1>5 DEF Registered, Registrations
  <2> QED BY <1>2, <2>1 DEF OthersStay, Closing
<1>6. /\ event' \in [Fds \X Event -> EventContexts]
      /\ wake' \in [Users -> {"no", "event", "cancel"}]
      /\ \A v \in Users : wake'[v] # "no" => op[v].pc = "wait"
      /\ Waiters' /\ Registrations' /\ Timing' /\ Connects'
  <2>3. /\ UNCHANGED <<kernel, last, late>> /\ timers' \subseteq timers
        /\ \A t \in timers \ timers' : ~ t.sleep /\ (CallAlive(t) => op[t.user].cancelled)
    OBVIOUS
  <2>4. \A x \in Fds, e \in Event : <<x, e>> \in S =>
          Watched(x, e) /\ (why = "event" => kernel[x].ready[e])
    OBVIOUS
  <2> QED BY <1>2, <1>3, <1>5, <2>3, <2>4, Triggers
<1>7. TypeOK'
  BY <1>2, <1>6 DEF TypeOK
<1>8. Control'
  <2>1. \A v \in Users : v # u => op'[v] = op[v]
    BY <1>2 DEF OthersStay
  <2>2. wake'[u] = "no"
    BY <1>2, <1>6
  <2>3. "close" \notin Waiting \cup {"sleep"}
    BY Subsets
  <2> QED BY <1>2, <1>6, <2>1, <2>2, <2>3 DEF Control
<1>9. Objects'
  BY DEF Objects
<1>10. /\ \A v \in Users : v # u => op'[v] = op[v] /\ Fd(v)' = Fd(v) /\ Managing(v)' = Managing(v)
       /\ Fd(u)' = fd /\ Managing(u)' /\ ~ Managing(u)
  BY <1>2 DEF OthersStay, Fd, Managing
<1>11. Exclusive'
  <2>1. \A v, w \in Users : Managing(v)' /\ Managing(w)' /\ Fd(v)' = Fd(w)' => v = w
    BY <1>4, <1>10 DEF Exclusive
  <2>2. \A v \in Users : Managing(v)' => kernel'[Fd(v)'].open
    BY <1>4, <1>10 DEF Exclusive
  <2>3. \A v \in Users : op'[v].pc \in {"get", "insert"} => kernel'[Fd(v)'].managed
    BY <1>2, <1>10 DEF Exclusive
  <2> QED BY <2>1, <2>2, <2>3 DEF Exclusive
<1>12. Contexts'
  <2>1. \A x \in Fds \ tainted' :
          datas'[x].gen # 0 => /\ kernel'[x].managed /\ kernel'[x].nonblock
                               /\ kernel'[x].gen = datas'[x].gen
    BY DEF Contexts
  <2>2. ASSUME NEW x \in Fds \ tainted', kernel'[x].managed
        PROVE  datas'[x].gen = 0 <=>
                 \E v \in Users : Fd(v)' = x /\ op'[v].pc \in {"get", "insert", "close"}
    <3>1. CASE x = fd
      <4>1. ~ \E v \in Users : Fd(v) = fd /\ op[v].pc \in {"get", "insert", "close"}
        BY <1>4 DEF Managing
      <4>2. datas[fd].gen # 0
        BY <2>2, <3>1, <4>1 DEF Contexts
      <4>3. pc = "del"
        BY <2>2, <3>1, <4>2
      <4>4. \A v \in Users : v # u => ~ (Fd(v)' = fd /\ op'[v].pc \in {"get", "insert", "close"})
        BY <1>10, <4>1
      <4> QED BY <1>2, <3>1, <4>2, <4>3, <4>4
    <3>2. CASE x # fd
      <4>1. \A v \in Users : Fd(v)' = x /\ op'[v].pc \in {"get", "insert", "close"} <=>
                             Fd(v) = x /\ op[v].pc \in {"get", "insert", "close"}
        BY <1>2, <1>10, <3>2
      <4> QED BY <2>2, <4>1 DEF Contexts
    <3> QED BY <3>1, <3>2
  <2>3. \A v \in Users : op'[v].pc = "close" => Fd(v)' \in tainted' \/ datas'[Fd(v)'].gen = 0
    <3>1. ASSUME NEW v \in Users, v # u, op'[v].pc = "close"
          PROVE  Fd(v)' \in tainted' \/ datas'[Fd(v)'].gen = 0
      <4>1. op[v].pc = "close" /\ Fd(v)' = Fd(v)
        BY <1>10, <3>1
      <4>2. Fd(v) \in tainted \/ datas[Fd(v)].gen = 0
        BY <4>1 DEF Contexts
      <4> QED BY <4>1, <4>2
    <3>2. op'[u].pc = "close" => Fd(u)' \in tainted' \/ datas'[Fd(u)'].gen = 0
      BY <1>2, <1>10
    <3> QED BY <3>1, <3>2
  <2> QED BY <2>1, <2>2, <2>3 DEF Contexts
<1> QED BY <1>6, <1>7, <1>8, <1>9, <1>11, <1>12

LEMMA CloseStep ==
  ASSUME HookInv, NEW u \in Users, NEW fd \in Fds, Close(u, fd)
  PROVE  HookInv'
<1> USE DEF HookInv
<1>1. /\ Usable(fd) /\ ~ Closing(fd)
      /\ UNCHANGED <<hooked, datas, size, kernel, last, timers, late>>
  BY DEF Close
<1>a. tainted' = IF u \notin hooked /\ Get(fd).gen # 0 THEN tainted \cup {fd} ELSE tainted
  BY DEF Close
<1>2. tainted \subseteq tainted' /\ tainted' \subseteq tainted \cup {fd}
  BY <1>a
<1>b. PICK kind \in Kinds, to \in BOOLEAN, why \in {"event", "cancel"} :
         kind = "close" /\ to = FALSE /\ why = "cancel"
  BY DEF Kinds
<1>3. CASE u \in hooked /\ Get(fd).gen # 0
  <2>1. Enter(u, "close", fd, "del", FALSE) /\ CancelAll(fd)
    BY <1>3 DEF Close
  <2>2. PICK S \in SUBSET (Fds \X Event) : S = {x \in {fd} \X Event : Watched(fd, x[2])}
    <3>1. {x \in {fd} \X Event : Watched(fd, x[2])} \in SUBSET (Fds \X Event)
      OBVIOUS
    <3> QED BY <3>1
  <2>3. \A x \in Fds, e \in Event : <<x, e>> \in S <=> x = fd /\ Watched(fd, e)
    BY <2>2
  <2>4. Triggered(S, why)
    BY <1>b, <2>1, <2>2 DEF CancelAll
  <2>5. ASSUME NEW v \in Users, Registered(v), ~ Missable(v), <<Fd(v), Ev(v)>> \notin S
        PROVE  Fd(v) \in tainted' \/ Fd(v) # fd
    <3>1. Fd(v) \in Fds /\ Ev(v) \in Event /\ Watched(Fd(v), Ev(v))
      BY <2>5, InIoTypes DEF Registered, Registrations
    <3> QED BY <2>3, <2>5, <3>1
  <2>6. PICK pc \in {"del", "close"} : pc = "del"
    OBVIOUS
  <2>7. Enter(u, kind, fd, pc, to) /\ pc # "close"
    BY <1>b, <2>1, <2>6
  <2>8. \A x \in Fds, e \in Event : <<x, e>> \in S => Watched(x, e)
    BY <2>3
  <2> QED BY ONLY HookInv, <1>1, <1>2, <1>b, <2>4, <2>5, <2>7, <2>8, ClosesWith, SMTT(30)
<1>4. CASE ~ (u \in hooked /\ Get(fd).gen # 0)
  <2>1. Enter(u, "close", fd, "close", FALSE) /\ UNCHANGED <<event, wake>>
    BY <1>4 DEF Close
  <2>2. fd \in tainted' \/ datas[fd].gen = 0
    BY <1>a, <1>4, Got
  <2>3. PICK S \in SUBSET (Fds \X Event) : S = {}
    OBVIOUS
  <2>4. Triggered(S, why)
    <3>1. event' = [x \in DOMAIN event |-> IF x \in S THEN NoEvent ELSE event[x]]
      BY <2>1, <2>3 DEF TypeOK
    <3>2. wake' = [v \in Users |-> IF \E x \in S : event[x].user = v THEN why ELSE wake[v]]
      BY <2>1, <2>3 DEF TypeOK
    <3> QED BY <3>1, <3>2 DEF Triggered
  <2>5. ASSUME NEW v \in Users, Registered(v), ~ Missable(v), Fd(v) = fd, fd \notin tainted'
        PROVE  FALSE
    <3>1. /\ Ev(v) \in Event /\ Watched(fd, Ev(v)) /\ event[<<fd, Ev(v)>>].gen = op[v].gen
          /\ fd \notin tainted
      BY <1>2, <2>5, InIoTypes DEF Registered, Registrations, Missable
    <3>2. ~ Reused(v)
      BY <2>5, <3>1 DEF Watched, Reused
    <3>3. kernel[fd].managed
      BY <2>5, <3>1, <3>2 DEF Waiters, Registered
    <3>4. \E w \in Users : Fd(w) = fd /\ op[w].pc \in {"get", "insert", "close"}
      BY <2>2, <2>5, <3>1, <3>3 DEF Contexts
    <3> QED BY <1>1, <3>4, ClosedByOne DEF Managing
  <2>6. PICK pc \in {"del", "close"} : pc = "close"
    OBVIOUS
  <2>7. Enter(u, kind, fd, pc, to) /\ (pc = "close" => datas[fd].gen = 0 \/ fd \in tainted')
    BY <1>b, <2>1, <2>2, <2>6
  <2>8. \A x \in Fds, e \in Event : <<x, e>> \in S => Watched(x, e)
    BY <2>3
  <2>9. \A v \in Users : Registered(v) /\ ~ Missable(v) /\ <<Fd(v), Ev(v)>> \notin S =>
          Fd(v) \in tainted' \/ Fd(v) # fd
    BY <2>5
  <2> QED BY ONLY HookInv, <1>1, <1>2, <1>b, <2>4, <2>7, <2>8, <2>9, ClosesWith, SMTT(30)
<1> QED BY <1>3, <1>4

------------------------------------------------------------------------------
(* Steps of the network *)

\* The network touches the objects only.
LEMMA NetworkStep ==
  ASSUME HookInv, Touched,
         UNCHANGED <<hooked, datas, size, op, wake, event, timers, late, tainted>>
  PROVE  HookInv'
<1> USE DEF HookInv
<1>1. TypeOK'
  BY DEF TypeOK, Touched
<1>2. Control'
  BY DEF Control
<1>3. Objects' /\ GoesOn
  BY TouchedKeeps
<1>4. Exclusive' /\ Contexts'
  BY ContextsKept DEF Touched
<1>5. \A v \in Users : /\ InIo(v)' = InIo(v) /\ Asleep(v)' = Asleep(v) /\ Patient(v)' = Patient(v)
                       /\ Registered(v)' = Registered(v) /\ op[v].call \in Nat
  BY CallTypes DEF InIo, Asleep, Patient, InWait, Registered
<1>6. Waiters'
  BY <1>3, <1>5, WaitersKept
<1>7. Registrations'
  <2>1. \A v \in Users : Registered(v) /\ ~ Missable(v) =>
          /\ kernel'[Fd(v)].open /\ kernel'[Fd(v)].gen = kernel[Fd(v)].gen
          /\ ~ \E w \in Users : op'[w].fd = Fd(v) /\ op'[w].pc \in {"del", "close"}
    BY NotClosed DEF Touched
  <2> QED BY <1>3, <1>5, <2>1, RegistrationsKept DEF GoesOn
<1>8. Timing'
  <2>1. \A v \in Users : Patient(v) => InIo(v)
    BY CallTypes DEF Patient, InWait, InIo, Control
  <2>2. \A v \in Users : op'[v].call \in Nat /\ op[v].call <= op'[v].call
    BY Counts
  <2> QED BY <1>5, <2>1, <2>2, TimingKept
<1>9. Connects'
  <2>1. StaleStays
    BY DEF StaleStays
  <2> QED BY <1>3, <2>1, ConnectsKept
<1> QED BY <1>1, <1>2, <1>3, <1>4, <1>6, <1>7, <1>8, <1>9

LEMMA ArriveStep ==
  ASSUME HookInv, NEW fd \in Fds, NEW e \in Event, Arrive(fd, e)
  PROVE  HookInv'
<1>1. PICK r \in {"yes", "refused"} : TRUE
  OBVIOUS
<1>2. Touched
  BY Networked DEF HookInv
<1> QED BY <1>2, NetworkStep DEF Arrive

LEMMA AnswerStep ==
  ASSUME HookInv, NEW fd \in Fds, NEW r \in {"yes", "refused"}, Answer(fd, r)
  PROVE  HookInv'
<1>1. PICK e \in Event : TRUE
  BY Subsets
<1>2. Touched
  BY <1>1, Networked DEF HookInv
<1> QED BY <1>2, NetworkStep DEF Answer

LEMMA HookStutters ==
  ASSUME HookInv, UNCHANGED vars
  PROVE  HookInv'
<1> USE DEF HookInv, vars
<1>1. TypeOK' /\ Control' /\ Objects'
  BY DEF TypeOK, Control, Objects
<1>2. Touched
  BY Untouched
<1> QED BY <1>2, NetworkStep

------------------------------------------------------------------------------
(* What the invariant says of the properties *)

LEMMA ContextsMatch == ASSUME HookInv PROVE ContextMatches
<1> USE DEF HookInv
<1>1. ASSUME NEW fd \in Fds \ tainted,
             ~ \E u \in Users : Fd(u) = fd /\ op[u].pc \in {"get", "insert", "del", "close"}
      PROVE  datas[fd].gen = IF kernel[fd].managed THEN kernel[fd].gen ELSE 0
  <2>1. CASE kernel[fd].managed
    <3>1. datas[fd].gen # 0
      BY <1>1, <2>1 DEF Contexts
    <3> QED BY <2>1, <3>1 DEF Contexts
  <2>2. CASE ~ kernel[fd].managed
    BY <2>2 DEF Contexts
  <2> QED BY <2>1, <2>2
<1> QED BY <1>1 DEF ContextMatches, Contexts

LEMMA TriesNonblocking == ASSUME HookInv PROVE NeverBlocks
BY DEF HookInv, NeverBlocks, Control, Waiters, InIo

LEMMA WaitersReachable == ASSUME HookInv PROVE WaiterReachable
<1> SUFFICES ASSUME NEW u \in Users, InWait(u)
             PROVE  /\ op[u].kind # "sleep" =>
                         /\ event[<<Fd(u), Ev(u)>>].user = u
                         /\ Watched(Fd(u), Ev(u)) \/ Missable(u)
                    /\ op[u].to \/ op[u].kind = "sleep" =>
                         op[u].cancelled \/ \E t \in timers : CallOf(t, u)
  BY DEF WaiterReachable
<1>1. op[u].kind # "sleep" => InIo(u)
  BY DEF HookInv, Control, InIo, InWait
<1>2. op[u].kind # "sleep" => /\ event[<<Fd(u), Ev(u)>>].user = u
                              /\ Watched(Fd(u), Ev(u)) \/ Missable(u)
  BY <1>1 DEF HookInv, Registrations
<1>3. Attended(u)
  BY DEF HookInv, Timing
<1> QED BY <1>2, <1>3 DEF Attended

LEMMA AddAsserts == ASSUME HookInv PROVE AddAssertion
<1> USE DEF HookInv
<1> SUFFICES ASSUME NEW u \in Users, op[u].pc = "add",
                    NEW v, v = event[<<Fd(u), Ev(u)>>].user, v # NoUser, v \notin late,
                    Fd(u) \notin tainted, ~ Reused(u),
                    event[<<Fd(u), Ev(u)>>].gen = op[v].gen
             PROVE  FALSE
  BY DEF AddAssertion
<1>1. InIo(u) /\ Fd(u) \in Fds /\ Ev(u) \in Event
  BY InIoTypes DEF Control, InIo
<1>2. v \in Users /\ Registered(v) /\ Fd(v) = Fd(u) /\ Ev(v) = Ev(u)
  BY <1>1, EventTypes DEF Registrations, Registered
<1>3. ~ Missable(v)
  BY <1>2 DEF Missable
<1>4. Watched(Fd(u), Ev(u))
  BY <1>2, <1>3 DEF Registered, Registrations
<1>5. op[v].gen = op[u].gen
  BY <1>4 DEF Watched, Reused
<1>6. v = u
  BY <1>1, <1>2, <1>5 DEF Waiters, Registered
<1> QED BY <1>2, <1>6 DEF Registered, InWait

LEMMA ConnectsConnected ==
  ASSUME HookInv, NEW u \in Users, op[u].pc = "sockerr", NoError(Fd(u))
  PROVE  \/ kernel[Fd(u)].conn = "yes"
         \/ op[u].by = "cancel" \/ Reused(u)
         \/ op[u].by = "no" /\ Missed(Fd(u))
<1>1. op[u].kind = "connect" /\ Connecting(u)
  BY DEF HookInv, Control, Connects
<1> QED BY <1>1 DEF Connecting, NoError
==============================================================================
