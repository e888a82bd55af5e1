--------------------------- MODULE IOEventsProofs ----------------------------
(***************************************************************************)
(* Proofs about the event table of IOManager, for all descriptors, users,  *)
(* idle threads and table sizes.                                           *)
(***************************************************************************)
EXTENDS IOEvents, Integers, FiniteSetTheorems, TLAPS

\* Most leaves are first-order logic over sets and functions.  Those that need
\* arithmetic name the SMT solver.
USE ZenonT(30)

------------------------------------------------------------------------------
(* The inductive invariant *)

\* The types, but for the count, which could be negative as far as types go.
TableTyped ==
  /\ size \in Nat
  /\ made \in [Fds -> 0..MaxContexts]
  /\ events \in [FdContext -> SUBSET Event]
  /\ pending \in Int

WorkTyped ==
  /\ tasks \in [Fds \X Event -> Nat]
  /\ adds \in [Fds \X Event -> 0..MaxAdds]

UserTyped ==
  /\ op \in [Users -> Op]
  /\ pc \in [Users -> {"ready", "resize", "lock"}]

KernelTyped ==
  /\ found \in [Idlers -> SUBSET [ctx : FdContext,
                                  events : SUBSET (Event \cup {"HUP"})]]
  /\ interest \in [Fds -> SUBSET Event]
  /\ owner \in [Fds -> FdContext \cup {Nowhere}]
  /\ ready \in [Fds -> SUBSET (Event \cup {"HUP"})]
  /\ queued \subseteq Fds
  /\ aborted \in BOOLEAN

Typed == TableTyped /\ WorkTyped /\ UserTyped /\ KernelTyped

\* A user that is past the look-up has a context of its descriptor at hand.
OpInv ==
  \A u \in Users :
    /\ pc[u] = "ready" => op[u] = NoOp
    /\ pc[u] # "ready" => op[u].fd \in Fds
    /\ pc[u] = "resize" => op[u].do = "Add" /\ op[u].fd >= 2
    /\ pc[u] = "lock" => op[u].ctx \in FdContext /\ op[u].ctx.fd = op[u].fd

\* The table has a context for each descriptor below its size.
SizeInv == size >= 2 /\ \A fd \in Fds : fd < size => made[fd] >= 1

\* A descriptor is in the epoll set if it is watched for something, and on the
\* ready list only while it is in the set.
OwnerInv ==
  \A fd \in Fds :
    /\ owner[fd] = Nowhere <=> interest[fd] = {}
    /\ owner[fd] # Nowhere => owner[fd].fd = fd
    /\ fd \in queued => owner[fd] # Nowhere

TableInv == Typed /\ OpInv /\ SizeInv /\ OwnerInv /\ EpollMirrors

LEMMA NowhereIsNoContext == Nowhere \notin FdContext
BY SMTT(30) DEF Nowhere, FdContext

LEMMA ContextFd == \A c \in FdContext : c.fd \in Fds
BY DEF FdContext

LEMMA TableInit == Init => TableInv
<1> SUFFICES ASSUME Init PROVE TableInv
  OBVIOUS
<1> USE FdAssumption DEF Init
<1>1. Typed
  <2>1. TableTyped
    BY SMTT(30) DEF TableTyped
  <2>2. WorkTyped
    BY SMTT(30) DEF WorkTyped
  <2>3. UserTyped
    BY DEF UserTyped, Op, NoOp, Event
  <2>4. KernelTyped
    BY DEF KernelTyped
  <2> QED
    BY <2>1, <2>2, <2>3, <2>4 DEF Typed
<1>2. OpInv
  BY DEF OpInv
<1>3. SizeInv
  BY SMTT(30) DEF SizeInv
<1>4. OwnerInv
  BY DEF OwnerInv
<1>5. EpollMirrors
  BY DEF EpollMirrors, Registered
<1> QED
  BY <1>1, <1>2, <1>3, <1>4, <1>5 DEF TableInv

\* All operations that change a registered event change a context and the epoll
\* set in the same way: the context c is to have the events E afterwards.
LEMMA Rewatch ==
  ASSUME TableInv, NEW c \in FdContext, NEW E \in SUBSET Event,
         CanCtl(c.fd, events[c] = {}),
         EpollCtl(c.fd, c, E),
         events' = [events EXCEPT ![c] = E]
  PROVE  /\ events' \in [FdContext -> SUBSET Event]
         /\ interest' \in [Fds -> SUBSET Event]
         /\ owner' \in [Fds -> FdContext \cup {Nowhere}]
         /\ ready' \in [Fds -> SUBSET (Event \cup {"HUP"})]
         /\ queued' \subseteq Fds
         /\ OwnerInv'
         /\ EpollMirrors'
<1> DEFINE fd == c.fd
<1> fd \in Fds
  BY DEF FdContext
<1> USE DEF TableInv, Typed, TableTyped, KernelTyped
<1>1. /\ events' \in [FdContext -> SUBSET Event]
      /\ interest' \in [Fds -> SUBSET Event]
      /\ owner' \in [Fds -> FdContext \cup {Nowhere}]
      /\ ready' \in [Fds -> SUBSET (Event \cup {"HUP"})]
      /\ queued' \subseteq Fds
  BY DEF EpollCtl
<1>2. OwnerInv'
  BY <1>1, NowhereIsNoContext DEF EpollCtl, OwnerInv
<1>3. \A d \in FdContext : d.fd = fd /\ d # c => events[d] = {}
  <2> SUFFICES ASSUME NEW d \in FdContext, d.fd = fd, d # c, events[d] # {}
               PROVE  FALSE
    OBVIOUS
  <2>1. owner[fd] = d
    BY DEF EpollMirrors
  <2>2. events[c] # {}
    BY <2>1, NowhereIsNoContext DEF CanCtl
  <2>3. owner[fd] = c
    BY <2>2 DEF EpollMirrors
  <2> QED
    BY <2>1, <2>3
<1>4. EpollMirrors'
  <2> SUFFICES ASSUME NEW g \in Fds
               PROVE  /\ interest'[g] = {e \in Event : Registered(g, e)'}
                      /\ \A d \in FdContext :
                           d.fd = g /\ events'[d] # {} => owner'[g] = d
    BY DEF EpollMirrors
  <2>1. CASE g = fd
    <3>1. \A e \in Event : Registered(g, e)' <=> e \in E
      BY <2>1, <1>3 DEF Registered
    <3>2. interest'[g] = E
      BY <2>1 DEF EpollCtl
    <3>3. \A d \in FdContext : d.fd = g /\ events'[d] # {} => d = c /\ E # {}
      BY <2>1, <1>3
    <3>4. E # {} => owner'[g] = c
      BY <2>1 DEF EpollCtl
    <3> QED
      BY <3>1, <3>2, <3>3, <3>4
  <2>2. CASE g # fd
    <3>1. \A d \in FdContext : d.fd = g => events'[d] = events[d]
      BY <2>2
    <3>2. interest'[g] = interest[g] /\ owner'[g] = owner[g]
      BY <2>2 DEF EpollCtl
    <3>3. \A e \in Event : Registered(g, e)' <=> Registered(g, e)
      BY <3>1 DEF Registered
    <3> QED
      BY <3>1, <3>2, <3>3 DEF EpollMirrors
  <2> QED
    BY <2>1, <2>2
<1> QED
  BY <1>1, <1>2, <1>4

\* Steps that leave contexts and epoll set alone.
LEMMA TableFrame ==
  ASSUME TableInv, UNCHANGED <<events, interest, owner, queued>>
  PROVE  OwnerInv' /\ EpollMirrors'
BY DEF TableInv, OwnerInv, EpollMirrors, Registered

\* An operation returns.
LEMMA TableReturn ==
  ASSUME TableInv, NEW u \in Users, Return(u)
  PROVE  op' \in [Users -> Op] /\ pc' \in [Users -> {"ready", "resize", "lock"}]
         /\ OpInv'
<1> NoOp \in Op
  BY DEF NoOp, Op, Event
<1> QED
  BY DEF TableInv, Typed, UserTyped, Return, OpInv

LEMMA TableAddEvent ==
  ASSUME TableInv, NEW u \in Users, NEW fd \in Fds, NEW e \in Event,
         AddEvent(u, fd, e)
  PROVE  TableInv'
<1> USE FdAssumption DEF TableInv
<1> DEFINE new == [do |-> "Add", fd |-> fd, event |-> e,
                   ctx |-> IF fd < size THEN Context(fd) ELSE Nowhere]
<1>1. fd < size => Context(fd) \in FdContext /\ Context(fd).fd = fd
  BY SMTT(30) DEF Context, FdContext, SizeInv, Typed, TableTyped
<1>2. new \in Op
  BY <1>1 DEF Op
<1>3. op' = [op EXCEPT ![u] = new]
  BY DEF AddEvent
<1>4. adds' \in [Fds \X Event -> 0..MaxAdds]
  <2>1. <<fd, e>> \in Fds \X Event
    OBVIOUS
  <2>2. adds[<<fd, e>>] \in 0..MaxAdds
    BY <2>1 DEF Typed, WorkTyped
  <2>3. adds[<<fd, e>>] < MaxAdds
    BY DEF AddEvent
  <2>4. adds[<<fd, e>>] + 1 \in 0..MaxAdds
    BY <2>2, <2>3, SMTT(30)
  <2>5. adds' = [adds EXCEPT ![<<fd, e>>] = adds[<<fd, e>>] + 1]
    BY DEF AddEvent
  <2> QED
    BY <2>1, <2>4, <2>5 DEF Typed, WorkTyped
<1>5. Typed'
  <2>1. TableTyped'
    BY DEF Typed, TableTyped, AddEvent, tableVars
  <2>2. WorkTyped'
    BY <1>4 DEF Typed, WorkTyped, AddEvent
  <2>3. UserTyped'
    BY <1>2, <1>3, SMTT(30) DEF Typed, UserTyped, AddEvent
  <2>4. KernelTyped'
    BY DEF Typed, KernelTyped, AddEvent, kernelVars
  <2> QED
    BY <2>1, <2>2, <2>3, <2>4 DEF Typed
<1>6. OpInv'
  <2> SUFFICES ASSUME NEW v \in Users
               PROVE  /\ pc'[v] = "ready" => op'[v] = NoOp
                      /\ pc'[v] # "ready" => op'[v].fd \in Fds
                      /\ pc'[v] = "resize" => op'[v].do = "Add" /\ op'[v].fd >= 2
                      /\ pc'[v] = "lock" => op'[v].ctx \in FdContext
                                            /\ op'[v].ctx.fd = op'[v].fd
    BY DEF OpInv
  <2>1. CASE v = u
    <3>1. op'[v] = new /\ pc'[v] = IF fd < size THEN "lock" ELSE "resize"
      BY <2>1, <1>3 DEF AddEvent, Typed, UserTyped
    <3>2. ~ (fd < size) => fd >= 2
      BY SMTT(30) DEF SizeInv, Typed, TableTyped
    <3> QED
      BY <3>1, <3>2, <1>1, SMTT(30)
  <2>2. CASE v # u
    BY <2>2, <1>3 DEF AddEvent, OpInv, Typed, UserTyped
  <2> QED
    BY <2>1, <2>2
<1>7. SizeInv'
  BY DEF AddEvent, SizeInv, tableVars
<1>8. OwnerInv' /\ EpollMirrors'
  BY TableFrame DEF AddEvent, kernelVars
<1> QED
  BY <1>5, <1>6, <1>7, <1>8

LEMMA TableWithdraw ==
  ASSUME TableInv, NEW u \in Users, NEW fd \in Fds, NEW e \in Event,
         NEW do \in {"Del", "Cancel", "CancelAll"}, Withdraw(u, do, fd, e)
  PROVE  TableInv'
<1> USE FdAssumption DEF TableInv
<1> DEFINE new == [do |-> do, fd |-> fd, event |-> e, ctx |-> Context(fd)]
<1>1. Context(fd) \in FdContext /\ Context(fd).fd = fd
  BY SMTT(30) DEF Context, FdContext, SizeInv, Typed, TableTyped, Withdraw
<1>2. new \in Op
  BY <1>1 DEF Op
<1>3. op' = [op EXCEPT ![u] = new] /\ pc' = [pc EXCEPT ![u] = "lock"]
  BY DEF Withdraw
<1>5. Typed'
  <2>1. TableTyped'
    BY DEF Typed, TableTyped, Withdraw, tableVars
  <2>2. WorkTyped'
    BY DEF Typed, WorkTyped, Withdraw
  <2>3. UserTyped'
    BY <1>2, <1>3, SMTT(30) DEF Typed, UserTyped, Withdraw
  <2>4. KernelTyped'
    BY DEF Typed, KernelTyped, Withdraw, kernelVars
  <2> QED
    BY <2>1, <2>2, <2>3, <2>4 DEF Typed
<1>6. OpInv'
  BY <1>1, <1>3 DEF OpInv, Typed, UserTyped
<1>7. SizeInv'
  BY DEF Withdraw, SizeInv, tableVars
<1>8. OwnerInv' /\ EpollMirrors'
  BY TableFrame DEF Withdraw, kernelVars
<1> QED
  BY <1>5, <1>6, <1>7, <1>8

LEMMA TableResize ==
  ASSUME TableInv, NEW u \in Users, Resize(u)
  PROVE  TableInv'
<1> USE FdAssumption DEF TableInv
<1> DEFINE fd == op[u].fd
           n == (fd * 3) \div 2
           ctx == [fd |-> fd, n |-> made'[fd]]
<1>1. fd \in Fds /\ fd \in Nat /\ fd >= 2
  BY DEF Resize, OpInv
<1>2. n \in Nat /\ n >= 2 /\ fd < n
  BY <1>1, SMTT(30)
<1>3. size' = n /\ made' = [g \in Fds |-> IF g < n /\ g >= size
                                          THEN made[g] + 1 ELSE made[g]]
  BY DEF Resize, ContextResize
<1>4. made' \in [Fds -> 0..MaxContexts]
  <2>1. \A g \in Fds : made'[g] <= MaxContexts
    BY DEF Resize, ContextResize
  <2>2. \A g \in Fds : made'[g] \in Nat
    BY <1>3, SMTT(30) DEF Typed, TableTyped
  <2> QED
    BY <1>3, <2>1, <2>2, SMTT(30)
<1>5. SizeInv'
  BY <1>2, <1>3, SMTT(30) DEF SizeInv, Typed, TableTyped
<1>6. ctx \in FdContext /\ ctx.fd = fd
  BY <1>1, <1>2, <1>3, <1>4, <1>5, SMTT(30) DEF FdContext, SizeInv
<1>7. op' = [op EXCEPT ![u].ctx = ctx] /\ pc' = [pc EXCEPT ![u] = "lock"]
  BY DEF Resize
<1>8. op' \in [Users -> Op]
  <2> HIDE DEF ctx
  <2>1. op[u] \in Op
    BY DEF Typed, UserTyped
  <2>2. [op[u] EXCEPT !.ctx = ctx] \in Op
    BY <1>6, <2>1 DEF Op
  <2>3. op' = [op EXCEPT ![u] = [op[u] EXCEPT !.ctx = ctx]]
    BY <1>7
  <2> QED
    BY <2>2, <2>3 DEF Typed, UserTyped
<1>9. Typed'
  <2>1. TableTyped'
    BY <1>2, <1>3, <1>4 DEF Typed, TableTyped, Resize
  <2>2. WorkTyped'
    BY DEF Typed, WorkTyped, Resize
  <2>3. UserTyped'
    BY <1>7, <1>8 DEF Typed, UserTyped
  <2>4. KernelTyped'
    BY DEF Typed, KernelTyped, Resize, kernelVars
  <2> QED
    BY <2>1, <2>2, <2>3, <2>4 DEF Typed
<1>10. OpInv'
  <2> SUFFICES ASSUME NEW v \in Users
               PROVE  /\ pc'[v] = "ready" => op'[v] = NoOp
                      /\ pc'[v] # "ready" => op'[v].fd \in Fds
                      /\ pc'[v] = "resize" => op'[v].do = "Add" /\ op'[v].fd >= 2
                      /\ pc'[v] = "lock" => op'[v].ctx \in FdContext
                                            /\ op'[v].ctx.fd = op'[v].fd
    BY DEF OpInv
  <2>1. CASE v = u
    <3>1. pc'[v] = "lock" /\ op'[v].ctx = ctx /\ op'[v].fd = fd
      BY <2>1, <1>7 DEF Typed, UserTyped, Op
    <3> QED
      BY <3>1, <1>1, <1>6
  <2>2. CASE v # u
    BY <2>2, <1>7 DEF OpInv, Typed, UserTyped
  <2> QED
    BY <2>1, <2>2
<1>11. OwnerInv' /\ EpollMirrors'
  BY TableFrame DEF Resize, kernelVars
<1> QED
  BY <1>5, <1>9, <1>10, <1>11

\* A context gets the events E under its mutex.
Change(c, E) ==
  /\ CanCtl(c.fd, events[c] = {})
  /\ EpollCtl(c.fd, c, E)
  /\ events' = [events EXCEPT ![c] = E]

LEMMA EventFinite ==
  \A E \in SUBSET Event : IsFiniteSet(E) /\ Cardinality(E) \in Nat
<1>1. IsFiniteSet({"READ"})
  BY FS_Singleton
<1>2. IsFiniteSet({"READ"} \cup {"WRITE"})
  BY <1>1, FS_AddElement
<1>3. IsFiniteSet(Event)
  <2>1. Event = {"READ"} \cup {"WRITE"}
    BY DEF Event
  <2> QED
    BY <2>1, <1>2
<1> QED
  BY <1>3, FS_Subset, FS_CardinalityType

LEMMA TableChange ==
  ASSUME TableInv, NEW c \in FdContext, NEW E \in SUBSET Event, Change(c, E),
         pending' \in Int, WorkTyped', UserTyped', OpInv',
         found' \in [Idlers -> SUBSET [ctx : FdContext,
                                       events : SUBSET (Event \cup {"HUP"})]],
         UNCHANGED <<size, made, aborted>>
  PROVE  TableInv'
<1>1. /\ events' \in [FdContext -> SUBSET Event]
      /\ interest' \in [Fds -> SUBSET Event]
      /\ owner' \in [Fds -> FdContext \cup {Nowhere}]
      /\ ready' \in [Fds -> SUBSET (Event \cup {"HUP"})]
      /\ queued' \subseteq Fds
      /\ OwnerInv'
      /\ EpollMirrors'
  BY Rewatch DEF Change
<1>2. TableTyped'
  BY <1>1 DEF TableInv, Typed, TableTyped
<1>3. KernelTyped'
  BY <1>1 DEF TableInv, Typed, KernelTyped
<1>4. SizeInv'
  BY DEF TableInv, SizeInv
<1> QED
  BY <1>1, <1>2, <1>3, <1>4 DEF TableInv, Typed

\* Events that are triggered leave the context, and are counted out.
LEMMA TriggerTyped ==
  ASSUME TableInv, NEW c \in FdContext, NEW E \in SUBSET Event, Trigger(c, E),
         UNCHANGED adds
  PROVE  WorkTyped' /\ pending' \in Int
<1>1. Cardinality(E) \in Nat
  BY EventFinite
<1>2. pending' \in Int
  BY <1>1, SMTT(30) DEF Trigger, TableInv, Typed, TableTyped
<1>3. tasks' = [w \in Fds \X Event |->
         IF w[1] = c.fd /\ w[2] \in E THEN tasks[w] + 1 ELSE tasks[w]]
  BY DEF Trigger
<1>4. \A w \in Fds \X Event : tasks[w] \in Nat /\ tasks[w] + 1 \in Nat
  BY SMTT(30) DEF TableInv, Typed, WorkTyped
<1>5. tasks' \in [Fds \X Event -> Nat]
  BY <1>3, <1>4
<1> QED
  BY <1>2, <1>5 DEF TableInv, Typed, WorkTyped

\* The context a user has locked.
LEMMA LockedContext ==
  ASSUME TableInv, NEW u \in Users, pc[u] = "lock"
  PROVE  op[u].ctx \in FdContext /\ op[u].event \in Event
BY DEF TableInv, OpInv, Typed, UserTyped, Op

LEMMA AddChanges ==
  ASSUME TableInv, NEW u \in Users, AddLocked(u)
  PROVE  Change(op[u].ctx, events[op[u].ctx] \cup {op[u].event})
BY DEF AddLocked, Change

LEMMA DelChanges ==
  ASSUME TableInv, NEW u \in Users, DelLocked(u)
  PROVE  Change(op[u].ctx, events[op[u].ctx] \ {op[u].event})
BY DEF DelLocked, Change, CanCtl

LEMMA CancelChanges ==
  ASSUME TableInv, NEW u \in Users, CancelLocked(u)
  PROVE  Change(op[u].ctx, events[op[u].ctx] \ {op[u].event})
BY DEF CancelLocked, Change, CanCtl, Trigger

LEMMA CancelAllChanges ==
  ASSUME TableInv, NEW u \in Users, CancelAllLocked(u)
  PROVE  Change(op[u].ctx, {})
<1>1. events[op[u].ctx] \ events[op[u].ctx] = {}
  OBVIOUS
<1> QED
  BY <1>1 DEF CancelAllLocked, Change, CanCtl, Trigger

LEMMA TableLocked ==
  ASSUME TableInv, NEW u \in Users,
         AddLocked(u) \/ DelLocked(u) \/ CancelLocked(u) \/ CancelAllLocked(u)
  PROVE  TableInv'
<1> DEFINE c == op[u].ctx
           e == op[u].event
<1>1. c \in FdContext /\ e \in Event
  BY LockedContext DEF AddLocked, DelLocked, CancelLocked, CancelAllLocked
<1>2. events[c] \in SUBSET Event
  BY <1>1 DEF TableInv, Typed, TableTyped
<1>3. UserTyped' /\ OpInv'
  <2>1. Return(u)
    BY DEF AddLocked, DelLocked, CancelLocked, CancelAllLocked
  <2> QED
    BY <2>1, TableReturn DEF UserTyped
<1>4. found' \in [Idlers -> SUBSET [ctx : FdContext,
                                    events : SUBSET (Event \cup {"HUP"})]]
  BY DEF AddLocked, DelLocked, CancelLocked, CancelAllLocked, TableInv, Typed, KernelTyped
<1>5. UNCHANGED <<size, made, aborted, adds>>
  BY DEF AddLocked, DelLocked, CancelLocked, CancelAllLocked, tableVars
<1>6. CASE AddLocked(u)
  <2>1. WorkTyped' /\ pending' \in Int
    <3>1. UNCHANGED <<tasks, adds>> /\ pending' = pending + 1
      BY <1>6 DEF AddLocked
    <3> QED
      BY <3>1, SMTT(30) DEF TableInv, Typed, WorkTyped, TableTyped
  <2>2. events[c] \cup {e} \in SUBSET Event
    BY <1>1, <1>2
  <2> QED
    BY <1>1, <1>3, <1>4, <1>5, <1>6, <2>1, <2>2, AddChanges, TableChange
<1>7. CASE DelLocked(u)
  <2>1. WorkTyped' /\ pending' \in Int
    <3>1. UNCHANGED <<tasks, adds>> /\ pending' = pending - 1
      BY <1>7 DEF DelLocked
    <3> QED
      BY <3>1, SMTT(30) DEF TableInv, Typed, WorkTyped, TableTyped
  <2>2. events[c] \ {e} \in SUBSET Event
    BY <1>1, <1>2
  <2> QED
    BY <1>1, <1>3, <1>4, <1>5, <1>7, <2>1, <2>2, DelChanges, TableChange
<1>8. CASE CancelLocked(u)
  <2>1. WorkTyped' /\ pending' \in Int
    BY <1>1, <1>5, <1>8, TriggerTyped DEF CancelLocked
  <2>2. events[c] \ {e} \in SUBSET Event
    BY <1>1, <1>2
  <2> QED
    BY <1>1, <1>3, <1>4, <1>5, <1>8, <2>1, <2>2, CancelChanges, TableChange
<1>9. CASE CancelAllLocked(u)
  <2>1. WorkTyped' /\ pending' \in Int
    BY <1>1, <1>2, <1>5, <1>9, TriggerTyped DEF CancelAllLocked
  <2>2. Change(c, {}) /\ {} \in SUBSET Event
    BY <1>9, CancelAllChanges
  <2> QED
    BY <1>1, <1>3, <1>4, <1>5, <2>1, <2>2, TableChange
<1> QED
  BY <1>6, <1>7, <1>8, <1>9

LEMMA FoundContext ==
  ASSUME TableInv, NEW i \in Idlers, NEW r \in found[i]
  PROVE  /\ r.ctx \in FdContext
         /\ r.events \in SUBSET (Event \cup {"HUP"})
         /\ r.ctx.fd \in Fds
         /\ events[r.ctx] \in SUBSET Event
<1>1. r \in [ctx : FdContext, events : SUBSET (Event \cup {"HUP"})]
  BY DEF TableInv, Typed, KernelTyped
<1>2. r.ctx \in FdContext /\ r.events \in SUBSET (Event \cup {"HUP"})
  BY <1>1
<1> QED
  BY <1>2, ContextFd DEF TableInv, Typed, TableTyped

LEMMA FoundShrinks ==
  ASSUME TableInv, NEW i \in Idlers, NEW r,
         found' = [found EXCEPT ![i] = @ \ {r}]
  PROVE  found' \in [Idlers -> SUBSET [ctx : FdContext,
                                       events : SUBSET (Event \cup {"HUP"})]]
BY DEF TableInv, Typed, KernelTyped

LEMMA TableHandleEvent ==
  ASSUME TableInv, NEW i \in Idlers, HandleEvent(i)
  PROVE  TableInv'
<1>1. PICK r \in found[i] :
        /\ Handled(r)
        /\ RealEvents(r) \subseteq events[r.ctx]
        /\ EpollCtl(r.ctx.fd, r.ctx, events[r.ctx] \ RealEvents(r))
        /\ Trigger(r.ctx, RealEvents(r))
        /\ found' = [found EXCEPT ![i] = @ \ {r}]
  BY DEF HandleEvent
<1>2. UNCHANGED <<tableVars, adds, userVars, aborted>>
  BY DEF HandleEvent
<1> DEFINE c == r.ctx
           real == RealEvents(r)
<1>3. c \in FdContext /\ events[c] \in SUBSET Event
  BY <1>1, FoundContext
<1>4. real \in SUBSET Event /\ events[c] \ real \in SUBSET Event
  BY <1>1, <1>3
<1>5. Change(c, events[c] \ real)
  BY <1>1 DEF Change, Handled, CanCtl, Trigger
<1>6. WorkTyped' /\ pending' \in Int
  BY <1>1, <1>2, <1>3, <1>4, TriggerTyped
<1>7. UserTyped' /\ OpInv'
  BY <1>2 DEF TableInv, Typed, UserTyped, OpInv, userVars
<1>8. UNCHANGED <<size, made, aborted>>
  BY <1>2 DEF tableVars
<1>9. found' \in [Idlers -> SUBSET [ctx : FdContext,
                                    events : SUBSET (Event \cup {"HUP"})]]
  BY <1>1, FoundShrinks
<1> QED
  BY <1>3, <1>4, <1>5, <1>6, <1>7, <1>8, <1>9, TableChange

\* epoll_wait hands out contexts: what is on the ready list is in the set.
LEMMA TableEpollWait ==
  ASSUME TableInv, NEW i \in Idlers, EpollWait(i)
  PROVE  TableInv'
<1> DEFINE F == {[ctx |-> owner[fd], events |-> Reported(fd)] :
                   fd \in {f \in queued : Reported(f) # {}}}
<1>1. found' = [found EXCEPT ![i] = F] /\ queued' = {}
  BY DEF EpollWait
<1>2. F \subseteq [ctx : FdContext, events : SUBSET (Event \cup {"HUP"})]
  BY NowhereIsNoContext, SMTT(30) DEF TableInv, Typed, KernelTyped, OwnerInv, Reported
<1>3. UNCHANGED <<tableVars, events, pending, tasks, adds, userVars, interest,
                  owner, ready, aborted>>
  BY DEF EpollWait
<1>4. TableTyped'
  BY <1>3 DEF TableInv, Typed, TableTyped, tableVars
<1>5. WorkTyped'
  BY <1>3 DEF TableInv, Typed, WorkTyped
<1>6. UserTyped' /\ OpInv'
  BY <1>3 DEF TableInv, Typed, UserTyped, OpInv, userVars
<1>7. KernelTyped'
  <2> HIDE DEF F
  <2> QED
    BY <1>1, <1>2, <1>3 DEF TableInv, Typed, KernelTyped
<1>8. SizeInv'
  BY <1>3 DEF TableInv, SizeInv, tableVars
<1>9. OwnerInv'
  BY <1>1, <1>3 DEF TableInv, OwnerInv
<1>10. EpollMirrors'
  BY <1>3 DEF TableInv, EpollMirrors, Registered
<1> QED
  BY <1>4, <1>5, <1>6, <1>7, <1>8, <1>9, <1>10 DEF TableInv, Typed

LEMMA TableReady ==
  ASSUME TableInv, NEW fd \in Fds, NEW e \in Event \cup {"HUP"}, Ready(fd, e)
  PROVE  TableInv'
<1>1. UNCHANGED <<tableVars, events, pending, tasks, adds, userVars, found,
                  interest, owner, aborted>>
  BY DEF Ready
<1>2. /\ ready' = [ready EXCEPT ![fd] = @ \cup {e}]
      /\ queued' = IF owner[fd] # Nowhere /\ e \in interest[fd] \cup {"HUP"}
                   THEN queued \cup {fd} ELSE queued
  BY DEF Ready
<1>3. TableTyped'
  BY <1>1 DEF TableInv, Typed, TableTyped, tableVars
<1>4. WorkTyped'
  BY <1>1 DEF TableInv, Typed, WorkTyped
<1>5. UserTyped' /\ OpInv'
  BY <1>1 DEF TableInv, Typed, UserTyped, OpInv, userVars
<1>6. KernelTyped'
  BY <1>1, <1>2 DEF TableInv, Typed, KernelTyped
<1>7. SizeInv'
  BY <1>1 DEF TableInv, SizeInv, tableVars
<1>8. OwnerInv'
  BY <1>1, <1>2 DEF TableInv, OwnerInv
<1>9. EpollMirrors'
  BY <1>1 DEF TableInv, EpollMirrors, Registered
<1> QED
  BY <1>3, <1>4, <1>5, <1>6, <1>7, <1>8, <1>9 DEF TableInv, Typed

LEMMA TableRunTask ==
  ASSUME TableInv, NEW fd \in Fds, NEW e \in Event, RunTask(fd, e)
  PROVE  TableInv'
<1>1. UNCHANGED <<tableVars, events, pending, adds, userVars, found, interest,
                  owner, queued, aborted>>
  BY DEF RunTask
<1>2. ready' \in [Fds -> SUBSET (Event \cup {"HUP"})]
  BY DEF RunTask, TableInv, Typed, KernelTyped
<1>3. TableTyped'
  BY <1>1 DEF TableInv, Typed, TableTyped, tableVars
<1>4. WorkTyped'
  <2>1. <<fd, e>> \in Fds \X Event
    OBVIOUS
  <2>2. tasks[<<fd, e>>] \in Nat /\ tasks[<<fd, e>>] > 0
    BY <2>1 DEF RunTask, TableInv, Typed, WorkTyped
  <2>3. tasks[<<fd, e>>] - 1 \in Nat
    BY <2>2, SMTT(30)
  <2>4. tasks' = [tasks EXCEPT ![<<fd, e>>] = tasks[<<fd, e>>] - 1]
    BY DEF RunTask
  <2> QED
    BY <1>1, <2>1, <2>3, <2>4 DEF TableInv, Typed, WorkTyped
<1>5. UserTyped' /\ OpInv'
  BY <1>1 DEF TableInv, Typed, UserTyped, OpInv, userVars
<1>6. KernelTyped'
  BY <1>1, <1>2 DEF TableInv, Typed, KernelTyped
<1>7. SizeInv'
  BY <1>1 DEF TableInv, SizeInv, tableVars
<1>8. OwnerInv' /\ EpollMirrors'
  BY <1>1, TableFrame
<1> QED
  BY <1>3, <1>4, <1>5, <1>6, <1>7, <1>8 DEF TableInv, Typed

\* Steps that leave events, tasks and the epoll set alone.
LEMMA TableQuiet ==
  ASSUME TableInv,
         UNCHANGED <<tableVars, events, pending, tasks, adds, kernelVars>>,
         UserTyped', OpInv', aborted' \in BOOLEAN,
         found' \in [Idlers -> SUBSET [ctx : FdContext,
                                       events : SUBSET (Event \cup {"HUP"})]]
  PROVE  TableInv'
<1>1. TableTyped'
  BY DEF TableInv, Typed, TableTyped, tableVars
<1>2. WorkTyped'
  BY DEF TableInv, Typed, WorkTyped
<1>3. KernelTyped'
  BY DEF TableInv, Typed, KernelTyped, kernelVars
<1>4. SizeInv'
  BY DEF TableInv, SizeInv, tableVars
<1>5. OwnerInv' /\ EpollMirrors'
  BY TableFrame DEF kernelVars
<1> QED
  BY <1>1, <1>2, <1>3, <1>4, <1>5 DEF TableInv, Typed

LEMMA TableRefuse ==
  ASSUME TableInv, NEW u \in Users, Refuse(u)
  PROVE  TableInv'
<1>1. Return(u) /\ UNCHANGED <<tableVars, events, pending, tasks, adds, found,
                              kernelVars, aborted>>
  BY DEF Refuse
<1>2. UserTyped' /\ OpInv'
  BY <1>1, TableReturn DEF UserTyped
<1>3. /\ aborted' \in BOOLEAN
      /\ found' \in [Idlers -> SUBSET [ctx : FdContext,
                                       events : SUBSET (Event \cup {"HUP"})]]
  BY <1>1 DEF TableInv, Typed, KernelTyped
<1> QED
  BY <1>1, <1>2, <1>3, TableQuiet

LEMMA TableIdleQuiet ==
  ASSUME TableInv, NEW i \in Idlers, AssertTrigger(i) \/ SkipEvent(i)
  PROVE  TableInv'
<1>1. UNCHANGED <<tableVars, events, pending, tasks, adds, userVars, kernelVars>>
  BY DEF AssertTrigger, SkipEvent
<1>2. UserTyped' /\ OpInv'
  BY <1>1 DEF TableInv, Typed, UserTyped, OpInv, userVars
<1>3. aborted' \in BOOLEAN
  BY DEF AssertTrigger, SkipEvent, TableInv, Typed, KernelTyped
<1>4. found' \in [Idlers -> SUBSET [ctx : FdContext,
                                    events : SUBSET (Event \cup {"HUP"})]]
  <2>1. CASE AssertTrigger(i)
    BY <2>1 DEF AssertTrigger, TableInv, Typed, KernelTyped
  <2>2. CASE SkipEvent(i)
    BY <2>2, FoundShrinks DEF SkipEvent
  <2> QED
    BY <2>1, <2>2
<1> QED
  BY <1>1, <1>2, <1>3, <1>4, TableQuiet

LEMMA TableStutter ==
  ASSUME TableInv, UNCHANGED vars
  PROVE  TableInv'
<1>1. UNCHANGED <<tableVars, events, pending, tasks, adds, userVars, kernelVars,
                  found, aborted>>
  BY DEF vars
<1>2. UserTyped' /\ OpInv'
  BY <1>1 DEF TableInv, Typed, UserTyped, OpInv, userVars
<1>3. /\ aborted' \in BOOLEAN
      /\ found' \in [Idlers -> SUBSET [ctx : FdContext,
                                       events : SUBSET (Event \cup {"HUP"})]]
  BY <1>1 DEF TableInv, Typed, KernelTyped
<1> QED
  BY <1>1, <1>2, <1>3, TableQuiet

LEMMA TableNext == TableInv /\ [Next]_vars => TableInv'
<1> SUFFICES ASSUME TableInv, [Next]_vars PROVE TableInv'
  OBVIOUS
<1>0. Used \subseteq Event /\ Conditions \subseteq Event \cup {"HUP"}
  BY FdAssumption DEF Event
<1>1. ASSUME NEW u \in Users, Begin(u) PROVE TableInv'
  BY <1>0, <1>1, TableAddEvent, TableWithdraw DEF Begin
<1>2. ASSUME NEW u \in Users, UserStep(u) PROVE TableInv'
  BY <1>2, TableResize, TableLocked, TableRefuse DEF UserStep
<1>3. ASSUME NEW i \in Idlers, IdleStep(i) PROVE TableInv'
  BY <1>3, TableEpollWait, TableHandleEvent, TableIdleQuiet DEF IdleStep
<1>4. ASSUME NEW fd \in Fds, NEW e \in Conditions, Ready(fd, e)
      PROVE  TableInv'
  BY <1>0, <1>4, TableReady
<1>5. ASSUME NEW fd \in Fds, NEW e \in Used, RunTask(fd, e) PROVE TableInv'
  BY <1>0, <1>5, TableRunTask
<1>6. CASE UNCHANGED vars
  BY <1>6, TableStutter
<1> QED
  BY <1>1, <1>2, <1>3, <1>4, <1>5, <1>6 DEF Next, Aborted

LEMMA TableAlways == Spec => []TableInv
BY TableInit, TableNext, PTL DEF Spec

\* However AddEvent, the withdrawals and the threads in Idle interleave, and
\* however ContextResize moves the end of the table, epoll_ctl was told about
\* exactly the registered events, and answers with the context that has them.
THEOREM EpollSetIsExact == Spec => []EpollMirrors
<1>1. TableInv => EpollMirrors
  BY DEF TableInv
<1> QED
  BY <1>1, TableAlways, PTL

------------------------------------------------------------------------------
(* The count of pending events *)

RegisteredPairs == {w \in FdContext \X Event : w[2] \in events[w[1]]}

LEMMA PairsFinite == IsFiniteSet(FdContext \X Event)
<1> DEFINE f == [c \in FdContext |-> <<c.fd, c.n>>]
           T == Fds \X (1..MaxContexts)
<1>1. IsFiniteSet(1..MaxContexts)
  BY FdAssumption, FS_Interval, SMTT(30)
<1>2. IsFiniteSet(T)
  BY <1>1, FdAssumption, FS_Product
<1>3. f \in Injection(FdContext, T)
  <2>1. f \in [FdContext -> T]
    BY DEF FdContext
  <2>2. ASSUME NEW c \in FdContext, NEW d \in FdContext, f[c] = f[d]
        PROVE  c = d
    <3>1. c.fd = d.fd /\ c.n = d.n
      BY <2>2
    <3> QED
      BY <3>1, SMTT(30) DEF FdContext
  <2> QED
    BY <2>1, <2>2 DEF Injection, IsInjective
<1>4. IsFiniteSet(FdContext)
  <2> HIDE DEF f, T
  <2> QED
    BY <1>2, <1>3, FS_Injection
<1>5. IsFiniteSet(Event)
  BY EventFinite
<1> QED
  BY <1>4, <1>5, FS_Product

LEMMA RegisteredFinite ==
  IsFiniteSet(RegisteredPairs) /\ Cardinality(RegisteredPairs) \in Nat
<1>1. RegisteredPairs \in SUBSET (FdContext \X Event)
  BY DEF RegisteredPairs
<1>2. IsFiniteSet(RegisteredPairs)
  BY <1>1, PairsFinite, FS_Subset
<1> QED
  BY <1>2, FS_CardinalityType

\* Events that leave a context are counted out one by one.
LEMMA CountedOut ==
  ASSUME TableInv, PendingExact, NEW c \in FdContext,
         NEW E \in SUBSET events[c],
         events' = [events EXCEPT ![c] = @ \ E],
         pending' = pending - Cardinality(E)
  PROVE  PendingExact'
<1> DEFINE P == RegisteredPairs
           T == {c} \X E
<1>0. events[c] \in SUBSET Event /\ E \in SUBSET Event
  BY DEF TableInv, Typed, TableTyped
<1>1. RegisteredPairs' = P \ T
  <2>1. ASSUME NEW w \in FdContext \X Event
        PROVE  w[2] \in events'[w[1]] <=> w[2] \in events[w[1]] /\ w \notin T
    <3>1. w = <<w[1], w[2]>> /\ w[1] \in FdContext
      BY SMTT(30)
    <3>2. CASE w[1] = c
      <4>1. events'[w[1]] = events[c] \ E
        BY <3>2 DEF TableInv, Typed, TableTyped
      <4> QED
        BY <3>1, <3>2, <4>1
    <3>3. CASE w[1] # c
      <4>1. events'[w[1]] = events[w[1]]
        BY <3>1, <3>3 DEF TableInv, Typed, TableTyped
      <4> QED
        BY <3>1, <3>3, <4>1
    <3> QED
      BY <3>2, <3>3
  <2> QED
    BY <2>1 DEF RegisteredPairs
<1>2. P \cap T = T
  BY <1>0 DEF RegisteredPairs
<1>3. IsFiniteSet(E) /\ Cardinality(E) \in Nat
  BY <1>0, EventFinite
<1>4. Cardinality(T) = Cardinality(E)
  <2>1. IsFiniteSet({c}) /\ Cardinality({c}) = 1
    BY FS_Singleton
  <2>2. Cardinality(T) = Cardinality({c}) * Cardinality(E)
    BY <1>3, <2>1, FS_Product
  <2> QED
    BY <1>3, <2>1, <2>2, SMTT(30)
<1>5. Cardinality(P \ T) = Cardinality(P) - Cardinality(P \cap T)
  BY RegisteredFinite, FS_Difference
<1>6. pending = Cardinality(P)
  BY DEF PendingExact, RegisteredPairs
<1>7. pending' = Cardinality(RegisteredPairs')
  BY <1>1, <1>2, <1>4, <1>5, <1>6
<1> QED
  BY <1>7 DEF PendingExact, RegisteredPairs

\* An event that joins a context is counted in.
LEMMA CountedIn ==
  ASSUME TableInv, PendingExact, NEW c \in FdContext, NEW e \in Event,
         e \notin events[c],
         events' = [events EXCEPT ![c] = @ \cup {e}],
         pending' = pending + 1
  PROVE  PendingExact'
<1> DEFINE P == RegisteredPairs
<1>1. RegisteredPairs' = P \cup {<<c, e>>}
  <2>1. ASSUME NEW w \in FdContext \X Event
        PROVE  w[2] \in events'[w[1]] <=> w[2] \in events[w[1]] \/ w = <<c, e>>
    <3>1. w = <<w[1], w[2]>> /\ w[1] \in FdContext
      BY SMTT(30)
    <3>2. CASE w[1] = c
      <4>1. events'[w[1]] = events[c] \cup {e}
        BY <3>2 DEF TableInv, Typed, TableTyped
      <4> QED
        BY <3>1, <3>2, <4>1, SMTT(30)
    <3>3. CASE w[1] # c
      <4>1. events'[w[1]] = events[w[1]]
        BY <3>1, <3>3 DEF TableInv, Typed, TableTyped
      <4> QED
        BY <3>1, <3>3, <4>1, SMTT(30)
    <3> QED
      BY <3>2, <3>3
  <2> QED
    BY <2>1, SMTT(30) DEF RegisteredPairs
<1>2. <<c, e>> \notin P
  BY DEF RegisteredPairs
<1>3. Cardinality(P \cup {<<c, e>>}) = Cardinality(P) + 1
  BY <1>2, RegisteredFinite, FS_AddElement
<1>4. pending = Cardinality(P)
  BY DEF PendingExact, RegisteredPairs
<1>5. pending' = Cardinality(RegisteredPairs')
  BY <1>1, <1>3, <1>4
<1> QED
  BY <1>5 DEF PendingExact, RegisteredPairs

\* The steps that change the events of a context, and no others.
EventStep ==
  \/ \E u \in Users : \/ AddLocked(u) \/ DelLocked(u) \/ CancelLocked(u)
                      \/ CancelAllLocked(u)
  \/ \E i \in Idlers : HandleEvent(i)

LEMMA OtherSteps ==
  ASSUME [Next]_vars, ~ EventStep
  PROVE  UNCHANGED <<events, pending, interest, owner>>
<1>1. ASSUME NEW u \in Users, Begin(u)
      PROVE  UNCHANGED <<events, pending, interest, owner>>
  BY <1>1 DEF Begin, AddEvent, Withdraw, kernelVars
<1>2. ASSUME NEW u \in Users, UserStep(u)
      PROVE  UNCHANGED <<events, pending, interest, owner>>
  BY <1>2 DEF UserStep, Resize, Refuse, kernelVars, EventStep
<1>3. ASSUME NEW i \in Idlers, IdleStep(i)
      PROVE  UNCHANGED <<events, pending, interest, owner>>
  BY <1>3 DEF IdleStep, EpollWait, AssertTrigger, SkipEvent, kernelVars, EventStep
<1>4. ASSUME NEW fd \in Fds, NEW e \in Conditions, Ready(fd, e)
      PROVE  UNCHANGED <<events, pending, interest, owner>>
  BY <1>4 DEF Ready
<1>5. ASSUME NEW fd \in Fds, NEW e \in Used, RunTask(fd, e)
      PROVE  UNCHANGED <<events, pending, interest, owner>>
  BY <1>5 DEF RunTask
<1>6. CASE UNCHANGED vars
  BY <1>6 DEF vars, kernelVars
<1> QED
  BY <1>1, <1>2, <1>3, <1>4, <1>5, <1>6 DEF Next, Aborted

LEMMA PendingNext ==
  TableInv /\ PendingExact /\ [Next]_vars => PendingExact'
<1> SUFFICES ASSUME TableInv, PendingExact, [Next]_vars PROVE PendingExact'
  OBVIOUS
<1>1. ASSUME NEW u \in Users, AddLocked(u) PROVE PendingExact'
  BY <1>1, LockedContext, CountedIn DEF AddLocked
<1>2. ASSUME NEW u \in Users, DelLocked(u) \/ CancelLocked(u) PROVE PendingExact'
  <2>1. PICK c \in FdContext, e \in Event : c = op[u].ctx /\ e = op[u].event
    BY <1>2, LockedContext DEF DelLocked, CancelLocked
  <2>2. Cardinality({e}) = 1
    BY FS_Singleton
  <2>3. {e} \in SUBSET events[c]
    BY <1>2, <2>1 DEF DelLocked, CancelLocked
  <2>4. events' = [events EXCEPT ![c] = @ \ {e}]
    BY <1>2, <2>1 DEF DelLocked, CancelLocked, Trigger
  <2>5. pending' = pending - Cardinality({e})
    BY <1>2, <2>1, <2>2 DEF DelLocked, CancelLocked, Trigger
  <2> QED
    BY <2>3, <2>4, <2>5, CountedOut
<1>3. ASSUME NEW u \in Users, CancelAllLocked(u) PROVE PendingExact'
  <2>1. op[u].ctx \in FdContext
    BY <1>3, LockedContext DEF CancelAllLocked
  <2> QED
    BY <1>3, <2>1, CountedOut DEF CancelAllLocked, Trigger
<1>4. ASSUME NEW i \in Idlers, HandleEvent(i) PROVE PendingExact'
  <2>1. PICK r \in found[i] :
          RealEvents(r) \subseteq events[r.ctx] /\ Trigger(r.ctx, RealEvents(r))
    BY <1>4 DEF HandleEvent
  <2>2. r.ctx \in FdContext
    BY FoundContext
  <2> QED
    BY <2>1, <2>2, CountedOut DEF Trigger
<1>5. CASE ~ EventStep
  BY <1>5, OtherSteps DEF PendingExact
<1> QED
  BY <1>1, <1>2, <1>3, <1>4, <1>5 DEF EventStep

LEMMA PendingInit == Init => PendingExact
<1> SUFFICES ASSUME Init PROVE PendingExact
  OBVIOUS
<1>1. {w \in FdContext \X Event : w[2] \in events[w[1]]} = {}
  BY DEF Init
<1> QED
  BY <1>1, FS_EmptySet DEF PendingExact, Init

\* pending_event_count_, on which IOManager::Stopping relies, is at every moment
\* the number of registered events: no interleaving of AddEvent, DelEvent,
\* CancelEvent, CancelAll and Idle makes it drift.
THEOREM PendingIsExact == Spec => []PendingExact
<1>1. Init => TableInv /\ PendingExact
  BY TableInit, PendingInit
<1>2. TableInv /\ PendingExact /\ [Next]_vars => (TableInv /\ PendingExact)'
  BY TableNext, PendingNext
<1> QED
  BY <1>1, <1>2, PTL DEF Spec

\* Every variable stays within its type; in particular the count of pending
\* events, a size_t in the code, never goes below zero.
THEOREM TypeCorrect == Spec => []TypeOK
<1>1. TableInv /\ PendingExact => TypeOK
  <2> SUFFICES ASSUME TableInv, PendingExact PROVE TypeOK
    OBVIOUS
  <2>1. pending \in Nat
    BY RegisteredFinite DEF PendingExact, RegisteredPairs
  <2> QED
    BY <2>1 DEF TypeOK, TableInv, Typed, TableTyped, WorkTyped, UserTyped,
                KernelTyped
<1> QED
  BY <1>1, TableAlways, PendingIsExact, PTL

------------------------------------------------------------------------------
(* Callbacks *)

\* Nobody else adds the event that a user is adding, and it is neither
\* registered nor due.
AdderInv ==
  \A u \in Users :
    op[u].do = "Add" =>
      /\ tasks[<<op[u].fd, op[u].event>>] = 0
      /\ ~ Registered(op[u].fd, op[u].event)
      /\ \A v \in Users :
           op[v].do = "Add" /\ op[v].fd = op[u].fd /\ op[v].event = op[u].event
             => u = v

WokenInv == WokenOnce /\ AdderInv

\* A user that adds an event is one that was adding it before.
SameAdders ==
  \A u \in Users :
    op'[u].do = "Add" =>
      /\ op[u].do = "Add"
      /\ op'[u].fd = op[u].fd
      /\ op'[u].event = op[u].event

\* The descriptor and the event of a user that is adding.
LEMMA AdderTyped ==
  ASSUME TableInv, NEW u \in Users, op[u].do = "Add"
  PROVE  op[u].fd \in Fds /\ op[u].event \in Event
<1>1. op[u] # NoOp
  BY SMTT(30) DEF NoOp
<1> QED
  BY <1>1 DEF TableInv, Typed, UserTyped, OpInv, Op

LEMMA TaskCount ==
  ASSUME TableInv, NEW fd \in Fds, NEW e \in Event
  PROVE  tasks[<<fd, e>>] \in Nat
BY DEF TableInv, Typed, WorkTyped

\* The adders keep what they rely on if no event they add gets due or registered.
LEMMA AddersStay ==
  ASSUME TableInv, AdderInv, SameAdders,
         \A fd \in Fds, e \in Event :
           tasks[<<fd, e>>] = 0 /\ ~ Registered(fd, e) =>
             tasks'[<<fd, e>>] = 0 /\ ~ Registered(fd, e)'
  PROVE  AdderInv'
<1> SUFFICES ASSUME NEW u \in Users, op'[u].do = "Add"
             PROVE  /\ tasks'[<<op'[u].fd, op'[u].event>>] = 0
                    /\ ~ Registered(op[u].fd, op[u].event)'
                    /\ \A v \in Users :
                         op'[v].do = "Add" /\ op'[v].fd = op'[u].fd
                           /\ op'[v].event = op'[u].event => u = v
  BY DEF AdderInv
<1>1. PICK fd \in Fds, e \in Event :
        fd = op[u].fd /\ e = op[u].event /\ op[u].do = "Add"
        /\ fd = op'[u].fd /\ e = op'[u].event
  BY AdderTyped DEF SameAdders
<1>2. tasks[<<fd, e>>] = 0 /\ ~ Registered(fd, e)
  BY <1>1 DEF AdderInv
<1>3. tasks'[<<fd, e>>] = 0 /\ ~ Registered(fd, e)'
  BY <1>2
<1>4. ASSUME NEW v \in Users, op'[v].do = "Add", op'[v].fd = fd, op'[v].event = e
      PROVE  u = v
  <2>1. op[v].do = "Add" /\ op[v].fd = fd /\ op[v].event = e
    BY <1>4 DEF SameAdders
  <2> QED
    BY <1>1, <2>1 DEF AdderInv
<1>5. Registered(op[u].fd, op[u].event)' = Registered(fd, e)'
  BY <1>1
<1> QED
  BY <1>1, <1>3, <1>4, <1>5

\* Steps after which there are no more tasks, registered events and adders
\* than there were.
LEMMA WokenShrinks ==
  ASSUME TableInv, TableInv', WokenInv, SameAdders,
         \A fd \in Fds, e \in Event :
           /\ tasks'[<<fd, e>>] <= tasks[<<fd, e>>]
           /\ Registered(fd, e)' => Registered(fd, e)
  PROVE  WokenInv'
<1>1. \A fd \in Fds, e \in Event :
        tasks[<<fd, e>>] \in Nat /\ tasks'[<<fd, e>>] \in Nat
  BY DEF TableInv, Typed, WorkTyped
<1>2. WokenOnce'
  <2> SUFFICES ASSUME NEW fd \in Fds, NEW e \in Event
               PROVE  /\ tasks'[<<fd, e>>] <= 1
                      /\ tasks'[<<fd, e>>] = 1 => ~ Registered(fd, e)'
    BY DEF WokenOnce
  <2>1. /\ tasks[<<fd, e>>] <= 1
        /\ tasks[<<fd, e>>] = 1 => ~ Registered(fd, e)
    BY DEF WokenInv, WokenOnce
  <2>2. /\ tasks'[<<fd, e>>] <= tasks[<<fd, e>>]
        /\ Registered(fd, e)' => Registered(fd, e)
    OBVIOUS
  <2>3. tasks[<<fd, e>>] \in Nat /\ tasks'[<<fd, e>>] \in Nat
    BY <1>1
  <2> QED
    BY <2>1, <2>2, <2>3, SMTT(30)
<1>3. AdderInv'
  BY <1>1, AddersStay, SMTT(30) DEF WokenInv
<1> QED
  BY <1>2, <1>3 DEF WokenInv

\* At most one context of a descriptor has events.
LEMMA SoleContext ==
  ASSUME TableInv, NEW c \in FdContext, NEW d \in FdContext,
         c.fd = d.fd, events[c] # {}, events[d] # {}
  PROVE  c = d
BY ContextFd DEF TableInv, EpollMirrors

\* What is triggered was registered, hence was not due; it is due afterwards,
\* and no longer registered.
LEMMA WokenTrigger ==
  ASSUME TableInv, TableInv', WokenInv, SameAdders, NEW c \in FdContext,
         NEW E \in SUBSET events[c], Trigger(c, E)
  PROVE  WokenInv'
<1>0. c.fd \in Fds /\ events[c] \in SUBSET Event
  BY ContextFd DEF TableInv, Typed, TableTyped
<1>1. \A fd \in Fds, e \in Event :
        IF fd = c.fd /\ e \in E
        THEN tasks'[<<fd, e>>] = tasks[<<fd, e>>] + 1
        ELSE tasks'[<<fd, e>>] = tasks[<<fd, e>>]
  BY DEF Trigger
<1>2. \A d \in FdContext : events'[d] = IF d = c THEN events[c] \ E ELSE events[d]
  BY DEF Trigger, TableInv, Typed, TableTyped
<1>3. \A fd \in Fds, e \in Event : Registered(fd, e)' => Registered(fd, e)
  BY <1>2 DEF Registered
<1>4. \A e \in E : Registered(c.fd, e) /\ ~ Registered(c.fd, e)'
  <2> SUFFICES ASSUME NEW e \in E
               PROVE  Registered(c.fd, e) /\ ~ Registered(c.fd, e)'
    OBVIOUS
  <2>1. Registered(c.fd, e)
    BY DEF Registered
  <2>2. ASSUME NEW d \in FdContext, d.fd = c.fd, e \in events'[d]
        PROVE  FALSE
    <3>1. d # c
      BY <1>2, <2>2
    <3>2. e \in events[d] /\ e \in events[c]
      BY <1>2, <2>2, <3>1
    <3> QED
      BY <2>2, <3>1, <3>2, SoleContext
  <2> QED
    BY <2>1, <2>2 DEF Registered
<1>5. WokenOnce'
  <2> SUFFICES ASSUME NEW fd \in Fds, NEW e \in Event
               PROVE  /\ tasks'[<<fd, e>>] <= 1
                      /\ tasks'[<<fd, e>>] = 1 => ~ Registered(fd, e)'
    BY DEF WokenOnce
  <2>1. /\ tasks[<<fd, e>>] <= 1
        /\ tasks[<<fd, e>>] = 1 => ~ Registered(fd, e)
        /\ tasks[<<fd, e>>] \in Nat
    BY TaskCount DEF WokenInv, WokenOnce
  <2>2. CASE fd = c.fd /\ e \in E
    <3>1. tasks[<<fd, e>>] = 0
      BY <1>4, <2>1, <2>2, SMTT(30)
    <3>2. tasks'[<<fd, e>>] = 1
      BY <1>1, <2>2, <3>1, SMTT(30)
    <3> QED
      BY <1>4, <2>2, <3>2, SMTT(30)
  <2>3. CASE ~ (fd = c.fd /\ e \in E)
    <3>1. tasks'[<<fd, e>>] = tasks[<<fd, e>>]
      BY <1>1, <2>3
    <3> QED
      BY <1>3, <2>1, <3>1
  <2> QED
    BY <2>2, <2>3
<1>6. AdderInv'
  <2>1. ASSUME NEW fd \in Fds, NEW e \in Event, tasks[<<fd, e>>] = 0,
               ~ Registered(fd, e)
        PROVE  tasks'[<<fd, e>>] = 0 /\ ~ Registered(fd, e)'
    <3>1. ~ (fd = c.fd /\ e \in E)
      BY <1>4, <2>1
    <3> QED
      BY <1>1, <1>3, <2>1, <3>1
  <2> QED
    BY <2>1, AddersStay DEF WokenInv
<1> QED
  BY <1>5, <1>6 DEF WokenInv

\* AddEvent asserts that nobody else adds the event.
LEMMA WokenAddEvent ==
  ASSUME TableInv, WokenInv, NEW u \in Users, NEW fd \in Fds, NEW e \in Event,
         AddEvent(u, fd, e)
  PROVE  WokenInv'
<1>1. UNCHANGED <<tasks, events>> /\ Free(fd, e)
  BY DEF AddEvent
<1>2. \A g, x : Registered(g, x)' <=> Registered(g, x)
  BY <1>1 DEF Registered
<1>3. WokenOnce'
  BY <1>1, <1>2 DEF WokenInv, WokenOnce
<1>4. /\ op'[u].do = "Add" /\ op'[u].fd = fd /\ op'[u].event = e
      /\ \A v \in Users : v # u => op'[v] = op[v]
  BY DEF AddEvent, TableInv, Typed, UserTyped
<1>5. AdderInv'
  <2>1. tasks'[<<fd, e>>] = 0 /\ ~ Registered(fd, e)'
    BY <1>1, <1>2 DEF Free
  <2>2. \A v \in Users : v # u =>
          ~ (op'[v].do = "Add" /\ op'[v].fd = fd /\ op'[v].event = e)
    BY <1>1, <1>4 DEF Free
  <2> SUFFICES ASSUME NEW v \in Users, op'[v].do = "Add"
               PROVE  /\ tasks'[<<op'[v].fd, op'[v].event>>] = 0
                      /\ ~ Registered(op[v].fd, op[v].event)'
                      /\ \A w \in Users :
                           op'[w].do = "Add" /\ op'[w].fd = op'[v].fd
                             /\ op'[w].event = op'[v].event => v = w
    BY DEF AdderInv
  <2>3. CASE v = u
    <3>1. Registered(op[v].fd, op[v].event)' = Registered(fd, e)'
      BY <1>4, <2>3
    <3> QED
      BY <1>4, <2>1, <2>2, <2>3, <3>1
  <2>4. CASE v # u
    <3>1. PICK g, x : g = op[v].fd /\ x = op[v].event
                      /\ g = op'[v].fd /\ x = op'[v].event
      BY <1>4, <2>4
    <3>2. op[v].do = "Add"
      BY <1>4, <2>4
    <3>3. tasks'[<<g, x>>] = 0 /\ ~ Registered(g, x)'
      BY <1>1, <1>2, <3>1, <3>2 DEF WokenInv, AdderInv
    <3>4. Registered(op[v].fd, op[v].event)' = Registered(g, x)'
      BY <3>1
    <3>5. ASSUME NEW w \in Users, op'[w].do = "Add", op'[w].fd = g, op'[w].event = x
          PROVE  v = w
      <4>1. w # u
        BY <1>4, <2>2, <2>4, <3>1, <3>5
      <4>2. op'[w] = op[w]
        BY <1>4, <4>1
      <4> QED
        BY <3>1, <3>2, <3>5, <4>2 DEF WokenInv, AdderInv
    <3> QED
      BY <3>1, <3>3, <3>4, <3>5
  <2> QED
    BY <2>3, <2>4
<1> QED
  BY <1>3, <1>5 DEF WokenInv

\* The event is registered once its only adder is done.
LEMMA WokenAddLocked ==
  ASSUME TableInv, WokenInv, NEW u \in Users, AddLocked(u)
  PROVE  WokenInv'
<1>1. PICK c \in FdContext, e \in Event : c = op[u].ctx /\ e = op[u].event
  BY LockedContext DEF AddLocked
<1>2. /\ op[u].do = "Add" /\ op[u].fd = c.fd
      /\ UNCHANGED tasks
      /\ events' = [events EXCEPT ![c] = @ \cup {e}]
      /\ op' = [op EXCEPT ![u] = NoOp]
  BY <1>1 DEF AddLocked, Return, TableInv, OpInv
<1>3. \A g \in Fds, x \in Event :
        Registered(g, x)' => Registered(g, x) \/ (g = c.fd /\ x = e)
  BY <1>2 DEF Registered, TableInv, Typed, TableTyped
<1>4. tasks[<<c.fd, e>>] = 0
  BY <1>1, <1>2 DEF WokenInv, AdderInv
<1>5. WokenOnce'
  <2> SUFFICES ASSUME NEW g \in Fds, NEW x \in Event
               PROVE  /\ tasks'[<<g, x>>] <= 1
                      /\ tasks'[<<g, x>>] = 1 => ~ Registered(g, x)'
    BY DEF WokenOnce
  <2>1. /\ tasks[<<g, x>>] <= 1
        /\ tasks[<<g, x>>] = 1 => ~ Registered(g, x)
    BY DEF WokenInv, WokenOnce
  <2>2. tasks' = tasks
    BY <1>2
  <2>3. CASE g = c.fd /\ x = e
    BY <1>4, <2>2, <2>3, SMTT(30)
  <2>4. CASE ~ (g = c.fd /\ x = e)
    <3>1. Registered(g, x)' => Registered(g, x)
      BY <1>3, <2>4
    <3> QED
      BY <2>1, <2>2, <3>1
  <2> QED
    BY <2>3, <2>4
<1>6. \A v \in Users : op'[v] = IF v = u THEN NoOp ELSE op[v]
  BY <1>2 DEF TableInv, Typed, UserTyped
<1>n. NoOp.do # "Add"
  BY DEF NoOp
<1>7. AdderInv'
  <2> SUFFICES ASSUME NEW v \in Users, op'[v].do = "Add"
               PROVE  /\ tasks'[<<op'[v].fd, op'[v].event>>] = 0
                      /\ ~ Registered(op[v].fd, op[v].event)'
                      /\ \A w \in Users :
                           op'[w].do = "Add" /\ op'[w].fd = op'[v].fd
                             /\ op'[w].event = op'[v].event => v = w
    BY DEF AdderInv
  <2>1. v # u /\ op'[v] = op[v] /\ op[v].do = "Add"
    BY <1>6, <1>n
  <2>2. PICK g \in Fds, x \in Event : g = op[v].fd /\ x = op[v].event
    BY <2>1, AdderTyped
  <2>3. ~ (g = c.fd /\ x = e)
    BY <1>1, <1>2, <2>1, <2>2 DEF WokenInv, AdderInv
  <2>4. tasks'[<<g, x>>] = 0 /\ ~ Registered(g, x)'
    BY <1>2, <1>3, <2>1, <2>2, <2>3 DEF WokenInv, AdderInv
  <2>5. Registered(op[v].fd, op[v].event)' = Registered(g, x)'
    BY <2>1, <2>2
  <2>6. ASSUME NEW w \in Users, op'[w].do = "Add", op'[w].fd = g,
               op'[w].event = x
        PROVE  v = w
    <3>1. op'[w] = op[w]
      BY <1>6, <1>n, <2>6
    <3> QED
      BY <2>1, <2>2, <2>6, <3>1 DEF WokenInv, AdderInv
  <2> QED
    BY <2>1, <2>2, <2>4, <2>5, <2>6
<1> QED
  BY <1>5, <1>7 DEF WokenInv

\* Whoever returns no longer adds.
LEMMA ReturnAdders ==
  ASSUME TableInv, NEW u \in Users, Return(u)
  PROVE  SameAdders
<1>1. \A v \in Users : op'[v] = IF v = u THEN NoOp ELSE op[v]
  BY DEF Return, TableInv, Typed, UserTyped
<1> QED
  BY <1>1, SMTT(30) DEF SameAdders, NoOp

\* Steps that neither add nor trigger.
LEMMA WokenQuiet ==
  ASSUME TableInv, TableInv', WokenInv, SameAdders, UNCHANGED <<tasks, events>>
  PROVE  WokenInv'
<1>1. ASSUME NEW fd \in Fds, NEW e \in Event
      PROVE  tasks'[<<fd, e>>] <= tasks[<<fd, e>>]
  <2>1. tasks[<<fd, e>>] \in Nat
    BY TaskCount
  <2> QED
    BY <2>1, SMTT(30)
<1>2. \A fd \in Fds, e \in Event : Registered(fd, e)' => Registered(fd, e)
  BY DEF Registered
<1> QED
  BY <1>1, <1>2, WokenShrinks

LEMMA WokenUserStep ==
  ASSUME TableInv, TableInv', WokenInv, NEW u \in Users, UserStep(u)
  PROVE  WokenInv'
<1>1. CASE Resize(u)
  <2>1. /\ op' = [op EXCEPT ![u].ctx = [fd |-> op[u].fd, n |-> made'[op[u].fd]]]
        /\ UNCHANGED <<tasks, events>>
    BY <1>1 DEF Resize
  <2>2. SameAdders
    BY <2>1, SMTT(30) DEF SameAdders, TableInv, Typed, UserTyped, Op
  <2> QED
    BY <2>1, <2>2, WokenQuiet
<1>2. CASE AddLocked(u)
  BY <1>2, WokenAddLocked
<1>3. CASE DelLocked(u)
  <2>1. SameAdders
    BY <1>3, ReturnAdders DEF DelLocked
  <2>2. \A d \in FdContext : events'[d] \subseteq events[d]
    BY <1>3 DEF DelLocked, TableInv, Typed, TableTyped
  <2>3. \A fd \in Fds, e \in Event : Registered(fd, e)' => Registered(fd, e)
    BY <2>2 DEF Registered
  <2>4. ASSUME NEW fd \in Fds, NEW e \in Event
        PROVE  tasks'[<<fd, e>>] <= tasks[<<fd, e>>]
    <3>1. tasks[<<fd, e>>] \in Nat
      BY TaskCount
    <3>2. tasks' = tasks
      BY <1>3 DEF DelLocked
    <3> QED
      BY <3>1, <3>2, SMTT(30)
  <2> QED
    BY <2>1, <2>3, <2>4, WokenShrinks
<1>4. CASE CancelLocked(u)
  <2>1. SameAdders
    BY <1>4, ReturnAdders DEF CancelLocked
  <2>2. op[u].ctx \in FdContext /\ {op[u].event} \in SUBSET events[op[u].ctx]
    BY <1>4, LockedContext DEF CancelLocked
  <2> QED
    BY <1>4, <2>1, <2>2, WokenTrigger DEF CancelLocked
<1>5. CASE CancelAllLocked(u)
  <2>1. SameAdders
    BY <1>5, ReturnAdders DEF CancelAllLocked
  <2>2. op[u].ctx \in FdContext
    BY <1>5, LockedContext DEF CancelAllLocked
  <2> QED
    BY <1>5, <2>1, <2>2, WokenTrigger DEF CancelAllLocked
<1>6. CASE Refuse(u)
  <2>1. SameAdders
    BY <1>6, ReturnAdders DEF Refuse
  <2> QED
    BY <1>6, <2>1, WokenQuiet DEF Refuse
<1> QED
  BY <1>1, <1>2, <1>3, <1>4, <1>5, <1>6 DEF UserStep

LEMMA WokenNext == TableInv /\ WokenInv /\ [Next]_vars => WokenInv'
<1> SUFFICES ASSUME TableInv, WokenInv, [Next]_vars PROVE WokenInv'
  OBVIOUS
<1>0. TableInv' /\ Used \subseteq Event
  BY TableNext, FdAssumption DEF Event
<1>a. UNCHANGED op => SameAdders
  BY DEF SameAdders
<1>1. ASSUME NEW u \in Users, Begin(u) PROVE WokenInv'
  <2>1. PICK fd \in Fds, e \in Event :
          \/ AddEvent(u, fd, e)
          \/ \E do \in {"Del", "Cancel", "CancelAll"} : Withdraw(u, do, fd, e)
    BY <1>0, <1>1 DEF Begin
  <2>2. CASE AddEvent(u, fd, e)
    BY <2>2, WokenAddEvent
  <2>3. ASSUME NEW do \in {"Del", "Cancel", "CancelAll"}, Withdraw(u, do, fd, e)
        PROVE  WokenInv'
    <3>1. SameAdders
      BY <2>3 DEF Withdraw, SameAdders, TableInv, Typed, UserTyped
    <3> QED
      BY <1>0, <2>3, <3>1, WokenQuiet DEF Withdraw
  <2> QED
    BY <2>1, <2>2, <2>3
<1>2. ASSUME NEW u \in Users, UserStep(u) PROVE WokenInv'
  BY <1>0, <1>2, WokenUserStep
<1>3. ASSUME NEW i \in Idlers, HandleEvent(i) PROVE WokenInv'
  <2>1. PICK r \in found[i] :
          RealEvents(r) \subseteq events[r.ctx] /\ Trigger(r.ctx, RealEvents(r))
    BY <1>3 DEF HandleEvent
  <2>2. r.ctx \in FdContext
    BY FoundContext
  <2>3. SameAdders
    BY <1>3, <1>a DEF HandleEvent, userVars
  <2> QED
    BY <1>0, <2>1, <2>2, <2>3, WokenTrigger
<1>4. ASSUME NEW i \in Idlers, EpollWait(i) \/ AssertTrigger(i) \/ SkipEvent(i)
      PROVE  WokenInv'
  BY <1>0, <1>4, <1>a, WokenQuiet DEF EpollWait, AssertTrigger, SkipEvent, userVars
<1>5. ASSUME NEW fd \in Fds, NEW e \in Conditions, Ready(fd, e) PROVE WokenInv'
  BY <1>0, <1>5, <1>a, WokenQuiet DEF Ready, userVars
<1>6. ASSUME NEW fd \in Fds, NEW e \in Used, RunTask(fd, e) PROVE WokenInv'
  <2>1. SameAdders /\ UNCHANGED events
    BY <1>6, <1>a DEF RunTask, userVars
  <2>2. tasks' = [tasks EXCEPT ![<<fd, e>>] = tasks[<<fd, e>>] - 1]
    BY <1>6 DEF RunTask
  <2>3. \A w \in Fds \X Event : tasks[w] \in Nat /\ tasks'[w] <= tasks[w]
    BY <2>2, SMTT(30) DEF TableInv, Typed, WorkTyped
  <2>4. \A g \in Fds, x \in Event :
          /\ tasks'[<<g, x>>] <= tasks[<<g, x>>]
          /\ Registered(g, x)' => Registered(g, x)
    BY <2>1, <2>3 DEF Registered
  <2> QED
    BY <1>0, <2>1, <2>4, WokenShrinks
<1>7. CASE UNCHANGED vars
  BY <1>0, <1>7, <1>a, WokenQuiet DEF vars, userVars
<1> QED
  BY <1>1, <1>2, <1>3, <1>4, <1>5, <1>6, <1>7 DEF Next, Aborted, IdleStep

\* The callback given to one AddEvent is scheduled at most once, although
\* CancelEvent, CancelAll and any number of threads in Idle may race to
\* trigger the same event.
THEOREM CallbackScheduledOnce == Spec => []WokenOnce
<1>1. Init => WokenInv
  <2> SUFFICES ASSUME Init PROVE WokenInv
    OBVIOUS
  <2>1. ASSUME NEW fd \in Fds, NEW e \in Event
        PROVE  tasks[<<fd, e>>] <= 1 /\ tasks[<<fd, e>>] # 1
    BY SMTT(30) DEF Init
  <2>2. WokenOnce
    BY <2>1 DEF WokenOnce
  <2>3. \A u \in Users : op[u].do # "Add"
    BY DEF Init, NoOp
  <2>4. AdderInv
    BY <2>3 DEF AdderInv
  <2> QED
    BY <2>2, <2>4 DEF WokenInv
<1>2. WokenInv => WokenOnce
  BY DEF WokenInv
<1> QED
  BY <1>1, <1>2, WokenNext, TableAlways, PTL DEF Spec

------------------------------------------------------------------------------
(* Edges *)

\* An idle thread holds an epoll_wait result for the event e of the context c.
InHand(c, e) ==
  \E i \in Idlers : \E r \in found[i] :
    r.ctx = c /\ r.events \cap {e, "HUP"} # {}

\* A registered event is watched for the context that has it.
LEMMA Watched ==
  ASSUME TableInv, NEW c \in FdContext, NEW e \in events[c]
  PROVE  /\ c.fd \in Fds /\ e \in Event
         /\ owner[c.fd] = c
         /\ e \in interest[c.fd]
<1>1. c.fd \in Fds /\ e \in Event
  BY ContextFd DEF TableInv, Typed, TableTyped
<1>2. owner[c.fd] = c
  BY <1>1 DEF TableInv, EpollMirrors
<1>3. Registered(c.fd, e)
  BY DEF Registered
<1>4. interest[c.fd] = {x \in Event : Registered(c.fd, x)}
  BY <1>1 DEF TableInv, EpollMirrors
<1> QED
  BY <1>1, <1>2, <1>3, <1>4

\* epoll_ctl looks at the descriptor anew, so the context that was changed is
\* safe; contexts of other descriptors keep what they had.
LEMMA EdgeChange ==
  ASSUME TableInv, NoEdgeLost, NEW c \in FdContext, NEW E \in SUBSET Event,
         Change(c, E), UNCHANGED aborted,
         \A d \in FdContext, e \in Event :
           d # c /\ InHand(d, e) => InHand(d, e)'
  PROVE  NoEdgeLost'
<1>0. c.fd \in Fds /\ events[c] \in SUBSET Event
  BY ContextFd DEF TableInv, Typed, TableTyped
<1> SUFFICES ASSUME NEW d \in FdContext, NEW e \in events'[d],
                    ready'[d.fd] \cap {e, "HUP"} # {}
             PROVE  aborted' \/ d.fd \in queued' \/ InHand(d, e)'
  <2>1. \A d, e : InHand(d, e)' <=> \E i \in Idlers : \E r \in found'[i] :
                                      r.ctx = d /\ r.events \cap {e, "HUP"} # {}
    BY DEF InHand
  <2> QED
    BY <2>1 DEF NoEdgeLost
<1>1. /\ UNCHANGED ready
      /\ queued' = IF E # {} /\ ready[c.fd] \cap (E \cup {"HUP"}) # {}
                   THEN queued \cup {c.fd} ELSE queued \ {c.fd}
      /\ events'[d] = IF d = c THEN E ELSE events[d]
  BY DEF Change, EpollCtl, TableInv, Typed, TableTyped
<1>2. CASE d = c
  BY <1>1, <1>2
<1>3. CASE d # c
  <2>1. e \in events[d] /\ e \in Event
    BY <1>1, <1>3 DEF TableInv, Typed, TableTyped
  <2>2. d.fd # c.fd
    <3> SUFFICES ASSUME d.fd = c.fd PROVE FALSE
      OBVIOUS
    <3>1. owner[c.fd] = d
      BY <1>0, <2>1 DEF TableInv, EpollMirrors
    <3>2. events[c] # {}
      BY <3>1, NowhereIsNoContext DEF Change, CanCtl
    <3> QED
      BY <1>3, <2>1, <3>2, SoleContext
  <2>3. aborted \/ d.fd \in queued \/ InHand(d, e)
    <3>1. ready[d.fd] \cap {e, "HUP"} # {}
      BY <1>1
    <3> QED
      BY <2>1, <3>1, SMTT(30) DEF NoEdgeLost, InHand
  <2>4. d.fd \in queued => d.fd \in queued'
    BY <1>1, <2>2
  <2> QED
    BY <1>3, <2>1, <2>3, <2>4
<1> QED
  BY <1>2, <1>3

LEMMA EdgeLocked ==
  ASSUME TableInv, NoEdgeLost, NEW u \in Users,
         AddLocked(u) \/ DelLocked(u) \/ CancelLocked(u) \/ CancelAllLocked(u)
  PROVE  NoEdgeLost'
<1>1. PICK c \in FdContext, e \in Event : c = op[u].ctx /\ e = op[u].event
  BY LockedContext DEF AddLocked, DelLocked, CancelLocked, CancelAllLocked
<1>2. events[c] \in SUBSET Event
  BY DEF TableInv, Typed, TableTyped
<1>3. UNCHANGED <<found, aborted>>
  BY DEF AddLocked, DelLocked, CancelLocked, CancelAllLocked
<1>4. \A d, x : InHand(d, x)' <=> InHand(d, x)
  BY <1>3 DEF InHand
<1>5. PICK E \in SUBSET Event : Change(c, E)
  <2>1. CASE AddLocked(u)
    <3>1. Change(c, events[c] \cup {e}) /\ events[c] \cup {e} \in SUBSET Event
      BY <1>1, <1>2, <2>1, AddChanges
    <3> QED
      BY <3>1
  <2>2. CASE DelLocked(u) \/ CancelLocked(u)
    <3>1. Change(c, events[c] \ {e}) /\ events[c] \ {e} \in SUBSET Event
      BY <1>1, <1>2, <2>2, DelChanges, CancelChanges
    <3> QED
      BY <3>1
  <2>3. CASE CancelAllLocked(u)
    <3>1. Change(c, {})
      BY <1>1, <2>3, CancelAllChanges
    <3> QED
      BY <3>1
  <2> QED
    BY <2>1, <2>2, <2>3
<1> QED
  BY <1>3, <1>4, <1>5, EdgeChange

LEMMA EdgeHandleEvent ==
  ASSUME TableInv, NoEdgeLost, NEW i \in Idlers, HandleEvent(i)
  PROVE  NoEdgeLost'
<1>1. PICK r \in found[i] :
        /\ Handled(r)
        /\ RealEvents(r) \subseteq events[r.ctx]
        /\ EpollCtl(r.ctx.fd, r.ctx, events[r.ctx] \ RealEvents(r))
        /\ Trigger(r.ctx, RealEvents(r))
        /\ found' = [found EXCEPT ![i] = @ \ {r}]
  BY DEF HandleEvent
<1>2. r.ctx \in FdContext /\ events[r.ctx] \ RealEvents(r) \in SUBSET Event
  BY FoundContext
<1>3. Change(r.ctx, events[r.ctx] \ RealEvents(r))
  BY <1>1 DEF Change, Handled, CanCtl, Trigger
<1>4. ASSUME NEW d \in FdContext, NEW e \in Event, d # r.ctx, InHand(d, e)
      PROVE  InHand(d, e)'
  <2>0. PICK j \in Idlers : \E q \in found[j] :
          q.ctx = d /\ q.events \cap {e, "HUP"} # {}
    BY <1>4 DEF InHand
  <2>1. PICK q \in found[j] : q.ctx = d /\ q.events \cap {e, "HUP"} # {}
    BY <2>0
  <2>2. q # r
    BY <1>4, <2>1
  <2>3. q \in found'[j]
    BY <1>1, <2>2 DEF TableInv, Typed, KernelTyped
  <2> QED
    BY <2>1, <2>3 DEF InHand
<1>5. UNCHANGED aborted
  BY DEF HandleEvent
<1> QED
  BY <1>2, <1>3, <1>4, <1>5, EdgeChange

\* An entry that is passed over stands for no registered event.
LEMMA EdgeSkipEvent ==
  ASSUME TableInv, NoEdgeLost, NEW i \in Idlers, SkipEvent(i)
  PROVE  NoEdgeLost'
<1>1. PICK r \in found[i] :
        ~ Handled(r) /\ found' = [found EXCEPT ![i] = @ \ {r}]
  BY DEF SkipEvent
<1>2. UNCHANGED <<events, ready, queued, aborted>>
  BY DEF SkipEvent, kernelVars
<1>3. ASSUME NEW c \in FdContext, NEW e \in events[c], InHand(c, e)
      PROVE  InHand(c, e)'
  <2>0. PICK j \in Idlers : \E q \in found[j] :
          q.ctx = c /\ q.events \cap {e, "HUP"} # {}
    BY <1>3 DEF InHand
  <2>1. PICK q \in found[j] : q.ctx = c /\ q.events \cap {e, "HUP"} # {}
    BY <2>0
  <2>2. e \in RealEvents(q)
    <3>1. e # "HUP"
      BY DEF TableInv, Typed, TableTyped, Event
    <3> QED
      BY <2>1, <3>1 DEF RealEvents
  <2>3. CanCtl(c.fd, FALSE)
    <3>1. owner[c.fd] = c
      BY Watched
    <3> QED
      BY <3>1, NowhereIsNoContext DEF CanCtl
  <2>4. Handled(q)
    BY <2>1, <2>2, <2>3 DEF Handled
  <2>5. q \in found'[j]
    BY <1>1, <2>4 DEF TableInv, Typed, KernelTyped
  <2> QED
    BY <2>1, <2>5 DEF InHand
<1> SUFFICES ASSUME NEW c \in FdContext, NEW e \in events'[c],
                    ready'[c.fd] \cap {e, "HUP"} # {}
             PROVE  aborted' \/ c.fd \in queued' \/ InHand(c, e)'
  BY DEF NoEdgeLost, InHand
<1>4. aborted \/ c.fd \in queued \/ InHand(c, e)
  BY <1>2 DEF NoEdgeLost, InHand
<1> QED
  BY <1>2, <1>3, <1>4

\* epoll_wait empties the ready list into the hands of one thread.
LEMMA EdgeEpollWait ==
  ASSUME TableInv, NoEdgeLost, NEW i \in Idlers, EpollWait(i)
  PROVE  NoEdgeLost'
<1> DEFINE F == {[ctx |-> owner[fd], events |-> Reported(fd)] :
                   fd \in {f \in queued : Reported(f) # {}}}
<1>1. found' = [found EXCEPT ![i] = F] /\ found[i] = {}
  BY DEF EpollWait
<1>2. UNCHANGED <<events, ready, aborted>>
  BY DEF EpollWait
<1> SUFFICES ASSUME NEW c \in FdContext, NEW e \in events'[c],
                    ready'[c.fd] \cap {e, "HUP"} # {}
             PROVE  aborted' \/ InHand(c, e)'
  BY DEF NoEdgeLost, InHand
<1>3. e \in events[c] /\ e \in Event /\ c.fd \in Fds
  BY <1>2, ContextFd DEF TableInv, Typed, TableTyped
<1>4. aborted \/ c.fd \in queued \/ InHand(c, e)
  BY <1>2, <1>3 DEF NoEdgeLost, InHand
<1>5. CASE InHand(c, e)
  <2>0. PICK j \in Idlers : \E q \in found[j] :
          q.ctx = c /\ q.events \cap {e, "HUP"} # {}
    BY <1>5 DEF InHand
  <2>1. PICK q \in found[j] : q.ctx = c /\ q.events \cap {e, "HUP"} # {}
    BY <2>0
  <2>2. q \in found'[j]
    BY <1>1, <2>1 DEF TableInv, Typed, KernelTyped
  <2> QED
    BY <2>1, <2>2 DEF InHand
<1>6. CASE c.fd \in queued
  <2>1. owner[c.fd] = c /\ e \in interest[c.fd]
    BY <1>3, Watched
  <2>2. Reported(c.fd) \cap {e, "HUP"} # {}
    BY <1>2, <2>1 DEF Reported
  <2>3. [ctx |-> c, events |-> Reported(c.fd)] \in F
    BY <1>6, <2>1, <2>2
  <2>4. found'[i] = F
    BY <1>1 DEF TableInv, Typed, KernelTyped
  <2> HIDE DEF F
  <2> QED
    BY <2>2, <2>3, <2>4 DEF InHand
<1> QED
  BY <1>2, <1>4, <1>5, <1>6

\* A descriptor that gets ready for what is registered goes to the ready list.
LEMMA EdgeReady ==
  ASSUME TableInv, NoEdgeLost, NEW fd \in Fds, NEW x, Ready(fd, x)
  PROVE  NoEdgeLost'
<1>1. /\ UNCHANGED <<events, found, aborted>>
      /\ ready' = [ready EXCEPT ![fd] = @ \cup {x}]
      /\ queued' = IF owner[fd] # Nowhere /\ x \in interest[fd] \cup {"HUP"}
                   THEN queued \cup {fd} ELSE queued
  BY DEF Ready
<1> SUFFICES ASSUME NEW c \in FdContext, NEW e \in events'[c],
                    ready'[c.fd] \cap {e, "HUP"} # {}
             PROVE  aborted' \/ c.fd \in queued' \/ InHand(c, e)'
  BY DEF NoEdgeLost, InHand
<1>2. e \in events[c] /\ e \in Event /\ c.fd \in Fds
  BY <1>1, ContextFd DEF TableInv, Typed, TableTyped
<1>3. CASE ready[c.fd] \cap {e, "HUP"} # {}
  <2>1. aborted \/ c.fd \in queued \/ InHand(c, e)
    BY <1>2, <1>3 DEF NoEdgeLost, InHand
  <2>2. InHand(c, e)' <=> InHand(c, e)
    BY <1>1 DEF InHand
  <2> QED
    BY <1>1, <2>1, <2>2
<1>4. CASE ~ (ready[c.fd] \cap {e, "HUP"} # {})
  <2>1. c.fd = fd /\ x \in {e, "HUP"}
    BY <1>1, <1>2, <1>4 DEF TableInv, Typed, KernelTyped
  <2>2. owner[fd] = c /\ e \in interest[fd]
    BY <1>2, <2>1, Watched
  <2> QED
    BY <1>1, <2>1, <2>2, NowhereIsNoContext
<1> QED
  BY <1>3, <1>4

\* Steps that make nothing ready and take nothing from the ready list or an
\* idle thread.
LEMMA EdgeQuiet ==
  ASSUME NoEdgeLost, UNCHANGED <<events, found, queued>>,
         \A c \in FdContext : ready'[c.fd] \subseteq ready[c.fd],
         aborted => aborted'
  PROVE  NoEdgeLost'
<1> SUFFICES ASSUME NEW c \in FdContext, NEW e \in events'[c],
                    ready'[c.fd] \cap {e, "HUP"} # {}
             PROVE  aborted' \/ c.fd \in queued' \/ InHand(c, e)'
  BY DEF NoEdgeLost, InHand
<1>1. e \in events[c] /\ ready[c.fd] \cap {e, "HUP"} # {}
  OBVIOUS
<1>2. aborted \/ c.fd \in queued \/ InHand(c, e)
  BY <1>1 DEF NoEdgeLost, InHand
<1>3. InHand(c, e)' <=> InHand(c, e)
  BY DEF InHand
<1> QED
  BY <1>2, <1>3

LEMMA EdgeNext == TableInv /\ NoEdgeLost /\ [Next]_vars => NoEdgeLost'
<1> SUFFICES ASSUME TableInv, NoEdgeLost, [Next]_vars PROVE NoEdgeLost'
  OBVIOUS
<1>1. ASSUME NEW u \in Users, Begin(u) PROVE NoEdgeLost'
  BY <1>1, EdgeQuiet DEF Begin, AddEvent, Withdraw, kernelVars
<1>2. ASSUME NEW u \in Users, UserStep(u) PROVE NoEdgeLost'
  <2>1. CASE Resize(u) \/ Refuse(u)
    BY <2>1, EdgeQuiet DEF Resize, Refuse, kernelVars
  <2> QED
    BY <1>2, <2>1, EdgeLocked DEF UserStep
<1>3. ASSUME NEW i \in Idlers, IdleStep(i) PROVE NoEdgeLost'
  <2>1. CASE AssertTrigger(i)
    BY <2>1 DEF AssertTrigger, NoEdgeLost
  <2> QED
    BY <1>3, <2>1, EdgeEpollWait, EdgeHandleEvent, EdgeSkipEvent DEF IdleStep
<1>4. ASSUME NEW fd \in Fds, NEW e \in Conditions, Ready(fd, e) PROVE NoEdgeLost'
  BY <1>4, EdgeReady
<1>5. ASSUME NEW fd \in Fds, NEW e \in Used, RunTask(fd, e) PROVE NoEdgeLost'
  <2>1. \A g \in Fds : ready'[g] \subseteq ready[g]
    BY <1>5 DEF RunTask, TableInv, Typed, KernelTyped
  <2>2. UNCHANGED <<events, found, queued, aborted>>
    BY <1>5 DEF RunTask
  <2> QED
    BY <2>1, <2>2, ContextFd, EdgeQuiet
<1>6. CASE UNCHANGED vars
  BY <1>6, EdgeQuiet DEF vars, kernelVars
<1> QED
  BY <1>1, <1>2, <1>3, <1>4, <1>5, <1>6 DEF Next, Aborted

\* With edge-triggered epoll an edge is reported once.  Whatever AddEvent,
\* DelEvent, CancelEvent and other threads in Idle do to a context while one
\* thread works through its epoll_wait result, a registered event whose
\* descriptor is ready stays on the ready list or with a thread that will
\* handle it.
THEOREM EdgesAreKept == Spec => []NoEdgeLost
<1>1. Init => NoEdgeLost
  BY DEF Init, NoEdgeLost
<1> QED
  BY <1>1, EdgeNext, TableAlways, PTL DEF Spec
==============================================================================
