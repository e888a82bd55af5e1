------------------------------ MODULE IOEvents -------------------------------
(***************************************************************************)
(* The event table of IOManager: serverframework/net/iomanager.{h,cc}      *)
(* without the scheduling loop around it.                                  *)
(*                                                                         *)
(* Users register interest in reading from or writing to a descriptor      *)
(* (AddEvent), and withdraw it (DelEvent, CancelEvent, CancelAll).         *)
(* Threads in IOManager::Idle wait in epoll_wait, which hands them a list  *)
(* of ready descriptors; they work through that list one FdContext at a    *)
(* time, while others go on to change the contexts.                        *)
(*                                                                         *)
(* A descriptor's FdContext is looked up under mutex_ and used under its   *)
(* own mutex.  A step of the model is one of these critical sections.      *)
(* The kernel's side, an edge-triggered epoll set, is modelled from how    *)
(* the code uses it.                                                       *)
(***************************************************************************)
EXTENDS Naturals, FiniteSets

CONSTANTS
  Fds,          \* descriptors
  Users,        \* threads that call the operations
  Idlers,       \* threads that execute IOManager::Idle
  InitialSize,  \* ContextResize(32) in the constructor
  MaxContexts,  \* bound: how many contexts are made for one descriptor
  MaxAdds,      \* bound: how often one event is added
  Used,         \* bound: the events that users register
  Conditions    \* bound: what descriptors get ready for; "HUP" stands for
                \* EPOLLHUP and EPOLLERR

ASSUME FdAssumption ==
  /\ Fds \subseteq Nat /\ IsFiniteSet(Fds)
  /\ InitialSize \in Nat /\ InitialSize >= 2
  /\ MaxContexts \in Nat \ {0}
  /\ MaxAdds \in Nat
  /\ Used \subseteq {"READ", "WRITE"}
  /\ Conditions \subseteq {"READ", "WRITE", "HUP"}

Event == {"READ", "WRITE"}

\* The n-th FdContext that was made for fd.  Contexts are not freed before the
\* IOManager is.
FdContext == [fd : Fds, n : 1..MaxContexts]

Nowhere == [fd |-> 0, n |-> 0]

Op == [do : {"Add", "Del", "Cancel", "CancelAll", "none"}, fd : Nat,
       event : Event, ctx : FdContext \cup {Nowhere}]

NoOp == [do |-> "none", fd |-> 0, event |-> "READ", ctx |-> Nowhere]

VARIABLES
  size,      \* fd_contexts_.size()
  made,      \* how many contexts were made for each descriptor; the last one
             \* is fd_contexts_[fd] while fd < size
  events,    \* FdContext::events
  pending,   \* pending_event_count_
  tasks,     \* how often the callback of an event is on the task list
  adds,      \* how often an event was added
  op,        \* what each user is doing
  pc,        \* where each user is
  found,     \* what is left of each idle thread's last epoll_wait
  interest,  \* the epoll set: the events watched per descriptor, ...
  owner,     \* ... the context in data.ptr, Nowhere if it is not in the set
  ready,     \* what a descriptor is ready for, "HUP" included
  queued,    \* descriptors on the ready list of the epoll set
  aborted    \* an assertion has failed

tableVars == <<size, made>>
kernelVars == <<interest, owner, ready, queued>>
userVars == <<op, pc>>
vars == <<tableVars, events, pending, tasks, adds, userVars, found, kernelVars,
          aborted>>

Init ==
  /\ size = InitialSize
  /\ made = [fd \in Fds |-> IF fd < InitialSize THEN 1 ELSE 0]
  /\ events = [c \in FdContext |-> {}]
  /\ pending = 0
  /\ tasks = [w \in Fds \X Event |-> 0]
  /\ adds = [w \in Fds \X Event |-> 0]
  /\ op = [u \in Users |-> NoOp]
  /\ pc = [u \in Users |-> "ready"]
  /\ found = [i \in Idlers |-> {}]
  /\ interest = [fd \in Fds |-> {}]
  /\ owner = [fd \in Fds |-> Nowhere]
  /\ ready = [fd \in Fds |-> {}]
  /\ queued = {}
  /\ aborted = FALSE

------------------------------------------------------------------------------
(* The epoll set *)

\* epoll_ctl: MOD and DEL need the descriptor in the set, ADD needs it out.
CanCtl(fd, add) == (owner[fd] = Nowhere) <=> add

\* EPOLL_CTL_ADD or MOD for the events E, or DEL if there are none.  A
\* descriptor that is ready goes to the ready list even though no edge follows.
EpollCtl(fd, c, E) ==
  /\ interest' = [interest EXCEPT ![fd] = E]
  /\ owner' = [owner EXCEPT ![fd] = IF E = {} THEN Nowhere ELSE c]
  /\ queued' = IF E # {} /\ ready[fd] \cap (E \cup {"HUP"}) # {}
               THEN queued \cup {fd} ELSE queued \ {fd}
  /\ UNCHANGED ready

\* Data arrives, space becomes free, or the peer is gone.
Ready(fd, e) ==
  /\ ~ aborted
  /\ e \notin ready[fd]
  /\ ready' = [ready EXCEPT ![fd] = @ \cup {e}]
  /\ queued' = IF owner[fd] # Nowhere /\ e \in interest[fd] \cup {"HUP"}
               THEN queued \cup {fd} ELSE queued
  /\ UNCHANGED <<tableVars, events, pending, tasks, adds, userVars, found,
                 interest, owner, aborted>>

------------------------------------------------------------------------------
(* Operations: the look-up *)

Context(fd) == [fd |-> fd, n |-> made[fd]]

Registered(fd, e) == \E c \in FdContext : c.fd = fd /\ e \in events[c]

\* The same event is not added twice at a time: AddEvent asserts so.
Free(fd, e) ==
  /\ ~ Registered(fd, e)
  /\ tasks[<<fd, e>>] = 0
  /\ \A u \in Users :
       ~ (op[u].do = "Add" /\ op[u].fd = fd /\ op[u].event = e)

AddEvent(u, fd, e) ==
  /\ ~ aborted
  /\ pc[u] = "ready"
  /\ Free(fd, e)
  /\ adds[<<fd, e>>] < MaxAdds
  /\ adds' = [adds EXCEPT ![<<fd, e>>] = @ + 1]
  /\ op' = [op EXCEPT ![u] =
       [do |-> "Add", fd |-> fd, event |-> e,
        ctx |-> IF fd < size THEN Context(fd) ELSE Nowhere]]
  /\ pc' = [pc EXCEPT ![u] = IF fd < size THEN "lock" ELSE "resize"]
  /\ UNCHANGED <<tableVars, events, pending, tasks, found, kernelVars, aborted>>

\* DelEvent, CancelEvent and CancelAll return false if the table is too small.
Withdraw(u, do, fd, e) ==
  /\ ~ aborted
  /\ pc[u] = "ready"
  /\ fd < size
  /\ op' = [op EXCEPT ![u] =
       [do |-> do, fd |-> fd, event |-> e, ctx |-> Context(fd)]]
  /\ pc' = [pc EXCEPT ![u] = "lock"]
  /\ UNCHANGED <<tableVars, events, pending, tasks, adds, found, kernelVars,
                 aborted>>

\* ContextResize under the write lock: the table gets the size it is given, and
\* a context for each descriptor that had none.
ContextResize(n) ==
  /\ size' = n
  /\ made' = [fd \in Fds |-> IF fd < n /\ fd >= size THEN made[fd] + 1
                                                      ELSE made[fd]]
  /\ \A fd \in Fds : made'[fd] <= MaxContexts

\* fd * 1.5, converted to size_t.  The size is not looked at again.
Resize(u) ==
  /\ ~ aborted
  /\ pc[u] = "resize"
  /\ ContextResize((op[u].fd * 3) \div 2)
  /\ op' = [op EXCEPT ![u].ctx =
               [fd |-> op[u].fd, n |-> made'[op[u].fd]]]
  /\ pc' = [pc EXCEPT ![u] = "lock"]
  /\ UNCHANGED <<events, pending, tasks, adds, found, kernelVars, aborted>>

------------------------------------------------------------------------------
(* Operations: under the mutex of the context *)

Return(u) ==
  /\ pc' = [pc EXCEPT ![u] = "ready"]
  /\ op' = [op EXCEPT ![u] = NoOp]

\* Mutants: the count stays; the events stay registered.
TriggerUncounted(c, E) ==
  /\ events' = [events EXCEPT ![c] = @ \ E]
  /\ tasks' = [w \in Fds \X Event |->
                 IF w[1] = c.fd /\ w[2] \in E THEN tasks[w] + 1 ELSE tasks[w]]
  /\ UNCHANGED pending

TriggerKeepsEvents(c, E) ==
  /\ tasks' = [w \in Fds \X Event |->
                 IF w[1] = c.fd /\ w[2] \in E THEN tasks[w] + 1 ELSE tasks[w]]
  /\ pending' = pending - Cardinality(E)
  /\ UNCHANGED events

\* TriggerEvent for the events E of the context c: they are no longer of
\* interest, and their callbacks go to the task list.
Trigger(c, E) ==
  /\ events' = [events EXCEPT ![c] = @ \ E]
  /\ tasks' = [w \in Fds \X Event |->
                 IF w[1] = c.fd /\ w[2] \in E THEN tasks[w] + 1 ELSE tasks[w]]
  /\ pending' = pending - Cardinality(E)

\* Mutant: the events that are registered already are forgotten.
AddLockedForgets(u) ==
  LET c == op[u].ctx
      e == op[u].event
  IN /\ ~ aborted
     /\ pc[u] = "lock" /\ op[u].do = "Add"
     /\ e \notin events[c]
     /\ CanCtl(c.fd, events[c] = {})
     /\ EpollCtl(c.fd, c, {e})
     /\ pending' = pending + 1
     /\ events' = [events EXCEPT ![c] = @ \cup {e}]
     /\ Return(u)
     /\ UNCHANGED <<tableVars, tasks, adds, found, aborted>>

AddLocked(u) ==
  LET c == op[u].ctx
      e == op[u].event
  IN /\ ~ aborted
     /\ pc[u] = "lock" /\ op[u].do = "Add"
     /\ e \notin events[c]
     /\ CanCtl(c.fd, events[c] = {})
     /\ EpollCtl(c.fd, c, events[c] \cup {e})
     /\ pending' = pending + 1
     /\ events' = [events EXCEPT ![c] = @ \cup {e}]
     /\ Return(u)
     /\ UNCHANGED <<tableVars, tasks, adds, found, aborted>>

\* Nothing is triggered.
DelLocked(u) ==
  LET c == op[u].ctx
      e == op[u].event
  IN /\ ~ aborted
     /\ pc[u] = "lock" /\ op[u].do = "Del"
     /\ e \in events[c]
     /\ CanCtl(c.fd, FALSE)
     /\ EpollCtl(c.fd, c, events[c] \ {e})
     /\ pending' = pending - 1
     /\ events' = [events EXCEPT ![c] = @ \ {e}]
     /\ Return(u)
     /\ UNCHANGED <<tableVars, tasks, adds, found, aborted>>

CancelLocked(u) ==
  LET c == op[u].ctx
      e == op[u].event
  IN /\ ~ aborted
     /\ pc[u] = "lock" /\ op[u].do = "Cancel"
     /\ e \in events[c]
     /\ CanCtl(c.fd, FALSE)
     /\ EpollCtl(c.fd, c, events[c] \ {e})
     /\ Trigger(c, {e})
     /\ Return(u)
     /\ UNCHANGED <<tableVars, adds, found, aborted>>

CancelAllLocked(u) ==
  LET c == op[u].ctx
  IN /\ ~ aborted
     /\ pc[u] = "lock" /\ op[u].do = "CancelAll"
     /\ events[c] # {}
     /\ CanCtl(c.fd, FALSE)
     /\ EpollCtl(c.fd, c, {})
     /\ Trigger(c, events[c])
     /\ Return(u)
     /\ UNCHANGED <<tableVars, adds, found, aborted>>

\* The operation returns false or -1: there is nothing to withdraw, or
\* epoll_ctl has failed.
Refuse(u) ==
  LET c == op[u].ctx
      e == op[u].event
  IN /\ ~ aborted
     /\ pc[u] = "lock"
     /\ \/ op[u].do = "Add" /\ ~ CanCtl(c.fd, events[c] = {})
        \/ op[u].do \in {"Del", "Cancel"} /\ e \notin events[c]
        \/ op[u].do = "CancelAll" /\ events[c] = {}
        \/ op[u].do # "Add" /\ ~ CanCtl(c.fd, FALSE)
     /\ Return(u)
     /\ UNCHANGED <<tableVars, events, pending, tasks, adds, found, kernelVars,
                    aborted>>

------------------------------------------------------------------------------
(* Idle *)

\* What epoll_wait returns: the descriptors of the ready list that still are
\* ready.  EPOLLHUP and EPOLLERR are reported whether they are watched or not.
Reported(fd) == ready[fd] \cap (interest[fd] \cup {"HUP"})

EpollWait(i) ==
  /\ ~ aborted
  /\ found[i] = {}
  /\ queued # {}
  /\ found' = [found EXCEPT ![i] =
       {[ctx |-> owner[fd], events |-> Reported(fd)] :
          fd \in {f \in queued : Reported(f) # {}}}]
  /\ queued' = {}
  /\ UNCHANGED <<tableVars, events, pending, tasks, adds, userVars, interest,
                 owner, ready, aborted>>

\* Mutant: a hang-up stands for nothing.
RealEventsWithoutHup(r) == r.events \ {"HUP"}

\* A hang-up stands for all events that are registered now.
RealEvents(r) ==
  IF "HUP" \in r.events THEN (r.events \ {"HUP"}) \cup events[r.ctx]
                        ELSE r.events

\* One round of the loop over what epoll_wait returned.  An entry is passed over
\* if none of its events is registered any more; otherwise TriggerEvent asserts
\* that each of them is.
Handled(r) == events[r.ctx] \cap RealEvents(r) # {} /\ CanCtl(r.ctx.fd, FALSE)

\* Mutant: the events are watched again, but not triggered.
HandleEventRearms(i) ==
  \E r \in found[i] :
    /\ ~ aborted
    /\ Handled(r)
    /\ RealEvents(r) \subseteq events[r.ctx]
    /\ EpollCtl(r.ctx.fd, r.ctx, events[r.ctx])
    /\ found' = [found EXCEPT ![i] = @ \ {r}]
    /\ UNCHANGED <<tableVars, events, pending, tasks, adds, userVars, aborted>>

HandleEvent(i) ==
  \E r \in found[i] :
    LET real == RealEvents(r)
    IN /\ ~ aborted
       /\ Handled(r)
       /\ real \subseteq events[r.ctx]
       /\ EpollCtl(r.ctx.fd, r.ctx, events[r.ctx] \ real)
       /\ Trigger(r.ctx, real)
       /\ found' = [found EXCEPT ![i] = @ \ {r}]
       /\ UNCHANGED <<tableVars, adds, userVars, aborted>>

AssertTrigger(i) ==
  /\ ~ aborted
  /\ \E r \in found[i] : Handled(r) /\ ~ RealEvents(r) \subseteq events[r.ctx]
  /\ aborted' = TRUE
  /\ UNCHANGED <<tableVars, events, pending, tasks, adds, userVars, found,
                 kernelVars>>

SkipEvent(i) ==
  /\ ~ aborted
  /\ \E r \in found[i] :
       ~ Handled(r) /\ found' = [found EXCEPT ![i] = @ \ {r}]
  /\ UNCHANGED <<tableVars, events, pending, tasks, adds, userVars, kernelVars,
                 aborted>>

\* The scheduler runs a callback, which may use up what its descriptor offers.
RunTask(fd, e) ==
  /\ ~ aborted
  /\ tasks[<<fd, e>>] > 0
  /\ tasks' = [tasks EXCEPT ![<<fd, e>>] = @ - 1]
  /\ \E used \in SUBSET {e} :
       ready' = [ready EXCEPT ![fd] = @ \ used]
  /\ UNCHANGED <<tableVars, events, pending, adds, userVars, found, interest,
                 owner, queued, aborted>>

------------------------------------------------------------------------------

UserStep(u) ==
  \/ Resize(u)
  \/ AddLocked(u) \/ DelLocked(u) \/ CancelLocked(u) \/ CancelAllLocked(u)
  \/ Refuse(u)

Begin(u) ==
  \E fd \in Fds, e \in Used :
    \/ AddEvent(u, fd, e)
    \/ \E do \in {"Del", "Cancel", "CancelAll"} : Withdraw(u, do, fd, e)

IdleStep(i) ==
  EpollWait(i) \/ HandleEvent(i) \/ AssertTrigger(i) \/ SkipEvent(i)

\* A failed assertion ends the process.
Aborted == aborted /\ UNCHANGED vars

Next ==
  \/ \E u \in Users : Begin(u) \/ UserStep(u)
  \/ \E i \in Idlers : IdleStep(i)
  \/ \E fd \in Fds, e \in Conditions : Ready(fd, e)
  \/ \E fd \in Fds, e \in Used : RunTask(fd, e)
  \/ Aborted

Spec == Init /\ [][Next]_vars

\* Threads that can run do run.  The descriptors owe nothing to anybody.
FairSpec ==
  /\ Spec
  /\ \A u \in Users : WF_vars(UserStep(u))
  /\ \A i \in Idlers : WF_vars(IdleStep(i))

------------------------------------------------------------------------------
(* Properties *)

\* The variables have their types.
TypeOK ==
  /\ size \in Nat
  /\ made \in [Fds -> 0..MaxContexts]
  /\ events \in [FdContext -> SUBSET Event]
  /\ pending \in Nat
  /\ tasks \in [Fds \X Event -> Nat]
  /\ adds \in [Fds \X Event -> 0..MaxAdds]
  /\ op \in [Users -> Op]
  /\ pc \in [Users -> {"ready", "resize", "lock"}]
  /\ found \in [Idlers -> SUBSET [ctx : FdContext,
                                  events : SUBSET (Event \cup {"HUP"})]]
  /\ interest \in [Fds -> SUBSET Event]
  /\ owner \in [Fds -> FdContext \cup {Nowhere}]
  /\ ready \in [Fds -> SUBSET (Event \cup {"HUP"})]
  /\ queued \subseteq Fds
  /\ aborted \in BOOLEAN

\* The number IOManager::Stopping goes by is the number of registered events,
\* whoever registers, triggers or withdraws them.
PendingExact ==
  pending = Cardinality({w \in FdContext \X Event : w[2] \in events[w[1]]})

\* The kernel watches what the contexts say, and answers with the context that
\* says so.
EpollMirrors ==
  \A fd \in Fds :
    /\ interest[fd] = {e \in Event : Registered(fd, e)}
    /\ \A c \in FdContext : c.fd = fd /\ events[c] # {} => owner[fd] = c

\* The callback of one AddEvent goes to the task list at most once, however
\* CancelEvent, CancelAll and the threads in Idle compete for it.
WokenOnce ==
  \A fd \in Fds, e \in Event :
    tasks[<<fd, e>>] <= 1 /\ (tasks[<<fd, e>>] = 1 => ~ Registered(fd, e))

\* The descriptor of a registered event that is ready is on the ready list, or
\* with an idle thread that is about to handle that event: no edge is lost when
\* a context changes while an epoll_wait result for it is being worked through.
NoEdgeLost ==
  \A c \in FdContext : \A e \in events[c] :
    ready[c.fd] \cap {e, "HUP"} # {} =>
      \/ aborted
      \/ c.fd \in queued
      \/ \E i \in Idlers : \E r \in found[i] :
           r.ctx = c /\ r.events \cap {e, "HUP"} # {}

\* A registered event that stays ready is triggered.
ReadyIsTriggered ==
  \A fd \in Fds, e \in Event :
    Registered(fd, e) /\ e \in ready[fd] ~>
      aborted \/ ~ Registered(fd, e) \/ e \notin ready[fd]

\* "An event that is triggered must have been registered" (iomanager.cc:85).
TriggerAssertion == ~ aborted

\* A registered event is within reach of CancelEvent, which "triggers the
\* callback once if the event was registered" (iomanager.h:125).
CancelReaches ==
  \A c \in FdContext :
    events[c] # {} => c.fd < size /\ c = Context(c.fd)
==============================================================================
