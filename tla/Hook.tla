-------------------------------- MODULE Hook ---------------------------------
(***************************************************************************)
(* The hooked system calls: serverframework/net/hook.cc on top of the      *)
(* descriptor table and of an IOManager with as many threads as it takes   *)
(* to let all users run at the same time.                                  *)
(*                                                                         *)
(* A user is a fiber on a thread with t_hook_enable, or a plain thread.    *)
(* A hooked call on a managed socket never blocks the thread: it tries,    *)
(* and on EAGAIN arms a timer for the timeout, registers for the event,    *)
(* yields, and tries again when it is resumed.  The steps between which    *)
(* another thread may come are separate actions.                           *)
(*                                                                         *)
(* Kernel objects have a generation: close and socket may give the same    *)
(* number to another object.  The event table is what IOEvents promises:   *)
(* AddEvent fails on a closed descriptor, an event is reported when it is  *)
(* ready, and CancelEvent and CancelAll only reach an event whose          *)
(* descriptor is still in the epoll set.  A timer fires when it likes.     *)
(***************************************************************************)
EXTENDS FdManager, Functions

CONSTANTS
  Users,     \* fibers and plain threads that make calls
  NoUser,    \* nobody
  Io,        \* the events for which do_io is called
  Timed,     \* tcp.connect.timeout is not -1
  MaxCalls,  \* bound on the calls of all users together
  MaxGen     \* bound on the kernel objects

ASSUME IoAssumption == Io \subseteq Event
ASSUME UsersAssumption == NoUser \notin Users
ASSUME BoundsAssumption == Timed \in BOOLEAN /\ MaxCalls \in Nat /\ MaxGen \in Nat \ {0}

VARIABLES
  hooked,  \* the users with t_hook_enable
  kernel,  \* the object behind each descriptor
  last,    \* generation of the newest object
  op,      \* the call each user is in
  wake,    \* who scheduled a user that yielded: "no", "event", "cancel"
  event,   \* the registrations of the event table
  timers,  \* armed timers, and timer callbacks that are under way
  late,    \* users whose registration came after the call that would undo it
  tainted  \* descriptors that were changed behind the manager's back

vars == <<hooked, datas, size, kernel, last, op, wake, event, timers, late, tainted>>

\* read, readv, recv, recvfrom, recvmsg and accept are do_io for READ, write,
\* writev, send, sendto and sendmsg do_io for WRITE; connect waits for WRITE.
EventOf(kind) == IF kind = "connect" THEN "WRITE" ELSE kind
Waiting == Event \cup {"connect"}

Labels ==
  { "idle",    \* in no call
    "try",     \* do_io at retry, connect_with_timeout at connect_f
    "add",     \* before AddEvent
    "wait",    \* yielded
    "sockerr", \* connect_with_timeout before getsockopt(SO_ERROR)
    "get",     \* socket, accept: before Get(fd, true)
    "insert",  \* between the two halves of Get
    "del",     \* close: between CancelAll and Del
    "close" }  \* close: before close_f

\* to: the call has a timeout; cancelled: tinfo->cancelled; fired: a timer of
\* the call has expired; by: who woke it; call: its number.
NoOp == [pc |-> "idle", kind |-> "none", fd |-> 0, gen |-> 0, to |-> FALSE,
         cancelled |-> FALSE, fired |-> FALSE, by |-> "no", call |-> 0]

Closed == [open |-> FALSE, gen |-> 0, nonblock |-> FALSE, managed |-> FALSE,
           conn |-> "no", ready |-> [e \in Event |-> FALSE]]

\* A descriptor that was opened through the hooks before the users start.
First == CHOOSE fd \in Fds : \A x \in Fds : fd <= x

NoEvent == [user |-> NoUser, gen |-> 0]

Init ==
  /\ \E to \in BOOLEAN :
       datas = [fd \in Fds |->
         IF fd = First THEN [FdCtx(1, TRUE) EXCEPT !.timeout["READ"] = to]
                       ELSE NoCtx]
  /\ size = IF First >= InitialSize THEN Resized(First) ELSE InitialSize
  /\ kernel = [fd \in Fds |->
       IF fd = First THEN [Closed EXCEPT !.open = TRUE, !.gen = 1,
                                         !.nonblock = TRUE, !.managed = TRUE]
                     ELSE Closed]
  /\ last = 1
  /\ hooked = Users
  /\ op = [u \in Users |-> NoOp]
  /\ wake = [u \in Users |-> "no"]
  /\ event = [x \in Fds \X Event |-> NoEvent]
  /\ timers = {}
  /\ late = {}
  /\ tainted = {}

\* The descriptor was returned by socket or accept, and is not closed.
Usable(fd) ==
  /\ kernel[fd].open
  /\ \A v \in Users : op[v].fd = fd => op[v].pc \notin {"get", "insert"}

\* u may make another call.
MayCall(u) ==
  /\ op[u].pc = "idle"
  /\ FoldFunction(+, 0, [v \in Users |-> op[v].call]) < MaxCalls

\* u enters a call of the given kind on fd.
Enter(u, kind, fd, pc, to) ==
  /\ MayCall(u)
  /\ op' = [op EXCEPT ![u] =
              [pc |-> pc, kind |-> kind, fd |-> fd, gen |-> kernel[fd].gen,
               to |-> to, cancelled |-> FALSE, fired |-> FALSE, by |-> "no",
               call |-> @.call + 1]]

\* A call that does not wait.
Passing(u) ==
  /\ MayCall(u)
  /\ op' = [op EXCEPT ![u].call = @ + 1]

Goto(u, pc) == op' = [op EXCEPT ![u].pc = pc]

\* The call ends; the frame and tinfo are gone.
Return(u) == op' = [op EXCEPT ![u] = [NoOp EXCEPT !.call = op[u].call]]

------------------------------------------------------------------------------
(* The event table and the timers, as far as the hooks see them. *)

\* The registration is in the epoll set.
Watched(fd, e) ==
  /\ event[<<fd, e>>].user # NoUser
  /\ kernel[fd].open
  /\ event[<<fd, e>>].gen = kernel[fd].gen

\* Mutant: TriggerEvent that leaves the event registered.
TriggeredKeeps(S, why) ==
  /\ UNCHANGED event
  /\ wake' = [u \in Users |->
                IF \E x \in S : event[x].user = u THEN why ELSE wake[u]]

\* The events in S are triggered: their fibers are scheduled.
Triggered(S, why) ==
  /\ event' = [x \in DOMAIN event |-> IF x \in S THEN NoEvent ELSE event[x]]
  /\ wake' = [u \in Users |->
                IF \E x \in S : event[x].user = u THEN why ELSE wake[u]]

\* IOManager::Idle reports an event.
Report(fd, e) ==
  /\ Watched(fd, e)
  /\ kernel[fd].ready[e]
  /\ Triggered({<<fd, e>>}, "event")
  /\ UNCHANGED <<hooked, datas, size, kernel, last, op, timers, late, tainted>>

\* IOManager::CancelEvent and CancelAll
CancelEvent(fd, e) ==
  Triggered(IF Watched(fd, e) THEN {<<fd, e>>} ELSE {}, "cancel")

CancelAll(fd) ==
  Triggered({x \in {fd} \X Event : Watched(fd, x[2])}, "cancel")

\* t belongs to the call that u is in.
CallOf(t, u) == t.user = u /\ t.call = op[u].call

\* The timer is taken out of the set and its callback is scheduled.
Fire(t) ==
  /\ t.phase = "armed"
  /\ timers' = (timers \ {t}) \cup {[t EXCEPT !.phase = "due"]}
  /\ op' = [op EXCEPT ![t.user].fired = @ \/ CallOf(t, t.user)]
  /\ UNCHANGED <<hooked, datas, size, kernel, last, wake, event, late, tainted>>

\* Mutant: one timer_info for all calls of a fiber.
SharedTinfo(t) == op[t.user].kind \in Waiting

\* tinfo of the call still exists: it goes when do_io or connect_with_timeout
\* returns, before accept makes the context of what it got.
CallAlive(t) == CallOf(t, t.user) /\ op[t.user].kind \in Waiting

\* The callback of the timeout up to t->cancelled = ETIMEDOUT: it locks the
\* weak pointer, and does nothing for a call that has ended or is cancelled.
TimeoutCallback(t) ==
  /\ t.phase = "due" /\ ~t.sleep
  /\ IF CallAlive(t) /\ ~op[t.user].cancelled
     THEN /\ op' = [op EXCEPT ![t.user].cancelled = TRUE]
          /\ timers' = (timers \ {t}) \cup {[t EXCEPT !.phase = "cancel"]}
     ELSE /\ timers' = timers \ {t}
          /\ UNCHANGED op
  /\ UNCHANGED <<hooked, datas, size, kernel, last, wake, event, late, tainted>>

\* Mutant: the callback only sets cancelled.
TimeoutForgetsEvent(t) ==
  /\ t.phase = "cancel"
  /\ timers' = timers \ {t}
  /\ UNCHANGED <<hooked, datas, size, kernel, last, op, wake, event, late,
                 tainted>>

\* The rest of it: CancelEvent.
TimeoutCancel(t) ==
  /\ t.phase = "cancel"
  /\ timers' = timers \ {t}
  /\ CancelEvent(t.fd, t.e)
  /\ UNCHANGED <<hooked, datas, size, kernel, last, op, late, tainted>>

\* The callback of sleep: Schedule(fiber).
SleepCallback(t) ==
  /\ t.phase = "due" /\ t.sleep
  /\ timers' = timers \ {t}
  /\ wake' = [wake EXCEPT ![t.user] = "event"]
  /\ UNCHANGED <<hooked, datas, size, kernel, last, op, event, late, tainted>>

------------------------------------------------------------------------------
(* The system calls themselves *)

Fd(u) == op[u].fd
Ev(u) == EventOf(op[u].kind)

Opened(managed) ==
  [Closed EXCEPT !.open = TRUE, !.gen = last + 1, !.managed = managed]

\* The kernel gives out the lowest free number.
NextFree(fd) == ~kernel[fd].open /\ \A x \in Fds : x < fd => kernel[x].open

\* u has got descriptor fd from the kernel in call c; Get(fd, true) is next.
Creates(u, fd, c) ==
  op' = [op EXCEPT ![u] = [NoOp EXCEPT !.pc = "get", !.kind = "socket",
                             !.fd = fd, !.gen = last + 1, !.call = c]]

\* The system call is done: data or room was there, or connect succeeded while
\* the caller waited in the kernel, or at once.
Done(fd, kind) ==
  /\ kernel[fd].open
  /\ \/ /\ kind \in Event
        /\ kernel[fd].ready[kind]
        /\ kernel' = [kernel EXCEPT ![fd].ready[kind] = FALSE]
     \/ /\ kind = "connect"
        /\ kernel[fd].conn = "no"
        /\ kernel' = [kernel EXCEPT ![fd].conn = "yes"]
  /\ UNCHANGED last

\* A closed descriptor, an error of the connection, no descriptor left.
SysError == UNCHANGED <<kernel, last>>

\* The system call is an accept that finds a connection.
Accepted(u, fd, kind, c) ==
  /\ kind = "READ"
  /\ kernel[fd].open /\ kernel[fd].ready["READ"]
  /\ last < MaxGen
  /\ \E new \in Fds :
       /\ NextFree(new)
       /\ kernel' = [kernel EXCEPT ![fd].ready["READ"] = FALSE,
                                   ![new] = Opened(TRUE)]
       /\ Creates(u, new, c)
  /\ last' = last + 1

\* EAGAIN or EINPROGRESS: the object is non-blocking and not ready.
WouldBlock(fd, kind) ==
  /\ kernel[fd].open /\ kernel[fd].nonblock
  /\ \/ /\ kind \in Event
        /\ ~kernel[fd].ready[kind]
        /\ UNCHANGED kernel
     \/ /\ kind = "connect"
        /\ kernel[fd].conn = "no"
        /\ kernel' = [kernel EXCEPT ![fd].conn = "pending",
                                    ![fd].ready["WRITE"] = FALSE]
  /\ UNCHANGED last

------------------------------------------------------------------------------
(* do_io and connect_with_timeout *)

\* The hook leaves the call alone.
Passes(u, fd) ==
  \/ u \notin hooked
  \/ Get(fd).gen = 0
  \/ ~Get(fd).is_socket
  \/ Get(fd).user_nonblock

\* The system call without the hook.  A hooked connect on a descriptor without
\* a context is EBADF.
Direct(u, fd, kind) ==
  /\ Usable(fd)
  /\ Passes(u, fd)
  /\ kind = "connect" /\ u \in hooked => Get(fd).gen # 0
  /\ \/ (Done(fd, kind) \/ SysError \/ WouldBlock(fd, kind)) /\ Passing(u)
     \/ MayCall(u) /\ Accepted(u, fd, kind, op[u].call + 1)
  /\ UNCHANGED <<hooked, datas, size, wake, event, timers, late, tainted>>

\* No two users wait for the same event of a socket: AddEvent asserts it.
OwnEvent(u, kind, fd) ==
  \A v \in Users \ {u} :
    op[v].fd = fd /\ op[v].gen = kernel[fd].gen /\ op[v].kind \in Waiting =>
      Ev(v) # EventOf(kind)

\* do_io up to retry.
DoIo(u, e, fd) ==
  /\ Usable(fd)
  /\ OwnEvent(u, e, fd)
  /\ ~Passes(u, fd)
  /\ Enter(u, e, fd, "try", GetTimeout(Get(fd), e))
  /\ UNCHANGED <<hooked, datas, size, kernel, last, wake, event, timers, late,
                 tainted>>

\* connect_with_timeout up to connect_f.
ConnectWithTimeout(u, fd) ==
  /\ Usable(fd)
  /\ OwnEvent(u, "connect", fd)
  /\ ~Passes(u, fd)
  /\ Enter(u, "connect", fd, "try", Timed)
  /\ UNCHANGED <<hooked, datas, size, kernel, last, wake, event, timers, late,
                 tainted>>

\* The condition timer of the call.
Timeout(u) ==
  [user |-> u, call |-> op[u].call, fd |-> Fd(u), e |-> Ev(u),
   sleep |-> FALSE, phase |-> "armed"]

\* The system call at retry, or connect_f: it answers, or would block; then a
\* call with a timeout calls AddConditionTimer.
Try(u) ==
  /\ op[u].pc = "try"
  /\ \/ /\ \/ Done(Fd(u), op[u].kind) \/ SysError
        /\ Return(u)
        /\ UNCHANGED timers
     \/ /\ Accepted(u, Fd(u), op[u].kind, op[u].call)
        /\ UNCHANGED timers
     \/ /\ WouldBlock(Fd(u), op[u].kind)
        /\ Goto(u, "add")
        /\ timers' = IF op[u].to THEN timers \cup {Timeout(u)} ELSE timers
  /\ UNCHANGED <<hooked, datas, size, wake, event, late, tainted>>

\* timer->Cancel(): a callback that is under way goes on.
CancelTimer(u) ==
  timers' = timers \ {t \in timers : CallOf(t, u) /\ t.phase = "armed"}

\* The table has an event of fd that is not in the epoll set.
Missed(fd) == \E e \in Event : event[<<fd, e>>].user # NoUser /\ ~Watched(fd, e)

\* epoll_ctl refuses a closed descriptor, and EPOLL_CTL_MOD, which AddEvent
\* uses when its table knows an event of fd, one that is not in the set.
AddEventFails(u) == ~kernel[Fd(u)].open \/ Missed(Fd(u))

\* Some user is between CancelAll and close_f on fd.
Closing(fd) == \E v \in Users : op[v].fd = fd /\ op[v].pc \in {"del", "close"}

\* u registers too late: close has already called CancelAll, or the callback
\* of the timeout CancelEvent.
TooLate(u) ==
  \/ Closing(Fd(u))
  \/ /\ op[u].cancelled
     /\ \A t \in timers : ~(CallOf(t, u) /\ t.phase = "cancel")

\* AddEvent and Yield
Add(u) ==
  /\ op[u].pc = "add"
  /\ ~AddEventFails(u)
  /\ event[<<Fd(u), Ev(u)>>].user = NoUser
  /\ Goto(u, "wait")
  /\ event' = [event EXCEPT ![<<Fd(u), Ev(u)>>] =
                 [user |-> u, gen |-> kernel[Fd(u)].gen]]
  /\ late' = IF TooLate(u) THEN late \cup {u} ELSE late
  /\ UNCHANGED <<hooked, datas, size, kernel, last, wake, timers, tainted>>

\* AddEvent fails: do_io gives up, connect asks for SO_ERROR all the same.
AddFails(u) ==
  /\ op[u].pc = "add"
  /\ AddEventFails(u)
  /\ event[<<Fd(u), Ev(u)>>].user = NoUser
  /\ CancelTimer(u)
  /\ IF op[u].kind = "connect" THEN Goto(u, "sockerr")
                               ELSE Return(u)
  /\ UNCHANGED <<hooked, datas, size, kernel, last, wake, event, late, tainted>>

\* What a resumed call does: ETIMEDOUT if the callback cancelled it, else the
\* call again, or for connect the error of the socket.
Woken(o) ==
  IF o.cancelled \/ o.kind = "sleep" THEN [NoOp EXCEPT !.call = o.call]
  ELSE [o EXCEPT !.pc = IF o.kind = "connect" THEN "sockerr" ELSE "try"]

\* The fiber is resumed after Yield.
Resume(u) ==
  /\ op[u].pc = "wait" /\ wake[u] # "no"
  /\ CancelTimer(u)
  /\ op' = [op EXCEPT ![u] = Woken([@ EXCEPT !.by = wake[u]])]
  /\ wake' = [wake EXCEPT ![u] = "no"]
  /\ late' = late \ {u}
  /\ UNCHANGED <<hooked, datas, size, kernel, last, event, tainted>>

\* Mutant: the value of SO_ERROR is not looked at.
NoErrorUnread(fd) == kernel[fd].open

\* What getsockopt(SO_ERROR) says: a pending attempt has no error.
NoError(fd) == kernel[fd].open /\ kernel[fd].conn # "refused"

\* connect_with_timeout returns 0 or -1 after NoError.
SockErr(u) ==
  /\ op[u].pc = "sockerr"
  /\ Return(u)
  /\ UNCHANGED <<hooked, datas, size, kernel, last, wake, event, timers, late, tainted>>

------------------------------------------------------------------------------
(* The other hooked functions *)

\* SetHookEnable, on the thread of u
SetHookEnable(u, flag) ==
  /\ Passing(u)
  /\ hooked' = IF flag THEN hooked \cup {u} ELSE hooked \ {u}
  /\ UNCHANGED <<datas, size, kernel, last, wake, event, timers, late, tainted>>

\* sleep, usleep, nanosleep: AddTimer and Yield.
Sleep(u) ==
  /\ u \in hooked
  /\ MayCall(u)
  /\ op' = [op EXCEPT ![u] = [NoOp EXCEPT !.pc = "wait", !.kind = "sleep",
                              !.call = op[u].call + 1]]
  /\ timers' = timers \cup {[user |-> u, call |-> op[u].call + 1, fd |-> 0,
                             e |-> "READ", sleep |-> TRUE, phase |-> "armed"]}
  /\ UNCHANGED <<hooked, datas, size, kernel, last, wake, event, late, tainted>>

\* socket; unhooked, it knows nothing of the manager.
Socket(u, fd) ==
  /\ NextFree(fd)
  /\ last < MaxGen
  /\ kernel' = [kernel EXCEPT ![fd] = Opened(u \in hooked)]
  /\ last' = last + 1
  /\ IF u \in hooked THEN MayCall(u) /\ Creates(u, fd, op[u].call + 1)
                     ELSE Passing(u)
  /\ UNCHANGED <<hooked, datas, size, wake, event, timers, late, tainted>>

\* Get(fd, true) under the read lock.
GetLookup(u) ==
  /\ op[u].pc = "get"
  /\ IF Get(Fd(u)).gen = 0 THEN Goto(u, "insert")
                           ELSE Return(u)
  /\ UNCHANGED <<hooked, datas, size, kernel, last, wake, event, timers, late, tainted>>

\* Get(fd, true) under the write lock; FdCtx::Init makes the socket
\* non-blocking.
GetCreate(u) ==
  /\ op[u].pc = "insert"
  /\ Return(u)
  /\ GetInsert(Fd(u), FdCtx(kernel[Fd(u)].gen, kernel[Fd(u)].open))
  /\ kernel' = [kernel EXCEPT ![Fd(u)].nonblock = @ \/ kernel[Fd(u)].open]
  /\ UNCHANGED <<hooked, last, wake, event, timers, late, tainted>>

\* Mutant: close without CancelAll.
CloseKeepsEvents(u, fd) ==
  /\ Usable(fd)
  /\ ~Closing(fd)
  /\ Enter(u, "close", fd, IF u \in hooked THEN "del" ELSE "close", FALSE)
  /\ UNCHANGED <<event, wake>>
  /\ tainted' = IF u \notin hooked THEN tainted \cup {fd} ELSE tainted
  /\ UNCHANGED <<hooked, datas, size, kernel, last, timers, late>>

\* close up to CancelAll, when there is a context.
Close(u, fd) ==
  /\ Usable(fd)
  /\ ~Closing(fd)
  /\ IF u \in hooked /\ Get(fd).gen # 0
     THEN /\ Enter(u, "close", fd, "del", FALSE)
          /\ CancelAll(fd)
     ELSE /\ Enter(u, "close", fd, "close", FALSE)
          /\ UNCHANGED <<event, wake>>
  /\ tainted' = IF u \notin hooked /\ Get(fd).gen # 0 THEN tainted \cup {fd} ELSE tainted
  /\ UNCHANGED <<hooked, datas, size, kernel, last, timers, late>>

\* FdMgr::Del
CloseDel(u) ==
  /\ op[u].pc = "del"
  /\ Goto(u, "close")
  /\ Del(Fd(u))
  /\ UNCHANGED <<hooked, kernel, last, wake, event, timers, late, tainted>>

\* close_f: the kernel forgets the object and its entry in the epoll set.
CloseSys(u) ==
  /\ op[u].pc = "close"
  /\ Return(u)
  /\ kernel' = [kernel EXCEPT ![Fd(u)] = Closed]
  /\ UNCHANGED <<hooked, datas, size, last, wake, event, timers, late, tainted>>

\* setsockopt(SO_RCVTIMEO or SO_SNDTIMEO)
SetSockOpt(u, fd, e) ==
  /\ u \in hooked
  /\ Usable(fd) /\ Get(fd).gen # 0
  /\ Passing(u)
  /\ datas' = [datas EXCEPT ![fd] = SetTimeout(@, e, TRUE)]
  /\ UNCHANGED <<hooked, size, kernel, last, wake, event, timers, late, tainted>>

\* Mutant: fcntl passes the user's flags to the kernel.
FcntlPasses(u, fd, b) ==
  /\ Usable(fd)
  /\ Passing(u)
  /\ datas' = [datas EXCEPT ![fd].user_nonblock = b]
  /\ kernel' = [kernel EXCEPT ![fd].nonblock = b]
  /\ UNCHANGED <<hooked, size, last, wake, event, timers, late, tainted>>

\* fcntl(F_SETFL): the kernel's flag stays what the manager made it.
FcntlSetFl(u, fd, b) ==
  /\ Usable(fd)
  /\ Passing(u)
  /\ LET managed == Get(fd).gen # 0 /\ Get(fd).is_socket
     IN /\ datas' = IF managed THEN [datas EXCEPT ![fd].user_nonblock = b]
                               ELSE datas
        /\ kernel' = [kernel EXCEPT ![fd].nonblock =
                        IF managed THEN Get(fd).sys_nonblock ELSE b]
        /\ tainted' = IF kernel[fd].managed /\ ~managed THEN tainted \cup {fd}
                                                       ELSE tainted
  /\ UNCHANGED <<hooked, size, last, wake, event, timers, late>>

\* ioctl(FIONBIO): the argument is also passed on to the kernel.
Ioctl(u, fd, b) ==
  /\ Usable(fd)
  /\ Passing(u)
  /\ datas' = IF Get(fd).gen # 0 /\ Get(fd).is_socket
              THEN [datas EXCEPT ![fd].user_nonblock = b] ELSE datas
  /\ kernel' = [kernel EXCEPT ![fd].nonblock = b]
  /\ tainted' = IF b THEN tainted ELSE tainted \cup {fd}
  /\ UNCHANGED <<hooked, size, last, wake, event, timers, late>>

------------------------------------------------------------------------------
(* The network *)

\* Data, room or a connection arrives.
Arrive(fd, e) ==
  /\ kernel[fd].open /\ ~kernel[fd].ready[e] /\ kernel[fd].conn # "pending"
  /\ kernel' = [kernel EXCEPT ![fd].ready[e] = TRUE]
  /\ UNCHANGED <<hooked, datas, size, last, op, wake, event, timers, late, tainted>>

\* A pending connect ends.
Answer(fd, r) ==
  /\ kernel[fd].conn = "pending"
  /\ kernel' = [kernel EXCEPT ![fd].conn = r, ![fd].ready["WRITE"] = TRUE]
  /\ UNCHANGED <<hooked, datas, size, last, op, wake, event, timers, late, tainted>>

Call(u) ==
  \/ \E fd \in Fds :
       \/ \E e \in Io : DoIo(u, e, fd) \/ SetSockOpt(u, fd, e)
       \/ \E kind \in Io \cup {"connect"} : Direct(u, fd, kind)
       \/ ConnectWithTimeout(u, fd)
       \/ Socket(u, fd)
       \/ Close(u, fd)
       \/ \E b \in BOOLEAN : FcntlSetFl(u, fd, b)
       \/ \E b \in BOOLEAN : Ioctl(u, fd, b)
  \/ Sleep(u)
  \/ \E flag \in BOOLEAN : SetHookEnable(u, flag)

Step(u) ==
  \/ Try(u) \/ Add(u) \/ AddFails(u) \/ Resume(u)
  \/ SockErr(u) \/ GetLookup(u) \/ GetCreate(u) \/ CloseDel(u) \/ CloseSys(u)

\* The timers of u and their callbacks go on.
Clock(u) ==
  \E t \in {t \in timers : t.user = u} :
    Fire(t) \/ TimeoutCallback(t) \/ TimeoutCancel(t) \/ SleepCallback(t)

Next ==
  \/ \E u \in Users : Call(u) \/ Step(u) \/ Clock(u)
  \/ \E fd \in Fds, e \in Event : Report(fd, e)
  \/ \E fd \in Fds, e \in Io : Arrive(fd, e)
  \/ \E fd \in Fds, r \in {"yes", "refused"} : Answer(fd, r)

Spec == Init /\ [][Next]_vars

\* The threads run what is runnable, the idle fiber reports what is ready, and
\* timers expire and their callbacks run.
Fairness ==
  /\ \A u \in Users : WF_vars(Step(u)) /\ WF_vars(Clock(u))
  /\ \A fd \in Fds, e \in Event : WF_vars(Report(fd, e))

FairSpec == Spec /\ Fairness
------------------------------------------------------------------------------
(* Properties *)

Kinds == Waiting \cup {"none", "sleep", "socket", "close"}

FdCtxs == [gen : 0..MaxGen, is_socket : BOOLEAN, sys_nonblock : BOOLEAN,
           user_nonblock : BOOLEAN, timeout : [Event -> BOOLEAN]]

KernelObjects == [open : BOOLEAN, gen : 0..MaxGen, nonblock : BOOLEAN, managed : BOOLEAN,
                  ready : [Event -> BOOLEAN], conn : {"no", "pending", "yes", "refused"}]

Calls == [pc : Labels, kind : Kinds, fd : Fds \cup {0}, gen : 0..MaxGen, to : BOOLEAN,
          cancelled : BOOLEAN, fired : BOOLEAN, by : {"no", "event", "cancel"}, call : Nat]

EventContexts == [user : Users \cup {NoUser}, gen : 0..MaxGen]

Timers == [user : Users, call : Nat, fd : Fds \cup {0}, e : Event, sleep : BOOLEAN,
           phase : {"armed", "due", "cancel"}]

TypeOK ==
  /\ datas \in [Fds -> FdCtxs]
  /\ size \in Nat
  /\ kernel \in [Fds -> KernelObjects]
  /\ last \in 0..MaxGen
  /\ op \in [Users -> Calls]
  /\ wake \in [Users -> {"no", "event", "cancel"}]
  /\ event \in [Fds \X Event -> EventContexts]
  /\ timers \subseteq Timers
  /\ late \subseteq Users /\ hooked \subseteq Users
  /\ tainted \subseteq Fds

\* u is in a call on a descriptor number that was closed since it entered.
Reused(u) == kernel[Fd(u)].gen # op[u].gen

\* Outside socket, accept and close, the context of a descriptor is that of the
\* object behind it, and each socket made through the hooks has one, although
\* Get gives up its lock between looking up and inserting, and close deletes
\* the context before the number is free.  Only a close by a thread without
\* the hook leaves a context of a dead object behind.  The table always has a
\* slot for a context, although fd * 1.5 makes room for fd itself only just.
ContextMatches ==
  /\ TypeOK
  /\ \A fd \in Fds : datas[fd].gen # 0 => fd < size
  /\ \A fd \in Fds \ tainted :
    \/ \E u \in Users : Fd(u) = fd /\ op[u].pc \in {"get", "insert", "del", "close"}
    \/ datas[fd].gen = IF kernel[fd].managed THEN kernel[fd].gen ELSE 0

\* A system call made by do_io or connect_with_timeout that finds nothing to do
\* returns EAGAIN, it does not block the thread and all its fibers; except where
\* ioctl(FIONBIO, 0) or a close behind the hook's back, or the reuse of the
\* number under a call in progress, has put a blocking object there.
NeverBlocks ==
  \A u \in Users :
    op[u].pc = "try" /\ kernel[Fd(u)].open =>
      kernel[Fd(u)].nonblock \/ Fd(u) \in tainted \/ Reused(u)

\* ETIMEDOUT is only returned by a call whose own timer has expired, not by one
\* that a callback left over from an earlier call of the fiber has reached.
TimeoutIsOwn ==
  [][\A u \in Users :
       op[u].pc = "wait" /\ op'[u].pc = "idle" /\ op[u].kind # "sleep" =>
         op[u].fired]_vars

\* connect returns 0 for a connection that exists, unless a CancelAll, or the
\* timeout of another call on the descriptor, woke it, or a registration that a
\* close has missed made AddEvent fail, and is still there: SO_ERROR of a pending
\* attempt is 0 as well.
ConnectMeansConnected ==
  [][\A u \in Users :
       op[u].pc = "sockerr" /\ op'[u].pc = "idle" /\ NoError(Fd(u)) =>
         \/ kernel[Fd(u)].conn = "yes"
         \/ op[u].by = "cancel" \/ Reused(u)
         \/ op[u].by = "no" /\ Missed(Fd(u))]_vars

InWait(u) == op[u].pc = "wait" /\ wake[u] = "no"

\* A close or a timeout may miss the registration of u: it came after that close
\* or timeout, or was for an object that a thread without the hook closes, or
\* for another one than u entered its call for.
Missable(u) ==
  u \in late \/ Fd(u) \in tainted \/ event[<<Fd(u), Ev(u)>>].gen # op[u].gen

\* A fiber that has yielded in do_io can still be woken: its event is in the
\* table and in the epoll set, or a CancelAll of close has already scheduled it.
\* Only one that registers between that CancelAll and close_f is missed, or one
\* that registers for an object that took the number since it entered.  With
\* a timeout, or asleep, it also has a timer under way, unless its timeout was
\* already reported: timer->Cancel() after a wait never takes away the timer of
\* the next one.
WaiterReachable ==
  \A u \in Users :
    InWait(u) =>
      /\ op[u].kind # "sleep" =>
           /\ event[<<Fd(u), Ev(u)>>].user = u
           /\ Watched(Fd(u), Ev(u)) \/ Missable(u)
      /\ op[u].to \/ op[u].kind = "sleep" =>
           op[u].cancelled \/ \E t \in timers : CallOf(t, u)

\* AddEvent never finds its event already registered, which it asserts, unless
\* a fiber registered too late, or one of the two entered its call before the
\* number was closed and reused.
AddAssertion ==
  \A u \in Users :
    op[u].pc = "add" =>
      LET v == event[<<Fd(u), Ev(u)>>].user
      IN v = NoUser \/ v \in late \/ Fd(u) \in tainted
         \/ Reused(u) \/ event[<<Fd(u), Ev(u)>>].gen # op[v].gen

\* The ways in which a call with a timeout can be stuck for ever: the thread is
\* blocked (see NeverBlocks), the registration came after the CancelAll of close
\* or the CancelEvent of its own timeout, or for an object that took the number
\* since, or AddEvent aborts (see AddAssertion).
Stuck(u) ==
  \/ op[u].pc = "try" /\ ~kernel[Fd(u)].nonblock
  \/ InWait(u) /\ Missable(u)
  \/ op[u].pc = "add" /\ event[<<Fd(u), Ev(u)>>].user # NoUser

\* A call with a timeout returns, whatever the other users do to the descriptor
\* and in whatever order timers, events and cancellations come, unless it is
\* stuck in one of these ways.
CallReturns ==
  \A u \in Users :
    op[u].to ~> (~op[u].to \/ Stuck(u))
==============================================================================
