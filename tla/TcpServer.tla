------------------------------ MODULE TcpServer ------------------------------
(***************************************************************************)
(* TcpServer of serverframework/tcp/tcp_server.cc over Socket, and a       *)
(* thread that uses Sockets by itself.                                     *)
(*                                                                         *)
(* StartAccept and the task of Stop run as fibers of accept_worker, which  *)
(* has NThreads threads; HandleClient runs on io_worker.  accept is do_io  *)
(* of net/hook.cc, close the one of net/hook.cc, and waiter is what        *)
(* IOManager knows of the READ events: a fiber and the file it waits for.  *)
(***************************************************************************)
EXTENDS Socket, SequencesExt

CONSTANTS
  NThreads,
  RecvTimeout,   \* recv_timeout_
  MaxFibers,     \* bound on the fibers that the programs start
  Works          \* programs: see Init

NoFiber == [fib |-> 0, id |-> 0]

VARIABLES
  w,          \* the world of Socket
  ctx,        \* descriptors that FdManager has a context for
  waiter,     \* IOManager: who waits to read from a descriptor
  is_stop, socks,   \* TcpServer
  fib,        \* the fibers of accept_worker so far
  io,         \* clients given to io_worker
  calls,      \* what the program still has to do
  fails,      \* the vector that the program passes to bind
  left,       \* how often clients come, and addresses are taken or given back
  crash,      \* an assertion failed
  last,       \* the last call of the program and what became of it
  handed,     \* connections that were given to io_worker, with their timeouts
  hasty,      \* bind or Start came while fibers were alive, or Stop during another
  lost,       \* AddEvent fell between CancelAll and close_f
  blocking    \* files of a thread without hooks

svars == <<is_stop, socks, fib, io, crash, handed, hasty, lost, waiter, ctx, blocking>>
vars  == <<w, calls, fails, left, last, svars>>

Init ==
  \E work \in Works :
    /\ w = NewWorld(work.path, work.taken)
    /\ ctx = {} /\ waiter = [fd \in Fds |-> NoFiber]
    /\ is_stop = TRUE /\ socks = <<>> /\ fib = <<>> /\ io = {}
    /\ calls = work.calls /\ left = work.left
    /\ fails = {} /\ crash = FALSE
    /\ last = [op |-> "none", ret |-> TRUE, all |-> TRUE, obj |-> 0]
    /\ handed = <<>> /\ hasty = FALSE /\ lost = FALSE
    /\ blocking = {}

Use(what) == left[what] > 0 /\ left' = [left EXCEPT ![what] = @ - 1]

Fibers   == 1..Len(fib)
Alive    == {f \in Fibers : fib[f].on # "done"}
Running  == {f \in Fibers : fib[f].on = "on"}
Acceptors == {f \in Alive : fib[f].kind = "accept"}
At(f, pc) == f \in Running /\ fib[f].pc = pc
Goes(f, new) == fib' = [fib EXCEPT ![f] = new @@ @]

\* Who holds a reference to an object.
Held(o, ss, fs) ==
  \/ \E i \in 1..Len(ss) : ss[i] = o
  \/ \E i \in 1..Len(fs) : fs[i].on # "done" /\ fs[i].kind = "accept" /\ fs[i].obj = o
\* The objects os lose a reference; the last one destroys.
Released(world, os, ss, fs) ==
  LET dead == {o \in os : ~Held(o, ss, fs)}
  IN FoldSet(LAMBDA o, v : Destroy(v, o), world, dead)

\* The contexts follow the descriptors that are open, except in close.
Open(world) == {fd \in Fds : world.fds[fd].st # "free"}
Ids(world, s) == {world.fds[fd].id : fd \in s}
Objects(ss) == {ss[i] : i \in 1..Len(ss)}
------------------------------------------------------------------------------
(* The program *)

Calls(op) == calls # <<>> /\ Head(calls).op = op
Call == Head(calls)
Did(op, ret, o) == /\ calls' = Tail(calls)
                   /\ last' = [op |-> op, ret |-> ret, all |-> TRUE, obj |-> o]

\* One address of bind: a Socket that is bound and listens, or an address more
\* in fails.
BoundOne(b, o, addr, r) ==
  IF r.ret THEN [b EXCEPT !.w = r.w, !.socks = Append(@, o)]
  ELSE [b EXCEPT !.w = Destroy(r.w, o), !.fails = @ \cup {addr}, !.failed = TRUE]
ListenIf(r, o) == IF r.ret THEN Listen(r.w, o) ELSE r
BindNew(b, o, addr) ==
  BoundOne(b, o, addr, ListenIf(Bind(Create(b.w, addr.family, "tcp"), o, addr), o))
BindOne(b, addr) == BindNew(b, FreeObj(b.w), addr)

Binding(addrs) ==
  FoldLeft(BindOne, [w |-> w, socks |-> socks, fails |-> IF Call.fresh THEN {} ELSE fails,
                     failed |-> FALSE], addrs)

\* Mutant: the sockets stay when an address fails.
BoundKeeps(b) == [b |-> b, ret |-> b.fails = {}]

\* bind: one failure, also one that the caller still has in fails, and all go.
Bound(b) ==
  IF b.fails = {} THEN [b |-> b, ret |-> TRUE]
  ELSE [b |-> [b EXCEPT !.socks = <<>>, !.w = Released(b.w, Objects(b.socks), <<>>, fib)],
        ret |-> FALSE]

TcpBind ==
  /\ Calls("bind")
  /\ \E r \in {Bound(Binding(Call.addrs))} :
     /\ w' = r.b.w /\ socks' = r.b.socks /\ fails' = r.b.fails
     /\ ctx' = (ctx \cap Open(r.b.w)) \cup (IF Call.hooked THEN Open(r.b.w) \ Open(w) ELSE {})
     /\ last' = [op |-> "bind", ret |-> r.ret, all |-> ~r.b.failed, obj |-> 0]
     /\ blocking' = blocking \cup (IF Call.hooked THEN {} ELSE Ids(r.b.w, Open(r.b.w) \ Open(w)))
  /\ calls' = Tail(calls)
  /\ hasty' = (hasty \/ Alive # {})
  /\ UNCHANGED <<waiter, is_stop, fib, io, left, crash, handed, lost>>

Fiber(kind, pc, o) ==
  [kind |-> kind, on |-> "ready", pc |-> pc, obj |-> o, fd |-> -1, cl |-> -1, k |-> 1]

Start ==
  /\ Calls("start")
  /\ is_stop' = FALSE
  /\ fib' = IF is_stop THEN fib \o [i \in 1..Len(socks) |-> Fiber("accept", "loop", socks[i])]
            ELSE fib
  /\ hasty' = (hasty \/ (is_stop /\ Alive # {}))
  /\ Did("start", TRUE, 0)
  /\ UNCHANGED <<w, ctx, waiter, socks, io, fails, left, crash, handed, lost, blocking>>

Stop ==
  /\ Calls("stop")
  /\ is_stop' = TRUE
  /\ fib' = Append(fib, Fiber("stop", "cancel", 0))
  /\ hasty' = (hasty \/ \E f \in Alive : fib[f].kind = "stop")
  /\ Did("stop", TRUE, 0)
  /\ UNCHANGED <<w, ctx, waiter, socks, io, fails, left, crash, handed, lost, blocking>>

\* The program lets go of the server: ~TcpServer when no fiber and no client
\* holds it any more.
Drop ==
  /\ Calls("drop") /\ Alive = {} /\ io = {}
  /\ w' = Released(w, Objects(socks), <<>>, fib)
  /\ ctx' = ctx \cap Open(w')
  /\ socks' = <<>>
  /\ Did("drop", TRUE, 0)
  /\ UNCHANGED <<waiter, is_stop, fib, io, fails, left, crash, handed, hasty, lost, blocking>>
------------------------------------------------------------------------------
(* A fiber of accept_worker *)

\* A free thread takes a fiber.
Dispatch(f) ==
  /\ fib[f].on = "ready" /\ Cardinality(Running) < NThreads
  /\ Goes(f, [on |-> "on"])
  /\ UNCHANGED <<w, ctx, waiter, is_stop, socks, io, calls, fails, left, crash, last, handed,
                 hasty, lost, blocking>>

\* The loop of StartAccept: is_stop_, and then accept reads sock_.
AcceptLoop(f) ==
  /\ At(f, "loop")
  /\ IF is_stop
     THEN /\ Goes(f, [on |-> "done"])
          /\ w' = Released(w, {fib[f].obj}, socks, fib')
          /\ ctx' = ctx \cap Open(w')
     ELSE /\ Goes(f, [pc |-> "call", fd |-> w.obj[fib[f].obj].sock])
          /\ UNCHANGED <<w, ctx>>
  /\ UNCHANGED <<waiter, is_stop, socks, io, calls, fails, left, crash, last, handed, hasty,
                 lost, blocking>>

\* do_io: without a context, only the system call.
AcceptCtx(f) ==
  /\ At(f, "call")
  /\ Goes(f, [pc |-> IF fib[f].fd \in ctx THEN "try" ELSE "direct"])
  /\ UNCHANGED <<w, ctx, waiter, is_stop, socks, io, calls, fails, left, crash, last, handed,
                 hasty, lost, blocking>>

Valid(fd) == fd \in Fds /\ w.fds[fd].st = "listen"
Empty(fd) == Valid(fd) /\ w.fds[fd].q = <<>>
Trying(f) == At(f, "try") \/ At(f, "direct")

\* Mutant: an error ends the loop.
AcceptFailsEnds(f) ==
  /\ Trying(f)
  /\ LET fd == fib[f].fd IN
     \/ ~Valid(fd)
     \/ Valid(fd) /\ ~Empty(fd) /\ Free(w) = {}
     \/ Empty(fd) /\ At(f, "direct") /\ w.fds[fd].id \notin blocking
  /\ Goes(f, [on |-> "done"])
  /\ UNCHANGED <<w, ctx, waiter, is_stop, socks, io, calls, fails, left, crash, last, handed,
                 hasty, lost, blocking>>

\* accept(2) fails: no such file, one that does not listen, no descriptor left,
\* or nobody there.
AcceptFails(f) ==
  /\ Trying(f)
  /\ LET fd == fib[f].fd IN
     \/ ~Valid(fd)
     \/ Valid(fd) /\ ~Empty(fd) /\ Free(w) = {}
     \/ Empty(fd) /\ At(f, "direct") /\ w.fds[fd].id \notin blocking
  /\ Goes(f, [pc |-> "loop"])
  /\ UNCHANGED <<w, ctx, waiter, is_stop, socks, io, calls, fails, left, crash, last, handed,
                 hasty, lost, blocking>>

\* EAGAIN.
AcceptEmpty(f) ==
  /\ At(f, "try") /\ Empty(fib[f].fd)
  /\ Goes(f, [pc |-> "add"])
  /\ UNCHANGED <<w, ctx, waiter, is_stop, socks, io, calls, fails, left, crash, last, handed,
                 hasty, lost, blocking>>

\* A listener of a thread without hooks blocks: the thread of the worker is in
\* the kernel until a client comes to this file.
AcceptBlocks(f) ==
  /\ At(f, "direct") /\ Empty(fib[f].fd) /\ w.fds[fib[f].fd].id \in blocking
  /\ Goes(f, [pc |-> "blocked", k |-> w.fds[fib[f].fd].id])
  /\ UNCHANGED <<w, ctx, waiter, is_stop, socks, io, calls, fails, left, crash, last, handed,
                 hasty, lost, blocking>>
AcceptUnblocks(f) ==
  /\ At(f, "blocked") /\ Valid(fib[f].fd) /\ ~Empty(fib[f].fd) /\ w.fds[fib[f].fd].id = fib[f].k
  /\ Goes(f, [pc |-> "direct"])
  /\ UNCHANGED <<w, ctx, waiter, is_stop, socks, io, calls, fails, left, crash, last, handed,
                 hasty, lost, blocking>>

\* A connection gets a descriptor, and from the hook of accept a context.
AcceptSucceeds(f) ==
  /\ Trying(f) /\ fib[f].fd \in Fds /\ Acceptable(w, fib[f].fd)
  /\ w' = AcceptFile(w, fib[f].fd)
  /\ ctx' = ctx \cup {Min(Free(w))}
  /\ Goes(f, [pc |-> "got", cl |-> Min(Free(w))])
  /\ UNCHANGED <<waiter, is_stop, socks, io, calls, fails, left, crash, last, handed, hasty,
                 lost, blocking>>

\* AddEvent: the assertion that nobody else waits; epoll takes no closed file.
AcceptAdds(f) ==
  /\ At(f, "add")
  /\ LET fd == fib[f].fd IN
     IF waiter[fd] # NoFiber
     THEN crash' = TRUE /\ UNCHANGED <<fib, waiter, lost>>
     ELSE IF w.fds[fd].st = "free"
     THEN Goes(f, [pc |-> "loop"]) /\ UNCHANGED <<crash, waiter, lost>>
     ELSE /\ waiter' = [waiter EXCEPT ![fd] = [fib |-> f, id |-> w.fds[fd].id]]
          /\ Goes(f, [on |-> "wait", pc |-> "try"])
          /\ lost' = (lost \/ \E g \in Running : fib[g].pc = "closef" /\ fib[g].fd = fd)
          /\ UNCHANGED crash
  /\ UNCHANGED <<w, ctx, is_stop, socks, io, calls, fails, left, last, handed, hasty, blocking>>

\* epoll reports a client.
Ready(fd) ==
  /\ waiter[fd].fib # 0 /\ w.fds[fd].id = waiter[fd].id /\ Valid(fd) /\ ~Empty(fd)
  /\ Goes(waiter[fd].fib, [on |-> "ready"])
  /\ waiter' = [waiter EXCEPT ![fd] = NoFiber]
  /\ UNCHANGED <<w, ctx, is_stop, socks, io, calls, fails, left, crash, last, handed, hasty,
                 lost, blocking>>

\* The client: Init, SetRecvTimeout, and to io_worker.
AcceptHands(f) ==
  /\ At(f, "got")
  /\ LET o == FreeObj(w) IN
     /\ w' = SetRecvTimeout(InitClient(w, o, fib[f].obj, fib[f].cl), o, RecvTimeout)
     /\ io' = io \cup {o}
     /\ handed' = Append(handed, [id |-> w'.obj[o].remote.port, rcv |-> w'.fds[fib[f].cl].rcv])
  /\ Goes(f, [pc |-> "loop", cl |-> -1])
  /\ UNCHANGED <<ctx, waiter, is_stop, socks, calls, fails, left, crash, last, hasty, lost,
                 blocking>>
------------------------------------------------------------------------------
(* The task of Stop *)

Others == <<is_stop, io, calls, fails, left, last, handed, hasty, lost, blocking>>

\* CancelAll wakes the fiber that waits for the file behind fd, and f goes on.
\* An event of a file that is gone cannot be taken out of epoll, and stays.
Cancels(f, fd, new) ==
  LET g == waiter[fd] IN
  IF g # NoFiber /\ w.fds[fd].id = g.id
  THEN /\ fib' = [fib EXCEPT ![f] = new @@ @, ![g.fib].on = "ready"]
       /\ waiter' = [waiter EXCEPT ![fd] = NoFiber]
  ELSE Goes(f, new) /\ UNCHANGED waiter

\* Mutant: the sockets are dropped as they are.
StopCancelSkips(f) ==
  /\ At(f, "cancel") /\ fib[f].k <= Len(socks)
  /\ Goes(f, [k |-> fib[f].k + 1])
  /\ UNCHANGED <<w, ctx, waiter, socks, crash, Others>>

\* A round of the loop: CancelAll of the next socket.  Descriptor -1 is no index
\* into fd_contexts_.
StopCancel(f) ==
  /\ At(f, "cancel") /\ fib[f].k <= Len(socks)
  /\ LET o == socks[fib[f].k] IN
     IF IsValid(w, o)
     THEN Cancels(f, w.obj[o].sock, [pc |-> "close", obj |-> o, fd |-> w.obj[o].sock])
            /\ UNCHANGED crash
     ELSE crash' = TRUE /\ UNCHANGED <<fib, waiter>>
  /\ UNCHANGED <<w, ctx, socks, Others>>

\* The socket under the iterator is still there; else whatever happens.
Closing(f, pc) == At(f, pc) /\ w.obj[fib[f].obj].sock = fib[f].fd
StopGone(f) ==
  /\ \E pc \in {"close", "closef", "forget"} : At(f, pc) /\ ~Closing(f, pc)
  /\ crash' = TRUE
  /\ UNCHANGED <<w, ctx, waiter, fib, socks, Others>>

\* close: the hook cancels again and drops the context.
StopClose(f) ==
  /\ Closing(f, "close")
  /\ Cancels(f, fib[f].fd, [pc |-> "closef"])
  /\ ctx' = ctx \ {fib[f].fd}
  /\ UNCHANGED <<w, socks, crash, Others>>

\* close(2), and only then sock_ = -1.
StopCloseF(f) ==
  /\ Closing(f, "closef")
  /\ w' = [w EXCEPT !.fds[fib[f].fd] = FreeFd]
  /\ Goes(f, [pc |-> "forget"])
  /\ UNCHANGED <<ctx, waiter, socks, crash, Others>>
StopForget(f) ==
  /\ Closing(f, "forget")
  /\ w' = [w EXCEPT !.obj[fib[f].obj].sock = -1]
  /\ Goes(f, [pc |-> "cancel", k |-> fib[f].k + 1])
  /\ UNCHANGED <<ctx, waiter, socks, crash, Others>>

StopClear(f) ==
  /\ At(f, "cancel") /\ fib[f].k > Len(socks)
  /\ Goes(f, [on |-> "done"])
  /\ socks' = <<>>
  /\ w' = Released(w, Objects(socks), <<>>, fib')
  /\ ctx' = ctx \cap Open(w')
  /\ UNCHANGED <<waiter, crash, Others>>
------------------------------------------------------------------------------

\* HandleClient on io_worker; the Socket dies with the task.
HandleClient(o) ==
  /\ o \in io /\ io' = io \ {o}
  /\ w' = Destroy(w, o)
  /\ ctx' = ctx \cap Open(w')
  /\ UNCHANGED <<waiter, is_stop, socks, fib, calls, fails, left, crash, last, handed, hasty,
                 lost, blocking>>

\* Clients connect; other processes take addresses and give them back.
Client(fd) ==
  /\ Use("clients") /\ w.fds[fd].st = "listen"
  /\ w' = [w EXCEPT !.fds[fd].q = Append(@, [id |-> w.id, from |-> 0]), !.id = @ + 1]
  /\ UNCHANGED <<calls, fails, last, svars>>
Take(a) ==
  /\ Use("takes")
  /\ w' = [w EXCEPT !.taken = IF a \in @ THEN @ \ {a} ELSE @ \cup {a}]
  /\ UNCHANGED <<calls, fails, last, svars>>
------------------------------------------------------------------------------
(* A thread that uses Sockets *)

Tells(op, o, r) == w' = r.w /\ last' = [op |-> op, ret |-> r.ret, all |-> TRUE, obj |-> o]
Plain(world) == [w |-> world, ret |-> TRUE]
InUse(o) == w.obj[o] # Unused

Makes ==
  /\ \E o \in Objs : ~InUse(o)
  /\ \/ \E fam \in Families : Tells("create", 0, Plain(Create(w, fam, "tcp")))
     \/ Tells("create", 0, Plain(CreateUDP(w, "v4")))
Uses(o) ==
  \/ \E a \in Addrs : Tells("bind", o, Bind(w, o, a))
  \/ Tells("listen", o, Listen(w, o))
  \/ \E a \in Addrs, answers \in BOOLEAN : Tells("connect", o, Connect(w, o, a, answers))
  \/ \E answers \in BOOLEAN : Tells("reconnect", o, Reconnect(w, o, answers))
  \/ Tells("close", o, Plain(Close(w, o)))
  \/ Tells("names", o, Plain(GetRemoteAddress(GetLocalAddress(w, o), o)))
  \/ Tells("destroy", o, Plain(Destroy(w, o)))
  \/ \E c \in Objs : /\ ~InUse(c) /\ IsValid(w, o) /\ Acceptable(w, w.obj[o].sock)
                     /\ Tells("accept", c, Plain(InitClient(AcceptFile(w, w.obj[o].sock), c, o,
                                                            Min(Free(w)))))
Play ==
  /\ Use("plays")
  /\ Makes \/ \E o \in Objs : InUse(o) /\ Uses(o)
  /\ UNCHANGED <<calls, fails, svars>>
------------------------------------------------------------------------------

Step(f) ==
  \/ Dispatch(f)
  \/ AcceptLoop(f) \/ AcceptCtx(f) \/ AcceptFails(f) \/ AcceptEmpty(f) \/ AcceptBlocks(f)
  \/ AcceptUnblocks(f) \/ AcceptSucceeds(f) \/ AcceptAdds(f) \/ AcceptHands(f)
  \/ StopCancel(f) \/ StopGone(f) \/ StopClose(f) \/ StopCloseF(f) \/ StopForget(f) \/ StopClear(f)

Program == TcpBind \/ Start \/ Stop \/ Drop
Next ==
  /\ ~crash
  /\ \/ Program \/ Play
     \/ \E f \in Fibers : Step(f)
     \/ \E fd \in Fds : Ready(fd) \/ Client(fd)
     \/ \E a \in Addrs : Take(a)
     \/ \E o \in Objs : HandleClient(o)

\* The threads of accept_worker go on; clients need not come or be done.
Fairness == \A f \in 1..MaxFibers : WF_vars(f \in Fibers /\ ~crash /\ Step(f))
Spec == Init /\ [][Next]_vars /\ Fairness
------------------------------------------------------------------------------

TypeOK ==
  /\ ctx \subseteq Fds /\ is_stop \in BOOLEAN
  /\ Len(fib) <= MaxFibers /\ Cardinality(Running) <= NThreads
  /\ \A o \in Objs : w.obj[o].sock \in Fds \cup {-1}
  /\ \A fd \in Fds : w.fds[fd].st \in {"free", "new", "bound", "listen", "conn"}
  /\ io \subseteq Objs /\ Objects(socks) \subseteq Objs

\* Every open descriptor belongs to one Socket, or is on its way from accept to
\* one, and every descriptor of a Socket is open, but for the moment between
\* close(2) and sock_ = -1 in the task of Stop: nothing leaks when a bind fails,
\* a server stops or a client is done, and no Socket closes the file of another.
\* Nor do two fibers wait for one descriptor, which AddEvent asserts, or use a
\* freed socket.  (A server that is bound, started or stopped while the task of a
\* Stop or an old acceptor is still there may do all of this.)
FdOwned ==
  LET owners(fd) == {o \in Objs : /\ w.obj[o].sock = fd
                                  /\ ~\E f \in Alive : fib[f].pc = "forget" /\ fib[f].obj = o}
      coming(fd) == {f \in Alive : fib[f].pc = "got" /\ fib[f].cl = fd}
  IN /\ TypeOK
     /\ hasty \/ ~crash
     /\ hasty \/ \A fd \in Fds :
                  Cardinality(owners(fd)) + Cardinality(coming(fd))
                    = IF w.fds[fd].st = "free" THEN 0 ELSE 1

\* While the server runs, each of its sockets is open and has an acceptor,
\* whatever errors accept meets, provided that the fibers of the time before
\* were gone when it was bound and started.  A connection is given to
\* HandleClient at most once, with the timeout of the server already set.
Serves ==
  /\ ~hasty /\ ~is_stop /\ ~crash =>
       \A i \in 1..Len(socks) :
         /\ IsValid(w, socks[i]) /\ File(w, socks[i]).st = "listen"
         /\ \E f \in Acceptors : fib[f].obj = socks[i]
  /\ \A i, j \in 1..Len(handed) : handed[i].id = handed[j].id => i = j
  /\ \A i \in 1..Len(handed) : handed[i].rcv = RecvTimeout

\* A bind that returns true leaves all addresses listening; one that returns
\* false leaves no socket, and it may do so without a failure of its own: when
\* the caller's fails still holds an address of an earlier bind, as in the loop
\* of tests/test_tcp_server.cc, which never ends after one failure.  No bind, of
\* a server or of a socket, takes a path away from somebody who listens on it, if
\* there are descriptors for the socket and for the look.
BindWhole ==
  [][/\ TcpBind =>
          IF last'.ret THEN /\ last'.all
                            /\ Len(socks') = Len(socks) + Len(Call.addrs)
                            /\ \A i \in Len(socks) + 1..Len(socks') :
                                 w'.fds[w'.obj[socks'[i]].sock].st = "listen"
          ELSE socks' = <<>> /\ (last'.all => ~Call.fresh /\ fails # {})
     /\ w'.path # w.path /\ Cardinality(Free(w)) >= 2
          => \A a \in Addrs : a.family = "unix" => ~PathLive(w, a)]_vars

\* After Stop all fibers of the server end, also those that were about to wait,
\* unless it was started hastily, an acceptor registered between the last
\* CancelAll and close(2), or a listener was made by a thread without hooks.
StopEnds ==
  is_stop ~> (~is_stop \/ Alive = {} \/ hasty \/ lost \/ crash \/ blocking # {})

\* A Socket that sends and receives has a file that is connected, and what it
\* tells of its peer is true, as long as it was not asked to connect to an address
\* of another family.  After a reconnect both addresses are those of the new
\* connection.
PeerRight ==
  /\ \A o \in Objs :
       Transfers(w, o) /\ w.obj[o].type = "tcp" =>
         /\ File(w, o).st = "conn"
         /\ w.obj[o].remote.family = w.obj[o].family => w.obj[o].remote = File(w, o).peer
  /\ last.op = "reconnect" /\ last.ret =>
       LET o == last.obj
       IN /\ w.obj[o].connected
          /\ w.obj[o].local = File(w, o).local /\ w.obj[o].remote = File(w, o).peer
==============================================================================
