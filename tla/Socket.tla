------------------------------- MODULE Socket --------------------------------
(***************************************************************************)
(* Socket objects of serverframework/net/socket.cc over a small kernel.    *)
(*                                                                         *)
(* A world w has the descriptors of the process, fds, the Socket objects,  *)
(* obj, the number of the next file or port, id, and the file that a Unix  *)
(* path names, path (0: none).  Each operator takes the world before a     *)
(* call and gives the one after, with the result where the call has one.   *)
(* Addresses that other processes listen on are in taken.                  *)
(***************************************************************************)
EXTENDS Integers, Sequences, FiniteSets, FiniteSetsExt

CONSTANTS
  MaxFd,      \* limit on open files
  MaxObj,     \* Socket objects at a time
  Addrs,      \* addresses: a family and a port (or path)
  NoAddr      \* an empty Address::ptr

Fds  == 0..MaxFd
Objs == 1..MaxObj
Families == {"v4", "unix"}
FirstPort == 100      \* the kernel's own choice of ports starts here
OtherProcess == -1    \* somebody else listens on the path

\* A descriptor: what kind of socket is behind it, the names of both ends, the
\* connections that wait to be accepted, and the timeout in its FdCtx.
FreeFd == [st |-> "free", id |-> 0, local |-> NoAddr, peer |-> NoAddr, q |-> <<>>, rcv |-> -1]

\* Socket::Socket.
NewObj(family, type) ==
  [sock |-> -1, connected |-> FALSE, family |-> family, type |-> type,
   local |-> NoAddr, remote |-> NoAddr]
Unused == NewObj("none", "none")

NewWorld(path, taken) ==
  [fds |-> [fd \in Fds |-> FreeFd], obj |-> [o \in Objs |-> Unused], id |-> 1, path |-> path,
   taken |-> taken]

Free(w)      == {fd \in Fds : w.fds[fd].st = "free"}
FreeObj(w)   == Min({o \in Objs : w.obj[o] = Unused})
Create(w, family, type) == [w EXCEPT !.obj[FreeObj(w)] = NewObj(family, type)]
IsValid(w, o) == w.obj[o].sock # -1
File(w, o)   == w.fds[w.obj[o].sock]

\* A descriptor of a new file: the lowest that is free.
NewFd(w, file) ==
  [w EXCEPT !.fds[Min(Free(w))] = [file EXCEPT !.id = w.id], !.id = @ + 1]

Unnamed(family) == [family |-> family, port |-> 0]

\* NewSock, with or without a free descriptor.  (InitSock sets SO_REUSEADDR.)
NewSock(w, o) ==
  IF Free(w) = {} THEN w
  ELSE [NewFd(w, [FreeFd EXCEPT !.st = "new", !.local = Unnamed(w.obj[o].family)])
          EXCEPT !.obj[o].sock = Min(Free(w))]
Ensure(w, o) == IF IsValid(w, o) THEN w ELSE NewSock(w, o)

\* CreateUDP: connected, also when there was no descriptor.
CreateUDP(w, family) ==
  LET o == FreeObj(w)
  IN [NewSock(Create(w, family, "udp"), o) EXCEPT !.obj[o].connected = TRUE]

\* Mutant: the number of the descriptor stays.
CloseKeeps(w, o) ==
  IF ~w.obj[o].connected /\ ~IsValid(w, o) THEN w
  ELSE [(IF IsValid(w, o) THEN [w EXCEPT !.fds[w.obj[o].sock] = FreeFd] ELSE w)
          EXCEPT !.obj[o].connected = FALSE]

\* close; the addresses stay.
Close(w, o) ==
  IF ~w.obj[o].connected /\ ~IsValid(w, o) THEN w
  ELSE [(IF IsValid(w, o) THEN [w EXCEPT !.fds[w.obj[o].sock] = FreeFd] ELSE w)
          EXCEPT !.obj[o].connected = FALSE, !.obj[o].sock = -1]

\* ~Socket.
Destroy(w, o) == [Close(w, o) EXCEPT !.obj[o] = Unused]

\* GetLocalAddress and GetRemoteAddress ask the kernel once.
GetLocalAddress(w, o) ==
  IF w.obj[o].local # NoAddr \/ ~IsValid(w, o) THEN w
  ELSE [w EXCEPT !.obj[o].local = File(w, o).local]
GetRemoteAddress(w, o) ==
  IF w.obj[o].remote # NoAddr \/ ~IsValid(w, o) \/ File(w, o).peer = NoAddr THEN w
  ELSE [w EXCEPT !.obj[o].remote = File(w, o).peer]
------------------------------------------------------------------------------

\* The files that can be connected to at an address; a path leads to the file
\* that bound it last.
Listening(w, addr) ==
  {fd \in Fds : /\ w.fds[fd].st = "listen" /\ w.fds[fd].local = addr
                /\ addr.family = "unix" => w.fds[fd].id = w.path}
PathLive(w, addr) == w.path = OtherProcess \/ Listening(w, addr) # {}

\* The name that bind or connect gives to a file: a port of its own for port 0.
NameFor(w, addr) ==
  IF addr.port = 0 /\ addr.family = "v4" THEN [addr EXCEPT !.port = FirstPort + w.id] ELSE addr

\* connect(2) of a file: to a listener of this process, or to one elsewhere,
\* which answers or not.
Reachable(w, addr, answers) ==
  \/ Listening(w, addr) # {}
  \/ answers /\ (addr.family = "unix" => w.path = OtherProcess)
Queued(files, to, c) == IF to = {} THEN files ELSE [files EXCEPT ![Min(to)].q = Append(@, c)]
ConnectFile(w, fd, addr) ==
  [w EXCEPT !.id = @ + 1,
     !.fds = [Queued(@, Listening(w, addr), [id |-> w.id, from |-> w.fds[fd].id])
                EXCEPT ![fd].st = "conn", ![fd].peer = addr, ![fd].local = NameFor(w, @)]]

Fails(w) == [w |-> w, ret |-> FALSE]
Succeeds(w) == [w |-> w, ret |-> TRUE]
CanConnect(w, o, addr, answers) ==
  \/ w.obj[o].type = "udp"
  \/ File(w, o).st \in {"new", "bound"} /\ Reachable(w, addr, answers)
Usable(w, o, addr) == IsValid(w, o) /\ addr.family = w.obj[o].family
Connected(w, o, addr) ==
  [ConnectFile(w, w.obj[o].sock, addr) EXCEPT !.obj[o].connected = TRUE]

\* Mutant: no close after an error.
ConnectValidStays(w, o, addr, answers) ==
  IF ~Usable(w, o, addr) THEN Fails(w)
  ELSE IF ~CanConnect(w, o, addr, answers) THEN Fails(w)
  ELSE Succeeds(GetLocalAddress(GetRemoteAddress(Connected(w, o, addr), o), o))

\* connect, with a descriptor or not.
ConnectValid(w, o, addr, answers) ==
  IF ~Usable(w, o, addr) THEN Fails(w)
  ELSE IF ~CanConnect(w, o, addr, answers) THEN Fails(Close(w, o))
  ELSE Succeeds(GetLocalAddress(GetRemoteAddress(Connected(w, o, addr), o), o))

\* connect: the address is kept whatever comes of it.
Connect(w, o, addr, answers) ==
  ConnectValid(Ensure([w EXCEPT !.obj[o].remote = addr], o), o, addr, answers)

Reconnect(w, o, answers) ==
  IF w.obj[o].remote = NoAddr THEN Fails(w)
  ELSE Connect([w EXCEPT !.obj[o].local = NoAddr], o, w.obj[o].remote, answers)
------------------------------------------------------------------------------

\* bind(2) of a file: not for one that has a name, nor to a name somebody
\* listens on.
CanBind(w, fd, addr) ==
  /\ w.fds[fd].st = "new"
  /\ addr.family = "v4" => Listening(w, addr) = {} /\ addr \notin w.taken
BindFile(w, fd, addr) ==
  [w EXCEPT !.fds[fd].st = "bound", !.fds[fd].local = NameFor(w, addr), !.id = @ + 1,
            !.path = IF addr.family = "unix" THEN w.fds[fd].id ELSE @]

\* The connect of bind to a path, by a Socket that dies at once; without a
\* descriptor for it, it fails.
Probing(w, fd, addr) ==
  [ConnectFile(w, fd, addr) EXCEPT !.fds[fd] = FreeFd]
Probe(w, addr) ==
  IF Free(w) = {} \/ ~PathLive(w, addr) THEN Fails(w)
  ELSE Succeeds(Probing(NewFd(w, [FreeFd EXCEPT !.st = "new", !.local = Unnamed("unix")]),
                        Min(Free(w)), addr))

BindName(w, o, addr) ==
  IF CanBind(w, w.obj[o].sock, addr)
  THEN Succeeds(GetLocalAddress(BindFile(w, w.obj[o].sock, addr), o))
  ELSE Fails(w)

\* A path that nobody answers at is unlinked, and then bound.
BindPath(p, o, addr) ==
  IF p.ret THEN Fails(p.w) ELSE BindName([p.w EXCEPT !.path = 0], o, addr)

BindValid(w, o, addr) ==
  IF ~Usable(w, o, addr) THEN Fails(w)
  ELSE IF addr.family = "unix" THEN BindPath(Probe(w, addr), o, addr)
  ELSE BindName(w, o, addr)

\* bind.  GetLocalAddress at the end finds the address that was passed.
Bind(w, o, addr) == BindValid(Ensure([w EXCEPT !.obj[o].local = addr], o), o, addr)

\* listen, by a file with a name or, for a port of its own, without.
CanListen(w, fd) ==
  /\ \/ w.fds[fd].st \in {"bound", "listen"}
     \/ w.fds[fd].st = "new" /\ w.fds[fd].local.family = "v4"
  /\ w.fds[fd].local.family = "v4" => Listening(w, w.fds[fd].local) \subseteq {fd}
Listen(w, o) ==
  IF ~IsValid(w, o) \/ w.obj[o].type = "udp" \/ ~CanListen(w, w.obj[o].sock) THEN Fails(w)
  ELSE Succeeds([w EXCEPT !.fds[w.obj[o].sock].st = "listen",
                          !.fds[w.obj[o].sock].local = NameFor(w, @), !.id = @ + 1])

\* accept(2): the first connection gets a descriptor.
Acceptable(w, fd) == w.fds[fd].st = "listen" /\ w.fds[fd].q # <<>> /\ Free(w) # {}
AcceptFile(w, fd) ==
  [NewFd(w, [FreeFd EXCEPT !.st = "conn", !.local = w.fds[fd].local,
                           !.peer = [family |-> w.fds[fd].local.family,
                                     port |-> Head(w.fds[fd].q).id]])
     EXCEPT !.fds[fd].q = Tail(@)]

\* The rest of accept: Init of a new Socket with the descriptor that came.
InitClient(w, o, listener, fd) ==
  GetRemoteAddress(GetLocalAddress(
    [w EXCEPT !.obj[o] = [NewObj(w.obj[listener].family, w.obj[listener].type)
                            EXCEPT !.sock = fd, !.connected = TRUE]], o), o)

\* SetRecvTimeout by way of a timeval, as FdCtx gets it from setsockopt.
SetRecvTimeout(w, o, ms) ==
  LET tv == [sec |-> ms \div 1000, usec |-> (ms % 1000) * 1000]
  IN IF ~IsValid(w, o) THEN w
     ELSE [w EXCEPT !.fds[w.obj[o].sock].rcv = tv.sec * 1000 + tv.usec \div 1000]

\* send and recv in all forms go to the file of a connected Socket.
Transfers(w, o) == w.obj[o].connected
==============================================================================
