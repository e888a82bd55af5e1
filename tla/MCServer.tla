------------------------------ MODULE MCServer -------------------------------
(* Programs for TcpServer and Socket. *)
EXTENDS TcpServer

A0 == [family |-> "v4", port |-> 0]
A1 == [family |-> "v4", port |-> 1]
A2 == [family |-> "v4", port |-> 2]
U  == [family |-> "unix", port |-> 1]
MCAddrs == {A0, A1, U}

BindTo(addrs)  == [op |-> "bind", addrs |-> addrs, fresh |-> TRUE, hooked |-> TRUE]
BindAgain(addrs) == [op |-> "bind", addrs |-> addrs, fresh |-> FALSE, hooked |-> TRUE]
BindPlain(addrs) == [op |-> "bind", addrs |-> addrs, fresh |-> TRUE, hooked |-> FALSE]
StartIt == [op |-> "start"]
StopIt  == [op |-> "stop"]
DropIt  == [op |-> "drop"]

Work(program, clients, takes, plays, path) ==
  {[calls |-> program, path |-> path, taken |-> {},
    left |-> [clients |-> clients, takes |-> takes, plays |-> plays]]}

\* Servers that run, stop and run again, with clients and without descriptors.
Serving ==
  Work(<<BindTo(<<A1>>), StartIt, StartIt, StopIt, BindTo(<<A1>>), StartIt, StopIt, DropIt>>, 1, 0, 0, 0)
    \cup Work(<<BindTo(<<A1, U>>), StartIt, StopIt, DropIt>>, 2, 0, 0, 0)
    \cup Work(<<BindTo(<<A1>>), StartIt, StopIt>>, 3, 0, 0, 0)
    \cup Work(<<BindPlain(<<A1>>), StartIt, StopIt>>, 1, 0, 0, 0)
\* Addresses that are taken.
Failing ==
  Work(<<BindTo(<<A1, A0>>), BindTo(<<A1>>), StartIt, BindTo(<<U, A1>>), StopIt>>, 0, 1, 0, OtherProcess)
    \cup Work(<<BindAgain(<<A1>>), BindAgain(<<A1>>), DropIt>>, 0, 2, 0, 0)
\* A thread with Sockets of its own.
Playing == UNION {Work(<<>>, 0, 0, 5, p) : p \in {0, OtherProcess}}

MCWorks == Serving \cup Failing \cup Playing
==============================================================================
