----------------------------- MODULE FdManager -------------------------------
(***************************************************************************)
(* The table of descriptor contexts: serverframework/net/fd_manager.cc.    *)
(*                                                                         *)
(* A context remembers of a descriptor whether it is a socket, whether the *)
(* hook and whether the user made it non-blocking, and its timeouts.  Get  *)
(* with auto_create looks up under the read lock and inserts under the     *)
(* write lock: two steps, which the hooks take one after the other.        *)
(*                                                                         *)
(* gen says which kernel object a context was made for; gen = 0 is the     *)
(* null pointer.  A timeout is set or is -1; its length does not matter.   *)
(* is_closed_ is left out: nothing in the code ever sets it.               *)
(***************************************************************************)
EXTENDS Integers

CONSTANTS
  Fds,         \* descriptor numbers
  InitialSize  \* size of datas_ after the constructor (64 in the code)

\* A set of numbers that is not empty has a lowest one.
ASSUME FdsAssumption == Fds \subseteq Nat /\ \E fd \in Fds : \A x \in Fds : fd <= x
ASSUME InitialSizeAssumption == InitialSize \in Nat /\ InitialSize >= 2

VARIABLES
  datas,  \* the context of each descriptor
  size    \* datas_.size()

Event == {"READ", "WRITE"}

\* FdCtx::FdCtx and FdCtx::Init for a descriptor that fstat finds, or not.
FdCtx(g, is_sock) ==
  [gen |-> g, is_socket |-> is_sock, sys_nonblock |-> is_sock,
   user_nonblock |-> FALSE, timeout |-> [e \in Event |-> FALSE]]

NoCtx == FdCtx(0, FALSE)

SetTimeout(c, e, v) == [c EXCEPT !.timeout[e] = v]

GetTimeout(c, e) == c.timeout[e]

\* Get(fd, false), and the first half of Get(fd, true).
Get(fd) == IF size <= fd THEN NoCtx ELSE datas[fd]

\* The size the table gets when fd does not fit.
Resized(fd) == (fd * 3) \div 2

\* The second half of Get(fd, true).
GetInsert(fd, c) ==
  /\ size' = IF fd >= size THEN Resized(fd) ELSE size
  /\ datas' = [datas EXCEPT ![fd] = c]

\* Mutant: off by one at the end of the table.
DelShort(fd) ==
  /\ datas' = IF size <= fd + 1 THEN datas ELSE [datas EXCEPT ![fd] = NoCtx]
  /\ UNCHANGED size

Del(fd) ==
  /\ datas' = IF size <= fd THEN datas ELSE [datas EXCEPT ![fd] = NoCtx]
  /\ UNCHANGED size
==============================================================================
