------------------------------ MODULE Addresses ------------------------------
(***************************************************************************)
(* The computations of serverframework/net/address.cc: network masks, the  *)
(* text of an IPv6 address, the order of addresses and the split of a host *)
(* name for Lookup.                                                        *)
(*                                                                         *)
(* An IPv4 address is a sequence of V4Bits bits in the order of the wire;  *)
(* an IPv6 address a sequence of V6Bytes bytes of ByteBits bits (32, 16    *)
(* and 8 in the code).                                                     *)
(***************************************************************************)
EXTENDS Integers, Sequences, SequencesExt

CONSTANTS
  V4Bits,   \* bits of an IPv4 address
  V6Bytes,  \* bytes of an IPv6 address
  V6Groups, \* groups of the text of an IPv6 address
  V6Bits    \* bits of a byte of an IPv6 address

\* (1 << (w - bits)) - 1, as bits: ones from position bits + 1 on.
Mask(bits, w) == [i \in 1..w |-> IF i > bits THEN 1 ELSE 0]

\* CreateMask<uint32_t>: for 0 bits the shift is as wide as the type, which may
\* give no bits or all.
CreateMask32(bits) ==
  IF bits = 0 THEN {[i \in 1..V4Bits |-> b] : b \in {0, 1}} ELSE {Mask(bits, V4Bits)}

\* CreateMask<uint8_t>: the shift is in an int.
CreateMask8(bits) == Mask(bits, V6Bits)

Or(a, b)  == [i \in DOMAIN a |-> IF a[i] = 1 \/ b[i] = 1 THEN 1 ELSE 0]
And(a, b) == [i \in DOMAIN a |-> IF a[i] = 1 /\ b[i] = 1 THEN 1 ELSE 0]
Not(a)    == [i \in DOMAIN a |-> 1 - a[i]]

\* The number of ones, by clearing the lowest until none is left.
CountBytes(value) == FoldLeft(+, 0, value)

V4Broadcast(addr, p) == {Or(addr, mask) : mask \in CreateMask32(p)}
V4Network(addr, p)   == {And(addr, Not(mask)) : mask \in CreateMask32(p)}
V4SubnetMask(p)      == {Not(mask) : mask \in CreateMask32(p)}

Ones  == [i \in 1..V6Bits |-> 1]
Zeros == [i \in 1..V6Bits |-> 0]

\* The byte prefix_len / 8 gets "edge", those behind it "rest".  For a prefix
\* of all bits that byte is the one behind the address, in sin6_scope_id.
V6With(addr, p, edge, rest) ==
  [i \in 1..V6Bytes |->
     IF i = p \div V6Bits + 1 THEN edge ELSE IF i > p \div V6Bits + 1 THEN rest ELSE addr[i]]

EdgeOf(addr, p) == IF p \div V6Bits < V6Bytes THEN addr[p \div V6Bits + 1] ELSE Zeros

V6Broadcast(addr, p) ==
  V6With(addr, p, Or(EdgeOf(addr, p), CreateMask8(p % V6Bits)), Ones)

\* With the mask itself, where IPv4 has its complement.
V6Network(addr, p) ==
  V6With(addr, p, And(EdgeOf(addr, p), CreateMask8(p % V6Bits)), Zeros)

V6SubnetMask(p) ==
  V6With([i \in 1..V6Bytes |-> Ones], p, Not(CreateMask8(p % V6Bits)), Zeros)

\* prefix_len of an interface with an IPv6 netmask.
PrefixLen(netmask) == FoldLeft(LAMBDA n, byte : n + CountBytes(byte), 0, netmask)

\* A colon in a text of numbers.
Colon == -1

\* IPv6Address::Insert, between the brackets.  A group is a number, printed as
\* itself.
Insert(addr) ==
  LET f[i \in 0..V6Groups] ==
        IF i = 0 THEN [os |-> <<>>, used |-> FALSE]
        ELSE LET st == f[i - 1] IN
             IF addr[i] = 0 /\ ~st.used THEN st
             ELSE LET gap == i > 1 /\ addr[i - 1] = 0 /\ ~st.used
                  IN [os |-> st.os \o (IF gap THEN <<Colon>> ELSE <<>>)
                               \o (IF i > 1 THEN <<Colon>> ELSE <<>>) \o <<addr[i]>>,
                      used |-> st.used \/ gap]
      end == f[V6Groups]
  IN IF ~end.used /\ addr[V6Groups] = 0 THEN end.os \o <<Colon, Colon>> ELSE end.os

\* memcmp of the first n bytes.
memcmp(a, b, n) ==
  LET diff == {i \in 1..n : a[i] # b[i]}
  IN IF diff = {} THEN 0 ELSE IF a[Min(diff)] < b[Min(diff)] THEN -1 ELSE 1

\* operator< and operator== on the bytes of two addresses.
Less(a, b) ==
  LET minlen == IF Len(a) < Len(b) THEN Len(a) ELSE Len(b)
      result == memcmp(a, b, minlen)
  IN result < 0 \/ (result = 0 /\ Len(a) < Len(b))

Equal(a, b) == Len(a) = Len(b) /\ memcmp(a, b, Len(a)) = 0

\* memchr: the first c in host from position i on, 0 for none.
memchr(host, c, i) ==
  LET at == {j \in i..Len(host) : host[j] = c} IN IF at = {} THEN 0 ELSE Min(at)

From(host, i) == SubSeq(host, i, Len(host))
NoService == <<"none">>

\* Lookup up to getaddrinfo: the node and the service.  When a second colon
\* follows, service still points to the first one.
SplitHost(host) ==
  LET end == IF host # <<>> /\ host[1] = "[" THEN memchr(host, "]", 2) ELSE 0
      n6  == IF end = 0 THEN <<>> ELSE SubSeq(host, 2, end - 1)
      s6  == IF end # 0 /\ end < Len(host) /\ host[end + 1] = ":"
             THEN From(host, end + 2) ELSE NoService
      c   == memchr(host, ":", 1)
  IN IF n6 # <<>> THEN [node |-> n6, service |-> s6]
     ELSE IF c = 0 THEN [node |-> host, service |-> NoService]
     ELSE IF memchr(host, ":", c + 1) # 0 THEN [node |-> host, service |-> From(host, c)]
     ELSE [node |-> IF c = 1 THEN host ELSE SubSeq(host, 1, c - 1),
           service |-> From(host, c + 1)]
------------------------------------------------------------------------------
(* What they are for *)

\* The first p bits are the network: they stay in the network and broadcast
\* addresses and are the ones of the mask, whose count of ones gives p back.
V4Nets(addr, p) ==
  LET first(b) == [i \in 1..V4Bits |-> IF i <= p THEN addr[i] ELSE b]
  IN /\ V4Network(addr, p) = {first(0)}
     /\ V4Broadcast(addr, p) = {first(1)}
     /\ \A m \in V4SubnetMask(p) :
          /\ CountBytes(m) = p
          /\ And(addr, m) \in V4Network(addr, p)

\* The same for IPv6, except for the network address: there the bytes behind
\* the one with the last bit of the prefix are zero, but in that byte it is the
\* bits of the prefix that are cleared and those of the host that stay.
V6Nets(addr, p) ==
  LET k == p \div V6Bits + 1
      bit(i, j) == (i - 1) * V6Bits + j
  IN /\ \A i \in 1..V6Bytes, j \in 1..V6Bits :
          /\ V6Broadcast(addr, p)[i][j] = IF bit(i, j) <= p THEN addr[i][j] ELSE 1
          /\ V6SubnetMask(p)[i][j] = IF bit(i, j) <= p THEN 1 ELSE 0
          /\ V6Network(addr, p)[i][j] =
               IF i < k \/ (i = k /\ bit(i, j) > p) THEN addr[i][j] ELSE 0
     /\ PrefixLen(V6SubnetMask(p)) = p

\* The address that a text between brackets stands for: where there is a double
\* colon, as many zeros as are missing.
Expand(text) ==
  LET n     == Len(text)
      gaps  == {i \in 1..(n - 1) : text[i] = Colon /\ text[i + 1] = Colon}
      groups(a, b) == SelectSeq(SubSeq(text, a, b), LAMBDA t : t # Colon)
      left(i)  == groups(1, i)
      right(i) == groups(i + 1, n)
  IN IF gaps = {} THEN groups(1, n)
     ELSE LET i == Min(gaps)
          IN left(i) \o [k \in 1..(V6Groups - Len(left(i)) - Len(right(i))) |-> 0]
               \o right(i)

\* The text of an IPv6 address has at most one double colon and reads as the
\* address, wherever its zeros are.
V6Text(addr) ==
  LET text == Insert(addr) IN
  /\ Cardinality({i \in 1..(Len(text) - 1) : text[i] = Colon /\ text[i + 1] = Colon}) <= 1
  /\ Expand(text) = addr

\* operator< is a strict total order of addresses of all lengths, with
\* operator== as its equality, as the keys of a map need.
OrderTotal(a, b, c) ==
  /\ Equal(a, b) <=> a = b
  /\ (IF Less(a, b) THEN 1 ELSE 0) + (IF Less(b, a) THEN 1 ELSE 0)
       + (IF Equal(a, b) THEN 1 ELSE 0) = 1
  /\ Less(a, b) /\ Less(b, c) => Less(a, c)

\* A host with at most one colon, or with the node in brackets, is split at the
\* colon before the port.
HostSplit(name, port) ==
  /\ SplitHost(name) = [node |-> name, service |-> NoService]
  /\ SplitHost(name \o <<":">> \o port) = [node |-> name, service |-> port]
  /\ \A v6 \in {name, name \o <<":">> \o name, <<":", ":">> \o name} :
       /\ SplitHost(<<"[">> \o v6 \o <<"]">>) = [node |-> v6, service |-> NoService]
       /\ SplitHost(<<"[">> \o v6 \o <<"]", ":">> \o port) = [node |-> v6, service |-> port]
==============================================================================
