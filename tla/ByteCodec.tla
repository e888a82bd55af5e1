----------------------------- MODULE ByteCodec -------------------------------
(***************************************************************************)
(* The encodings of ByteArray (serverframework/util/bytearray.cc and       *)
(* endian_conv.h): integers of a fixed size in the order of endian_,       *)
(* varints, zigzag, and strings with a length in front.                    *)
(*                                                                         *)
(* A byte has ByteBits bits and a type of n bytes ByteBits * n, so that    *)
(* all values can be enumerated.  A varint carries ByteBits - 1 bits per   *)
(* byte.  The floats are the integers of their size, bit by bit.           *)
(***************************************************************************)
EXTENDS Integers, Sequences, SequencesExt

CONSTANTS
  ByteBits,   \* bits of a byte: 8 in the code
  SizeOf,     \* bytes of each type: "16" and "32"
  HostLittle  \* SYLAR_BYTE_ORDER = SYLAR_LITTLE_ENDIAN

Radix == 2 ^ ByteBits
Cont  == 2 ^ (ByteBits - 1)                  \* 0x80
Modulus(n) == Radix ^ n                      \* values of n bytes

\* The bytes of v in memory, and back.
HostBytes(v, n) ==
  LET digits == [i \in 1..n |-> (v \div Radix ^ (i - 1)) % Radix]
  IN IF HostLittle THEN digits ELSE Reverse(digits)

HostValue(b) ==
  LET d == IF HostLittle THEN b ELSE Reverse(b)
  IN FoldLeftDomain(LAMBDA acc, i : acc + d[i] * Radix ^ (i - 1), 0, d)

\* Two's complement.
ToUnsigned(v, n) == v % Modulus(n)
ToSigned(v, n) == IF v >= Modulus(n) \div 2 THEN v - Modulus(n) ELSE v

byteswap(v, n) == HostValue(Reverse(HostBytes(v, n)))

WriteFuint(v, n, little) ==
  HostBytes(IF little # HostLittle /\ n > 1 THEN byteswap(v, n) ELSE v, n)

\* What a read returns: its value and what is left of the stream, or a throw
\* (more bytes than there are), which has consumed what was read before.
Got(v, rest) == [val |-> v, rest |-> rest, throws |-> FALSE]
Throws(rest) == [val |-> 0, rest |-> rest, throws |-> TRUE]

Take(s, n) == SubSeq(s, 1, n)
Drop(s, n) == SubSeq(s, n + 1, Len(s))

ReadFuint(s, n, little) ==
  IF n > Len(s) THEN Throws(s)
  ELSE LET v == HostValue(Take(s, n))
       IN Got(IF little = HostLittle \/ n = 1 THEN v ELSE byteswap(v, n), Drop(s, n))

\* Mutant: the sign is dropped.
EncodeZigzagAbs(v, n) == IF v < 0 THEN (ToUnsigned(-v, n) * 2) % Modulus(n) ELSE v * 2

EncodeZigzag(v, n) ==
  IF v < 0 THEN (ToUnsigned(-v, n) * 2 - 1) % Modulus(n) ELSE v * 2

\* (v >> 1) ^ -(v & 1): all bits of v >> 1 flip when v is odd.
DecodeZigzag(v, n) ==
  ToSigned(IF v % 2 = 1 THEN Modulus(n) - 1 - v \div 2 ELSE v \div 2, n)

WriteUint(v, n) ==
  LET f[x \in 0..(Modulus(n) - 1)] ==
        IF x >= Cont THEN <<(x % Cont) + Cont>> \o f[x \div Cont] ELSE <<x>>
  IN f[v]

\* The loop over i = 0, 7, 14, ... < bits; round k reads byte k + 1.  What is
\* shifted beyond the type is lost; the groups do not overlap, so | is +.
ReadUint(s, n) ==
  LET bits == ByteBits * n
      f[k \in 0..bits, acc \in 0..(Modulus(n) - 1)] ==
        LET i == k * (ByteBits - 1) IN
        IF i >= bits THEN Got(acc, Drop(s, k))
        ELSE IF k >= Len(s) THEN Throws(<<>>)
        ELSE LET r == (acc + (s[k + 1] % Cont) * 2 ^ i) % Modulus(n)
             IN IF s[k + 1] < Cont THEN Got(r, Drop(s, k + 1)) ELSE f[k + 1, r]
  IN f[0, 0]

\* A string of length r.val after the length was read.
ReadBody(r) ==
  IF r.throws THEN r
  ELSE IF r.val > Len(r.rest) THEN Throws(r.rest)
  ELSE Got(Take(r.rest, r.val), Drop(r.rest, r.val))

\* The write and read functions by kind of item:
\*   u8, i8          WriteFuint8, WriteFint8
\*   u16, i16, u32, i32, float   WriteFuint16, ... and their signed versions
\*   vu32, vi32      WriteUint32, WriteInt32
\*   sF16, sF32, sVint           WriteStringF16, WriteStringF32, WriteStringVint
\* The types of 64 bits run the same code as those of 32.
Fixed    == {"u8", "u16", "u32"}
Signed   == {"i8", "i16", "i32"}
Varints  == {"vu32", "vi32"}
Strings  == {"sF16", "sF32", "sVint"}
Kinds    == Fixed \cup Signed \cup Varints \cup Strings

BytesOf(kind) ==
  IF kind \in {"u8", "i8"} THEN 1
  ELSE IF kind \in {"u16", "i16", "sF16"} THEN SizeOf["16"] ELSE SizeOf["32"]

\* The length goes through a parameter of the size's type.
WriteItem(kind, v, little) ==
  LET n == BytesOf(kind) IN
  CASE kind \in Fixed  -> WriteFuint(v, n, little)
    [] kind \in Signed -> WriteFuint(ToUnsigned(v, n), n, little)
    [] kind = "vu32"   -> WriteUint(v, n)
    [] kind = "vi32"   -> WriteUint(EncodeZigzag(v, n), n)
    [] kind = "sVint"  -> WriteUint(Len(v) % Modulus(n), n) \o v
    [] OTHER           -> WriteFuint(Len(v) % Modulus(n), n, little) \o v

ReadItem(kind, s, little) ==
  LET n == BytesOf(kind)
      as(r, v) == IF r.throws THEN r ELSE [r EXCEPT !.val = v]
      f == ReadFuint(s, n, little)
      u == ReadUint(s, n)
  IN CASE kind \in Fixed  -> f
       [] kind \in Signed -> as(f, ToSigned(f.val, n))
       [] kind = "vu32"   -> u
       [] kind = "vi32"   -> as(u, DecodeZigzag(u.val, n))
       [] kind = "sVint"  -> ReadBody(u)
       [] OTHER           -> ReadBody(f)

WriteAll(items, little) ==
  FoldLeft(LAMBDA s, it : s \o WriteItem(it.kind, it.val, little), <<>>, items)

\* The results of reading the stream s back by the kinds of items.
ReadAll(items, s, little) ==
  LET f[k \in 0..Len(items)] ==
        IF k = 0 THEN <<>>
        ELSE LET before == f[k - 1]
                 rest   == IF k = 1 THEN s ELSE before[k - 1].rest
             IN Append(before, ReadItem(items[k].kind, rest, little))
  IN f[Len(items)]
==============================================================================
