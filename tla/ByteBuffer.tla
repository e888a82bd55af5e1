----------------------------- MODULE ByteBuffer ------------------------------
(***************************************************************************)
(* What ByteArray promises (serverframework/util/bytearray.h): a sequence  *)
(* of bytes with one position for reading and writing.  Blocks, capacity   *)
(* and the pointer to the current block do not show.                       *)
(***************************************************************************)
EXTENDS Integers, Sequences

CONSTANTS
  Byte,    \* values of a byte
  Undef,   \* what a byte holds that was never written
  MaxLen,  \* bound on the bytes of one write
  MaxSize  \* bound on the bytes of the buffer

VARIABLES
  data,  \* the bytes up to GetSize()
  pos,   \* GetPosition()
  out    \* the bytes that the last read returned

bvars == <<data, pos, out>>

\* buf replaces the bytes of d from position p on, and may go past its end.
Overwrite(d, p, buf) ==
  [i \in 1..(IF p + Len(buf) > Len(d) THEN p + Len(buf) ELSE Len(d)) |->
     IF i \in (p + 1)..(p + Len(buf)) THEN buf[i - p] ELSE d[i]]

\* n bytes of d after position p.
Slice(d, p, n) == [k \in 1..n |-> d[p + k]]

BufferInit ==
  /\ data = <<>>
  /\ pos = 0
  /\ out = <<>>

Put(buf) ==
  /\ data' = Overwrite(data, pos, buf)
  /\ pos' = pos + Len(buf)
  /\ out' = <<>>

Take(n) ==
  /\ n <= Len(data) - pos
  /\ out' = Slice(data, pos, n)
  /\ pos' = pos + n
  /\ UNCHANGED data

\* A length (any length, where it was never written) and as many bytes; when
\* the bytes are missing the length is gone.
TakeString ==
  /\ pos < Len(data)
  /\ UNCHANGED data
  /\ \E len \in Byte :
       /\ data[pos + 1] \in {len, Undef}
       /\ IF len <= Len(data) - pos - 1
          THEN out' = Slice(data, pos + 1, len) /\ pos' = pos + 1 + len
          ELSE out' = <<>> /\ pos' = pos + 1

\* Past the end, the bytes in between are whatever memory holds.
Seek(p) ==
  /\ \E fill \in [1..(p - Len(data)) -> Byte \cup {Undef}] :
       data' = [i \in 1..(IF p > Len(data) THEN p ELSE Len(data)) |->
                  IF i <= Len(data) THEN data[i] ELSE fill[i - Len(data)]]
  /\ pos' = p
  /\ out' = <<>>

Reset ==
  /\ data' = <<>>
  /\ pos' = 0
  /\ out' = <<>>

Bufs == UNION {[1..n -> Byte] : n \in 0..MaxLen}

BufferNext ==
  \/ \E buf \in Bufs : Put(buf)
  \/ \E n \in 0..MaxSize : Take(n)
  \/ TakeString
  \/ \E p \in 0..MaxSize : Seek(p)
  \/ Reset

BufferSpec == BufferInit /\ [][BufferNext]_bvars
==============================================================================
