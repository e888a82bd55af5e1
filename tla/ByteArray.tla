----------------------------- MODULE ByteArray -------------------------------
(***************************************************************************)
(* The block list behind ByteArray: serverframework/util/bytearray.cc.     *)
(*                                                                         *)
(* All blocks have base_size_ bytes.  cur_ is the block of position_, or   *)
(* null when position_ is at the end of the last block, and every loop     *)
(* starts from cur_ at offset position_ % base_size_.  The loops over the  *)
(* blocks are written as what they compute: byte k of a transfer that      *)
(* starts in block b at offset o is in block b + (o + k) \div base_size_.  *)
(* The loops that hand out buffers, or write files, are functions that     *)
(* follow the code round by round.                                         *)
(*                                                                         *)
(* A null block that is used ends the run: fault.                          *)
(***************************************************************************)
EXTENDS Integers, Sequences

CONSTANTS
  Base,       \* base_size_
  MaxBlocks,  \* bound on the length of the list
  Byte,       \* values of a byte
  Undef,      \* content of memory that was never written
  MaxLen      \* bound on the bytes of one write

ASSUME BaseAssumption == Base \in Nat \ {0}
ASSUME BlocksAssumption == MaxBlocks \in Nat \ {0} /\ MaxLen \in Nat
ASSUME UndefAssumption == Byte \subseteq Nat /\ Undef \notin Byte

VARIABLES
  blocks,    \* number of blocks
  mem,       \* the bytes of each block
  cur,       \* number of the block cur_ points to, 0 for null
  position,  \* position_
  size,      \* size_
  capacity,  \* capacity_
  out,       \* the bytes that the last read returned
  fault      \* a null pointer was used

vars == <<blocks, mem, cur, position, size, capacity, out, fault>>

Null == 0

NewBlock == [o \in 0..(Base - 1) |-> Undef]

Init ==
  /\ blocks = 1
  /\ mem = [b \in 1..1 |-> NewBlock]
  /\ cur = 1
  /\ position = 0
  /\ size = 0
  /\ capacity = Base
  /\ out = <<>>
  /\ fault = FALSE

GetReadSize == size - position

\* capacity_ - position_, in spite of its name.
GetCapacity == capacity - position

\* How many blocks AddCapacity(n) appends: ceil((n - old_cap) / base_size_).
NewBlocks(n) ==
  IF GetCapacity >= n THEN 0 ELSE (n - GetCapacity + Base - 1) \div Base

\* cur_ after AddCapacity(n).
CurAfter(n) ==
  IF NewBlocks(n) > 0 /\ GetCapacity = 0 THEN blocks + 1 ELSE cur

\* The state after AddCapacity(n), but for the bytes and cur_.
AddCapacity(n) ==
  /\ blocks' = blocks + NewBlocks(n)
  /\ capacity' = capacity + Base * NewBlocks(n)

\* cur_ after n bytes from block b, offset o, in a list of bs blocks.
Advance(b, o, n, bs) ==
  LET c == b + (o + n) \div Base IN IF c > bs THEN Null ELSE c

\* A transfer of n bytes from block b, offset o uses a block that is not there.
Faults(b, o, n, bs) ==
  b = Null \/ (n > 0 /\ b + (o + n - 1) \div Base > bs)

Offset == position % Base

Stop ==
  /\ fault' = TRUE
  /\ UNCHANGED <<blocks, mem, cur, position, size, capacity, out>>

write(buf) ==
  LET n  == Len(buf)
      b  == CurAfter(n)
      bs == blocks + NewBlocks(n)
      at(x, o) == (x - b) * Base + o - Offset + 1
  IN IF n = 0 THEN UNCHANGED <<blocks, mem, cur, position, size, capacity, fault>>
                   /\ out' = <<>>
     ELSE IF Faults(b, Offset, n, bs) THEN Stop
     ELSE /\ AddCapacity(n)
          /\ mem' = [x \in 1..bs |-> [o \in 0..(Base - 1) |->
                       IF at(x, o) \in 1..n THEN buf[at(x, o)]
                       ELSE IF x <= blocks THEN mem[x][o] ELSE Undef]]
          /\ cur' = Advance(b, Offset, n, bs)
          /\ position' = position + n
          /\ size' = IF position + n > size THEN position + n ELSE size
          /\ out' = <<>>
          /\ UNCHANGED fault

\* The n bytes that a loop from block b, offset o copies.
Bytes(b, o, n) ==
  [k \in 1..n |-> mem[b + (o + k - 1) \div Base][(o + k - 1) % Base]]

\* read; out_of_range leaves everything as it is.
read(n) ==
  IF n > GetReadSize THEN UNCHANGED vars
  ELSE IF Faults(cur, Offset, n, blocks) THEN Stop
  ELSE /\ out' = Bytes(cur, Offset, n)
       /\ cur' = Advance(cur, Offset, n, blocks)
       /\ position' = position + n
       /\ UNCHANGED <<blocks, mem, size, capacity, fault>>

\* ReadStringF16, F32, F64 and Vint with a length of one byte (any length, where
\* it was never written): two reads, the second of which may throw, or find
\* cur_ null.
ReadString ==
  LET next == Advance(cur, Offset, 1, blocks)
      o    == (position + 1) % Base
  IN /\ GetReadSize >= 1
     /\ ~Faults(cur, Offset, 1, blocks)
     /\ \E len \in Byte :
          /\ Bytes(cur, Offset, 1)[1] \in {len, Undef}
          /\ IF len > GetReadSize - 1 \/ Faults(next, o, len, blocks)
             THEN /\ cur' = next
                  /\ position' = position + 1
                  /\ out' = <<>>
                  /\ IF len > GetReadSize - 1 THEN UNCHANGED fault ELSE fault' = TRUE
             ELSE /\ out' = Bytes(next, o, len)
                  /\ cur' = Advance(next, o, len, blocks)
                  /\ position' = position + 1 + len
                  /\ UNCHANGED fault
     /\ UNCHANGED <<blocks, mem, size, capacity>>

\* Mutant: size_ follows position_ backwards too.
SetPositionCuts(v) ==
  /\ v <= capacity
  /\ position' = v
  /\ size' = v
  /\ cur' = Advance(1, 0, v, blocks)
  /\ out' = <<>>
  /\ UNCHANGED <<blocks, mem, capacity, fault>>

\* SetPosition; past capacity_ it throws.  Its loop walks from the root.
SetPosition(v) ==
  /\ v <= capacity
  /\ position' = v
  /\ size' = IF v > size THEN v ELSE size
  /\ cur' = Advance(1, 0, v, blocks)
  /\ out' = <<>>
  /\ UNCHANGED <<blocks, mem, capacity, fault>>

\* GetWriteBuffers(len), which only changes the capacity, and cur_ with it.
GetWriteBuffers(len) ==
  /\ AddCapacity(len)
  /\ mem' = [x \in 1..blocks' |-> IF x <= blocks THEN mem[x] ELSE NewBlock]
  /\ cur' = CurAfter(len)
  /\ UNCHANGED <<position, size, out, fault>>

\* Clear; the bytes of the first block stay.
Clear ==
  /\ blocks' = 1
  /\ mem' = [b \in 1..1 |-> mem[1]]
  /\ cur' = 1
  /\ position' = 0
  /\ size' = 0
  /\ capacity' = Base
  /\ out' = <<>>
  /\ UNCHANGED fault

Bufs == UNION {[1..n -> Byte] : n \in 0..MaxLen}
MaxSize == Base * MaxBlocks

Next ==
  /\ ~fault
  /\ \/ \E buf \in Bufs : position + Len(buf) <= MaxSize /\ write(buf)
     \/ \E n \in 0..MaxSize : read(n)
     \/ ReadString
     \/ \E v \in 0..MaxSize : SetPosition(v)
     \/ \E len \in 1..MaxLen : position + len <= MaxSize /\ GetWriteBuffers(len)
     \/ Clear

Spec == Init /\ [][Next]_vars
------------------------------------------------------------------------------
(* The operations that leave the array alone *)

\* A piece of memory that is not there.
Bad == [block |-> Null, off |-> 0, len |-> 0]

\* The iovecs that the loop of GetReadBuffers and GetWriteBuffers makes for l
\* bytes from block b, offset o, in a list of bs blocks.
Iovecs(b, o, l, bs) ==
  LET f[x \in 0..(bs + 1), off \in 0..(Base - 1), len \in 0..l] ==
        IF len = 0 THEN <<>>
        ELSE IF x = Null \/ x > bs THEN <<Bad>>
        ELSE IF Base - off >= len
        THEN <<[block |-> x, off |-> off, len |-> len]>>
        ELSE <<[block |-> x, off |-> off, len |-> Base - off]>>
               \o f[x + 1, 0, len - (Base - off)]
  IN f[b, o, l]

\* Mutant: starts from the first block.
GetReadBuffersFromRoot(l) ==
  Iovecs(1, Offset, IF l > GetReadSize THEN GetReadSize ELSE l, blocks)

GetReadBuffers(l) ==
  Iovecs(cur, Offset, IF l > GetReadSize THEN GetReadSize ELSE l, blocks)

\* The version with a position: the length is still cut by GetReadSize().
GetReadBuffersAt(l, p) ==
  Iovecs(p \div Base + 1, p % Base, IF l > GetReadSize THEN GetReadSize ELSE l,
         blocks)

\* The iovecs of GetWriteBuffers when the capacity is there.
WriteBuffers(l) == Iovecs(cur, Offset, l, blocks)

\* read(buf, size, position) const and ToString: the loop starts from cur_.
ReadAt(l, p) == Iovecs(cur, p % Base, l, blocks)

ToStringBuffers == IF GetReadSize = 0 THEN <<>> ELSE ReadAt(GetReadSize, position)

\* WriteToFile: round by round, what is written, or Bad when cur is null.
WriteToFile ==
  LET f[x \in 0..(blocks + 1), p \in 0..(size + Base), left \in 0..size] ==
        IF left = 0 THEN <<>>
        ELSE IF x = Null \/ x > blocks THEN <<Bad>>
        ELSE LET diff == p % Base
                 len  == (IF left > Base THEN Base ELSE left) - diff
             IN IF len < 0 THEN <<Bad>>
                ELSE <<[block |-> x, off |-> diff, len |-> len]>>
                       \o f[x + 1, p + len, left - len]
  IN f[cur, position, GetReadSize]

------------------------------------------------------------------------------
(* Properties *)

TypeOK ==
  /\ blocks \in 1..MaxBlocks
  /\ mem \in [1..blocks -> [0..(Base - 1) -> Byte \cup {Undef}]]
  /\ cur \in 0..blocks
  /\ position \in Nat /\ size \in Nat /\ capacity \in Nat
  /\ out \in Seq(Byte \cup {Undef})
  /\ fault \in BOOLEAN

\* The block that holds position p, null at the end of the last one.
BlockOf(p) == IF p = capacity THEN Null ELSE p \div Base + 1

\* The three counters and the block list agree, and cur_ is the block of
\* position_: what write, read and all the loops take for granted, and what
\* AddCapacity at exact capacity, SetPosition at the end of a block, and Clear
\* have to restore.
Consistent ==
  /\ capacity = Base * blocks
  /\ position <= size /\ size <= capacity
  /\ cur = BlockOf(position)

\* The bytes of the array, in order.
Data == [i \in 1..size |-> mem[(i - 1) \div Base + 1][(i - 1) % Base]]

Flat == INSTANCE ByteBuffer WITH data <- Data, pos <- position

\* The block list implements the flat buffer: each operation does to the bytes,
\* the position and the result what it would do to a plain sequence, whatever
\* blocks the bytes straddle.
IsFlatBuffer == Flat!BufferSpec

\* The bytes that a list of iovecs stands for.
Gather(iov) ==
  LET f[i \in 0..Len(iov)] ==
        IF i = 0 THEN <<>>
        ELSE f[i - 1] \o [k \in 1..iov[i].len |-> mem[iov[i].block][iov[i].off + k - 1]]
  IN f[Len(iov)]

Sound(iov) == \A i \in 1..Len(iov) : iov[i].block # Null

Shows(iov, p, n) == Sound(iov) /\ Gather(iov) = Flat!Slice(Data, p, n)

\* The read buffers are the next bytes of the array; those of another position
\* are right as long as it is not behind position_, whose read size cuts the
\* length; and ToString is all that can be read.
ReadBuffersRight ==
  ~fault =>
    /\ \A l \in 0..GetReadSize : Shows(GetReadBuffers(l), position, l)
    /\ \A p \in 0..position, l \in 0..GetReadSize : Shows(GetReadBuffersAt(l, p), p, l)
    /\ Shows(ToStringBuffers, position, GetReadSize)

\* read(buf, size, position) starts from cur_ whatever the position: it returns
\* the right bytes for the positions in the current block.
ReadAtRight ==
  \A p \in 0..size :
    p \div Base = position \div Base /\ p < capacity =>
      \A l \in 0..(size - p) : Shows(ReadAt(l, p), p, l)

\* What is received into the write buffers is what can be read after a
\* SetPosition past it: they are the memory of the next positions.
WriteBuffersRight ==
  \A l \in 1..(capacity - position) :
    LET iov == WriteBuffers(l)
    IN /\ Sound(iov)
       /\ Gather(iov) =
            [k \in 1..l |-> mem[(position + k - 1) \div Base + 1]
                               [(position + k - 1) % Base]]

\* WriteToFile writes what can be read, when position_ is at the start of a
\* block or at least a block can be read; for less than a block from the middle
\* of one, its first length comes out short.
WriteToFileRight ==
  Offset = 0 \/ GetReadSize >= Base => Shows(WriteToFile, position, GetReadSize)

\* Whoever looks into the array at any time, through the buffers, a copy from a
\* position, ToString or a file, sees the bytes that are there: cur_ is right,
\* and a null block is used only at the end of the last block (a read of no
\* bytes there, as of an empty string, looks at cur_->size before it looks at its
\* argument).
ViewsRight ==
  /\ TypeOK /\ Consistent
  /\ fault => position = capacity
  /\ ReadBuffersRight /\ ReadAtRight /\ WriteBuffersRight /\ WriteToFileRight
==============================================================================
