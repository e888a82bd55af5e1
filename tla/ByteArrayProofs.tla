--------------------------- MODULE ByteArrayProofs ---------------------------
(***************************************************************************)
(* The block list is consistent, and implements a flat buffer, for every   *)
(* size of a block, every number of blocks and all bytes.                  *)
(***************************************************************************)
EXTENDS ByteArray, TLAPS

------------------------------------------------------------------------------
(* Arithmetic: a position and its block and offset *)

\* A block that comes later starts at least Base bytes later.
LEMMA MulMono == \A x, y \in Int : x < y => Base * x + Base <= Base * y
<1> SUFFICES ASSUME NEW x \in Int, NEW y \in Int, x < y
             PROVE  Base * x + Base <= Base * y
  OBVIOUS
<1>1. y - x - 1 \in Nat
  OBVIOUS
<1>2. Base * (y - x - 1) >= 0
  BY <1>1, BaseAssumption
<1> QED
  BY <1>2, BaseAssumption

\* Quotient and remainder.
LEMMA DivMod ==
  \A p \in Nat : /\ p \div Base \in Nat
                 /\ p % Base \in 0..(Base - 1)
                 /\ p = Base * (p \div Base) + (p % Base)
BY BaseAssumption

\* A position has one block and one offset.
LEMMA DivUnique ==
  \A p \in Nat, b \in Int, o \in 0..(Base - 1) :
    p = Base * b + o => p \div Base = b /\ p % Base = o
<1> SUFFICES ASSUME NEW p \in Nat, NEW b \in Int, NEW o \in 0..(Base - 1),
                    p = Base * b + o
             PROVE  p \div Base = b /\ p % Base = o
  OBVIOUS
<1> DEFINE q == p \div Base
           r == p % Base
<1>1. q \in Int /\ r \in 0..(Base - 1) /\ p = Base * q + r
  BY DivMod
<1> HIDE DEF q, r
<1>2. q = b
  BY <1>1, MulMono, BaseAssumption
<1>3. Base * q = Base * b
  BY <1>2
<1>4. r = o
  BY <1>1, <1>3, BaseAssumption
<1> QED
  BY <1>2, <1>4 DEF q, r

\* k bytes on from position p, counted from the offset of p in its block.
LEMMA Shift ==
  \A p, k \in Nat :
    /\ (p \div Base) + (((p % Base) + k) \div Base) = (p + k) \div Base
    /\ ((p % Base) + k) % Base = (p + k) % Base
<1> SUFFICES ASSUME NEW p \in Nat, NEW k \in Nat
             PROVE  /\ (p \div Base) + (((p % Base) + k) \div Base) = (p + k) \div Base
                    /\ ((p % Base) + k) % Base = (p + k) % Base
  OBVIOUS
<1> DEFINE a == p \div Base
           o == p % Base
           q == (o + k) \div Base
           r == (o + k) % Base
<1>1. a \in Nat /\ o \in 0..(Base - 1) /\ p = Base * a + o
  BY DivMod
<1>2. o + k \in Nat
  BY <1>1, BaseAssumption
<1>3. q \in Nat /\ r \in 0..(Base - 1) /\ o + k = Base * q + r
  BY <1>2, DivMod
<1> HIDE DEF a, o, q, r
<1>4. p + k = Base * (a + q) + r
  BY <1>1, <1>3, BaseAssumption
<1>5. (p + k) \div Base = a + q /\ (p + k) % Base = r
  BY <1>1, <1>3, <1>4, DivUnique
<1> QED
  BY <1>5 DEF a, o, q, r

\* The positions of the first b blocks.
LEMMA InBlocks ==
  \A p, b \in Nat : p \div Base < b <=> p < Base * b
<1> SUFFICES ASSUME NEW p \in Nat, NEW b \in Nat
             PROVE  p \div Base < b <=> p < Base * b
  OBVIOUS
<1> DEFINE q == p \div Base
           r == p % Base
<1>1. q \in Nat /\ r \in 0..(Base - 1) /\ p = Base * q + r
  BY DivMod
<1> HIDE DEF q, r
<1>2. ASSUME q < b PROVE p < Base * b
  <2>1. Base * q + Base <= Base * b
    BY <1>1, <1>2, MulMono
  <2> QED
    BY <1>1, <2>1, BaseAssumption
<1>3. ASSUME b < q PROVE Base * b <= p
  <2>1. Base * b + Base <= Base * q
    BY <1>1, <1>3, MulMono
  <2> QED
    BY <1>1, <2>1, BaseAssumption
<1>4. ASSUME b = q PROVE Base * b <= p
  BY <1>1, <1>4, BaseAssumption
<1>5. p < Base * b \/ Base * b <= p
  BY BaseAssumption
<1> QED
  BY <1>1, <1>2, <1>3, <1>4, <1>5, BaseAssumption DEF q

\* The end of b blocks is where the next one would start.
LEMMA EndOfBlocks ==
  \A b \in Nat : (Base * b) \div Base = b /\ (Base * b) % Base = 0
<1> SUFFICES ASSUME NEW b \in Nat
             PROVE  (Base * b) \div Base = b /\ (Base * b) % Base = 0
  OBVIOUS
<1>1. Base * b \in Nat /\ 0 \in 0..(Base - 1) /\ Base * b = Base * b + 0
  BY BaseAssumption
<1> QED
  BY <1>1, DivUnique

------------------------------------------------------------------------------
(* What the loops over the blocks compute *)

\* A transfer that starts in the block of p and stays within bs blocks ends with
\* cur_ at the block of p + n, or null at the end of the last one.
LEMMA AdvanceIs ==
  ASSUME NEW p \in Nat, NEW n \in Nat, NEW bs \in Nat, NEW cap \in Nat,
         cap = Base * bs, p + n <= cap
  PROVE  Advance((p \div Base) + 1, p % Base, n, bs)
           = IF p + n = cap THEN Null ELSE ((p + n) \div Base) + 1
<1> DEFINE c == (p \div Base) + 1 + (((p % Base) + n) \div Base)
           d == (p + n) \div Base
<1>1. d \in Nat /\ p \div Base \in Nat /\ ((p % Base) + n) \div Base \in Int
  <2>1. (p % Base) + n \in Nat
    BY DivMod, BaseAssumption
  <2> QED
    BY <2>1, DivMod
<1>2. c = d + 1
  BY <1>1, Shift
<1>3. d < bs <=> p + n < cap
  BY InBlocks
<1>4. Advance((p \div Base) + 1, p % Base, n, bs) = IF c > bs THEN Null ELSE c
  BY DEF Advance
<1> HIDE DEF c, d
<1>5. c > bs <=> ~ (d < bs)
  BY <1>1, <1>2
<1>6. c > bs <=> p + n = cap
  BY <1>3, <1>5
<1> QED
  BY <1>2, <1>4, <1>6 DEF d

\* Such a transfer uses only blocks that are there.
LEMMA NoFault ==
  ASSUME NEW p \in Nat, NEW n \in Nat, NEW bs \in Nat, NEW cap \in Nat,
         cap = Base * bs, p + n <= cap
  PROVE  ~ Faults((p \div Base) + 1, p % Base, n, bs)
<1> DEFINE e == ((p % Base) + (n - 1)) \div Base
<1>1. p \div Base \in Nat /\ p % Base \in Nat
  BY DivMod, BaseAssumption
<1>2. (p \div Base) + 1 # Null
  BY <1>1 DEF Null
<1>3. ASSUME n > 0 PROVE ~ ((p \div Base) + 1 + e > bs)
  <2>1. n - 1 \in Nat
    BY <1>3
  <2>2. (p \div Base) + e = (p + (n - 1)) \div Base
    BY <2>1, Shift
  <2>3. p + (n - 1) \in Nat /\ p + (n - 1) < cap
    BY <2>1
  <2>4. (p + (n - 1)) \div Base < bs
    BY <2>3, InBlocks
  <2>5. e \in Int /\ (p + (n - 1)) \div Base \in Int
    <3>1. (p % Base) + (n - 1) \in Nat
      BY <1>1, <2>1
    <3> QED
      BY <2>1, <2>3, <3>1, DivMod
  <2> HIDE DEF e
  <2> QED
    BY <1>1, <2>2, <2>4, <2>5
<1> QED
  BY <1>2, <1>3 DEF Faults

------------------------------------------------------------------------------
(* The invariant *)

\* Counters, blocks and cur_ agree, and only at the end of the last block can
\* a null pointer have been used.
ArrayInv ==
  /\ TypeOK
  /\ Consistent
  /\ fault => position = capacity

\* The memory that holds position p.
Cell(p) == mem[(p \div Base) + 1][p % Base]

\* Each position below the capacity has a cell.
LEMMA CellThere ==
  ASSUME ArrayInv, NEW p \in Nat, p < capacity
  PROVE  /\ (p \div Base) + 1 \in 1..blocks
         /\ p % Base \in 0..(Base - 1)
         /\ Cell(p) \in Byte \cup {Undef}
<1>1. blocks \in Nat /\ capacity = Base * blocks
  BY DEF ArrayInv, TypeOK, Consistent
<1>2. p \div Base < blocks
  BY <1>1, InBlocks
<1>3. p \div Base \in Nat /\ p % Base \in 0..(Base - 1)
  BY DivMod
<1>4. (p \div Base) + 1 \in 1..blocks
  BY <1>1, <1>2, <1>3
<1> QED
  BY <1>3, <1>4, Zenon DEF ArrayInv, TypeOK, Cell

\* The bytes of the array are the cells below size_.
LEMMA DataIs ==
  ASSUME ArrayInv
  PROVE  /\ Data \in Seq(Byte \cup {Undef})
         /\ Len(Data) = size
         /\ \A i \in 1..size : Data[i] = Cell(i - 1)
<1>1. size \in Nat /\ size <= capacity /\ capacity \in Nat
  BY DEF ArrayInv, TypeOK, Consistent
<1>2. Data = [i \in 1..size |-> Cell(i - 1)]
  BY DEF Data, Cell
<1>3. ASSUME NEW i \in 1..size PROVE Cell(i - 1) \in Byte \cup {Undef}
  <2>1. i - 1 \in Nat /\ i - 1 < capacity
    BY <1>1
  <2> QED
    BY <2>1, CellThere
<1>4. Data \in [1..size -> Byte \cup {Undef}]
  BY <1>2, <1>3
<1> QED
  BY <1>1, <1>2, <1>4

\* The n bytes that a loop copies from cur_ on are those of the flat buffer.
LEMMA BytesAreSlice ==
  ASSUME ArrayInv, NEW p \in Nat, NEW n \in Nat, p + n <= size
  PROVE  Bytes((p \div Base) + 1, p % Base, n) = Flat!Slice(Data, p, n)
<1> SUFFICES ASSUME NEW k \in 1..n
             PROVE  mem[(p \div Base) + 1 + (((p % Base) + (k - 1)) \div Base)]
                       [((p % Base) + (k - 1)) % Base] = Data[p + k]
  BY DEF Bytes, Flat!Slice
<1>1. size \in Nat
  BY DEF ArrayInv, TypeOK
<1>2. p \div Base \in Nat /\ p % Base \in Nat /\ k - 1 \in Nat
  BY DivMod, BaseAssumption
<1>4. ((p % Base) + (k - 1)) \div Base \in Int
  BY <1>2, DivMod
<1>5. (p \div Base) + 1 + (((p % Base) + (k - 1)) \div Base) = ((p + (k - 1)) \div Base) + 1
  BY <1>2, <1>4, Shift
<1>6. ((p % Base) + (k - 1)) % Base = (p + (k - 1)) % Base
  BY <1>2, Shift
<1>7. p + k \in 1..size /\ (p + k) - 1 = p + (k - 1)
  BY <1>1, <1>2
<1>8. Data[p + k] = Cell(p + (k - 1))
  BY <1>7, DataIs
<1> QED
  BY <1>5, <1>6, <1>8 DEF Cell

------------------------------------------------------------------------------
(* AddCapacity *)

\* Facts about a state with the invariant that the steps below share.
LEMMA Shape ==
  ASSUME ArrayInv
  PROVE  /\ blocks \in Nat \ {0} /\ blocks <= MaxBlocks /\ MaxBlocks \in Nat
         /\ position \in Nat /\ size \in Nat /\ capacity \in Nat
         /\ position <= size /\ size <= capacity
         /\ position < capacity => cur = (position \div Base) + 1
         /\ position = capacity => cur = Null
         /\ Base \in Nat \ {0}
BY BaseAssumption, BlocksAssumption DEF ArrayInv, TypeOK, Consistent, BlockOf

LEMMA Capacity ==
  ASSUME ArrayInv
  PROVE  capacity = Base * blocks
BY DEF ArrayInv, Consistent

\* The bytes of some blocks.
LEMMA MulNat == \A x \in Nat : Base * x \in Nat
BY BaseAssumption

LEMMA MulInt == \A x \in Int : Base * x \in Int
BY BaseAssumption

\* AddCapacity(n) makes room for n bytes, within the bound on the blocks, and
\* leaves cur_ at the block of position_: at exact capacity the first new one.
LEMMA Room ==
  ASSUME ArrayInv, NEW n \in Nat, n > 0, position + n <= MaxSize
  PROVE  /\ NewBlocks(n) \in Nat
         /\ blocks + NewBlocks(n) <= MaxBlocks
         /\ position + n <= Base * (blocks + NewBlocks(n))
         /\ Base * (blocks + NewBlocks(n)) = capacity + Base * NewBlocks(n)
         /\ CurAfter(n) = (position \div Base) + 1
<1> USE Shape
<1> DEFINE m == (n - GetCapacity) + (Base - 1)
<1>1. CASE GetCapacity >= n
  <2>1. NewBlocks(n) = 0 /\ position < capacity
    BY <1>1 DEF NewBlocks, GetCapacity
  <2>2. CurAfter(n) = cur
    BY <2>1 DEF CurAfter
  <2>3. Base * (blocks + 0) = capacity /\ Base * 0 = 0 /\ blocks + 0 = blocks
    BY Capacity
  <2> QED
    BY <1>1, <2>1, <2>2, <2>3 DEF GetCapacity
<1>2. CASE ~ (GetCapacity >= n)
  <2> DEFINE q == m \div Base
  <2>1. GetCapacity \in Nat /\ n - GetCapacity > 0 /\ m \in Nat
    BY <1>2 DEF GetCapacity
  <2>2. NewBlocks(n) = q
    BY <1>2 DEF NewBlocks
  <2>3. q \in Nat /\ m % Base \in 0..(Base - 1) /\ m = Base * q + (m % Base)
    BY <2>1, DivMod
  <2>4. m = (n - GetCapacity) + (Base - 1)
    OBVIOUS
  <2> HIDE DEF m, q
  <2>5. Base * q >= n - GetCapacity /\ Base * q <= (n - GetCapacity) + (Base - 1)
    BY <2>1, <2>3, <2>4
  <2>6. Base * (blocks + q) = capacity + Base * q
    BY <2>3, Capacity
  <2>7. Base * q \in Nat
    BY <2>3
  <2>8. position + n <= Base * (blocks + q)
    BY <2>5, <2>6, <2>7 DEF GetCapacity
  <2>9. Base * (blocks + q) <= Base * MaxBlocks + (Base - 1)
    <3>1. Base * MaxBlocks \in Nat
      OBVIOUS
    <3> QED
      BY <2>5, <2>6, <2>7, <3>1 DEF GetCapacity, MaxSize
  <2>10. blocks + q <= MaxBlocks
    <3> SUFFICES ASSUME MaxBlocks < blocks + q
                 PROVE  FALSE
      BY <2>3
    <3>1. Base * MaxBlocks + Base <= Base * (blocks + q)
      BY <2>3, MulMono
    <3>2. Base * MaxBlocks \in Nat /\ Base * (blocks + q) \in Nat
      BY <2>3
    <3> QED
      BY <2>9, <3>1, <3>2
  <2>11. q > 0
    <3>1. q # 0
      BY <2>1, <2>5
    <3> QED
      BY <2>3, <3>1
  <2>12. CurAfter(n) = (position \div Base) + 1
    <3>1. CASE position = capacity
      <4>1. GetCapacity = 0
        BY <3>1 DEF GetCapacity
      <4>2. CurAfter(n) = blocks + 1
        BY <2>2, <2>11, <4>1 DEF CurAfter
      <4>3. position \div Base = blocks
        BY <3>1, Capacity, EndOfBlocks
      <4> QED
        BY <4>2, <4>3
    <3>2. CASE position < capacity
      <4>1. GetCapacity # 0
        BY <3>2 DEF GetCapacity
      <4> QED
        BY <3>2, <4>1 DEF CurAfter
    <3> QED
      BY <3>1, <3>2
  <2> QED
    BY <2>2, <2>3, <2>6, <2>8, <2>10, <2>12
<1> QED
  BY <1>1, <1>2

------------------------------------------------------------------------------
(* The steps *)

\* cur_ after a transfer of n bytes from position_ in a list of bs blocks.
LEMMA AdvanceFrom ==
  ASSUME ArrayInv, NEW n \in Nat, NEW bs \in Nat, NEW cap \in Nat,
         cap = Base * bs, position + n <= cap
  PROVE  Advance((position \div Base) + 1, Offset, n, bs)
           = IF position + n = cap THEN Null ELSE ((position + n) \div Base) + 1
<1> DEFINE p == position
<1>1. p \in Nat /\ p + n <= cap
  BY Shape
<1>2. Offset = p % Base
  BY DEF Offset
<1> HIDE DEF p
<1>3. Advance((p \div Base) + 1, p % Base, n, bs)
        = IF p + n = cap THEN Null ELSE ((p + n) \div Base) + 1
  BY <1>1, AdvanceIs
<1> QED
  BY <1>2, <1>3 DEF p

\* The buffers that are written are sequences of bytes.
LEMMA BufsAre ==
  ASSUME NEW buf \in Bufs
  PROVE  Len(buf) \in Nat /\ buf \in [1..Len(buf) -> Byte]
<1> PICK n \in 0..MaxLen : buf \in [1..n -> Byte]
  BY DEF Bufs
<1>1. n \in Nat
  BY BlocksAssumption
<1>2. Len(buf) = n
  BY <1>1
<1> QED
  BY <1>1, <1>2

\* What a step has to see to: the rest follows.
LEMMA Reposition ==
  ASSUME ArrayInv, fault' = fault, ~ fault,
         blocks' \in 1..MaxBlocks, capacity' = Base * blocks',
         mem' \in [1..blocks' -> [0..(Base - 1) -> Byte \cup {Undef}]],
         position' \in Nat, size' \in Nat, position' <= size', size' <= capacity',
         out' \in Seq(Byte \cup {Undef}),
         cur' = IF position' = capacity' THEN Null ELSE (position' \div Base) + 1
  PROVE  ArrayInv'
<1>1. blocks' \in Nat /\ capacity' \in Nat
  BY BlocksAssumption, MulNat
<1>2. position' \div Base \in Nat
  BY DivMod
<1>3. cur' = BlockOf(position)'
  BY DEF BlockOf
<1>4. cur' \in 0..blocks'
  <2>1. CASE position' = capacity'
    BY <1>1, <2>1 DEF Null
  <2>2. CASE position' # capacity'
    <3>1. position' < capacity'
      BY <1>1, <2>2
    <3>2. position' \div Base < blocks'
      BY <1>1, <3>1, InBlocks
    <3> QED
      BY <1>1, <1>2, <2>2, <3>2
  <2> QED
    BY <2>1, <2>2
<1>5. TypeOK'
  <2>1. fault' \in BOOLEAN
    BY DEF ArrayInv, TypeOK
  <2> QED
    BY <1>1, <1>4, <2>1 DEF TypeOK
<1>6. Consistent'
  BY <1>3 DEF Consistent
<1> QED
  BY <1>5, <1>6 DEF ArrayInv

\* write(buf): the bytes go where they belong, whatever blocks they straddle.
LEMMA WriteStep ==
  ASSUME ArrayInv, ~ fault, NEW buf \in Bufs, position + Len(buf) <= MaxSize, write(buf)
  PROVE  ArrayInv' /\ Flat!Put(buf)
<1> USE Shape
<1> DEFINE n  == Len(buf)
           bs == blocks + NewBlocks(n)
           b  == (position \div Base) + 1
           at(x, o) == (x - b) * Base + o - Offset + 1
           top == IF position + n > size THEN position + n ELSE size
<1>1. n \in Nat /\ buf \in [1..n -> Byte]
  BY BufsAre
<1>2. Len(Data) = size
  BY DataIs
<1>3. CASE n = 0
  <2>1. UNCHANGED <<blocks, mem, cur, position, size, capacity, fault>> /\ out' = <<>>
    BY <1>3 DEF write
  <2>2. ArrayInv'
    BY <2>1 DEF ArrayInv, TypeOK, Consistent, BlockOf
  <2>3. Data' = Data
    BY <2>1 DEF Data
  <2>4. Flat!Overwrite(Data, position, buf) = Data
    <3>1. \A i \in 1..size : i \notin (position + 1)..(position + n)
      BY <1>3
    <3>2. ~ (position + n > size)
      BY <1>3
    <3> QED
      BY <1>2, <3>1, <3>2 DEF Flat!Overwrite, Data
  <2> QED
    BY <1>3, <2>1, <2>2, <2>3, <2>4 DEF Flat!Put
<1>4. CASE n > 0
  <2>1. /\ NewBlocks(n) \in Nat /\ bs \in Nat /\ bs <= MaxBlocks
        /\ position + n <= Base * bs /\ Base * bs = capacity + Base * NewBlocks(n)
        /\ CurAfter(n) = b
    BY <1>1, <1>4, Room, SMTT(30)
  <2>2. ~ Faults(b, Offset, n, bs)
    BY <1>1, <2>1, NoFault, SMTT(30) DEF Offset
  <2>3. /\ blocks' = bs
        /\ capacity' = Base * bs
        /\ mem' = [x \in 1..bs |-> [o \in 0..(Base - 1) |->
                     IF at(x, o) \in 1..n THEN buf[at(x, o)]
                     ELSE IF x <= blocks THEN mem[x][o] ELSE Undef]]
        /\ cur' = Advance(b, Offset, n, bs)
        /\ position' = position + n
        /\ size' = top
        /\ out' = <<>>
        /\ fault' = fault
    BY <1>4, <2>1, <2>2, SMTT(30) DEF write, AddCapacity
  <2> HIDE DEF at, b, bs, n
  <2>4. mem' \in [1..bs -> [0..(Base - 1) -> Byte \cup {Undef}]]
    <3>1. mem \in [1..blocks -> [0..(Base - 1) -> Byte \cup {Undef}]]
      BY DEF ArrayInv, TypeOK
    <3>2. ASSUME NEW x \in 1..bs, NEW o \in 0..(Base - 1)
          PROVE  (IF at(x, o) \in 1..n THEN buf[at(x, o)]
                  ELSE IF x <= blocks THEN mem[x][o] ELSE Undef) \in Byte \cup {Undef}
      <4>1. ASSUME at(x, o) \in 1..n PROVE buf[at(x, o)] \in Byte
        BY <1>1, <4>1
      <4>2. ASSUME x <= blocks PROVE mem[x][o] \in Byte \cup {Undef}
        <5>1. x \in 1..blocks
          BY <2>1, <4>2
        <5> QED
          BY <3>1, <5>1, Zenon
      <4> QED
        BY <4>1, <4>2
    <3> QED
      BY <2>3, <3>2, SMTT(30)
  <2>5. top \in Nat /\ position + n <= top /\ top <= Base * bs /\ capacity <= Base * bs
    <3>1. Base * NewBlocks(n) \in Nat
      BY <2>1
    <3> QED
      BY <1>1, <2>1, <3>1, SMTT(30)
  <2>6. ArrayInv'
    <3> DEFINE cap == Base * bs
    <3>1. bs \in Nat /\ cap \in Nat /\ cap = Base * bs /\ position + n <= cap
      BY <2>1, MulNat
    <3>2. position + n \in Nat /\ bs \in 1..MaxBlocks
      BY <1>1, <2>1, SMTT(30) DEF bs
    <3>3. top \in Nat /\ position + n <= top /\ top <= cap
      BY <2>5
    <3>4. capacity' = cap
      BY <2>3
    <3> HIDE DEF cap, top
    <3>5. Advance(b, Offset, n, bs)
            = IF position + n = cap THEN Null ELSE ((position + n) \div Base) + 1
      BY <1>1, <3>1, AdvanceFrom DEF b
    <3>6. cur' = IF position' = capacity' THEN Null ELSE (position' \div Base) + 1
      BY <2>3, <3>4, <3>5
    <3>7. capacity' = Base * blocks' /\ position' <= size' /\ size' <= capacity'
      BY <2>3, <3>1, <3>3, <3>4
    <3>8. /\ position' \in Nat /\ size' \in Nat /\ blocks' \in 1..MaxBlocks
          /\ mem' \in [1..blocks' -> [0..(Base - 1) -> Byte \cup {Undef}]]
          /\ out' \in Seq(Byte \cup {Undef})
      <4>1. <<>> \in Seq(Byte \cup {Undef})
        OBVIOUS
      <4> QED
        BY <2>3, <2>4, <3>2, <3>3, <4>1, Zenon
    <3> QED
      BY <2>3, <3>6, <3>7, <3>8, Reposition, Zenon
  <2>7. ASSUME NEW i \in 1..top
        PROVE  Data'[i] = IF i \in (position + 1)..(position + n) THEN buf[i - position]
                          ELSE Data[i]
    <3> DEFINE x == ((i - 1) \div Base) + 1
               o == (i - 1) % Base
    <3>1. i - 1 \in Nat /\ i - 1 < Base * bs
      BY <2>1, <2>5, SMTT(30)
    <3>2. Data'[i] = mem'[x][o]
      BY <2>3 DEF Data
    <3>3. x \in 1..bs /\ o \in 0..(Base - 1) /\ i - 1 = Base * (x - 1) + o
      <4>1. (i - 1) \div Base < bs
        BY <2>1, <3>1, InBlocks
      <4>2. (i - 1) \div Base \in Nat /\ (i - 1) % Base \in 0..(Base - 1)
            /\ i - 1 = Base * ((i - 1) \div Base) + ((i - 1) % Base)
        BY <3>1, DivMod
      <4>3. x - 1 = (i - 1) \div Base /\ x \in 1..bs
        <5> DEFINE q == (i - 1) \div Base
        <5>1. bs \in Nat /\ q \in Nat /\ q < bs
          BY <2>1, <4>1, <4>2
        <5>2. x = q + 1
          OBVIOUS
        <5> HIDE DEF q, x
        <5>3. x - 1 = q /\ x \in 1..bs
          BY <5>1, <5>2
        <5> QED
          BY <5>3 DEF q
      <4>4. Base * (x - 1) = Base * ((i - 1) \div Base)
        BY <4>3
      <4> HIDE DEF x
      <4> QED
        BY <4>2, <4>3, <4>4
    <3>4. b \in Nat /\ Offset \in 0..(Base - 1) /\ position = Base * (b - 1) + Offset
      <4>1. position \div Base \in Nat /\ position % Base \in 0..(Base - 1)
            /\ position = Base * (position \div Base) + (position % Base)
        BY DivMod
      <4>2. b \in Nat /\ b - 1 = position \div Base
        <5>1. position \div Base \in Nat
          BY <4>1
        <5> QED
          BY <5>1 DEF b
      <4>3. Base * (b - 1) = Base * (position \div Base)
        BY <4>2
      <4> QED
        BY <4>1, <4>2, <4>3 DEF Offset
    <3>5. i - 1 < capacity => x <= blocks
      <4>1. i - 1 < capacity => (i - 1) \div Base < blocks
        BY <3>1, Capacity, InBlocks
      <4>2. (i - 1) \div Base \in Nat
        BY <3>1, DivMod
      <4> QED
        BY <4>1, <4>2
    <3> HIDE DEF x, o
    <3>6. at(x, o) = i - position
      <4>1. (x - b) * Base = Base * (x - 1) - Base * (b - 1)
        BY <3>3, <3>4, SMTT(30)
      <4>2. x - 1 \in Int /\ b - 1 \in Int /\ o \in Int /\ Offset \in Int
        BY <2>1, <3>3, <3>4
      <4>3. Base * (x - 1) \in Int /\ Base * (b - 1) \in Int
        BY <4>2, MulInt
      <4> DEFINE A == Base * (x - 1)
                 B == Base * (b - 1)
      <4>4. at(x, o) = (A - B) + (o - Offset) + 1
        BY <4>1 DEF at
      <4>5. A \in Int /\ B \in Int /\ i - 1 = A + o /\ position = B + Offset
        BY <3>3, <3>4, <4>3
      <4> HIDE DEF A, B
      <4> QED
        BY <4>2, <4>4, <4>5
    <3>7. Data'[i] = IF i - position \in 1..n THEN buf[i - position]
                     ELSE IF x <= blocks THEN mem[x][o] ELSE Undef
      BY <2>3, <3>2, <3>3, <3>6
    <3>8. CASE i \in (position + 1)..(position + n)
      <4>1. i - position \in 1..n
        BY <1>1, <3>8
      <4> QED
        BY <3>7, <3>8, <4>1
    <3>9. CASE i \notin (position + 1)..(position + n)
      <4>1. i - position \notin 1..n
        BY <1>1, <3>9
      <4>2. i \in 1..size
        BY <1>1, <2>5, <3>9
      <4>3. x <= blocks
        BY <3>5, <4>2
      <4>4. Data[i] = mem[x][o]
        BY <4>2 DEF Data, x, o
      <4> QED
        BY <3>7, <3>9, <4>1, <4>3, <4>4
    <3> QED
      BY <3>8, <3>9
  <2>8. Data' = Flat!Overwrite(Data, position, buf)
    <3>1. Data' = [i \in 1..top |-> Data'[i]]
      BY <2>3 DEF Data
    <3> QED
      BY <1>2, <2>7, <3>1 DEF Flat!Overwrite, n
  <2> QED
    BY <2>3, <2>6, <2>8 DEF Flat!Put, n
<1> QED
  BY <1>1, <1>3, <1>4

\* A transfer from position_ is in the blocks that are there, unless it starts
\* at the end of the last one.
LEMMA ReadFaults ==
  ASSUME ArrayInv, NEW p \in Nat, NEW n \in Nat, p + n <= size,
         NEW c, c = IF p = capacity THEN Null ELSE (p \div Base) + 1
  PROVE  /\ Faults(c, p % Base, n, blocks) <=> p = capacity
         /\ p # capacity =>
              /\ Bytes(c, p % Base, n) = Flat!Slice(Data, p, n)
              /\ Advance(c, p % Base, n, blocks)
                   = IF p + n = capacity THEN Null ELSE ((p + n) \div Base) + 1
<1> USE Shape
<1>1. CASE p = capacity
  BY <1>1 DEF Faults
<1>2. CASE p # capacity
  <2>1. c = (p \div Base) + 1 /\ p + n <= capacity
    BY <1>2
  <2>2. ~ Faults(c, p % Base, n, blocks)
    BY <2>1, Capacity, NoFault
  <2>3. Advance(c, p % Base, n, blocks)
          = IF p + n = capacity THEN Null ELSE ((p + n) \div Base) + 1
    BY <2>1, Capacity, AdvanceIs, SMTT(30)
  <2>4. Bytes(c, p % Base, n) = Flat!Slice(Data, p, n)
    BY <2>1, BytesAreSlice
  <2> QED
    BY <1>2, <2>2, <2>3, <2>4
<1> QED
  BY <1>1, <1>2

\* Slices of the array are sequences of bytes.
LEMMA SliceType ==
  ASSUME ArrayInv, NEW p \in Nat, NEW n \in Nat, p + n <= size
  PROVE  Flat!Slice(Data, p, n) \in Seq(Byte \cup {Undef})
<1>1. Data \in [1..size -> Byte \cup {Undef}] /\ size \in Nat
  BY DataIs, Shape
<1>2. \A k \in 1..n : p + k \in 1..size
  BY <1>1
<1>3. Flat!Slice(Data, p, n) \in [1..n -> Byte \cup {Undef}]
  BY <1>1, <1>2 DEF Flat!Slice
<1> QED
  BY <1>3

\* A step that leaves the blocks, the bytes and size_ alone.
LEMMA SameData ==
  ASSUME UNCHANGED <<mem, size>>
  PROVE  Data' = Data
BY DEF Data

\* read(n) throws, uses a null pointer, or takes the next n bytes.
LEMMA ReadStep ==
  ASSUME ArrayInv, ~ fault, NEW n \in 0..MaxSize, read(n)
  PROVE  ArrayInv' /\ (Flat!Take(n) \/ UNCHANGED <<Data, position, out>>)
<1> USE Shape
<1>1. n \in Nat
  OBVIOUS
<1>2. Len(Data) = size
  BY DataIs
<1>3. CASE n > GetReadSize
  <2>1. UNCHANGED vars
    BY <1>3 DEF read
  <2> QED
    BY <2>1, SameData DEF vars, ArrayInv, TypeOK, Consistent, BlockOf
<1>4. CASE ~ (n > GetReadSize)
  <2>1. position + n <= size
    BY <1>1, <1>4 DEF GetReadSize
  <2>2. cur = IF position = capacity THEN Null ELSE (position \div Base) + 1
    OBVIOUS
  <2>3. CASE position = capacity
    <3>1. Faults(cur, Offset, n, blocks)
      BY <1>1, <2>1, <2>2, <2>3, ReadFaults DEF Offset
    <3>2. fault' = TRUE /\ UNCHANGED <<blocks, mem, cur, position, size, capacity, out>>
      BY <1>4, <3>1 DEF read, Stop
    <3> QED
      BY <2>3, <3>2, SameData DEF ArrayInv, TypeOK, Consistent, BlockOf
  <2>4. CASE position # capacity
    <3>1. /\ ~ Faults(cur, Offset, n, blocks)
          /\ Bytes(cur, Offset, n) = Flat!Slice(Data, position, n)
          /\ Advance(cur, Offset, n, blocks)
               = IF position + n = capacity THEN Null ELSE ((position + n) \div Base) + 1
      BY <1>1, <2>1, <2>2, <2>4, ReadFaults DEF Offset
    <3>2. /\ out' = Flat!Slice(Data, position, n)
          /\ cur' = IF position + n = capacity THEN Null ELSE ((position + n) \div Base) + 1
          /\ position' = position + n
          /\ UNCHANGED <<blocks, mem, size, capacity, fault>>
      BY <1>4, <3>1 DEF read
    <3>3. out' \in Seq(Byte \cup {Undef})
      BY <1>1, <2>1, <3>2, SliceType, SMTT(30)
    <3>4. ArrayInv'
      <4>1. position + n \in Nat /\ blocks' \in 1..MaxBlocks
        BY <1>1, <3>2
      <4>2. mem' \in [1..blocks' -> [0..(Base - 1) -> Byte \cup {Undef}]]
        BY <3>2 DEF ArrayInv, TypeOK
      <4>3. capacity' = Base * blocks' /\ position' <= size' /\ size' <= capacity'
        BY <2>1, <3>2, Capacity
      <4> QED
        BY <3>2, <3>3, <4>1, <4>2, <4>3, Reposition, SMTT(30)
    <3>5. Flat!Take(n)
      BY <1>1, <1>2, <2>1, <3>2, SameData DEF Flat!Take
    <3> QED
      BY <3>4, <3>5
  <2> QED
    BY <2>3, <2>4
<1> QED
  BY <1>3, <1>4

\* A string is a length and as many bytes.  A missing string costs the length; a
\* string that would start at the end of the last block can only be empty, and
\* uses a null pointer.
LEMMA ReadStringStep ==
  ASSUME ArrayInv, ~ fault, ReadString
  PROVE  ArrayInv' /\ Flat!TakeString
<1> USE Shape
<1> DEFINE next == Advance(cur, Offset, 1, blocks)
           o    == (position + 1) % Base
           p    == position + 1
<1>1. /\ GetReadSize >= 1
      /\ ~ Faults(cur, Offset, 1, blocks)
      /\ UNCHANGED <<blocks, mem, size, capacity>>
  BY DEF ReadString
<1>2. PICK len \in Byte :
        /\ Bytes(cur, Offset, 1)[1] \in {len, Undef}
        /\ IF len > GetReadSize - 1 \/ Faults(next, o, len, blocks)
           THEN /\ cur' = next
                /\ position' = position + 1
                /\ out' = <<>>
                /\ IF len > GetReadSize - 1 THEN UNCHANGED fault ELSE fault' = TRUE
           ELSE /\ out' = Bytes(next, o, len)
                /\ cur' = Advance(next, o, len, blocks)
                /\ position' = position + 1 + len
                /\ UNCHANGED fault
  BY DEF ReadString
<1>3. len \in Nat /\ p \in Nat /\ p <= size /\ position < size
  BY <1>1, UndefAssumption DEF GetReadSize
<1>4. Len(Data) = size
  BY DataIs
<1>5. cur = IF position = capacity THEN Null ELSE (position \div Base) + 1
  OBVIOUS
<1>6. /\ position # capacity
      /\ Bytes(cur, Offset, 1) = Flat!Slice(Data, position, 1)
      /\ next = IF p = capacity THEN Null ELSE (p \div Base) + 1
  BY <1>3, <1>5, ReadFaults DEF Offset
<1>7. Data[position + 1] \in {len, Undef}
  <2>1. Flat!Slice(Data, position, 1)[1] = Data[position + 1]
    BY DEF Flat!Slice
  <2> QED
    BY <1>2, <1>6, <2>1
<1> HIDE DEF next
<1>8. /\ mem' \in [1..blocks' -> [0..(Base - 1) -> Byte \cup {Undef}]]
      /\ blocks' \in 1..MaxBlocks /\ size' \in Nat
      /\ capacity' = Base * blocks' /\ size' = size /\ size' <= capacity'
  BY <1>1, Capacity DEF ArrayInv, TypeOK
<1>9. Data' = Data
  BY <1>1, SameData
<1>10. <<>> \in Seq(Byte \cup {Undef})
  OBVIOUS
<1>11. CASE len > GetReadSize - 1
  <2>1. cur' = next /\ position' = p /\ out' = <<>> /\ fault' = fault
    BY <1>2, <1>11
  <2>2. ArrayInv'
    <3>1. cur' = IF position' = capacity' THEN Null ELSE (position' \div Base) + 1
      BY <1>1, <1>6, <2>1
    <3>2. position' \in Nat /\ position' <= size'
      BY <1>3, <1>8, <2>1
    <3> QED
      BY <1>8, <1>10, <2>1, <3>1, <3>2, Reposition, SMTT(30)
  <2>3. ~ (len <= Len(Data) - position - 1)
    BY <1>3, <1>4, <1>11 DEF GetReadSize
  <2> QED
    BY <1>3, <1>4, <1>7, <1>9, <2>1, <2>2, <2>3 DEF Flat!TakeString
<1>12. CASE ~ (len > GetReadSize - 1)
  <2>1. p + len <= size /\ len <= Len(Data) - position - 1
    BY <1>3, <1>4, <1>12 DEF GetReadSize
  <2>2. CASE p = capacity
    <3>1. len = 0
      BY <1>3, <2>1, <2>2
    <3>2. Faults(next, o, len, blocks)
      BY <1>3, <1>6, <2>1, <2>2, ReadFaults, SMTT(30)
    <3>3. cur' = next /\ position' = p /\ out' = <<>> /\ fault' = TRUE
      BY <1>2, <1>12, <3>2
    <3>4. ArrayInv'
      <4>1. next = Null
        BY <1>6, <2>2
      <4>2. fault' \in BOOLEAN
        BY <3>3
      <4>3. TypeOK'
        BY <1>1, <1>3, <1>8, <1>10, <3>3, <4>1, <4>2 DEF ArrayInv, TypeOK, Null
      <4>4. Consistent' /\ position' = capacity'
        BY <1>1, <1>3, <1>8, <2>2, <3>3, <4>1 DEF Consistent, BlockOf
      <4> QED
        BY <4>3, <4>4 DEF ArrayInv
    <3>5. Flat!Slice(Data, position + 1, len) = <<>> /\ position + 1 + len = p
      BY <1>3, <3>1 DEF Flat!Slice
    <3> QED
      BY <1>3, <1>4, <1>7, <1>9, <2>1, <3>3, <3>4, <3>5, SMTT(30) DEF Flat!TakeString
  <2>3. CASE p # capacity
    <3>1. /\ ~ Faults(next, o, len, blocks)
          /\ Bytes(next, o, len) = Flat!Slice(Data, p, len)
          /\ Advance(next, o, len, blocks)
               = IF p + len = capacity THEN Null ELSE ((p + len) \div Base) + 1
      BY <1>3, <1>6, <2>1, <2>3, ReadFaults, SMTT(30)
    <3>2. /\ out' = Flat!Slice(Data, p, len)
          /\ cur' = IF p + len = capacity THEN Null ELSE ((p + len) \div Base) + 1
          /\ position' = p + len
          /\ fault' = fault
      BY <1>2, <1>3, <1>12, <3>1
    <3>3. out' \in Seq(Byte \cup {Undef})
      BY <1>3, <2>1, <3>2, SliceType, Zenon
    <3>4. ArrayInv'
      <4>1. position' \in Nat /\ position' <= size'
        <5>1. p + len \in Nat
          BY <1>3
        <5> QED
          BY <1>8, <2>1, <3>2, <5>1
      <4>2. cur' = IF position' = capacity' THEN Null ELSE (position' \div Base) + 1
        BY <1>1, <3>2
      <4> QED
        BY <1>8, <3>2, <3>3, <4>1, <4>2, Reposition, SMTT(30)
    <3> QED
      BY <1>3, <1>4, <1>7, <1>9, <2>1, <3>2, <3>4, SMTT(30) DEF Flat!TakeString
  <2> QED
    BY <2>2, <2>3
<1> QED
  BY <1>11, <1>12

\* SetPosition(v) walks to the block of v; what it skips becomes part of the
\* array as it is in memory.
LEMMA SetPositionStep ==
  ASSUME ArrayInv, ~ fault, NEW v \in 0..MaxSize, SetPosition(v)
  PROVE  ArrayInv' /\ Flat!Seek(v)
<1> USE Shape
<1> DEFINE top == IF v > size THEN v ELSE size
<1>1. /\ v <= capacity
      /\ position' = v
      /\ size' = top
      /\ cur' = Advance(1, 0, v, blocks)
      /\ out' = <<>>
      /\ UNCHANGED <<blocks, mem, capacity, fault>>
  BY DEF SetPosition
<1>2. v \in Nat /\ top \in Nat /\ v <= top /\ top <= capacity /\ size <= top
  BY <1>1
<1>3. cur' = IF v = capacity THEN Null ELSE (v \div Base) + 1
  <2>1. 0 \div Base = 0 /\ 0 % Base = 0
    <3>1. Base * 0 = 0
      OBVIOUS
    <3> QED
      BY <3>1, EndOfBlocks
  <2>2. 0 + v = v /\ (0 \div Base) + 1 = 1
    BY <1>2, <2>1
  <2>3. Advance((0 \div Base) + 1, 0 % Base, v, blocks)
          = IF 0 + v = capacity THEN Null ELSE ((0 + v) \div Base) + 1
    BY <1>1, <1>2, <2>2, Capacity, AdvanceIs
  <2> QED
    BY <1>1, <2>1, <2>2, <2>3
<1>4. ArrayInv'
  <2>1. mem' \in [1..blocks' -> [0..(Base - 1) -> Byte \cup {Undef}]] /\ blocks' \in 1..MaxBlocks
    BY <1>1 DEF ArrayInv, TypeOK
  <2>2. out' \in Seq(Byte \cup {Undef})
    BY <1>1
  <2>3. capacity' = Base * blocks'
    BY <1>1, Capacity
  <2> QED
    BY <1>1, <1>2, <1>3, <2>1, <2>2, <2>3, Reposition, SMTT(30)
<1>5. Len(Data) = size /\ \A i \in 1..size : Data[i] = Cell(i - 1)
  BY DataIs
<1>6. Data' = [i \in 1..top |-> Cell(i - 1)]
  BY <1>1 DEF Data, Cell
<1> DEFINE fill == [i \in 1..(v - size) |-> Cell((size + i) - 1)]
<1>7. fill \in [1..(v - Len(Data)) -> Byte \cup {Undef}]
  <2>1. ASSUME NEW i \in 1..(v - size) PROVE Cell((size + i) - 1) \in Byte \cup {Undef}
    <3>1. (size + i) - 1 \in Nat /\ (size + i) - 1 < capacity
      BY <1>1, <1>2
    <3> QED
      BY <3>1, CellThere
  <2> QED
    BY <1>5, <2>1
<1>8. ASSUME NEW i \in 1..top
      PROVE  Cell(i - 1) = IF i <= Len(Data) THEN Data[i] ELSE fill[i - Len(Data)]
  <2>1. CASE i <= size
    BY <1>5, <2>1
  <2>2. CASE ~ (i <= size)
    <3>1. i - size \in 1..(v - size) /\ (size + (i - size)) - 1 = i - 1
      BY <1>2, <2>2
    <3> QED
      BY <1>5, <2>2, <3>1
  <2> QED
    BY <2>1, <2>2
<1> HIDE DEF fill
<1>9. Data' = [i \in 1..(IF v > Len(Data) THEN v ELSE Len(Data)) |->
                 IF i <= Len(Data) THEN Data[i] ELSE fill[i - Len(Data)]]
  BY <1>5, <1>6, <1>8
<1> QED
  BY <1>1, <1>4, <1>7, <1>9, Zenon DEF Flat!Seek

\* GetWriteBuffers makes room, and nobody who looks at the bytes notices.
LEMMA WriteBuffersStep ==
  ASSUME ArrayInv, ~ fault, NEW len \in 1..MaxLen, position + len <= MaxSize,
         GetWriteBuffers(len)
  PROVE  ArrayInv' /\ UNCHANGED <<Data, position, out>>
<1> USE Shape
<1> DEFINE bs == blocks + NewBlocks(len)
<1>1. len \in Nat /\ len > 0
  BY BlocksAssumption
<1>2. /\ NewBlocks(len) \in Nat /\ bs \in Nat /\ bs <= MaxBlocks
      /\ position + len <= Base * bs /\ Base * bs = capacity + Base * NewBlocks(len)
      /\ CurAfter(len) = (position \div Base) + 1
  BY <1>1, Room
<1>3. /\ blocks' = bs /\ capacity' = Base * bs
      /\ mem' = [x \in 1..bs |-> IF x <= blocks THEN mem[x] ELSE NewBlock]
      /\ cur' = (position \div Base) + 1
      /\ UNCHANGED <<position, size, out, fault>>
  BY <1>2 DEF GetWriteBuffers, AddCapacity
<1> HIDE DEF bs
<1>4. mem' \in [1..bs -> [0..(Base - 1) -> Byte \cup {Undef}]]
  <2>1. mem \in [1..blocks -> [0..(Base - 1) -> Byte \cup {Undef}]]
    BY DEF ArrayInv, TypeOK
  <2>2. NewBlock \in [0..(Base - 1) -> Byte \cup {Undef}]
    BY DEF NewBlock
  <2>3. \A x \in 1..bs : x <= blocks => x \in 1..blocks
    BY <1>2
  <2> QED
    BY <1>3, <2>1, <2>2, <2>3, SMTT(30)
<1>5. ArrayInv'
  <2>1. bs \in 1..MaxBlocks
    BY <1>2 DEF bs
  <2>2. position < Base * bs /\ size <= Base * bs
    <3>1. Base * NewBlocks(len) \in Nat
      BY <1>2
    <3> QED
      BY <1>1, <1>2, <3>1
  <2>3. cur' = IF position = Base * bs THEN Null ELSE (position \div Base) + 1
    BY <1>3, <2>2
  <2>4. out \in Seq(Byte \cup {Undef})
    BY DEF ArrayInv, TypeOK
  <2> QED
    BY <1>3, <1>4, <2>1, <2>2, <2>3, <2>4, Reposition, Zenon
<1>6. Data' = Data
  <2> SUFFICES ASSUME NEW i \in 1..size
               PROVE  mem'[((i - 1) \div Base) + 1][(i - 1) % Base]
                        = mem[((i - 1) \div Base) + 1][(i - 1) % Base]
    BY <1>3, Zenon DEF Data
  <2>1. i - 1 \in Nat /\ i - 1 < capacity
    OBVIOUS
  <2>2. ((i - 1) \div Base) + 1 \in 1..blocks
    BY <2>1, CellThere
  <2>3. blocks <= bs
    BY <1>2 DEF bs
  <2>4. ((i - 1) \div Base) + 1 \in 1..bs /\ ((i - 1) \div Base) + 1 <= blocks
    BY <1>2, <2>2, <2>3
  <2> QED
    BY <1>3, <2>4
<1> QED
  BY <1>3, <1>5, <1>6

\* Clear keeps the first block, and nothing of what is in it.
LEMMA ClearStep ==
  ASSUME ArrayInv, ~ fault, Clear
  PROVE  ArrayInv' /\ Flat!Reset
<1> USE Shape
<1>1. /\ blocks' = 1 /\ mem' = [x \in 1..1 |-> mem[1]] /\ cur' = 1
      /\ position' = 0 /\ size' = 0 /\ capacity' = Base /\ out' = <<>>
      /\ UNCHANGED fault
  BY DEF Clear
<1>2. mem' \in [1..1 -> [0..(Base - 1) -> Byte \cup {Undef}]]
  <2>1. mem[1] \in [0..(Base - 1) -> Byte \cup {Undef}]
    BY DEF ArrayInv, TypeOK
  <2> QED
    BY <1>1, <2>1
<1>3. 0 \div Base = 0
  <2>1. Base * 0 = 0
    OBVIOUS
  <2> QED
    BY <2>1, EndOfBlocks
<1>4. ArrayInv'
  <2>1. Base * 1 = Base /\ 1 \in 1..MaxBlocks /\ <<>> \in Seq(Byte \cup {Undef})
    OBVIOUS
  <2>2. cur' = IF position' = capacity' THEN Null ELSE (position' \div Base) + 1
    BY <1>1, <1>3
  <2>3. capacity' = Base * blocks' /\ position' <= size' /\ size' <= capacity'
    BY <1>1, <2>1
  <2>4. position' \in Nat /\ size' \in Nat /\ blocks' \in 1..MaxBlocks
    BY <1>1, <2>1
  <2> QED
    BY <1>1, <1>2, <2>1, <2>2, <2>3, <2>4, Reposition
<1>5. Data' = <<>>
  BY <1>1 DEF Data
<1> QED
  BY <1>1, <1>4, <1>5 DEF Flat!Reset

------------------------------------------------------------------------------
(* The theorems *)

LEMMA InitInv == Init => ArrayInv /\ Flat!BufferInit
<1> SUFFICES ASSUME Init PROVE ArrayInv /\ Flat!BufferInit
  OBVIOUS
<1> USE BaseAssumption, BlocksAssumption
<1>1. 0 \div Base = 0
  <2>1. Base * 0 = 0
    OBVIOUS
  <2> QED
    BY <2>1, EndOfBlocks
<1>2. TypeOK
  <2>1. NewBlock \in [0..(Base - 1) -> Byte \cup {Undef}]
    BY DEF NewBlock
  <2> QED
    BY <2>1 DEF Init, TypeOK
<1>3. Consistent
  BY <1>1 DEF Init, Consistent, BlockOf
<1>4. Data = <<>>
  BY DEF Init, Data
<1> QED
  BY <1>2, <1>3, <1>4 DEF Init, ArrayInv, Flat!BufferInit

\* Every step keeps the invariant and is a step of the flat buffer, or none.
LEMMA NextStep ==
  ASSUME ArrayInv, [Next]_vars
  PROVE  ArrayInv' /\ [Flat!BufferNext]_(Flat!bvars)
<1>1. CASE UNCHANGED vars
  BY <1>1, SameData DEF vars, ArrayInv, TypeOK, Consistent, BlockOf, Flat!bvars
<1>2. CASE Next
  <2>1. ~ fault
    BY <1>2 DEF Next
  <2>2. ASSUME NEW buf \in Bufs, position + Len(buf) <= MaxSize, write(buf)
        PROVE  ArrayInv' /\ Flat!BufferNext
    <3>1. buf \in Flat!Bufs
      BY DEF Bufs, Flat!Bufs
    <3> QED
      BY <2>1, <2>2, <3>1, WriteStep DEF Flat!BufferNext
  <2>3. ASSUME NEW n \in 0..MaxSize, read(n)
        PROVE  ArrayInv' /\ (Flat!BufferNext \/ UNCHANGED Flat!bvars)
    BY <2>1, <2>3, ReadStep DEF Flat!BufferNext, Flat!bvars
  <2>4. ASSUME ReadString PROVE ArrayInv' /\ Flat!BufferNext
    BY <2>1, <2>4, ReadStringStep DEF Flat!BufferNext
  <2>5. ASSUME NEW v \in 0..MaxSize, SetPosition(v) PROVE ArrayInv' /\ Flat!BufferNext
    BY <2>1, <2>5, SetPositionStep DEF Flat!BufferNext
  <2>6. ASSUME NEW len \in 1..MaxLen, position + len <= MaxSize, GetWriteBuffers(len)
        PROVE  ArrayInv' /\ UNCHANGED Flat!bvars
    BY <2>1, <2>6, WriteBuffersStep DEF Flat!bvars
  <2>7. ASSUME Clear PROVE ArrayInv' /\ Flat!BufferNext
    BY <2>1, <2>7, ClearStep DEF Flat!BufferNext
  <2> QED
    BY <1>2, <2>2, <2>3, <2>4, <2>5, <2>6, <2>7 DEF Next
<1> QED
  BY <1>1, <1>2

\* After every sequence of calls the counters of the array, its list of blocks
\* and cur_ agree, and a null block has been used only at the end of the last
\* one: AddCapacity, SetPosition, Clear and the loops of read and write leave no
\* array on which the next call goes wrong.
THEOREM AlwaysConsistent == Spec => [](Consistent /\ (fault => position = capacity))
<1>1. Init => ArrayInv
  BY InitInv
<1>2. ArrayInv /\ [Next]_vars => ArrayInv'
  BY NextStep
<1>3. ArrayInv => Consistent /\ (fault => position = capacity)
  BY DEF ArrayInv
<1> QED
  BY <1>1, <1>2, <1>3, PTL DEF Spec

\* ByteArray with its blocks does what a plain sequence of bytes with a position
\* does: write, read, the strings, SetPosition, GetWriteBuffers and Clear are
\* steps of ByteBuffer, or none, for every size of a block.
THEOREM ImplementsBuffer == Spec => IsFlatBuffer
<1>1. Init => ArrayInv /\ Flat!BufferInit
  BY InitInv
<1>2. ArrayInv /\ [Next]_vars => ArrayInv' /\ [Flat!BufferNext]_(Flat!bvars)
  BY NextStep
<1> QED
  BY <1>1, <1>2, PTL DEF Spec, IsFlatBuffer, Flat!BufferSpec
==============================================================================
