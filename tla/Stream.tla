------------------------------- MODULE Stream --------------------------------
(***************************************************************************)
(* ReadFixSize and WriteFixSize of util/stream.cc: the loops that turn     *)
(* partial transfers into one of a fixed length.                           *)
(*                                                                         *)
(* read and write are the virtual functions of a Stream: a script lens of  *)
(* what they return, in turn, where a positive result is at most what was  *)
(* asked for.  The bytes of the peer are numbered 1, 2, 3 ... in the order *)
(* in which the stream carries them.                                       *)
(***************************************************************************)
EXTENDS Integers, Sequences, SequencesExt

\* A loop: the bytes there, offset, left, how many bytes the stream has carried,
\* and the value returned once done.
StreamLoop(length) ==
  [there |-> [i \in 1..length |-> 0], offset |-> 0, left |-> length, carried |-> 0,
   ret |-> length, done |-> length = 0]

\* One call that returns len: its bytes are put from at on.  A closed stream or
\* an error ends the loop with the value of the call.
Transfer(s, len, at) ==
  IF len <= 0
    THEN [s EXCEPT !.ret = len, !.done = TRUE]
    ELSE [s EXCEPT
            !.there = [i \in DOMAIN @ |-> IF i \in (at + 1)..(at + len) THEN s.carried + i - at ELSE @[i]],
            !.carried = @ + len]

\* What a call that is asked for left bytes may return of a scripted result.
Returned_(left, len) == IF len > left THEN left ELSE len

\* offset += len; left -= len.
Advance_(s, len) ==
  IF len <= 0 THEN s
    ELSE [s EXCEPT !.offset = @ + len, !.left = @ - len, !.done = s.left - len <= 0]

BufferStep(s, len) ==
  IF s.done THEN s
    ELSE Advance_(Transfer(s, Returned_(s.left, len), s.offset), Returned_(s.left, len))

\* The byte array has its own position, which each read or write moves on.
ArrayStep(s, len) ==
  IF s.done THEN s
    ELSE Advance_(Transfer(s, Returned_(s.left, len), s.carried), Returned_(s.left, len))

ReadFixSize(length, lens) == FoldLeft(BufferStep, StreamLoop(length), lens)
ReadFixSizeArray(length, lens) == FoldLeft(ArrayStep, StreamLoop(length), lens)
WriteFixSize(length, lens) == FoldLeft(BufferStep, StreamLoop(length), lens)
WriteFixSizeArray(length, lens) == FoldLeft(ArrayStep, StreamLoop(length), lens)
------------------------------------------------------------------------------

\* However the transfers are cut, a loop that returns length > 0 has moved
\* exactly the first length bytes, in order, and has asked for none beyond them;
\* one that returns 0 or less has moved a proper prefix, of a size it does not
\* tell, except that 0 is also the answer for length 0.
FixSize(length, lens) ==
  \A s \in {ReadFixSize(length, lens), ReadFixSizeArray(length, lens),
            WriteFixSize(length, lens), WriteFixSizeArray(length, lens)} :
    /\ s.carried <= length
    /\ \A i \in 1..length : s.there[i] = IF i <= s.carried THEN i ELSE 0
    /\ s.done => IF s.carried = length THEN s.ret = length ELSE s.ret <= 0
    /\ ~s.done => Len(SelectSeq(lens, LAMBDA len : len <= 0)) = 0
==============================================================================
