------------------------------ MODULE TextUtil -------------------------------
(***************************************************************************)
(* The string and path functions of serverframework/util/util.cc.  A       *)
(* string is a sequence of byte values.                                    *)
(***************************************************************************)
EXTENDS Integers, Sequences, SequencesExt

Space   == 32
Percent == 37
Plus    == 43
Slash   == 47
Dot     == 46

\* The table uri_chars.  It has '=' (61), which the comment below it has not.
CHAR_IS_UNRESERVED(c) ==
  c \in {45, 46, 61, 95, 126} \cup 48..57 \cup 65..90 \cup 97..122

isxdigit(c) == c \in 48..57 \cup 65..70 \cup 97..102

\* The table xdigit_chars.
xdigit_chars(c) ==
  IF c \in 48..57 THEN c - 48
  ELSE IF c \in 65..70 THEN c - 55
  ELSE IF c \in 97..102 THEN c - 87 ELSE 0

hexdigits(d) == IF d < 10 THEN d + 48 ELSE d + 55

EncodeChar(c, space_as_plus) ==
  IF CHAR_IS_UNRESERVED(c) THEN <<c>>
  ELSE IF c = Space /\ space_as_plus THEN <<Plus>>
  ELSE <<Percent, hexdigits(c \div 16), hexdigits(c % 16)>>

UrlEncode(str, space_as_plus) ==
  FoldLeft(LAMBDA ss, c : ss \o EncodeChar(c, space_as_plus), <<>>, str)

UrlDecode(str, space_as_plus) ==
  LET n == Len(str)
      f[c \in 1..(n + 3)] ==
        IF c > n THEN <<>>
        ELSE IF str[c] = Plus /\ space_as_plus THEN <<Space>> \o f[c + 1]
        ELSE IF str[c] = Percent /\ c + 2 <= n /\ isxdigit(str[c + 1])
                  /\ isxdigit(str[c + 2])
        THEN <<xdigit_chars(str[c + 1]) * 16 + xdigit_chars(str[c + 2])>> \o f[c + 3]
        ELSE <<str[c]>> \o f[c + 1]
  IN f[1]

\* Positions of the characters of str that are not in delimit.
Others(str, delimit) == {i \in 1..Len(str) : str[i] \notin delimit}

Trim(str, delimit) ==
  IF Others(str, delimit) = {} THEN <<>>
  ELSE SubSeq(str, Min(Others(str, delimit)), Max(Others(str, delimit)))

TrimLeft(str, delimit) ==
  IF Others(str, delimit) = {} THEN <<>>
  ELSE SubSeq(str, Min(Others(str, delimit)), Len(str))

\* substr(0, end) with end the position of the last character to keep.
TrimRight(str, delimit) ==
  IF Others(str, delimit) = {} THEN <<>>
  ELSE SubSeq(str, 1, Max(Others(str, delimit)) - 1)

\* rfind('/'): 0 when there is none.
rfind(str) == Max({0} \cup {i \in 1..Len(str) : str[i] = Slash})

Dirname(filename) ==
  LET pos == rfind(filename) IN
  IF pos = 0 THEN <<Dot>>
  ELSE IF pos = 1 THEN <<Slash>>
  ELSE SubSeq(filename, 1, pos - 1)

Basename(filename) == SubSeq(filename, rfind(filename) + 1, Len(filename))
------------------------------------------------------------------------------
(* What they are for *)

\* Decoding undoes encoding for every string of bytes, spaces and plus and
\* percent signs included, when both sides agree on the plus.
UrlRoundTrip(str) ==
  \A plus \in BOOLEAN : UrlDecode(UrlEncode(str, plus), plus) = str

\* Trim and TrimLeft take off delimiters only, and all of them; TrimRight takes
\* off the delimiters and, with substr(0, end), the last character before them.
TrimRemoves(str, delimit) ==
  \E i, j \in 0..Len(str) :
    /\ i + j <= Len(str)
    /\ \A k \in 1..i : str[k] \in delimit
    /\ \A k \in (Len(str) - j + 1)..Len(str) : str[k] \in delimit
    /\ LET mid == SubSeq(str, i + 1, Len(str) - j)
       IN /\ mid # <<>> => mid[1] \notin delimit /\ mid[Len(mid)] \notin delimit
          /\ Trim(str, delimit) = mid
          /\ mid # <<>> =>
               /\ TrimLeft(str, delimit) = SubSeq(str, i + 1, Len(str))
               /\ TrimRight(str, delimit) = SubSeq(str, 1, Len(str) - j - 1)

\* The directory and the name give the path back.
PathSplits(filename) ==
  LET d == Dirname(filename)
      b == Basename(filename)
  IN filename = IF rfind(filename) = 0 THEN b
                ELSE IF rfind(filename) = 1 THEN d \o b
                ELSE d \o <<Slash>> \o b
==============================================================================
