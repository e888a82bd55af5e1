---------------------------- MODULE LogFormatter -----------------------------
(***************************************************************************)
(* The parser of log patterns: LogFormatter::Init in                       *)
(* serverframework/log/log.cc.  A pattern is a sequence of characters; a   *)
(* round of the loop is a step of a fold over them, with the place in the  *)
(* loop as the state "mode":                                               *)
(*   string   parsing_string                                               *)
(*   pattern  after a %                                                    *)
(*   d        after %d, where a brace may follow                           *)
(*   date     between the braces of %d                                     *)
(***************************************************************************)
EXTENDS Integers, Sequences, SequencesExt

\* The keys of s_format_items.
s_format_items == {"m", "p", "c", "r", "f", "l", "t", "F", "N", "%", "T", "n"}

\* An entry of patterns: type 0 for a string, 1 for a pattern character.
Entry(type, str) == [type |-> type, str |-> str]

Start == [mode |-> "string", tmp |-> <<>>, patterns |-> <<>>, dateformat |-> <<>>]

\* The characters collected in tmp become an entry.
PushTmp(st) ==
  IF st.tmp = <<>> THEN st
  ELSE [st EXCEPT !.patterns = Append(@, Entry(0, st.tmp)), !.tmp = <<>>]

PushPattern(st, c, mode) ==
  [st EXCEPT !.patterns = Append(@, Entry(1, <<c>>)), !.mode = mode]

InString(st, c) ==
  IF c = "%" THEN [PushTmp(st) EXCEPT !.mode = "pattern"]
  ELSE [st EXCEPT !.tmp = Append(@, c), !.mode = "string"]

\* One round of the loop.
Round(st, c) ==
  CASE st.mode = "string"  -> InString(st, c)
    [] st.mode = "pattern" -> PushPattern(st, c, IF c = "d" THEN "d" ELSE "string")
    [] st.mode = "d"       -> IF c = "{" THEN [st EXCEPT !.mode = "date"]
                              ELSE InString(st, c)
    [] st.mode = "date"    -> IF c = "}" THEN [st EXCEPT !.mode = "string"]
                              ELSE [st EXCEPT !.dateformat = Append(@, c)]

Loop(pattern) == FoldLeft(Round, Start, pattern)

\* How the check for the closing brace can come out.  In mode date pattern_[i]
\* is the terminator; after a %d at the very end it is the byte behind that,
\* which may be anything.
NotClosed(st) ==
  CASE st.mode = "date" -> {TRUE} [] st.mode = "d" -> BOOLEAN [] OTHER -> {FALSE}

Item(entry, dateformat) ==
  IF entry.type = 0 THEN [item |-> "string", arg |-> entry.str]
  ELSE IF entry.str = <<"d">> THEN [item |-> "date", arg |-> dateformat]
  ELSE [item |-> entry.str[1], arg |-> <<>>]

Unknown(entry) ==
  entry.type = 1 /\ entry.str[1] \notin s_format_items \cup {"d"}

Entries(st) == PushTmp(st).patterns

\* items_ and error_: the items before the first unknown one stay.
Items(st) ==
  LET es  == Entries(st)
      bad == {i \in 1..Len(es) : Unknown(es[i])}
      n   == IF bad = {} THEN Len(es) ELSE Min(bad) - 1
  IN [items |-> [i \in 1..n |-> Item(es[i], st.dateformat)], error |-> bad # {}]

\* The results that Init can have.
FormatterInit(pattern) ==
  {IF open THEN [items |-> <<>>, error |-> TRUE] ELSE Items(Loop(pattern))
     : open \in NotClosed(Loop(pattern))}

\* Format: a string as it is, and for the others fields[i], what the event, or
\* the item itself (tab, newline, percent sign), has to put there.
Format(items, fields) ==
  LET text == [i \in DOMAIN items |-> IF items[i].item = "string" THEN items[i].arg ELSE fields[i]]
  IN FoldLeft(LAMBDA ss, s : ss \o s, <<>>, text)
------------------------------------------------------------------------------
(* What it is for *)

\* The text in the pattern for an item.
Notation(it) ==
  IF it.item = "date"
  THEN IF it.arg = <<>> THEN <<"%", "d">> ELSE <<"%", "d", "{">> \o it.arg \o <<"}">>
  ELSE <<"%", it.item>>

HasSub(pattern, sub) ==
  \E i \in 0..(Len(pattern) - Len(sub)) : SubSeq(pattern, i + 1, i + Len(sub)) = sub

Count(pattern, c) == Cardinality({i \in 1..Len(pattern) : pattern[i] = c})

\* A pattern that is taken without an error, with at most one %d and no lone %
\* at its end, is what its items say: with fields that read like their notation,
\* Format gives the pattern back, nothing lost, doubled or moved.  (With several
\* %d all of them get all the formats, %d{} is %d, and a last % is dropped.)
PatternKept(pattern) ==
  \A r \in FormatterInit(pattern) :
    /\ ~r.error
    /\ Count(pattern, "d") <= 1
    /\ Loop(pattern).mode # "pattern"
    /\ ~HasSub(pattern, <<"%", "d", "{", "}">>)
    => Format(r.items, [i \in DOMAIN r.items |-> Notation(r.items[i])]) = pattern

\* A pattern is refused only for a letter that is not in the table or a brace
\* that is not closed; %d as the last two characters may be refused as well.
RefusedFor(pattern) ==
  LET n == Len(pattern)
      open == \E i \in 1..(n - 2) :
                /\ SubSeq(pattern, i, i + 2) = <<"%", "d", "{">>
                /\ \A j \in (i + 3)..n : pattern[j] # "}"
      unknown == \E i \in 1..(n - 1) :
                   pattern[i] = "%" /\ pattern[i + 1] \notin s_format_items \cup {"d"}
      last == n >= 2 /\ SubSeq(pattern, n - 1, n) = <<"%", "d">>
  IN \A r \in FormatterInit(pattern) : r.error => open \/ unknown \/ last
==============================================================================
