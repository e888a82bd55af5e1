--------------------------------- MODULE Env ---------------------------------
(***************************************************************************)
(* The command line: Env::Init of serverframework/env/env.cc.  An argument *)
(* is a record: dash tells whether it starts with '-', text is the rest    *)
(* (all of it when there is no dash).                                      *)
(***************************************************************************)
EXTENDS Integers, Sequences, SequencesExt

Empty == "empty"     \* the empty string
NoKey == "nullptr"

\* Add, on args_ as a function.
AddArg(args, key, val) == [k \in DOMAIN args \cup {key} |-> IF k = key THEN val ELSE args[k]]

\* now_key is added without a value.
Flush(st) ==
  IF st.now_key = NoKey THEN st
  ELSE [st EXCEPT !.args = AddArg(@, st.now_key, Empty), !.now_key = NoKey]

\* A round of the loop; ok: it has not returned false.
Arg(st, arg) ==
  IF ~st.ok THEN st
  ELSE IF arg.dash
  THEN IF arg.text = Empty THEN [st EXCEPT !.ok = FALSE]
       ELSE [Flush(st) EXCEPT !.now_key = arg.text]
  ELSE IF st.now_key = NoKey THEN [st EXCEPT !.ok = FALSE]
  ELSE [st EXCEPT !.args = AddArg(@, st.now_key, arg.text), !.now_key = NoKey]

EnvInit(argv) ==
  LET st == FoldLeft(Arg, [args |-> <<>>, now_key |-> NoKey, ok |-> TRUE], argv)
  IN IF st.ok THEN Flush(st) ELSE st
------------------------------------------------------------------------------

\* A command line is taken when each value follows a key and no dash is alone;
\* each key then has the value behind its last occurrence, or the empty one.
\* Of a line that is refused, the arguments before the wrong one are kept.
ArgsParsed(argv) ==
  LET r    == EnvInit(argv)
      bad  == {i \in 1..Len(argv) :
                 IF argv[i].dash THEN argv[i].text = Empty
                 ELSE i = 1 \/ ~argv[i - 1].dash}
      last == IF bad = {} THEN Len(argv) ELSE Min(bad) - 1
      keys == {i \in 1..last : argv[i].dash}
      value(i) == IF i < Len(argv) /\ ~argv[i + 1].dash THEN argv[i + 1].text ELSE Empty
      \* The key right before a lone dash is not added.
      done == IF bad # {} THEN keys \ {last} ELSE keys
  IN /\ r.ok <=> bad = {}
     /\ DOMAIN r.args = {argv[i].text : i \in done}
     /\ \A i \in done : (\A j \in done : j > i => argv[j].text # argv[i].text)
                          => r.args[argv[i].text] = value(i)
==============================================================================
