----------------------------- MODULE ConfigYaml ------------------------------
(***************************************************************************)
(* From YAML to configuration values: the LexicalCast templates of         *)
(* serverframework/config/config.h and ListAllMember of config.cc.         *)
(*                                                                         *)
(* The library yaml-cpp is external: a node is null, a scalar, a sequence  *)
(* or a map (a sequence of pairs).  A text is a string or the text that    *)
(* the library prints for a sequence or a map, which stands for the node.  *)
(***************************************************************************)
EXTENDS Integers, Sequences, FiniteSets, SequencesExt

NullNode      == [null |-> TRUE]
Scalar(s)     == [scalar |-> s]
SeqNode(v)    == [seq |-> v]
MapNode(v)    == [map |-> v]
Is(node, t)   == DOMAIN node = {t}
Printed(node) == [printed |-> node]

\* What YAML::Load makes of a string: "" and "~" are null, "[x]" a sequence.
Load(text) ==
  IF Is(text, "printed") THEN text.printed
  ELSE CASE text.str \in {"", "~"} -> NullNode
         [] text.str = "[x]"       -> SeqNode(<<Scalar("x")>>)
         [] OTHER                  -> Scalar(text.str)

Str(s) == [str |-> s]

\* os << node
Print_(node) ==
  CASE Is(node, "null")   -> Str("~")
    [] Is(node, "scalar") -> Str(node.scalar)
    [] OTHER              -> Printed(node)

Sequences_ == {"vector", "list"}
Sets       == {"set", "unordered_set"}
Maps       == {"map", "unordered_map"}

Members(node) == IF Is(node, "map") THEN node.map ELSE <<>>

\* insert does nothing when the key is there.
First(pairs, key) == Min({i \in 1..Len(pairs) : pairs[i][1] = key})

\* From a text to a container of strings.
FromStr(kind, text) ==
  LET node  == Load(text)
      elems == IF Is(node, "seq") THEN node.seq ELSE <<>>
      pairs == Members(node)
      keys  == {pairs[i][1] : i \in 1..Len(pairs)}
  IN CASE kind \in Sequences_ -> [i \in 1..Len(elems) |-> Print_(elems[i])]
       [] kind \in Sets       -> {Print_(elems[i]) : i \in 1..Len(elems)}
       [] kind \in Maps       -> [k \in keys |-> Print_(pairs[First(pairs, k)][2])]

\* From a container to a text; the order of a set or a map is some order.
ToStr(kind, v) ==
  CASE kind \in Sequences_ -> Printed(SeqNode([i \in 1..Len(v) |-> Load(v[i])]))
    [] kind \in Sets       -> LET s == SetToSeq(v)
                              IN Printed(SeqNode([i \in 1..Len(s) |-> Load(s[i])]))
    [] kind \in Maps       -> LET s == SetToSeq(DOMAIN v)
                              IN Printed(MapNode([i \in 1..Len(s) |-> <<s[i], Load(v[s[i]])>>]))

\* A name is the sequence of its parts between the dots.  A part is legal when
\* it is made of a-z, '_', and 0-8: capitals and 9 are not in the list.
Legal(part) == part \in {"a", "b"}

\* ListAllMember: the names with their nodes, a node before its members.
RECURSIVE ListAllMember(_, _)
ListAllMember(prefix, node) ==
  IF \E i \in 1..Len(prefix) : ~Legal(prefix[i]) THEN <<>>
  ELSE <<<<prefix, node>>>> \o
       FoldLeft(LAMBDA out, pair : out \o ListAllMember(Append(prefix, pair[1]), pair[2]),
                <<>>, Members(node))
------------------------------------------------------------------------------

\* A container of strings survives ToString and FromString exactly when each of
\* its strings is "~" or a YAML scalar: an empty string comes back as "~", and
\* one that reads like YAML as the text of what it means.
LexicalRoundTrip(kind, v) ==
  LET strings == CASE kind \in Sequences_ -> {v[i] : i \in 1..Len(v)}
                   [] kind \in Sets       -> v
                   [] OTHER               -> {v[k] : k \in DOMAIN v}
  IN FromStr(kind, ToStr(kind, v)) = v
       <=> \A s \in strings : s.str = "~" \/ Is(Load(s), "scalar")

\* The node at a path below a node; null where there is none.
RECURSIVE At(_, _)
At(node, path) ==
  IF path = <<>> THEN node
  ELSE LET ms == Members(node)
           is == {i \in 1..Len(ms) : ms[i][1] = path[1]}
       IN IF is = {} THEN NullNode ELSE At(ms[Min(is)][2], Tail(path))

\* LoadFromYaml gives each variable whose name is in the file, with legal names
\* all the way down, its own node, once, and the variables of a group after the
\* group itself; a name below an illegal one is not seen.
MembersListed(root, paths) ==
  LET all == ListAllMember(<<>>, root)
      at(p) == {i \in 1..Len(all) : all[i][1] = p}
  IN \A p \in paths :
       IF At(root, p) # NullNode /\ \A i \in 1..Len(p) : Legal(p[i])
       THEN /\ Cardinality(at(p)) = 1
            /\ \A i \in at(p) : all[i][2] = At(root, p)
            /\ \A k \in 0..(Len(p) - 1) : Max(at(SubSeq(p, 1, k))) < Min(at(p))
       ELSE at(p) = {}
==============================================================================
