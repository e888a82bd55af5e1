------------------------------- MODULE MCUtil --------------------------------
(* Small inputs for the functions of Util. *)
EXTENDS Util

Words(alphabet, n) == UNION {[1..k -> alphabet] : k \in 0..n}

\* Types of 2 and 3 bytes, of 3 bits each: 64 and 512 values.
MCSizeOf == [t \in {"16", "32"} |-> IF t = "16" THEN 2 ELSE 3]

\* Values around the ends of a byte, of a varint group and of each type.
Values(kind) ==
  CASE kind \in Fixed \cup {"vu32"} ->
         {v \in {0, 1, 3, 4, 7, 8, 15, 16, 63, 64, 255, 256, 510, 511} : v < Modulus(BytesOf(kind))}
    [] kind \in Signed \cup {"vi32"} ->
         {v \in {-256, -255, -32, -31, -4, -1, 0, 1, 2, 3, 31, 32, 255} :
            v \in -(Modulus(BytesOf(kind)) \div 2)..(Modulus(BytesOf(kind)) \div 2 - 1)}
    [] OTHER -> Words({0, 5}, 2) \cup {[i \in 1..9 |-> 7]}

ItemsOf(kind) == {[kind |-> kind, val |-> v] : v \in Values(kind)}
\* Fewer of them for the second item.
Edges(kind) == IF kind \in Strings THEN {<<>>, <<0, 5>>} ELSE {-256, -1, 4, 63, 511}
AnyItem == UNION {ItemsOf(kind) : kind \in Kinds}
Codecs ==
  {[f |-> "codec", items |-> <<a, b>>, little |-> l] :
     a \in AnyItem, l \in BOOLEAN,
     b \in {it \in AnyItem : it.val \in Edges(it.kind)}}
Varints_ == {[f |-> "varint", bytes |-> b] : b \in Words({0, 4, 7}, 6)}

\* ' ', '%', '+', '/', '2', '=', 'A', 'z' and a byte over 127.
Texts == Words({32, 37, 43, 50, 65, 200}, 4)
Urls == {[f |-> "url", str |-> s] : s \in Texts \cup Words({47, 61, 37, 70, 102}, 3)}
Trims_ == {[f |-> "trim", str |-> s, delimit |-> {32, 37}] : s \in Words({32, 37, 65, 66}, 4)}
Paths == {[f |-> "path", str |-> s] : s \in Words({47, 46, 65}, 5)}

Formats == {[f |-> "format", pattern |-> p] : p \in Words({"%", "d", "m", "{", "}", "x"}, 5)}

V4s == {[f |-> "v4", addr |-> a, prefix |-> p] : a \in [1..4 -> {0, 1}], p \in 1..4}
V6s == {[f |-> "v6", addr6 |-> a, prefix |-> p] : a \in [1..3 -> [1..2 -> {0, 1}]], p \in 0..6}
V6Texts == {[f |-> "v6text", groups |-> a] : a \in [1..8 -> {0, 1}]}
Orders ==
  {[f |-> "order", a |-> a, b |-> b, c |-> c] :
     a \in Words({0, 1}, 2), b \in Words({0, 1}, 2), c \in Words({0, 1}, 2)}
Hosts == {[f |-> "host", name |-> n, port |-> p] :
            n \in Words({"h", "."}, 2) \ {<<>>}, p \in Words({"8"}, 2)}

\* Trees with up to three levels.
Places == {<<"a">>, <<"a", "x">>, <<"a", "b">>, <<"a", "b", "x">>, <<"c">>}
Trees ==
  {fs \in UNION {[{<<>>} \cup s -> {"dir", "file", "link", "sock"}] : s \in SUBSET Places} :
     /\ fs[<<>>] = "dir"
     /\ \A p \in DOMAIN fs \ {<<>>} : Parent(p) \in DOMAIN fs /\ fs[Parent(p)] = "dir"}
Locks(fs) == {l \in {{}, {<<>>}, {<<"a">>}, {<<"a", "b">>}} : \A p \in l : p \in DOMAIN fs /\ fs[p] = "dir"}
Systems ==
  UNION {{[f |-> "fs", fs |-> fs, locked |-> l, path |-> p] : l \in Locks(fs), p \in Places}
           : fs \in Trees}
Moves ==
  UNION {{[f |-> "mv", fs |-> fs, locked |-> l, path |-> p, to |-> q] :
            l \in Locks(fs), p \in {<<"a">>, <<"a", "b">>, <<"c">>},
            q \in {<<"a">>, <<"a", "b">>, <<"c">>}}
           : fs \in {t \in Trees : \A p \in DOMAIN t : t[p] # "link"}}

Args == {[f |-> "args", argv |-> v] :
           v \in Words([dash : BOOLEAN, text : {"empty", "k", "v"}], 4)}

Strs == {Str("x"), Str("y"), Str(""), Str("~"), Str("[x]")}
Lexicals ==
  {[f |-> "lexical", kind |-> k, v |-> v] : k \in Sequences_, v \in Words(Strs, 3)}
    \cup {[f |-> "lexical", kind |-> k, v |-> v] : k \in Sets, v \in SUBSET Strs}
    \cup {[f |-> "lexical", kind |-> k, v |-> v] : k \in Maps,
            v \in UNION {[s -> Strs] : s \in SUBSET {"a", "b", "c"}}}

\* Files with names of up to three parts; N stands for a name with a capital.
Leaves == {Scalar("x"), SeqNode(<<Scalar("x")>>)}
Level(below) ==
  below \cup {MapNode(<<<<k, n>>>>) : k \in {"a", "N"}, n \in below}
        \cup {MapNode(<<<<k, n>>, <<"b", m>>>>) : k \in {"a", "N"}, n \in below, m \in below}
Yamls == {[f |-> "yaml", root |-> r, paths |-> Words({"a", "b", "N"}, 3)] : r \in Level(Level(Leaves))}

\* The definitions of a logger, with fields that are missing or unknown.
WithFields(choices) ==
  UNION {[fields -> UNION {choices[c] : c \in DOMAIN choices}] : fields \in SUBSET DOMAIN choices}
AppenderNodes ==
  {a \in WithFields([type |-> {"FileLogAppender", "StdoutLogAppender", "Other"},
                     file |-> {"p"}, pattern |-> {"p"}]) :
     \A c \in DOMAIN a : a[c] = "p" <=> c # "type"}
Heads ==
  {[name |-> "n"], [level |-> "INFO"]}
    \cup {[name |-> "n", level |-> l] : l \in Range(LevelNames) \cup {"info", "Info", "NOTSET"}}
DefineNodes ==
  Heads \cup {h @@ [appenders |-> as] : h \in Heads, as \in Words(AppenderNodes, 2)}
Definitions == {[f |-> "define", define |-> n] : n \in DefineNodes}

Streams == {[f |-> "stream", length |-> n, lens |-> l] : n \in 0..4, l \in Words({-1, 0, 1, 2, 9}, 4)}

MCInputs ==
  Codecs \cup Varints_ \cup Urls \cup Trims_ \cup Paths \cup Formats \cup V4s \cup V6s
    \cup V6Texts \cup Orders \cup Hosts \cup Systems \cup Moves \cup Args \cup Lexicals
    \cup Yamls \cup Definitions \cup Streams
==============================================================================
