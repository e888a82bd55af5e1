-------------------------------- MODULE MCLog --------------------------------
(* Programs of two threads for Config and Log. *)
EXTENDS Log

CONSTANTS t1, t2, bad, junk

MCVars    == {"x", "y", "late", "logs"}
MCVarType == [v \in MCVars |-> IF v = "logs" THEN "logs" ELSE "int"]
MCDefault == [v \in MCVars |-> IF v = "logs" THEN {} ELSE 0]
MCFirstCbs ==
  [v \in MCVars |-> CASE v = "x" -> <<"l0">> [] v = "logs" -> <<"initer">> [] OTHER -> <<>>]
MCEq(x, v, w) == IF x = "logs" THEN EqDefines(v, w) ELSE v = w

Set(x, v)    == [op |-> "set", var |-> x, val |-> v]
Add(x, l)    == [op |-> "add", var |-> x, cb |-> l]
Del(x, l)    == [op |-> "del", var |-> x, cb |-> l]
Clear(x)     == [op |-> "clear", var |-> x]
Get(x)       == [op |-> "get", var |-> x]
Look(x, ty)  == [op |-> "lookup", var |-> x, type |-> ty]
Load(force)  == [op |-> "load", force |-> force]
LogOf(n, l)  == [op |-> "log", name |-> n, level |-> l]
Attach(n, ty) == [op |-> "attach", name |-> n, type |-> ty]
Detach(n)    == [op |-> "detach", name |-> n]
DetachAll(n) == [op |-> "detach_all", name |-> n]
Yaml         == [op |-> "yaml"]

MCFiles == <<"f", "g">>
MCContents ==
  [f \in {"f", "g"} |->
     IF f = "f" THEN {<<<<"x", 1>>>>, <<<<"x", 2>>>>, bad}
     ELSE {<<<<"x", junk>>, <<"y", 1>>, <<"late", 1>>>>, <<<<"y", 2>>>>}]

Budget(e, t, r, b, w) ==
  [edits |-> e, ticks |-> t, rotations |-> r, breaks |-> b, errors |-> w]
Work(p, q, budget) ==
  {[calls |-> (t1 :> p @@ t2 :> q), left |-> budget,
    content |-> [f \in {"f", "g"} |-> IF f = "f" THEN <<<<"x", 1>>>>
                                      ELSE <<<<"x", junk>>, <<"y", 1>>, <<"late", 1>>>>]]}
Nothing == Budget(0, 0, 0, 0, 0)

\* Listeners come and go while values are set.
Listening ==
  UNION {Work(<<Set("x", 1), Set("x", 2)>>, q, Nothing) :
    q \in {<<Add("x", "l1"), Set("x", 3), Del("x", "l1")>>, <<Set("x", 2), Get("x"), Set("x", 0)>>,
           <<Add("x", "l1"), Del("x", "l1"), Set("x", 2)>>,
           <<Look("x", "str"), Clear("x"), Set("x", 1)>>}}
\* Ids of two variables of one type.
Counting ==
  Work(<<Add("x", "l1"), Add("x", "l2"), Del("x", "l1"), Set("x", 1)>>,
       <<Look("late", "int"), Add("y", "l3"), Del("y", "l3"), Clear("y"), Set("y", 1)>>, Nothing)
\* Files change while they are loaded, by one thread or two.
LoadingFiles ==
  Work(<<Load(FALSE), Load(FALSE)>>, <<Load(FALSE)>>, Budget(1, 1, 0, 0, 0))
    \cup Work(<<Load(FALSE), Load(FALSE), Load(FALSE)>>, <<>>, Budget(2, 1, 0, 0, 0))
    \cup UNION {Work(<<Load(FALSE)>>, q, Budget(1, 0, 0, 0, 0)) :
                  q \in {<<Set("y", 2), Load(TRUE)>>, <<Look("late", "int"), Load(TRUE)>>}}

D(n, l, as) == [name |-> n, level |-> l, appenders |-> as]
Out == [type |-> 2, pattern |-> "", file |-> ""]
Fil == [type |-> 1, pattern |-> "", file |-> "log"]
A1 == D("a", 600, <<Out, Fil>>)
A2 == D("a", 600, <<Fil>>)
A3 == D("a", 700, <<Out>>)
B1 == D("b", 300, <<Fil>>)
R1 == D("root", 400, <<Fil>>)
Defines == {{}, {A1, R1}, {A3, B1}}
\* Loggers are configured while events are logged.
Configuring ==
  UNION {Work(<<Set("logs", d), Set("logs", e), Set("logs", g)>>, q, Nothing) :
           d \in {{A1}, {A3, B1}}, e \in {{}, {A2, B1}, {B1}}, g \in Defines,
           q \in {<<LogOf("a", 600), LogOf("a", 700)>>, <<Set("logs", {B1})>>,
                  <<Attach("b", 2), LogOf("b", 300), Yaml>>}}
\* A log file that is rotated, cannot be opened or cannot be written.
Filing ==
  UNION {Work(<<Attach("a", 1), LogOf("a", 600), LogOf("a", 600)>>, <<LogOf("a", 600)>>, b) :
           b \in {Budget(0, 3, 1, 0, 0), Budget(0, 3, 0, 0, 1)}}
    \cup Work(<<Attach("a", 1), LogOf("a", 600), LogOf("a", 600), LogOf("a", 600)>>, <<>>,
              Budget(0, 4, 1, 2, 1))
    \cup Work(<<Attach("a", 1), Attach("a", 2), LogOf("a", 600)>>,
              <<LogOf("a", 600), Detach("a"), DetachAll("a")>>, Nothing)

MCWorks == Listening \cup Counting \cup LoadingFiles \cup Configuring \cup Filing
==============================================================================
