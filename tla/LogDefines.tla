----------------------------- MODULE LogDefines ------------------------------
(***************************************************************************)
(* The definition of a logger in a configuration: LogLevel, LogDefine,     *)
(* LogAppenderDefine and their LexicalCast in serverframework/log/log.cc.  *)
(*                                                                         *)
(* A YAML map is a record with the fields that are there.                  *)
(***************************************************************************)
EXTENDS Integers, Sequences, SequencesExt

\* The levels in steps of 100, by name; an event passes when its level is not
\* above the logger's, so NOTSET lets all events pass.
LevelNames == <<"FATAL", "ALERT", "CRIT", "ERROR", "WARN", "NOTICE", "INFO", "DEBUG">>
LowerNames == <<"fatal", "alert", "crit", "error", "warn", "notice", "info", "debug">>
NOTSET == 800

LevelToString(level) ==
  IF level \in {100 * (i - 1) : i \in 1..8} THEN LevelNames[level \div 100 + 1] ELSE "NOTSET"

\* All capitals or none.
LevelFromString(str) ==
  LET at == {i \in 1..8 : str \in {LevelNames[i], LowerNames[i]}}
  IN IF at = {} THEN NOTSET ELSE 100 * ((CHOOSE i \in at : TRUE) - 1)

Field(node, f, default) == IF f \in DOMAIN node THEN node[f] ELSE default

\* An appender without a type, without a file or of another type is left out.
ValidAppender(a) ==
  \/ Field(a, "type", "") = "StdoutLogAppender"
  \/ Field(a, "type", "") = "FileLogAppender" /\ "file" \in DOMAIN a

LogAppenderDefine(a) ==
  LET isFile == a.type = "FileLogAppender"
  IN [type    |-> IF isFile THEN 1 ELSE 2,
      pattern |-> Field(a, "pattern", ""),
      file    |-> IF isFile THEN a.file ELSE ""]

\* LexicalCast<std::string, LogDefine>; without a name it throws.
Throws_(n) == "name" \notin DOMAIN n
LogDefine(n) ==
  LET as == SelectSeq(Field(n, "appenders", <<>>), ValidAppender)
  IN [name      |-> n.name,
      level     |-> LevelFromString(Field(n, "level", "")),
      appenders |-> [i \in 1..Len(as) |-> LogAppenderDefine(as[i])]]

\* LexicalCast<LogDefine, std::string>.
AppenderNode(a) ==
  [f \in {"type"} \cup (IF a.type = 1 THEN {"file"} ELSE {})
                  \cup (IF a.pattern = "" THEN {} ELSE {"pattern"}) |->
     CASE f = "type"    -> IF a.type = 1 THEN "FileLogAppender" ELSE "StdoutLogAppender"
       [] f = "file"    -> a.file
       [] f = "pattern" -> a.pattern]

DefineNode(d) ==
  LET head == [name |-> d.name, level |-> LevelToString(d.level)]
  IN IF d.appenders = <<>> THEN head
     ELSE [f \in {"name", "level", "appenders"} |->
             IF f = "appenders" THEN [i \in 1..Len(d.appenders) |-> AppenderNode(d.appenders[i])]
             ELSE head[f]]

\* operator==: the appenders are compared with themselves.
EqDefine(d, e) == d.name = e.name /\ d.level = e.level

\* The == of std::set<LogDefine>, which is ordered by name.
EqDefines(ds, es) ==
  /\ {d.name : d \in ds} = {e.name : e \in es}
  /\ \A d \in ds, e \in es : d.name = e.name => EqDefine(d, e)
------------------------------------------------------------------------------

\* What a node says of a logger survives the way to a text and back: name,
\* level and the appenders that are valid, in their order; ToString and
\* FromString of levels undo each other.
DefineSurvives(n) ==
  ~Throws_(n) =>
    LET d == LogDefine(n)
        back == DefineNode(d)
    IN ~Throws_(back) /\ LogDefine(back) = d
==============================================================================
