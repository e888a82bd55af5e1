--------------------------------- MODULE Log ---------------------------------
(***************************************************************************)
(* Loggers and appenders at work, and their configuration: Logger,         *)
(* LoggerManager, FileLogAppender and LogIniter of                         *)
(* serverframework/log/log.cc, as listener of the variable "logs" of       *)
(* Config.                                                                 *)
(*                                                                         *)
(* An appender is a number; it is also the node of the list appenders_     *)
(* that holds it, and dies with the node.                                  *)
(***************************************************************************)
EXTENDS Config, LogDefines

CONSTANTS
  LogNames,      \* names of loggers
  Initer,        \* the listener of LogIniter
  HasD           \* EnvMgr has the argument d

INFO == 600
Root == "root"
NoAppender == 0
NoLogger == [level |-> 0, appenders |-> <<>>, made |-> FALSE]
\* Logger::Logger
NewLogger == [level |-> INFO, appenders |-> <<>>, made |-> TRUE]

VARIABLES
  loggers,    \* LoggerManager::loggers_ and the state of each
  appender,   \* the appenders made so far
  inode,      \* the file that has the name now; openable or not
  lg,         \* the threads inside the listener or inside Log
  crash,      \* the process is gone: why
  rotated,    \* when each file lost the name
  outcome,    \* the file and the time of the last event a thread wrote
  tampered,   \* loggers whose appenders were changed by hand
  came        \* the appenders in the definition that a logger came with

lvars == <<loggers, appender, inode, lg, crash, rotated, outcome, tampered, came>>

\* The process runs.
Up == crash = "no"

Idle == [pc |-> "out", news |-> <<>>, olds |-> <<>>, apps |-> <<>>, name |-> Root,
         event |-> 0, time |-> 0, it |-> NoAppender, visited |-> <<>>, passed |-> FALSE, changed |-> FALSE]

\* A stream: good or not, open or not, and the file it writes to.
Closed == [good |-> TRUE, open |-> FALSE, ino |-> 0]

\* FileLogAppender::Reopen: close only if the stream is good; open fails on a
\* stream that is open, and else clears the state.
Reopen(stream) ==
  IF stream.open /\ ~stream.good THEN stream
  ELSE IF inode.ok THEN [good |-> TRUE, open |-> TRUE, ino |-> inode.n]
  ELSE [good |-> FALSE, open |-> FALSE, ino |-> 0]

\* The constructors.
StdoutLogAppender(formatter) ==
  [type |-> 2, formatter |-> formatter, stream |-> Closed, last_time |-> 0,
   reopen_error |-> FALSE]
FileLogAppender(formatter) ==
  LET s == Reopen(Closed)
  IN [type |-> 1, formatter |-> formatter, stream |-> s, last_time |-> 0,
      reopen_error |-> ~s.good]

\* LoggerManager::LoggerManager: the appender of root has no formatter of its
\* own.
LogInit ==
  /\ loggers = [n \in LogNames |->
                  IF n = Root THEN [NewLogger EXCEPT !.appenders = <<1>>] ELSE NoLogger]
  /\ appender = <<StdoutLogAppender(FALSE)>>
  /\ inode = [n |-> 1, ok |-> TRUE]
  /\ lg = [t \in Threads |-> Idle]
  /\ crash = "no"
  /\ rotated = <<>>
  /\ outcome = [t \in Threads |-> [ino |-> 0, time |-> 0]]
  /\ tampered = {}
  /\ came = [n \in LogNames |-> <<>>]

LogAt(t, pc) == lg[t].pc = pc
LogMoves(t, new) == lg' = [lg EXCEPT ![t] = new @@ @]

\* GetLogger, on the function loggers.
GetLogger(ls, n) == IF ls[n].made THEN ls ELSE [ls EXCEPT ![n] = NewLogger]

\* lg where those who look at the appenders of n are told of a change.
Told(n) == [u \in Threads |-> [lg[u] EXCEPT !.changed = @ \/ lg[u].name = n]]
------------------------------------------------------------------------------
(* The listener of LogIniter *)

Named(ds, n) == {d \in ds : d.name = n}

\* It is the next listener of a SetValue.
IniterBegin(t) ==
  /\ LogAt(t, "out") /\ At(t, "notify") /\ th[t].ids # {} /\ NextListener(t) = Initer
  /\ LogMoves(t, [pc |-> "new", news |-> SetToSeq(th[t].new), olds |-> SetToSeq(val[th[t].var])])
  /\ UNCHANGED <<cvars, loggers, appender, inode, crash, rotated, outcome, tampered, came>>

\* A round of the loop over new_value.  For a logger that was there with another
\* level, line 709 compares instead of assigning: the pointer is still null.
IniterNew(t) ==
  /\ LogAt(t, "new") /\ lg[t].news # <<>>
  /\ LET i   == Head(lg[t].news)
         old == Named(val[th[t].var], i.name)
         on  == [news |-> Tail(lg[t].news)]
     IN \/ /\ old = {}
           /\ LogMoves(t, on @@ [pc |-> "level", name |-> i.name, event |-> i.level,
                                 apps |-> i.appenders])
           /\ loggers' = GetLogger(loggers, i.name)
           /\ came' = [came EXCEPT ![i.name] = i.appenders]
           /\ UNCHANGED crash
        \/ /\ \E d \in old : EqDefine(i, d)
           /\ LogMoves(t, on)
           /\ UNCHANGED <<loggers, crash, came>>
        \/ /\ \E d \in old : ~EqDefine(i, d)
           /\ crash' = "null logger"
           /\ loggers' = GetLogger(loggers, i.name)
           /\ UNCHANGED <<lg, came>>
  /\ UNCHANGED <<cvars, appender, inode, rotated, outcome, tampered>>

IniterLevel(t) ==
  /\ LogAt(t, "level")
  /\ loggers' = [loggers EXCEPT ![lg[t].name].level = lg[t].event]
  /\ LogMoves(t, [pc |-> "clear"])
  /\ UNCHANGED <<cvars, appender, inode, crash, rotated, outcome, tampered, came>>

\* Mutant: the appenders stay.
IniterClearKeeps(t) ==
  /\ LogAt(t, "clear")
  /\ LogMoves(t, [pc |-> "append"])
  /\ UNCHANGED <<cvars, loggers, appender, inode, crash, rotated, outcome, tampered, came>>

IniterClear(t) ==
  /\ LogAt(t, "clear")
  /\ loggers' = [loggers EXCEPT ![lg[t].name].appenders = <<>>]
  /\ lg' = [Told(lg[t].name) EXCEPT ![t].pc = "append"]
  /\ UNCHANGED <<cvars, appender, inode, crash, rotated, outcome, tampered, came>>

\* A round of the loop over the appenders: no appender on the terminal for a
\* daemon, and a formatter for each.
IniterAppend(t) ==
  /\ LogAt(t, "append") /\ lg[t].apps # <<>>
  /\ LET a == Head(lg[t].apps)
         on == [lg[t] EXCEPT !.apps = Tail(@)]
     IN IF a.type = 2 /\ HasD
        THEN lg' = [lg EXCEPT ![t] = on] /\ UNCHANGED <<loggers, appender>>
        ELSE /\ appender' = Append(appender, IF a.type = 1 THEN FileLogAppender(TRUE)
                                             ELSE StdoutLogAppender(TRUE))
             /\ loggers' = [loggers EXCEPT ![lg[t].name].appenders = Append(@, Len(appender'))]
             /\ lg' = [Told(lg[t].name) EXCEPT ![t] = on]
  /\ UNCHANGED <<cvars, inode, crash, rotated, outcome, tampered, came>>

IniterNext(t) ==
  /\ LogAt(t, "append") /\ lg[t].apps = <<>>
  /\ LogMoves(t, [pc |-> "new"])
  /\ UNCHANGED <<cvars, loggers, appender, inode, crash, rotated, outcome, tampered, came>>

\* A round of the loop over old_value, for a logger that is gone: the level.
IniterOld(t) ==
  /\ LogAt(t, "new") /\ lg[t].news = <<>> /\ lg[t].olds # <<>>
  /\ LET i    == Head(lg[t].olds)
         gone == Named(th[t].new, i.name) = {}
     IN IF gone
        THEN /\ loggers' = [GetLogger(loggers, i.name) EXCEPT ![i.name].level = NOTSET]
             /\ LogMoves(t, [pc |-> "clear_old", name |-> i.name])
        ELSE UNCHANGED loggers /\ LogMoves(t, [olds |-> Tail(lg[t].olds)])
  /\ UNCHANGED <<cvars, appender, inode, crash, rotated, outcome, tampered, came>>

\* And its appenders.
IniterClearOld(t) ==
  /\ LogAt(t, "clear_old")
  /\ loggers' = [loggers EXCEPT ![lg[t].name].appenders = <<>>]
  /\ lg' = [Told(lg[t].name) EXCEPT ![t].pc = "new", ![t].olds = Tail(@)]
  /\ UNCHANGED <<cvars, appender, inode, crash, rotated, outcome, tampered, came>>

\* The listener returns to SetValue.
IniterEnd(t) ==
  /\ LogAt(t, "new") /\ lg[t].news = <<>> /\ lg[t].olds = <<>>
  /\ Notify(t)
  /\ lg' = [lg EXCEPT ![t] = Idle]
  /\ UNCHANGED <<loggers, appender, inode, crash, rotated, outcome, tampered, came>>
------------------------------------------------------------------------------
(* Appenders by hand *)

CallEnds(t) ==
  /\ Moves(t, Returned(t))
  /\ UNCHANGED <<datas, val, cbs, fun_id, readers, writer, modifytime, disk, heard, my_id, ghosts>>

\* The appenders of logger n become as.
Changed(t, n, as) ==
  /\ loggers' = [GetLogger(loggers, n) EXCEPT ![n].appenders = as]
  /\ lg' = Told(n)
  /\ tampered' = tampered \cup {n}
  /\ CallEnds(t)
  /\ UNCHANGED <<inode, crash, rotated, outcome, came>>

AddAppender(t) ==
  /\ Calls(t, "attach")
  /\ appender' = Append(appender, IF Call(t).type = 1 THEN FileLogAppender(FALSE)
                                  ELSE StdoutLogAppender(FALSE))
  /\ Changed(t, Call(t).name, Append(loggers[Call(t).name].appenders, Len(appender')))

\* DelAppender of the first, if there is one.
DelAppender(t) ==
  /\ Calls(t, "detach")
  /\ LET as == loggers[Call(t).name].appenders
     IN Changed(t, Call(t).name, IF as = <<>> THEN as ELSE Tail(as))
  /\ UNCHANGED appender

ClearAppenders(t) ==
  /\ Calls(t, "detach_all")
  /\ Changed(t, Call(t).name, <<>>)
  /\ UNCHANGED appender

\* LoggerManager::ToYamlString: an appender on the terminal has to have a
\* formatter of its own.
ToYamlString(t) ==
  /\ Calls(t, "yaml")
  /\ IF \E n \in LogNames : \E a \in Range(loggers[n].appenders) :
          appender[a].type = 2 /\ ~appender[a].formatter
     THEN crash' = "null formatter" /\ UNCHANGED cvars
     ELSE CallEnds(t) /\ UNCHANGED crash
  /\ UNCHANGED <<loggers, appender, inode, lg, rotated, outcome, tampered, came>>
------------------------------------------------------------------------------
(* An event *)

\* The macro LOG_LEVEL: the event is made if the level of the logger allows it.
LogLevelMacro(t) ==
  /\ Calls(t, "log") /\ LogAt(t, "out")
  /\ loggers' = GetLogger(loggers, Call(t).name)
  /\ IF Call(t).level <= loggers'[Call(t).name].level
     THEN /\ LogMoves(t, [pc |-> "log", name |-> Call(t).name, event |-> Call(t).level,
                          time |-> clock])
          /\ UNCHANGED cvars
     ELSE UNCHANGED lg /\ CallEnds(t)
  /\ UNCHANGED <<appender, inode, crash, rotated, outcome, tampered, came>>

\* The appender behind a in the list, none behind the last.
After(as, a) ==
  LET i == CHOOSE j \in 1..Len(as) : as[j] = a
  IN IF i < Len(as) THEN as[i + 1] ELSE NoAppender

List(t) == loggers[lg[t].name].appenders

\* Logger::Log, with a second look at the level and no lock.
LoggerLog(t) ==
  /\ LogAt(t, "log")
  /\ LET passed == lg[t].event <= loggers[lg[t].name].level
     IN LogMoves(t, [pc |-> "visit", visited |-> <<>>, passed |-> passed, changed |-> FALSE,
                     it |-> IF passed /\ List(t) # <<>> THEN Head(List(t)) ELSE NoAppender])
  /\ UNCHANGED <<cvars, loggers, appender, inode, crash, rotated, outcome, tampered, came>>

LogReturns(t) ==
  /\ LogAt(t, "visit") /\ lg[t].it = NoAppender
  /\ lg' = [lg EXCEPT ![t] = Idle]
  /\ CallEnds(t)
  /\ UNCHANGED <<loggers, appender, inode, crash, rotated, outcome, tampered, came>>

InLog(t) == lg[t].pc \in {"visit", "last", "error", "write"} /\ lg[t].it # NoAppender
Alive(t) == lg[t].it \in Range(List(t))

\* The element under the iterator is gone: whatever happens.
UseFreed(t) ==
  /\ InLog(t) /\ ~Alive(t)
  /\ crash' = "freed appender"
  /\ UNCHANGED <<cvars, loggers, appender, inode, lg, rotated, outcome, tampered, came>>

\* Mutant: the loop ends one appender early.
NextAppenderShort(t) ==
  LET n == After(List(t), lg[t].it)
  IN [pc |-> "visit", visited |-> Append(lg[t].visited, lg[t].it),
      it |-> IF n = NoAppender \/ After(List(t), n) = NoAppender THEN NoAppender ELSE n]

\* The end of a round: ++it.
NextAppender(t) ==
  [pc |-> "visit", visited |-> Append(lg[t].visited, lg[t].it),
   it |-> After(List(t), lg[t].it)]

\* StdoutLogAppender::Log.
StdoutLog(t) ==
  /\ LogAt(t, "visit") /\ InLog(t) /\ Alive(t) /\ appender[lg[t].it].type = 2
  /\ LogMoves(t, NextAppender(t))
  /\ UNCHANGED <<cvars, loggers, appender, inode, crash, rotated, outcome, tampered, came>>

\* FileLogAppender::Log: three seconds after the last time, Reopen.
FileLog(t) ==
  /\ LogAt(t, "visit") /\ InLog(t) /\ Alive(t) /\ appender[lg[t].it].type = 1
  /\ LET a == lg[t].it
         s == Reopen(appender[a].stream)
         again == lg[t].time >= appender[a].last_time + 3
     IN /\ appender' = IF again THEN [appender EXCEPT ![a].stream = s, ![a].reopen_error = ~s.good]
                       ELSE appender
        /\ LogMoves(t, [pc |-> IF again THEN "last" ELSE "error"])
  /\ UNCHANGED <<cvars, loggers, inode, crash, rotated, outcome, tampered, came>>

FileLastTime(t) ==
  /\ LogAt(t, "last") /\ Alive(t)
  /\ appender' = [appender EXCEPT ![lg[t].it].last_time = lg[t].time]
  /\ LogMoves(t, [pc |-> "error"])
  /\ UNCHANGED <<cvars, loggers, inode, crash, rotated, outcome, tampered, came>>

\* With reopen_error_ the event is dropped.
FileError(t) ==
  /\ LogAt(t, "error") /\ Alive(t)
  /\ LogMoves(t, IF appender[lg[t].it].reopen_error THEN NextAppender(t) ELSE [pc |-> "write"])
  /\ UNCHANGED <<cvars, loggers, appender, inode, crash, rotated, outcome, tampered, came>>

\* The event goes to the file, if the stream is good and the write succeeds.
FileWrite(t) ==
  /\ LogAt(t, "write") /\ Alive(t)
  /\ LET a == lg[t].it
         s == appender[a].stream
     IN \/ /\ outcome' = IF s.good THEN [outcome EXCEPT ![t] = [ino |-> s.ino, time |-> lg[t].time]]
                         ELSE outcome
           /\ UNCHANGED <<appender, left>>
        \/ /\ s.good /\ Can("errors") /\ Use("errors")
           /\ appender' = [appender EXCEPT ![a].stream.good = FALSE]
           /\ UNCHANGED outcome
  /\ LogMoves(t, NextAppender(t))
  /\ UNCHANGED <<datas, val, cbs, fun_id, readers, writer, modifytime, content, mtime, clock,
                 th, heard, my_id, ghosts, loggers, inode, crash, rotated, tampered, came>>
------------------------------------------------------------------------------
(* The log file: renamed by a rotation, or impossible to open for a while *)

FileWorld ==
  \/ /\ Can("rotations") /\ Use("rotations")
     /\ inode' = [inode EXCEPT !.n = @ + 1]
     /\ rotated' = Append(rotated, clock)
  \/ /\ Can("breaks") /\ Use("breaks")
     /\ inode' = [inode EXCEPT !.ok = ~@]
     /\ UNCHANGED rotated

Rotate ==
  /\ FileWorld
  /\ UNCHANGED <<datas, val, cbs, fun_id, readers, writer, modifytime, content, mtime, clock,
                 th, heard, my_id, ghosts, loggers, appender, lg, crash, outcome, tampered, came>>
------------------------------------------------------------------------------

LogStep(t) ==
  \/ IniterBegin(t) \/ IniterNew(t) \/ IniterLevel(t) \/ IniterClear(t) \/ IniterAppend(t)
  \/ IniterNext(t) \/ IniterOld(t) \/ IniterClearOld(t) \/ IniterEnd(t)
  \/ AddAppender(t) \/ DelAppender(t) \/ ClearAppenders(t) \/ ToYamlString(t)
  \/ LogLevelMacro(t) \/ LoggerLog(t) \/ LogReturns(t) \/ UseFreed(t) \/ StdoutLog(t)
  \/ FileLog(t) \/ FileLastTime(t) \/ FileError(t) \/ FileWrite(t)

\* A listener that is not LogIniter's.
OtherListener(t) == At(t, "notify") /\ th[t].ids # {} /\ NextListener(t) # Initer /\ Notify(t)

Step(t) == Up /\ (LogStep(t) \/ ((ThreadStep(t) \/ OtherListener(t)) /\ UNCHANGED lvars))

Init == ConfigInit /\ LogInit
World ==
  /\ Up
  /\ \/ (\E f \in FileSet : Edit(f)) /\ UNCHANGED lvars
     \/ Tick /\ UNCHANGED lvars
     \/ Rotate
Next == (\E t \in Threads : Step(t)) \/ World

vars == <<cvars, lvars>>
\* Every thread goes on.
Fairness == \A t \in Threads : WF_vars(Step(t))
Spec == Init /\ [][Next]_vars /\ Fairness
------------------------------------------------------------------------------

TypeOK ==
  /\ ConfigTypeOK
  /\ \A n \in LogNames : /\ loggers[n].level \in {100 * i : i \in 0..8}
                         /\ Range(loggers[n].appenders) \subseteq 1..Len(appender)
                         /\ IsInjective(loggers[n].appenders)
  /\ \A t \in Threads : lg[t].it \in 0..Len(appender)
  /\ crash \in {"no", "null logger", "null formatter", "freed appender"}

\* The types of the appenders that are made for these definitions.
Wanted(defines) ==
  LET as == SelectSeq(defines, LAMBDA a : ~(HasD /\ a.type = 2))
  IN [i \in 1..Len(as) |-> as[i].type]

\* When no SetValue of logs is under way and none overlapped another one, the
\* loggers are what the value says: the level of each definition, the appenders
\* of the definition that a logger came with (operator== does not see others,
\* so a later change of them is kept in the value and not applied), and no
\* appender for a logger that is in the program only, whether it was never in
\* the configuration or is no longer.  (Loggers that the program gave appenders
\* itself, and root, are not looked at.)  The listener dereferences a null pointer
\* only when a definition changes the level of a logger that stays.
LogsApplied ==
  /\ Up /\ Setting("logs") = {} /\ "logs" \notin raced =>
       \A n \in LogNames \ tampered :
         LET ds == Named(val["logs"], n) IN
         /\ \A d \in ds : /\ loggers[n].level = d.level
                          /\ [i \in 1..Len(loggers[n].appenders) |->
                                appender[loggers[n].appenders[i]].type] = Wanted(came[n])
         /\ ds = {} /\ n # Root => loggers[n].appenders = <<>>
  /\ crash = "null logger" =>
       \E t \in Setting("logs") : \E d \in th[t].new, e \in val["logs"] :
         d.name = e.name /\ d.level # e.level

\* An event that a logger passes on is given to each of its appenders once, in
\* their order, and no freed element is touched, unless the list was changed
\* while the event was on its way.  It goes to the file that had its name less
\* than three seconds before the event: a file that was renamed gets no events
\* for longer than that.
Delivered ==
  /\ TypeOK
  /\ \A t \in Threads :
       LogAt(t, "visit") /\ lg[t].it = NoAppender /\ lg[t].passed /\ ~lg[t].changed
         => lg[t].visited = List(t)
  /\ crash = "freed appender" => \E t \in Threads : lg[t].changed
  /\ \A t \in Threads :
       outcome[t].ino \in 1..Len(rotated) => outcome[t].time < rotated[outcome[t].ino] + 3

\* Every call returns, whatever the threads do with the locks of the variables,
\* as long as the process runs.
CallsReturn == \A t \in Threads : <>(th[t].todo = <<>> \/ ~Up)
==============================================================================
