------------------------------- MODULE Config --------------------------------
(***************************************************************************)
(* Configuration variables: ConfigVar and Config of                        *)
(* serverframework/config/config.h and config.cc.                          *)
(*                                                                         *)
(* Each thread makes the calls of its program one after the other.  A step *)
(* is what a thread does under a lock, or between two points where another *)
(* thread can see a difference.  Somebody edits the files meanwhile.       *)
(***************************************************************************)
EXTENDS Integers, Sequences, FiniteSets, SequencesExt

CONSTANTS
  Threads,
  Vars,          \* names of variables
  VarType,       \* the type each is looked up with, by name
  Static,        \* those that exist from the start
  Default,       \* the values they start with
  Listeners,
  FirstCbs,      \* listeners from the start: for each name, id to listener
  Files,         \* the .yml files, in the order of ListAllFile
  Contents,      \* what can be in a file: sequences of <<name, value>>, or Bad
  Bad, Junk,     \* a file that is no YAML; a text that has no value
  Eq(_, _, _),   \* operator== of the values of a variable
  Works          \* programs, and how often what can happen besides

Nobody == "nobody"
NoVar  == "no type"
NoId   == [var |-> NoVar, id |-> 0]
StartTime == 3
Types  == {VarType[x] : x \in Vars}
FileSet == Range(Files)

VARIABLES
  datas,      \* GetDatas(): name to type
  val,        \* val_
  cbs,        \* cbs_, a function from ids
  fun_id,     \* s_fun_id of each type
  readers, writer,   \* mutex_ of each variable
  modifytime, \* s_file2modifytime
  content, mtime, clock,   \* the files and the time in seconds
  th,         \* the threads
  left,       \* how often each thing can still happen
  heard,      \* the last value a listener was told
  my_id,      \* what AddListener returned for a listener that is registered
  raced, overlapped, touched, crossed, hidden   \* see below

cvars == <<datas, val, cbs, fun_id, readers, writer, modifytime, content, mtime, clock,
           th, left, heard, my_id, raced, overlapped, touched, crossed, hidden>>
ghosts == <<raced, overlapped, touched, crossed, hidden>>
disk   == <<content, mtime, clock, left>>

\* A thread: where it is, the calls it still has to make, and its locals.
Fresh(todo) ==
  [pc |-> "idle", todo |-> todo, var |-> NoVar, new |-> NoVar, ids |-> {}, tmp |-> 0,
   files |-> <<>>, st |-> 0, nodes |-> <<>>, since |-> {}]

ConfigInit ==
  \E work \in Works :
    /\ th = [t \in Threads |-> Fresh(work.calls[t])]
    /\ left = work.left
    /\ datas = [x \in Vars |-> IF x \in Static THEN VarType[x] ELSE NoVar]
    /\ val = Default
    /\ cbs = FirstCbs
    /\ fun_id = [ty \in Types |->
                   Cardinality(UNION {DOMAIN FirstCbs[x] : x \in {y \in Vars : VarType[y] = ty}})]
    /\ readers = [x \in Vars |-> {}] /\ writer = [x \in Vars |-> Nobody]
    /\ modifytime = [f \in FileSet |-> 0]
    /\ content = work.content /\ mtime = [f \in FileSet |-> 1] /\ clock = StartTime
    /\ heard = [l \in Listeners |->
                  LET xs == {x \in Vars : l \in Range(FirstCbs[x])}
                  IN IF xs = {} THEN Junk ELSE Default[CHOOSE x \in xs : TRUE]]
    /\ my_id = [l \in Listeners |-> NoId]
    /\ raced = {} /\ overlapped = {} /\ touched = {} /\ crossed = {} /\ hidden = {}
------------------------------------------------------------------------------

Calls(t, op) == th[t].pc = "idle" /\ th[t].todo # <<>> /\ Head(th[t].todo).op = op
Call(t) == Head(th[t].todo)
At(t, pc) == th[t].pc = pc

\* The thread with some of its locals changed.
Moves(t, new) == th' = [th EXCEPT ![t] = new @@ @]
\* The call is over: the next one, or the next node of a file.
Loading(t) == th[t].files # <<>>
Returned(t) ==
  IF Loading(t) THEN [pc |-> "nodes", var |-> NoVar, new |-> NoVar]
  ELSE Fresh(Tail(th[t].todo))

CanRead(x)  == writer[x] = Nobody
CanWrite(x) == writer[x] = Nobody /\ readers[x] = {}

\* Threads that are inside SetValue of x.
Setting(x) == {t \in Threads : th[t].pc \in {"notify", "assign"} /\ th[t].var = x}
\* Threads that are inside AddListener of a variable of type ty.
Adding(ty) == {t \in Threads : th[t].pc \in {"increment", "store", "result"}
                                 /\ VarType[th[t].var] = ty}

\* Mutant: an unchanged value leaves the lock behind.
SetBeginKeepsLock(t, x, v, back) ==
  /\ CanRead(x)
  /\ readers' = [readers EXCEPT ![x] = @ \cup {t}]
  /\ IF Eq(x, v, val[x]) THEN Moves(t, back) /\ UNCHANGED raced
     ELSE /\ Moves(t, [pc |-> "notify", var |-> x, new |-> v, ids |-> DOMAIN cbs[x]] @@ back)
          /\ raced' = raced \cup (IF Setting(x) = {} THEN {} ELSE {x})

\* SetValue up to the first listener, with the locals that "back" says.
SetBegin(t, x, v, back) ==
  /\ CanRead(x)
  /\ IF Eq(x, v, val[x]) THEN Moves(t, back) /\ UNCHANGED <<readers, raced>>
     ELSE /\ readers' = [readers EXCEPT ![x] = @ \cup {t}]
          /\ Moves(t, [pc |-> "notify", var |-> x, new |-> v, ids |-> DOMAIN cbs[x]] @@ back)
          /\ raced' = raced \cup (IF Setting(x) = {} THEN {} ELSE {x})

SetValue(t) ==
  /\ Calls(t, "set")
  /\ SetBegin(t, Call(t).var, Call(t).val,
              IF Eq(Call(t).var, Call(t).val, val[Call(t).var]) THEN Returned(t) ELSE th[t])
  /\ touched' = touched \cup {Call(t).var}
  /\ UNCHANGED <<datas, val, cbs, fun_id, writer, modifytime, disk, heard, my_id,
                 overlapped, crossed, hidden>>

\* The listener that is called next.
NextId(t)       == Min(th[t].ids)
NextListener(t) == cbs[th[t].var][NextId(t)]

\* A listener that keeps the new value, like that of s_connect_timeout.
Notify(t) ==
  /\ At(t, "notify") /\ th[t].ids # {}
  /\ heard' = [heard EXCEPT ![NextListener(t)] = th[t].new]
  /\ Moves(t, [ids |-> th[t].ids \ {NextId(t)}])
  /\ UNCHANGED <<datas, val, cbs, fun_id, readers, writer, modifytime, disk, my_id, ghosts>>

\* Out of the scope of the read lock.
Notified(t) ==
  /\ At(t, "notify") /\ th[t].ids = {}
  /\ readers' = [readers EXCEPT ![th[t].var] = @ \ {t}]
  /\ Moves(t, [pc |-> "assign"])
  /\ UNCHANGED <<datas, val, cbs, fun_id, writer, modifytime, disk, heard, my_id, ghosts>>

Assign(t) ==
  /\ At(t, "assign") /\ CanWrite(th[t].var)
  /\ val' = [val EXCEPT ![th[t].var] = th[t].new]
  /\ Moves(t, Returned(t))
  /\ UNCHANGED <<datas, cbs, fun_id, readers, writer, modifytime, disk, heard, my_id, ghosts>>
------------------------------------------------------------------------------

\* AddListener.  s_fun_id belongs to all variables of the type, the lock to
\* this one: ++s_fun_id is a read and a write, the key a second read, and the
\* result a third.
AddListener(t) ==
  /\ Calls(t, "add") /\ CanWrite(Call(t).var)
  /\ LET x == Call(t).var IN
     /\ writer' = [writer EXCEPT ![x] = t]
     /\ Moves(t, [pc |-> "increment", var |-> x, tmp |-> fun_id[VarType[x]] + 1])
     /\ overlapped' = overlapped \cup (IF Adding(VarType[x]) = {} THEN {} ELSE {VarType[x]})
     /\ raced' = raced \cup (IF Setting(x) = {} THEN {} ELSE {x})
  /\ UNCHANGED <<datas, val, cbs, fun_id, readers, modifytime, disk, heard, my_id,
                 touched, crossed, hidden>>

AddIncrement(t) ==
  /\ At(t, "increment")
  /\ fun_id' = [fun_id EXCEPT ![VarType[th[t].var]] = th[t].tmp]
  /\ Moves(t, [pc |-> "store"])
  /\ UNCHANGED <<datas, val, cbs, readers, writer, modifytime, disk, heard, my_id, ghosts>>

AddStore(t) ==
  /\ At(t, "store")
  /\ LET x == th[t].var
         l == Call(t).cb
     IN /\ cbs' = [cbs EXCEPT ![x] = (fun_id[VarType[x]] :> l) @@ @]
        /\ heard' = [heard EXCEPT ![l] = val[x]]
  /\ Moves(t, [pc |-> "result"])
  /\ UNCHANGED <<datas, val, fun_id, readers, writer, modifytime, disk, my_id, ghosts>>

AddResult(t) ==
  /\ At(t, "result")
  /\ my_id' = [my_id EXCEPT ![Call(t).cb] = [var |-> th[t].var, id |-> fun_id[VarType[th[t].var]]]]
  /\ writer' = [writer EXCEPT ![th[t].var] = Nobody]
  /\ Moves(t, Returned(t))
  /\ UNCHANGED <<datas, val, cbs, fun_id, readers, modifytime, disk, heard, ghosts>>

Without(f, keys) == [k \in DOMAIN f \ keys |-> f[k]]

\* Mutant: with the read lock.
DelListenerShared(t) ==
  /\ Calls(t, "del") /\ CanRead(Call(t).var)
  /\ cbs' = [cbs EXCEPT ![Call(t).var] = Without(@, {my_id[Call(t).cb].id})]
  /\ my_id' = [my_id EXCEPT ![Call(t).cb] = NoId]
  /\ Moves(t, Returned(t))
  /\ UNCHANGED <<datas, val, fun_id, readers, writer, modifytime, disk, heard, ghosts>>

\* DelListener, with the id that AddListener returned.
DelListener(t) ==
  /\ Calls(t, "del") /\ CanWrite(Call(t).var)
  /\ cbs' = [cbs EXCEPT ![Call(t).var] = Without(@, {my_id[Call(t).cb].id})]
  /\ my_id' = [my_id EXCEPT ![Call(t).cb] = NoId]
  /\ Moves(t, Returned(t))
  /\ UNCHANGED <<datas, val, fun_id, readers, writer, modifytime, disk, heard, ghosts>>

ClearListener(t) ==
  /\ Calls(t, "clear") /\ CanWrite(Call(t).var)
  /\ cbs' = [cbs EXCEPT ![Call(t).var] = <<>>]
  /\ my_id' = [l \in Listeners |-> IF my_id[l].var = Call(t).var THEN NoId ELSE my_id[l]]
  /\ Moves(t, Returned(t))
  /\ UNCHANGED <<datas, val, fun_id, readers, writer, modifytime, disk, heard, ghosts>>

\* GetValue, ToString and GetListener wait for writers and change nothing.
GetValue(t) ==
  /\ Calls(t, "get") /\ CanRead(Call(t).var)
  /\ Moves(t, Returned(t))
  /\ UNCHANGED <<datas, val, cbs, fun_id, readers, writer, modifytime, disk, heard, my_id,
                 ghosts>>
------------------------------------------------------------------------------

\* Lookup with a default: a name that is there is returned, or nullptr when the
\* type is another one.
Lookup(t) ==
  /\ Calls(t, "lookup")
  /\ LET x == Call(t).var
         new == datas[x] = NoVar
     IN /\ datas' = IF new THEN [datas EXCEPT ![x] = Call(t).type] ELSE datas
        /\ touched' = IF new THEN touched \cup {x} ELSE touched
  /\ Moves(t, Returned(t))
  /\ UNCHANGED <<val, cbs, fun_id, readers, writer, modifytime, disk, heard, my_id,
                 raced, overlapped, crossed, hidden>>

\* LoadFromConfDir.
LoadFromConfDir(t) ==
  /\ Calls(t, "load")
  /\ Moves(t, [pc |-> "files", files |-> Files, since |-> {}])
  /\ UNCHANGED <<datas, val, cbs, fun_id, readers, writer, modifytime, disk, heard, my_id,
                 ghosts>>

File(t) == Head(th[t].files)
NextFile(t) == [pc |-> "files", files |-> Tail(th[t].files), nodes |-> <<>>]

FileStat(t) ==
  /\ At(t, "files") /\ Loading(t)
  /\ Moves(t, [pc |-> "check", st |-> mtime[File(t)]])
  /\ UNCHANGED <<datas, val, cbs, fun_id, readers, writer, modifytime, disk, heard, my_id,
                 ghosts>>

\* Mutant: a file that is on record is not read again.
FileCheckOlder(t) ==
  /\ At(t, "check")
  /\ IF ~Call(t).force /\ modifytime[File(t)] > 0
     THEN Moves(t, NextFile(t)) /\ UNCHANGED modifytime
     ELSE /\ Moves(t, [pc |-> "read"])
          /\ modifytime' = [modifytime EXCEPT ![File(t)] = th[t].st]
  /\ UNCHANGED <<datas, val, cbs, fun_id, readers, writer, disk, heard, my_id, ghosts>>

\* Under s_mutex: the time is recorded before the file is read.
FileCheck(t) ==
  /\ At(t, "check")
  /\ IF ~Call(t).force /\ modifytime[File(t)] = th[t].st
     THEN Moves(t, NextFile(t)) /\ UNCHANGED modifytime
     ELSE /\ Moves(t, [pc |-> "read"])
          /\ modifytime' = [modifytime EXCEPT ![File(t)] = th[t].st]
  /\ UNCHANGED <<datas, val, cbs, fun_id, readers, writer, disk, heard, my_id, ghosts>>

\* Threads between the record of f and the last of its values.
Applying(f) == {t \in Threads : Loading(t) /\ File(t) = f
                                  /\ th[t].pc \in {"read", "nodes", "notify", "assign"}}

\* LoadFile; what it throws is caught here.
FileRead(t) ==
  /\ At(t, "read")
  /\ LET f == File(t) IN
     /\ IF content[f] = Bad THEN Moves(t, NextFile(t))
        ELSE Moves(t, [pc |-> "nodes", nodes |-> content[f]])
     /\ hidden' = hidden \ {f}
     /\ crossed' = crossed \cup (IF Applying(f) = {t} THEN {} ELSE {f})
  /\ UNCHANGED <<datas, val, cbs, fun_id, readers, writer, modifytime, disk, heard, my_id,
                 raced, overlapped, touched>>

\* A round of LoadFromYaml: a name that is not registered is passed over, what
\* FromStr throws is caught in FromString.
LoadNode(t) ==
  /\ At(t, "nodes") /\ th[t].nodes # <<>>
  /\ LET x == Head(th[t].nodes)[1]
         v == Head(th[t].nodes)[2]
         on == [nodes |-> Tail(th[t].nodes)]
     IN IF datas[x] = NoVar \/ v = Junk
        THEN Moves(t, on) /\ UNCHANGED <<readers, raced>>
        ELSE SetBegin(t, x, v, on)
  /\ UNCHANGED <<datas, val, cbs, fun_id, writer, modifytime, disk, heard, my_id,
                 overlapped, touched, crossed, hidden>>

FileEnd(t) ==
  /\ At(t, "nodes") /\ th[t].nodes = <<>>
  /\ Moves(t, NextFile(t))
  /\ UNCHANGED <<datas, val, cbs, fun_id, readers, writer, modifytime, disk, heard, my_id,
                 ghosts>>

LoadReturn(t) ==
  /\ At(t, "files") /\ ~Loading(t)
  /\ Moves(t, Fresh(Tail(th[t].todo)))
  /\ UNCHANGED <<datas, val, cbs, fun_id, readers, writer, modifytime, disk, heard, my_id,
                 ghosts>>
------------------------------------------------------------------------------
(* The world *)

Can(what) == left[what] > 0
Use(what) == left' = [left EXCEPT ![what] = @ - 1]

\* An edit takes the time of the clock, which may be the one on record.
Edit(f) ==
  /\ Can("edits") /\ Use("edits")
  /\ \E c \in Contents[f] \ {content[f]} : content' = [content EXCEPT ![f] = c]
  /\ mtime' = [mtime EXCEPT ![f] = clock]
  /\ hidden' = hidden \cup (IF modifytime[f] = clock THEN {f} ELSE {})
  /\ th' = [t \in Threads |-> IF th[t].files # <<>> \/ th[t].pc = "files"
                              THEN [th[t] EXCEPT !.since = @ \cup {f}] ELSE th[t]]
  /\ UNCHANGED <<datas, val, cbs, fun_id, readers, writer, modifytime, clock, heard, my_id,
                 raced, overlapped, touched, crossed>>

Tick ==
  /\ Can("ticks") /\ Use("ticks")
  /\ clock' = clock + 1
  /\ UNCHANGED <<datas, val, cbs, fun_id, readers, writer, modifytime, content, mtime, th,
                 heard, my_id, ghosts>>

\* What a thread does, but for the listeners.
ThreadStep(t) ==
  \/ SetValue(t) \/ Notified(t) \/ Assign(t)
  \/ AddListener(t) \/ AddIncrement(t) \/ AddStore(t) \/ AddResult(t)
  \/ DelListener(t) \/ ClearListener(t) \/ GetValue(t) \/ Lookup(t)
  \/ LoadFromConfDir(t) \/ FileStat(t) \/ FileCheck(t) \/ FileRead(t) \/ LoadNode(t)
  \/ FileEnd(t) \/ LoadReturn(t)
------------------------------------------------------------------------------

ConfigTypeOK ==
  /\ \A x \in Vars : /\ datas[x] \in Types \cup {NoVar}
                     /\ Range(cbs[x]) \subseteq Listeners
                     /\ readers[x] \subseteq Threads
                     /\ writer[x] \in Threads \cup {Nobody}
                     /\ writer[x] # Nobody => readers[x] = {}
                     /\ readers[x] \subseteq Setting(x)
  /\ \A f \in FileSet : content[f] \in Contents[f] /\ mtime[f] \in 1..clock
                          /\ modifytime[f] \in 0..clock
  /\ \A what \in DOMAIN left : left[what] \in Nat

\* A listener that keeps the value it is told has the value of the variable
\* when nobody is setting it, unless two SetValues of the variable overlapped or
\* the listener came while one was under way: those may announce their values
\* in one order and assign them in the other, or assign after they announced.
ListenersCurrent ==
  \A x \in Vars \ raced :
    Setting(x) = {} => \A l \in Range(cbs[x]) : heard[l] = val[x]

\* No listener is called that has been removed: DelListener waits for the
\* SetValues that are calling listeners.
CalledAreThere ==
  \A t \in Threads : th[t].pc = "notify" => th[t].ids \subseteq DOMAIN cbs[th[t].var]

\* The id that AddListener returns is the key of that listener, unless two
\* AddListeners on variables of the same type overlapped: they share s_fun_id
\* but no lock.
IdsRight ==
  \A l \in Listeners :
    LET h == my_id[l] IN
    h # NoId /\ VarType[h.var] \notin overlapped =>
      h.id \in DOMAIN cbs[h.var] /\ cbs[h.var][h.id] = l

\* What a component that listens to a variable relies on: it knows the value,
\* it is not called any more once it is removed, and its id is its own.
ListenersRight == ListenersCurrent /\ CalledAreThere /\ IdsRight

\* The value that a file has for x and that is not there.
Stale(f, x) ==
  \E i \in 1..Len(content[f]) :
    /\ content[f][i][1] = x /\ content[f][i][2] # Junk
    /\ ~Eq(x, content[f][i][2], val[x])

\* When LoadFromConfDir returns, the variables have the values of the files,
\* also of those that come after a file that cannot be read and after a text
\* without a value.  Not so for a file that was edited meanwhile, or in the very
\* second that is on record; that another thread was loading too (the time is
\* recorded before the values are there, and the older values may come last);
\* nor for a variable that is set directly or came after the files.
LoadsFresh ==
  [][\A t \in Threads : LoadReturn(t) =>
       \A f \in FileSet \ (th[t].since \cup crossed \cup hidden) :
         content[f] # Bad /\ Applying(f) = {} =>
           \A x \in Vars \ (touched \cup raced) : datas[x] # NoVar => ~Stale(f, x)]_cvars
==============================================================================
