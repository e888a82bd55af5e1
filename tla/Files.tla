-------------------------------- MODULE Files --------------------------------
(***************************************************************************)
(* FSUtil of serverframework/util/util.cc on a small file system.          *)
(*                                                                         *)
(* A path is the sequence of its names, <<>> the root; a file system maps  *)
(* the paths that exist to their kind: dir, file, link (a symbolic link    *)
(* that leads nowhere) or sock.  In a directory that is locked no entry    *)
(* can be made or removed.  The order of readdir is open.                  *)
(***************************************************************************)
EXTENDS Integers, Sequences, FiniteSets, SequencesExt

Parent(p) == SubSeq(p, 1, Len(p) - 1)
Below(p, q) == IsPrefix(p, q) /\ p # q
Children(fs, p) == {q \in DOMAIN fs : q # <<>> /\ Parent(q) = p}

\* The system calls.
Writable(fs, locked, p) == p \in DOMAIN fs /\ fs[p] = "dir" /\ p \notin locked
access(fs, p) == p \in DOMAIN fs /\ fs[p] # "link"
With(fs, p, kind) == [q \in DOMAIN fs \cup {p} |-> IF q = p THEN kind ELSE fs[q]]
Without(fs, ps) == [q \in DOMAIN fs \ ps |-> fs[q]]
Did(fs, ret) == [fs |-> fs, ret |-> ret]

mkdir(fs, locked, p) ==
  IF p \notin DOMAIN fs /\ Writable(fs, locked, Parent(p))
  THEN Did(With(fs, p, "dir"), TRUE) ELSE Did(fs, FALSE)

unlink(fs, locked, p) ==
  IF p \in DOMAIN fs /\ fs[p] # "dir" /\ Writable(fs, locked, Parent(p))
  THEN Did(Without(fs, {p}), TRUE) ELSE Did(fs, FALSE)

rmdir(fs, locked, p) ==
  IF Children(fs, p) = {} /\ Writable(fs, locked, Parent(p))
  THEN Did(Without(fs, {p}), TRUE) ELSE Did(fs, FALSE)

\* rename to a name that is free.
rename(fs, locked, from, to) ==
  IF /\ from \in DOMAIN fs /\ ~Below(from, to) /\ to \notin DOMAIN fs
     /\ Writable(fs, locked, Parent(from)) /\ Writable(fs, locked, Parent(to))
  THEN LET moved == {q \in DOMAIN fs : IsPrefix(from, q)}
           new(q) == to \o SubSeq(q, Len(from) + 1, Len(q))
           old(q) == from \o SubSeq(q, Len(to) + 1, Len(q))
       IN Did([q \in (DOMAIN fs \ moved) \cup {new(x) : x \in moved} |->
                 IF IsPrefix(to, q) THEN fs[old(q)] ELSE fs[q]], TRUE)
  ELSE Did(fs, FALSE)

__mkdir(fs, locked, p) == IF access(fs, p) THEN Did(fs, TRUE) ELSE mkdir(fs, locked, p)

\* Mkdir: from the first name on, up to the first that fails.
Mkdir(fs, locked, p) ==
  IF p \in DOMAIN fs THEN Did(fs, TRUE)
  ELSE LET f[k \in 0..Len(p)] ==
             IF k = 0 THEN Did(fs, TRUE)
             ELSE IF ~f[k - 1].ret THEN f[k - 1]
             ELSE __mkdir(f[k - 1].fs, locked, SubSeq(p, 1, k))
       IN f[Len(p)]

Unlink(fs, locked, p) ==
  IF p \notin DOMAIN fs THEN Did(fs, TRUE) ELSE unlink(fs, locked, p)

\* st_mode & S_IFDIR: the bit is also in the mode of a socket.
HasDirBit(kind) == kind \in {"dir", "sock"}

\* The end of Rm: the directory itself.
Removed(o, locked, p) ==
  LET r == rmdir(o.fs, locked, p) IN Did(r.fs, IF r.ret THEN o.ret ELSE FALSE)

\* Rm: what it can end in.  ret is that of the entry that came last.
RECURSIVE Rm(_, _, _), RmEntries(_, _, _, _)
Rm(fs, locked, p) ==
  IF p \notin DOMAIN fs THEN {Did(fs, TRUE)}
  ELSE IF ~HasDirBit(fs[p]) THEN {Unlink(fs, locked, p)}
  ELSE IF fs[p] # "dir" THEN {Did(fs, FALSE)}
  ELSE {Removed(o, locked, p) : o \in RmEntries(fs, locked, Children(fs, p), TRUE)}
RmEntries(fs, locked, todo, ret) ==
  IF todo = {} THEN {Did(fs, ret)}
  ELSE UNION {UNION {RmEntries(o.fs, locked, todo \ {c}, o.ret) : o \in Rm(fs, locked, c)}
                : c \in todo}

Mv(fs, locked, from, to) ==
  {IF o.ret THEN rename(o.fs, locked, from, to) ELSE o : o \in Rm(fs, locked, to)}

Symlink(fs, locked, to) ==
  {IF o.ret /\ Writable(o.fs, locked, Parent(to)) THEN Did(With(o.fs, to, "link"), TRUE)
   ELSE Did(o.fs, FALSE) : o \in Rm(fs, locked, to)}

\* The files that ListAllFile finds; subfix: the names that end in it.
RECURSIVE ListAllFile(_, _, _)
ListAllFile(fs, path, subfix) ==
  IF path \notin DOMAIN fs \/ fs[path] # "dir" THEN {}
  ELSE LET here == Children(fs, path)
       IN {q \in here : fs[q] = "file" /\ q[Len(q)] \in subfix}
            \cup UNION {ListAllFile(fs, q, subfix) : q \in {d \in here : fs[d] = "dir"}}

\* open for writing makes the file.
open(fs, locked, p) ==
  IF p \in DOMAIN fs THEN Did(fs, fs[p] = "file")
  ELSE IF Writable(fs, locked, Parent(p)) THEN Did(With(fs, p, "file"), TRUE)
  ELSE Did(fs, FALSE)

OpenForWrite(fs, locked, p) ==
  IF open(fs, locked, p).ret THEN open(fs, locked, p)
  ELSE open(Mkdir(fs, locked, Parent(p)).fs, locked, p)
------------------------------------------------------------------------------
(* What they are for *)

Same(f, g, ps) == \A p \in ps : (p \in DOMAIN f <=> p \in DOMAIN g) /\ (p \in DOMAIN f => f[p] = g[p])

\* Rm says true exactly when the path is gone, whatever order the entries came
\* in: an entry that stays and whose result is overwritten by a later one makes
\* rmdir fail.  It touches nothing else.
RmTells(fs, locked, p) ==
  /\ Cardinality(Rm(fs, locked, p)) = 1
  /\ \A o \in Rm(fs, locked, p) :
       /\ o.ret <=> p \notin DOMAIN o.fs
       /\ Same(fs, o.fs, {q \in DOMAIN fs \cup DOMAIN o.fs : ~IsPrefix(p, q)})

\* Mv puts the source in the place of the target, also one that is taken, or
\* fails, and where it fails the source is still there, unless the target is the
\* source or a directory above it, which Rm has removed with it.
MvKeeps(fs, locked, from, to) ==
  \A o \in Mv(fs, locked, from, to) :
    ~IsPrefix(to, from) =>
      /\ /\ from \in DOMAIN fs /\ ~Below(from, to)
         /\ \A r \in Rm(fs, locked, to) : r.ret
         /\ Writable(fs, locked, Parent(from)) /\ Writable(fs, locked, Parent(to))
         => o.ret
      /\ IF o.ret
         THEN /\ from \in DOMAIN fs /\ from \notin DOMAIN o.fs
              /\ {SubSeq(q, Len(to) + 1, Len(q)) : q \in {x \in DOMAIN o.fs : IsPrefix(to, x)}}
                   = {SubSeq(q, Len(from) + 1, Len(q)) : q \in {x \in DOMAIN fs : IsPrefix(from, x)}}
         ELSE Same(fs, o.fs, {q \in DOMAIN fs : IsPrefix(from, q)} \ {q \in DOMAIN fs : IsPrefix(to, q)})

\* Symlink puts a link in the place of what was there, or makes nothing.
SymlinkReplaces(fs, locked, to) ==
  \A o \in Symlink(fs, locked, to) :
    IF o.ret THEN o.fs[to] = "link" /\ Children(o.fs, to) = {}
    ELSE Same(fs, o.fs, DOMAIN o.fs)

\* Mkdir says true when the path is there, with directories above it; what it
\* made before it failed stays.
MkdirTells(fs, locked, p) ==
  LET o == Mkdir(fs, locked, p) IN
  /\ o.ret => p \in DOMAIN o.fs /\ \A k \in 0..(Len(p) - 1) : o.fs[SubSeq(p, 1, k)] = "dir"
  /\ Same(fs, o.fs, {q \in DOMAIN fs \cup DOMAIN o.fs : ~IsPrefix(q, p)})

\* OpenForWrite opens a file whenever its directories can be made.
OpensWhenPossible(fs, locked, p) ==
  LET o == OpenForWrite(fs, locked, p)
      deepest == Max({k \in 0..(Len(p) - 1) : SubSeq(p, 1, k) \in DOMAIN fs})
  IN o.ret <=> \/ p \in DOMAIN fs /\ fs[p] = "file"
               \/ p \notin DOMAIN fs /\ Writable(fs, locked, SubSeq(p, 1, deepest))

\* ListAllFile finds the files below the path whose names end in the suffix.
ListsAll(fs, path, subfix) ==
  ListAllFile(fs, path, subfix) =
    {q \in DOMAIN fs : Below(path, q) /\ fs[q] = "file" /\ q[Len(q)] \in subfix}
==============================================================================
