------------------------------- MODULE Threads -------------------------------
(***************************************************************************)
(* Thread (env/thread.cc) and the scoped locks (env/mutex.h): an object    *)
(* that starts a thread, the thread that reads the object, and bodies that *)
(* take one lock through scoped locks, to read or to write.                *)
(*                                                                         *)
(* Mutex, Spinlock and CASLock are the locks on which everyone writes.     *)
(***************************************************************************)
EXTENDS Naturals, FiniteSets

CONSTANT Threads

ASSUME FinitelyManyThreads == IsFiniteSet(Threads)

VARIABLES
  object,  \* the Thread object: how far it is, thread_, id_, cb_
  sem,     \* the value of semaphore_
  run,     \* how far the thread is in Run
  used,    \* the thread has used its object after the object was gone
  scope,   \* the scoped lock of the body: mode and locked_
  lock     \* the lock: a writer has it, and how many readers

tvars == <<object, sem, run, used, scope, lock>>

NoScope == [mode |-> "none", locked |-> FALSE]

ThreadsInit ==
  /\ object = [t \in Threads |-> [life |-> "none", thread_ |-> FALSE, id_ |-> FALSE, cb_ |-> TRUE]]
  /\ sem = [t \in Threads |-> 0]
  /\ run = [t \in Threads |-> "no"]
  /\ used = [t \in Threads |-> FALSE]
  /\ scope = [t \in Threads |-> NoScope]
  /\ lock = [writer |-> FALSE, readers |-> 0]

Exists(t) == object[t].life \in {"waits", "made"}

\* Run uses the object it was given.
Use(t) == used' = [used EXCEPT ![t] = @ \/ ~Exists(t)]

\* The constructor up to semaphore_.wait(); pthread_create may fail, upon which
\* the constructor throws.
Construct(t) ==
  /\ object[t].life = "none"
  /\ \/ /\ object' = [object EXCEPT ![t].life = "waits", ![t].thread_ = TRUE]
        /\ run' = [run EXCEPT ![t] = "begin"]
     \/ object' = [object EXCEPT ![t].life = "thrown"] /\ UNCHANGED run
  /\ UNCHANGED <<sem, used, scope, lock>>

\* The wait succeeds; or a signal interrupts it, and the constructor throws: the
\* object is gone without its destructor.
Constructed(t) ==
  /\ object[t].life = "waits"
  /\ \/ /\ sem[t] > 0
        /\ sem' = [sem EXCEPT ![t] = @ - 1]
        /\ object' = [object EXCEPT ![t].life = "made"]
     \/ object' = [object EXCEPT ![t].life = "thrown"] /\ UNCHANGED sem
  /\ UNCHANGED <<run, used, scope, lock>>

\* Run sets t_thread, the name and id_, and takes the callback.
Begin(t) ==
  /\ run[t] = "begin"
  /\ Use(t)
  /\ object' = IF Exists(t) THEN [object EXCEPT ![t].id_ = TRUE, ![t].cb_ = FALSE] ELSE object
  /\ run' = [run EXCEPT ![t] = "notify"]
  /\ UNCHANGED <<sem, scope, lock>>

Notify(t) ==
  /\ run[t] = "notify"
  /\ Use(t)
  /\ sem' = [sem EXCEPT ![t] = @ + 1]
  /\ run' = [run EXCEPT ![t] = "cb"]
  /\ UNCHANGED <<object, scope, lock>>

\* The body calls SetName, which goes through t_thread.
SetName(t) ==
  /\ run[t] = "cb"
  /\ Use(t)
  /\ UNCHANGED <<object, sem, run, scope, lock>>

Return(t) ==
  /\ run[t] = "cb"
  /\ scope[t] = NoScope
  /\ run' = [run EXCEPT ![t] = "end"]
  /\ UNCHANGED <<object, sem, used, scope, lock>>

Join(t) ==
  /\ object[t].life = "made"
  /\ object[t].thread_ => run[t] = "end"
  /\ object' = [object EXCEPT ![t].thread_ = FALSE]
  /\ UNCHANGED <<sem, run, used, scope, lock>>

\* The destructor; a thread that was not joined is detached and goes on.
Destroy(t) ==
  /\ object[t].life = "made"
  /\ object' = [object EXCEPT ![t].life = "gone"]
  /\ UNCHANGED <<sem, run, used, scope, lock>>
------------------------------------------------------------------------------
(* Scoped locks *)

\* lock, rdlock and wrlock, once they return.
Lock(mode) ==
  /\ ~lock.writer
  /\ mode = "write" => lock.readers = 0
  /\ lock' = IF mode = "write" THEN [lock EXCEPT !.writer = TRUE] ELSE [lock EXCEPT !.readers = @ + 1]

\* unlock does not ask who has the lock.
Unlock ==
  lock' = IF lock.writer THEN [lock EXCEPT !.writer = FALSE]
          ELSE [lock EXCEPT !.readers = IF @ = 0 THEN 0 ELSE @ - 1]

\* The constructor of a scoped lock, or lock() on one that was unlocked.
ScopedLock(t, mode) ==
  /\ run[t] = "cb"
  /\ scope[t] \in {NoScope, [mode |-> mode, locked |-> FALSE]}
  /\ Lock(mode)
  /\ scope' = [scope EXCEPT ![t] = [mode |-> mode, locked |-> TRUE]]
  /\ UNCHANGED <<object, sem, run, used>>

\* unlock() of a scoped lock, and its destructor, with what becomes of the scope.
ScopedUnlock(t, after) ==
  /\ scope[t] # NoScope
  /\ IF scope[t].locked THEN Unlock ELSE UNCHANGED lock
  /\ scope' = [scope EXCEPT ![t] = after]
  /\ UNCHANGED <<object, sem, run, used>>

\* Mutant: locked_ stays as it is.
EarlyUnlockKeeps(t) == ScopedUnlock(t, scope[t])

\* unlock() before the end of the scope.
EarlyUnlock(t) == ScopedUnlock(t, [scope[t] EXCEPT !.locked = FALSE])

LeaveScope(t) == ScopedUnlock(t, NoScope)

ThreadsNext ==
  \E t \in Threads :
    \/ Construct(t) \/ Constructed(t) \/ Begin(t) \/ Notify(t)
    \/ SetName(t) \/ Return(t) \/ Join(t) \/ Destroy(t)
    \/ \E mode \in {"read", "write"} : ScopedLock(t, mode)
    \/ EarlyUnlock(t) \/ LeaveScope(t)
------------------------------------------------------------------------------

\* When the constructor has returned, Run has set id_ and has the callback, which
\* Scheduler::Start relies on; and a thread uses its object after the object is
\* gone only if the wait of the constructor was interrupted, or if the object was
\* destroyed without Join, with the thread calling SetName later.
ThreadHasObject ==
  \A t \in Threads :
    /\ object[t].life = "made" => object[t].id_ /\ ~object[t].cb_
    /\ used[t] => \/ object[t].life = "thrown"
                  \/ object[t].life = "gone" /\ object[t].thread_ /\ run[t] \in {"cb", "end"}
    /\ object[t].life \in {"made", "gone"} /\ ~object[t].thread_ => run[t] = "end"

\* A body that has locked a scoped lock to write is alone, whoever unlocks early,
\* twice or at the end of the scope, and the lock is held exactly for the scopes
\* that say so.
ScopesExclude ==
  /\ \A t, u \in Threads :
       t # u /\ scope[t].locked /\ scope[u].locked => scope[t].mode = "read" /\ scope[u].mode = "read"
  /\ lock.writer <=> \E t \in Threads : scope[t] = [mode |-> "write", locked |-> TRUE]
  /\ lock.readers = Cardinality({t \in Threads : scope[t] = [mode |-> "read", locked |-> TRUE]})
==============================================================================
