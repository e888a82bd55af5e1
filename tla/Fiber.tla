-------------------------------- MODULE Fiber --------------------------------
(***************************************************************************)
(* The fibers of one thread (fiber/fiber.cc): contexts, t_fiber, states    *)
(* and the pointers that keep a fiber alive.                               *)
(*                                                                         *)
(* Main is the fiber of the thread itself.  Root runs Scheduler::Run on    *)
(* the thread that made the scheduler, and is its t_scheduler_fiber;       *)
(* tasks are swapped with Root, unscheduled fibers (and Root) with Main.   *)
(*                                                                         *)
(* A context holds the fiber whose code goes on where the context was      *)
(* saved, or Stale once that code has gone on from there: to enter it then *)
(* is to run on a stack that has changed.                                  *)
(***************************************************************************)
CONSTANTS
  Main, Root, Stale,
  Unscheduled,  \* fibers made with run_in_scheduler false
  Tasks         \* fibers made with run_in_scheduler true

ASSUME FibersApart ==
  /\ Main # Root
  /\ {Main, Root} \cap (Unscheduled \cup Tasks) = {}
  /\ Unscheduled \cap Tasks = {}
  /\ Stale \notin {Main, Root} \cup Unscheduled \cup Tasks

VARIABLES
  fiber,    \* the Fiber objects
  at,       \* the fiber whose code runs
  t_fiber,  \* the thread-local pointer to the current fiber
  wrong,    \* what undefined behaviour or failed assertion ended the run
  nested,   \* a fiber was resumed by code that it does not swap with
  parted    \* a fiber lost its owner while its code was running

fvars == <<fiber, at, t_fiber, wrong, nested, parted>>

Fibers == {Main, Root} \cup Unscheduled \cup Tasks

\* The fiber whose ctx_ Resume and Yield swap with.  Fiber() leaves
\* run_in_scheduler_ of the main fiber uninitialized.
Peers(f) ==
  CASE f \in Tasks -> {Root}
    [] f = Main -> {Main, Root}
    [] OTHER -> {Main}

\* state_, ctx_, a pointer outside of its own stack, the pointer cur in
\* MainFunc, and whether MainFunc has begun.
NoFiber(f) == [state |-> "none", ctx |-> f, own |-> FALSE, cur |-> FALSE, begun |-> FALSE]

\* GetThis has made the main fiber.
FiberInit ==
  /\ fiber = [f \in Fibers |->
                 IF f = Main
                   THEN [NoFiber(f) EXCEPT !.state = "RUNNING", !.ctx = Stale, !.own = TRUE]
                   ELSE NoFiber(f)]
  /\ at = Main
  /\ t_fiber = Main
  /\ wrong = "none"
  /\ nested = FALSE
  /\ parted = FALSE

\* The code of f goes on, or its stack is used anew: no context leads to it.
Entered(fs, f) == [g \in Fibers |-> [fs[g] EXCEPT !.ctx = IF @ = f THEN Stale ELSE @]]

\* swapcontext(&a.ctx_, &b.ctx_): saves the running code in a and enters what b
\* holds then.
swapcontext(fs, a, b) ==
  LET saved == [fs EXCEPT ![a].ctx = at]
      to    == saved[b].ctx
  IN IF saved[b].state # "none" /\ to # Stale
       THEN at' = to /\ fiber' = Entered(saved, to) /\ UNCHANGED wrong
       ELSE wrong' = "context" /\ fiber' = saved /\ UNCHANGED at

Fail(what) == wrong' = what /\ UNCHANGED <<fiber, at, t_fiber>>

\* The constructor; makecontext.
New(f) ==
  /\ fiber[f].state = "none"
  /\ fiber' = [Entered(fiber, f) EXCEPT ![f] = [NoFiber(f) EXCEPT !.state = "READY", !.own = TRUE]]
  /\ UNCHANGED <<at, t_fiber, wrong, nested, parted>>

\* Reset, of a fiber that has ended, as it asserts.
Reset(f) ==
  /\ fiber[f].own
  /\ fiber[f].state = "TERM"
  /\ fiber' = [Entered(fiber, f) EXCEPT ![f].state = "READY", ![f].ctx = f, ![f].begun = FALSE]
  /\ UNCHANGED <<at, t_fiber, wrong, nested, parted>>

\* The code that runs calls f->Resume(), on a fiber that is READY, as it asserts.
\* MainFunc, entered for the first time, holds a pointer to its fiber.
Resume(f) ==
  /\ fiber[f].own
  /\ fiber[f].state = "READY"
  /\ t_fiber' = f
  /\ \E p \in Peers(f) :
       /\ swapcontext([fiber EXCEPT ![f].state = "RUNNING", ![f].begun = TRUE, ![f].cur = TRUE], p, f)
       /\ nested' = (nested \/ at # p)
  /\ UNCHANGED parted

\* Mutant: yields to the main fiber always.
YieldToMain(y, fs) ==
  /\ t_fiber' = Main
  /\ swapcontext([fs EXCEPT ![y].state = IF @ = "TERM" THEN @ ELSE "READY"], y, Main)

\* y->Yield() of a fiber with the objects fs.
YieldOf(y, fs) ==
  \E p \in Peers(y) :
    /\ t_fiber' = Main
    /\ swapcontext([fs EXCEPT ![y].state = IF @ = "TERM" THEN @ ELSE "READY"], y, p)

\* The body of a fiber calls GetThis()->Yield().
Yield ==
  /\ at \in Unscheduled \cup Tasks
  /\ IF fiber[t_fiber].state \in {"RUNNING", "TERM"}
       THEN YieldOf(t_fiber, fiber)
       ELSE Fail("assert")
  /\ UNCHANGED <<nested, parted>>

\* The body returns to MainFunc, which gives up its pointer, the last one
\* perhaps, and yields.
MainFuncEnds ==
  /\ at # Main
  /\ IF fiber[at].own
       THEN YieldOf(at, [fiber EXCEPT ![at].state = "TERM", ![at].cur = FALSE])
       ELSE Fail("freed")
  /\ UNCHANGED <<nested, parted>>

\* The body keeps a pointer to the current fiber, as the hooks and AddEvent do.
Keep ==
  /\ at \in Unscheduled \cup Tasks
  /\ fiber' = [fiber EXCEPT ![t_fiber].own = TRUE]
  /\ UNCHANGED <<at, t_fiber, wrong, nested, parted>>

\* The last pointer outside of f's own stack goes; without cur the destructor
\* runs, which asserts that f has ended.
Release(f) ==
  /\ fiber[f].own
  /\ parted' = (parted \/ fiber[f].state = "RUNNING")
  /\ IF fiber[f].cur
       THEN fiber' = [fiber EXCEPT ![f].own = FALSE] /\ UNCHANGED wrong
       ELSE IF fiber[f].state = "TERM"
              THEN fiber' = [fiber EXCEPT ![f] = NoFiber(f)] /\ UNCHANGED wrong
              ELSE wrong' = "assert" /\ fiber' = [fiber EXCEPT ![f].own = FALSE]
  /\ UNCHANGED <<at, t_fiber, nested>>

FiberNext ==
  /\ wrong = "none"
  /\ \/ \E f \in Fibers \ {Main} : New(f) \/ Reset(f) \/ Resume(f) \/ Release(f)
     \/ Yield
     \/ MainFuncEnds
     \/ Keep
------------------------------------------------------------------------------

\* As long as fibers are resumed by the code that they swap with, what runs is
\* the current fiber (or Run, which yielding tasks leave with t_fiber at the main
\* fiber), each fiber that was left can be entered where it was left, and exactly
\* the fiber that runs and those that wait for it to yield are RUNNING.  So Yield
\* goes back to the code that called Resume, which can resume the next one; and the
\* main fiber is RUNNING, as its destructor asserts.
SwitchesRight ==
  nested \/
    /\ wrong # "context"
    /\ t_fiber = at \/ (at = Root /\ t_fiber = Main)
    /\ wrong = "none" =>
         {f \in Fibers : fiber[f].state = "RUNNING"} =
           {Main, at} \cup (IF at \in Tasks THEN {Root} ELSE {})
    /\ \A f \in Fibers \ {at} : fiber[f].state # "none" => fiber[f].ctx = f

\* The pointer in MainFunc keeps a fiber alive from its first Resume to its end:
\* it is destroyed before only if it was never resumed, its stack is freed under
\* it only if its own body gave up the last other pointer, and nothing of it
\* remains once it has ended and nobody else points to it.
LivesWhileRun ==
  nested \/
    /\ wrong = "assert" =>
         \E f \in Fibers : fiber[f].state = "READY" /\ ~fiber[f].own /\ ~fiber[f].begun
    /\ wrong = "freed" => parted
    /\ \A f \in Fibers : fiber[f].state = "TERM" => fiber[f].own
    /\ \A f \in Fibers : fiber[f].begun /\ fiber[f].state # "TERM" => fiber[f].cur
==============================================================================
