----------------------------- MODULE MCIOManager -----------------------------
(* The IO scheduler with a small pool, for TLC. *)
EXTENDS IOManager, TLC

\* Threads of the pool, and fibers, are interchangeable.
WorkerAndFiberSymmetry == Permutations(Workers) \cup Permutations(Fibers)
==============================================================================
