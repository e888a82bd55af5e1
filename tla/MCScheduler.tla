----------------------------- MODULE MCScheduler -----------------------------
(* The scheduler with a pool of two threads and its owner, for TLC; the       *)
(* configuration gives the constants.                                         *)
EXTENDS Scheduler
==============================================================================
