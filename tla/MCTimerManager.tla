---------------------------- MODULE MCTimerManager ----------------------------
(* Timers of a small IOManager, for TLC. *)
EXTENDS TimerManager
==============================================================================
