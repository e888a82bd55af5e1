------------------------------ MODULE MCIOEvents ------------------------------
(* The event table with few descriptors and threads, for TLC. *)
EXTENDS IOEvents
==============================================================================
