---------------------------- MODULE MCTaskStream ----------------------------
(* Instances of TaskStream for TLC. *)
EXTENDS TaskStream

CONSTANTS c1, c2
==============================================================================
