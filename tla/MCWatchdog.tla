----------------------------- MODULE MCWatchdog -----------------------------
(* Instances of Watchdog for TLC. *)
EXTENDS Watchdog, TLC

CONSTANTS parent, child

\* A session without subagents, and one subagent with its parent.
Alone  == <<>>
Family == child :> parent
==============================================================================
