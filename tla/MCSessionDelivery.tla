------------------------- MODULE MCSessionDelivery -------------------------
(* Instances of SessionDelivery for TLC. *)
EXTENDS SessionDelivery

CONSTANTS r1, r2, f1, f2
==============================================================================
