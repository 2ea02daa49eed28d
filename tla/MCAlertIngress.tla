--------------------------- MODULE MCAlertIngress ---------------------------
(* Instances of AlertIngress for TLC. *)
EXTENDS AlertIngress

CONSTANTS site, cron, h1, h2
==============================================================================
