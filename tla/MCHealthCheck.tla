--------------------------- MODULE MCHealthCheck ---------------------------
(* An instance of HealthCheck: two overlapping checks of one host. *)
EXTENDS HealthCheck, TLC

CONSTANTS h1, w1, w2
=============================================================================
