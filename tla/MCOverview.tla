------------------------------ MODULE MCOverview ------------------------------
(* An instance of Overview with one host and two domains. *)
EXTENDS Overview, TLC
CONSTANTS h1, d1, d2
=============================================================================
