----------------------------- MODULE MCSession ------------------------------
(* An instance of Session: two users and two requests of the same tab. *)
EXTENDS Session
CONSTANTS u1, u2, r1, r2
=============================================================================
