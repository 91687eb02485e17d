--------------------------- MODULE MCRollbackPage ---------------------------
(* An instance of RollbackPage with two rollbacks and three deployments. *)
EXTENDS RollbackPage, TLC
CONSTANTS e1, e2
=============================================================================
