----------------------------- MODULE MCRollback -----------------------------
(* Model-checking instances of Rollback: constant values for the .cfg files *)
EXTENDS Rollback, TLC

CONSTANTS h1, s1, v1, v2, e1, e2, q1, q2, w1, w2

\* one service with two deployments behind it
OneHostOf == [s \in {s1} |-> h1]
OneHistory == [s \in {s1} |-> <<v1, v2>>]

\* sound for safety only: the liveness runs do not use it
Symmetry == Permutations(Events) \cup Permutations(Requests) \cup Permutations(Workers)
=============================================================================
