------------------------- MODULE MCAdministration -------------------------
(* An instance of Administration: two of everybody, three connects. *)
EXTENDS Administration, TLC
CONSTANTS e1, e2, n1, n2, p1, p2, t1, t2, l1, l2, h1, h2, d1, s1
Symmetry == Permutations(Tabs) \cup Permutations(Labels)
=============================================================================
