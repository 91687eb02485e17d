--------------------------- MODULE MCDomainCheck ---------------------------
(* An instance of DomainCheck: two ids for one hostname; two changes while   *)
(* requests come one at a time, or two requests at a time and no change.     *)
EXTENDS DomainCheck, TLC

CONSTANTS d1, d2, n1, w1

OneName == [d \in Domains |-> n1]
Changes == <<2, 0>>
=============================================================================
