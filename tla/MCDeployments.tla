--------------------------- MODULE MCDeployments ----------------------------
(* An instance of Deployments: one container name and one rollback; a check  *)
(* at a time with two changes of the host, or two that overlap with none.    *)
EXTENDS Deployments, TLC

CONSTANTS n1, v1, r1, r2, r3, r4, k1

Changes == <<2, 0>>
=============================================================================
