------------------------- MODULE DeploymentHistory --------------------------
(***************************************************************************)
(* What GET /services/:id/snapshots and the rollback request may rely on:  *)
(* the deployment history of a service is an append-only list of           *)
(* deployments, and exactly the newest one is current.                     *)
(***************************************************************************)
EXTENDS Naturals, Sequences

CONSTANTS Services, Deployments

VARIABLES
    log,       \* the deployments of each service, oldest first
    current    \* the positions marked as current

vars == <<log, current>>

Newest(l) == IF l = <<>> THEN {} ELSE {Len(l)}

Init ==
    /\ log \in [Services -> Seq(Deployments)]
    /\ current = [s \in Services |-> Newest(log[s])]

Record(s, d) ==
    /\ log' = [log EXCEPT ![s] = Append(@, d)]
    /\ current' = [current EXCEPT ![s] = {Len(log[s]) + 1}]

Next == \E s \in Services, d \in Deployments : Record(s, d)

Spec == Init /\ [][Next]_vars
=============================================================================
