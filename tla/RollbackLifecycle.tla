------------------------- MODULE RollbackLifecycle --------------------------
(***************************************************************************)
(* What the API promises of rollback events, as a client polling           *)
(* GET /rollback-events/:id may rely on it: a service has at most one      *)
(* active rollback, a rollback goes pending -> in_progress -> verdict and  *)
(* disappears only with its service.  With Redelivery, a job queue that    *)
(* delivers at least once may start a finished rollback again, when no     *)
(* other rollback of the service is active.                                *)
(***************************************************************************)
CONSTANTS Services, Events, Null, Redelivery

VARIABLES services, state, owner

vars == <<services, state, owner>>

Active == {"pending", "in_progress"}
Verdicts == {"succeeded", "failed"}

NoOtherActive(e, s) ==
    \A f \in Events \ {e} : owner[f] = s => state[f] \notin Active

Init ==
    /\ services = Services
    /\ state = [e \in Events |-> "none"]
    /\ owner = [e \in Events |-> Null]

\* A rollback of s is accepted.
Request(e, s) ==
    /\ state[e] = "none"
    /\ s \in services
    /\ NoOtherActive(e, s)
    /\ state' = [state EXCEPT ![e] = "pending"]
    /\ owner' = [owner EXCEPT ![e] = s]
    /\ UNCHANGED services

Start(e) ==
    /\ \/ state[e] = "pending"
       \/ Redelivery /\ state[e] \in Verdicts /\ NoOtherActive(e, owner[e])
    /\ state' = [state EXCEPT ![e] = "in_progress"]
    /\ UNCHANGED <<services, owner>>

Finish(e) ==
    /\ state[e] = "in_progress"
    /\ \E verdict \in Verdicts : state' = [state EXCEPT ![e] = verdict]
    /\ UNCHANGED <<services, owner>>

\* Services are removed, and their rollbacks with them.
Remove(gone) ==
    /\ services' = services \ gone
    /\ state' = [e \in Events |-> IF owner[e] \in gone THEN "deleted" ELSE state[e]]
    /\ UNCHANGED owner

Next ==
    \/ \E e \in Events, s \in Services : Request(e, s)
    \/ \E e \in Events : Start(e) \/ Finish(e)
    \/ \E gone \in SUBSET services : Remove(gone)

Spec == Init /\ [][Next]_vars
=============================================================================
