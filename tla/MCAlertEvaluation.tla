------------------------- MODULE MCAlertEvaluation -------------------------
(* An instance of AlertEvaluation: a Slack rule, and one that is broken or   *)
(* about certificates, while two jobs report that a host is degraded.        *)
EXTENDS AlertEvaluation, TLC

CONSTANTS r1, r2, n1, v1, v2

Degraded == {<<"host", "degraded">>}

Draft(condition, channel) ==
    [type |-> OptionType(condition), condition |-> condition, channel |-> channel,
     enabled |-> TRUE]

HostDegraded == <<"host_status_transitioned_to", "degraded">>
SslExpired == <<"ssl_status_transitioned_to", "expired">>

RuleDrafts ==
    (r1 :> {Draft(HostDegraded, "slack")})
    @@ (r2 :> {Draft(HostDegraded, "broken"), Draft(SslExpired, "slack")})
=============================================================================
