-------------------------- MODULE AlertEvaluation --------------------------
(***************************************************************************)
(* Alert rules and their evaluation: administrators create, patch and      *)
(* remove rules (alerts.service.ts), and every check that changes a status *)
(* runs AlertEvaluationService.evaluateTransition, which looks the enabled *)
(* rules up and, one rule after the other, checks the cooldown, sends and  *)
(* logs.  A call of the database or of a channel is one step.  A cooldown  *)
(* is a sent row that has not expired; how long it lasts is left open.     *)
(***************************************************************************)
EXTENDS Naturals, FiniteSets

CONSTANTS
    Rules,          \* rule ids
    Entities,       \* entity ids
    Evaluators,     \* jobs that may evaluate at the same time
    Events,         \* the events of a run: a subset of AllEvents
    Drafts,         \* for each rule, what it may be created from: a subset of AllDrafts
    MaxChanges,     \* bound: patches, removals, and failures of Slack and of the database
    Null

VARIABLES
    rules,      \* alert_rules: the row of each id, or Null
    gone,       \* rules whose DELETE was answered
    patch,      \* the PATCH in progress: rule and the entity it saves, or Null
    fresh,      \* <<rule, entity>> with a sent alert_logs row within the cooldown
    unlogged,   \* attempts for <<rule, entity>> that alert_logs has no row of (yet),
                \* counted up to one more than there are evaluators
    received,   \* messages of <<rule, entity>> that arrived and whose log row is still
                \* to come or within the cooldown, up to one more than evaluators
    untold,     \* <<rule, entity>> with an attempt whose outcome alert_logs does not tell
    changes,    \* patches, removals and failures so far
    pc, event, todo, rule, sent     \* each evaluator's step and locals

tables == <<rules, gone, patch>>
ghosts == <<unlogged, received, untold, changes>>
locals == <<event, todo, rule, sent>>
vars == <<tables, fresh, ghosts, pc, locals>>

Pairs == Rules \X Entities

-----------------------------------------------------------------------------
(* Conditions.  A condition string is modelled as <<prefix, value>>. *)

ALERT_CONDITIONS ==
    {<<"host_status_transitioned_to", s>> : s \in {"unreachable", "degraded"}}
    \cup {<<"ssl_status_transitioned_to", s>> : s \in {"expiring_soon", "expired"}}
    \cup {<<"service_status_transitioned_to", s>> : s \in {"crash_loop", "unhealthy"}}
    \cup {<<"rollback_event", "failed">>,
          <<"system", "idle_host_detected">>, <<"system", "orphan_detected">>}

AlertEntityType == {"host", "domain", "ssl_certificate", "service", "rollback_event", "system"}

\* What the callers report: a status, or for "system" the condition itself.
AllEvents ==
    ({"host"} \X {"healthy", "degraded", "unreachable", "pending_setup"})
    \cup ({"ssl_certificate"} \X {"valid", "expiring_soon", "expired", "invalid"})
    \cup ({"service"} \X {"running", "stopped", "crash_loop", "unhealthy", "unknown"})
    \cup {<<"rollback_event", "failed">>}
    \cup ({"system"} \X {"idle_host_detected", "orphan_detected"})

\* buildTransitionCondition, and the conditions of evaluateDirectCondition
Condition(type, status) ==
    CASE type = "host" -> <<"host_status_transitioned_to", status>>
      [] type = "ssl_certificate" -> <<"ssl_status_transitioned_to", status>>
      [] type = "service" -> <<"service_status_transitioned_to", status>>
      [] type = "rollback_event" -> IF status = "failed" THEN <<"rollback_event", "failed">> ELSE Null
      [] type = "system" -> <<"system", status>>
      [] OTHER -> Null

\* A rule body: channel "broken" stands for a config that cannot be decrypted
\* or parsed, "email" for the adapter that never delivers.
AllDrafts == [type : AlertEntityType, condition : ALERT_CONDITIONS,
              channel : {"slack", "email", "broken"}, enabled : BOOLEAN]

\* ALERT_CONDITION_OPTIONS: the page's choice fixes the entity type
OptionType(c) ==
    CASE c[1] = "host_status_transitioned_to" -> "host"
      [] c[1] = "ssl_status_transitioned_to" -> "ssl_certificate"
      [] c[1] = "service_status_transitioned_to" -> "service"
      [] OTHER -> c[1]

\* handleConnect of AlertsPage: the rules the page creates
ConnectDrafts ==
    {[type |-> OptionType(c), condition |-> c, channel |-> "slack", enabled |-> TRUE] :
        c \in ALERT_CONDITIONS}

ASSUME ConstantsAssumption ==
    /\ MaxChanges \in Nat /\ IsFiniteSet(Evaluators)
    /\ Events \subseteq AllEvents /\ Drafts \in [Rules -> SUBSET AllDrafts]
    /\ Null \notin Rules \cup Entities \cup AllDrafts

-----------------------------------------------------------------------------
(* Administrators *)

\* Administrators act, and Slack and the database fail, now and then.
Change == changes < MaxChanges /\ changes' = changes + 1

Init ==
    /\ rules = [r \in Rules |-> Null] /\ gone = {} /\ patch = Null /\ fresh = {}
    /\ unlogged = [p \in Pairs |-> 0] /\ received = [p \in Pairs |-> 0]
    /\ untold = {} /\ changes = 0
    /\ pc = [v \in Evaluators |-> "idle"]
    /\ event = [v \in Evaluators |-> Null] /\ todo = [v \in Evaluators |-> {}]
    /\ rule = [v \in Evaluators |-> Null] /\ sent = [v \in Evaluators |-> FALSE]

CreateRule(r) ==
    /\ rules[r] = Null /\ r \notin gone
    /\ \E d \in Drafts[r] : rules' = [rules EXCEPT ![r] = d]
    /\ UNCHANGED <<gone, patch, fresh, ghosts, pc, locals>>

\* update: findOne, then save the whole entity with the named fields replaced
\* (the page only ever patches "enabled")
FindForUpdate(r) ==
    /\ Change /\ patch = Null /\ rules[r] # Null
    /\ patch' = [rule |-> r, entity |-> [rules[r] EXCEPT !.enabled = ~ @]]
    /\ UNCHANGED <<rules, gone, fresh, unlogged, received, untold, pc, locals>>

\* save() inserts the row again when it is gone
SaveUpdate ==
    /\ patch # Null /\ patch' = Null
    /\ rules' = [rules EXCEPT ![patch.rule] = patch.entity]
    /\ UNCHANGED <<gone, fresh, ghosts, pc, locals>>

\* remove; the logs of the rule go with it (ON DELETE CASCADE)
RemoveRule(r) ==
    /\ Change /\ rules[r] # Null /\ r \notin gone
    /\ rules' = [rules EXCEPT ![r] = Null] /\ gone' = gone \cup {r}
    /\ fresh' = {p \in fresh : p[1] # r}
    /\ UNCHANGED <<patch, unlogged, received, untold, pc, locals>>

-----------------------------------------------------------------------------
(* evaluateTransition, evaluateDirectCondition and dispatch *)

At(v, step) == pc[v] = step /\ UNCHANGED tables
Goto(v, step) == pc' = [pc EXCEPT ![v] = step]

\* A check of entity n ends with a changed status.  Events without a condition
\* scheme are dropped at once.
Evaluate(v, n, e) ==
    /\ At(v, "idle") /\ Condition(e[1], e[2]) # Null
    /\ Goto(v, "find")
    /\ event' = [event EXCEPT ![v] = [entity |-> n, type |-> e[1],
                                      condition |-> Condition(e[1], e[2])]]
    /\ UNCHANGED <<fresh, ghosts, todo, rule, sent>>

Matching(e) == {r \in Rules : rules[r] # Null /\ rules[r].enabled
                    /\ rules[r].type = e.type /\ rules[r].condition = e.condition}

\* Back to the caller, with or without an error that was caught on the way.
Return(v) ==
    /\ Goto(v, "idle")
    /\ event' = [event EXCEPT ![v] = Null] /\ todo' = [todo EXCEPT ![v] = {}]
    /\ rule' = [rule EXCEPT ![v] = Null] /\ sent' = [sent EXCEPT ![v] = FALSE]

\* The rules are read once: each as <<id, channel>>.
FindRules(v) ==
    /\ At(v, "find") /\ UNCHANGED <<fresh, ghosts>>
    /\ Goto(v, "loop")
    /\ todo' = [todo EXCEPT ![v] = {<<r, rules[r].channel>> : r \in Matching(event[v])}]
    /\ UNCHANGED <<event, rule, sent>>

\* The rule lookup rejects: logged, nothing is evaluated.
FindRulesThrows(v) ==
    /\ Change /\ At(v, "find") /\ Return(v)
    /\ UNCHANGED <<fresh, unlogged, received, untold>>

\* for (const rule of rules), in the order the database returned them
NextRule(v) ==
    /\ At(v, "loop") /\ UNCHANGED <<fresh, ghosts>>
    /\ IF todo[v] = {}
       THEN Return(v)
       ELSE /\ Goto(v, "cooldown")
            /\ \E t \in todo[v] : /\ rule' = [rule EXCEPT ![v] = t]
                                  /\ todo' = [todo EXCEPT ![v] = @ \ {t}]
            /\ UNCHANGED <<event, sent>>

PairOf(v) == <<rule[v][1], event[v].entity>>

\* isWithinCooldown
WithinCooldown(v) == PairOf(v) \in fresh

Cap == Cardinality(Evaluators) + 1

CheckCooldown(v) ==
    /\ At(v, "cooldown") /\ UNCHANGED <<fresh, received, untold, changes, locals>>
    /\ \/ WithinCooldown(v) /\ Goto(v, "loop") /\ UNCHANGED unlogged
       \/ /\ ~ WithinCooldown(v) /\ Goto(v, "send")
          /\ unlogged' = [unlogged EXCEPT ![PairOf(v)] =
                            IF @ = Cap THEN @ ELSE @ + 1]

Result(v, ok) == Goto(v, "log") /\ sent' = [sent EXCEPT ![v] = ok]

Arrives(v) == received' = [received EXCEPT ![PairOf(v)] = IF @ = Cap THEN @ ELSE @ + 1]

\* SlackChannelAdapter.send: accepted, refused, or no answer within the timeout
\* although the message arrived
SendSlack(v) ==
    /\ At(v, "send") /\ rule[v][2] = "slack" /\ UNCHANGED <<fresh, unlogged, event, todo, rule>>
    /\ \/ Result(v, TRUE) /\ Arrives(v) /\ UNCHANGED <<untold, changes>>
       \/ /\ Change /\ Result(v, FALSE)
          /\ \/ UNCHANGED <<received, untold>>
             \/ Arrives(v) /\ untold' = untold \cup {PairOf(v)}

\* Variant: an adapter that throws ends the whole evaluation.
ThrowToCaller(v) ==
    /\ At(v, "send") /\ rule[v][2] # "slack" /\ UNCHANGED <<fresh, received, untold, changes>>
    /\ unlogged' = [unlogged EXCEPT ![PairOf(v)] = @ - 1] /\ Return(v)

\* EmailChannelAdapter.send, or a config that does not decrypt: caught and
\* logged as a failure
SendFails(v) ==
    /\ At(v, "send") /\ rule[v][2] # "slack"
    /\ Result(v, FALSE) /\ UNCHANGED <<fresh, ghosts, event, todo, rule>>

Written(v, logs, asSent) ==
    /\ At(v, "log") /\ Goto(v, "loop") /\ UNCHANGED <<received, untold, changes, locals>>
    /\ IF rules[rule[v][1]] = Null
       THEN UNCHANGED <<fresh, unlogged>>
       ELSE /\ fresh' = IF asSent THEN fresh \cup {PairOf(v)} ELSE fresh
            /\ unlogged' = [unlogged EXCEPT ![PairOf(v)] = @ - logs]

\* Variant: only deliveries are logged.
LogDelivery(v) == Written(v, IF sent[v] THEN 1 ELSE 0, sent[v])

\* Variant: a failed delivery is logged as sent.
LogAsSent(v) == Written(v, 1, TRUE)

\* writeLog: the insert fails when the rule is gone, and that is swallowed
WriteLog(v) == Written(v, 1, sent[v])

\* Any other failure of the insert is swallowed too.
WriteLogThrows(v) ==
    /\ Change /\ At(v, "log") /\ Goto(v, "loop")
    /\ untold' = untold \cup {PairOf(v)}
    /\ UNCHANGED <<fresh, unlogged, received, locals>>

\* The sent row is older than cooldownMinutes.
Expire(p) ==
    /\ p \in fresh /\ fresh' = fresh \ {p}
    /\ received' = [received EXCEPT ![p] = Cardinality({v \in Evaluators :
                        pc[v] = "log" /\ sent[v] /\ PairOf(v) = p})]
    /\ UNCHANGED <<tables, unlogged, untold, changes, pc, locals>>

\* evaluateRule and the loop around it
Work(v) ==
    \/ FindRules(v) \/ NextRule(v) \/ CheckCooldown(v)
    \/ SendSlack(v) \/ SendFails(v) \/ WriteLog(v)

Throws(v) == FindRulesThrows(v) \/ WriteLogThrows(v)

\* AlertRulesController
Administer == (\E r \in Rules : CreateRule(r) \/ FindForUpdate(r) \/ RemoveRule(r)) \/ SaveUpdate

Next ==
    \/ Administer
    \/ \E v \in Evaluators : \/ Work(v) \/ Throws(v)
                            \/ \E n \in Entities, e \in Events : Evaluate(v, n, e)
    \/ \E p \in Pairs : Expire(p)

Spec == Init /\ [][Next]_vars

\* An evaluation goes on by itself (every send has a timeout); nobody has to
\* administer rules, and statuses need not change.
FairSpec == Spec /\ \A v \in Evaluators : WF_vars(Work(v))

-----------------------------------------------------------------------------
(* Properties *)

\* Types of every variable.
TypeOK ==
    /\ rules \in [Rules -> AllDrafts \cup {Null}] /\ gone \subseteq Rules
    /\ patch \in [rule : Rules, entity : AllDrafts] \cup {Null}
    /\ fresh \subseteq Pairs
    /\ unlogged \in [Pairs -> 0..Cap] /\ received \in [Pairs -> 0..Cap]
    /\ untold \subseteq Pairs /\ changes \in 0..MaxChanges
    /\ pc \in [Evaluators -> {"idle", "find", "loop", "cooldown", "send", "log"}]
    /\ event \in [Evaluators -> [entity : Entities, type : AlertEntityType,
                                 condition : ALERT_CONDITIONS \cup
                                    {Condition(e[1], e[2]) : e \in AllEvents}] \cup {Null}]
    /\ todo \in [Evaluators -> SUBSET (Rules \X {"slack", "email", "broken"})]
    /\ rule \in [Evaluators -> (Rules \X {"slack", "email", "broken"}) \cup {Null}]
    /\ sent \in [Evaluators -> BOOLEAN]

\* "Every attempt - success or failure - writes an immutable AlertLog row": the
\* attempts without a row are those still under way, however many overlap and
\* fail (evaluateRule; a removed rule takes its rows along, and untold are the
\* attempts whose own insert failed).
EveryAttemptIsLogged ==
    \A p \in Pairs : p[1] \notin gone /\ p \notin untold =>
        unlogged[p] = Cardinality({v \in Evaluators : pc[v] \in {"send", "log"} /\ PairOf(v) = p})

\* A cooldown runs only when the message arrived: no failure silences a rule
\* (isWithinCooldown looks for "sent" rows only).
SilencedWasReceived == \A p \in fresh : received[p] > 0

\* Within the cooldown of a delivered message, each of the jobs that evaluate
\* at once sends at most one: the cooldown is checked before the send and armed
\* after it, so that a message may be doubled but never be sent in a second
\* round (isWithinCooldown and writeLog).
OneMessageEach ==
    \A p \in Pairs : p[1] \notin gone /\ p \notin untold =>
        received[p] <= Cardinality(Evaluators)

\* A rule in the table can fire: some reported event has its type and condition
\* (CreateAlertRuleDto, ALERT_CONDITION_OPTIONS).
EveryRuleCanFire ==
    \A r \in Rules : rules[r] # Null =>
        \E e \in AllEvents : e[1] = rules[r].type /\ Condition(e[1], e[2]) = rules[r].condition

\* However often channels fail and other rules are broken, an entity that keeps
\* reporting an event keeps reaching whoever has an enabled Slack rule for it.
EventsReachSlack ==
    \A r \in Rules, n \in Entities :
        (/\ <>[](rules[r] # Null /\ rules[r].enabled /\ rules[r].channel = "slack")
         /\ []<>(\E v \in Evaluators :
                    pc[v] = "find" /\ event[v].entity = n /\ r \in Matching(event[v])))
            => []<>(received[<<r, n>>] > 0)

\* Every rule in the table can fire; its cooldown runs because a message has
\* arrived, and no job sends a second one.
RulesAreSound == TypeOK /\ EveryRuleCanFire /\ SilencedWasReceived /\ OneMessageEach
=============================================================================
