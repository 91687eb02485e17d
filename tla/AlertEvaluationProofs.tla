----------------------- MODULE AlertEvaluationProofs -----------------------
(***************************************************************************)
(* Theorems about AlertEvaluation, for every set of rules and entities,    *)
(* any finite number of evaluators, and any failures of Slack and of the   *)
(* database.                                                               *)
(***************************************************************************)
EXTENDS AlertEvaluation, FiniteSetTheorems, TLAPS

(* The parts of the inductive invariant *)

Channels == {"slack", "email", "broken"}
Occurrences == [entity : Entities, type : AlertEntityType,
                condition : ALERT_CONDITIONS \cup {Condition(e[1], e[2]) : e \in AllEvents}]

\* A rule that an evaluator read is in the table or was removed.
Known(r) == rules[r] # Null \/ r \in gone

HandlingInv ==
    \A v \in Evaluators :
        /\ pc[v] # "idle" => event[v] \in Occurrences
        /\ pc[v] \in {"cooldown", "send", "log"}
                => rule[v] \in Rules \X Channels /\ Known(rule[v][1])
        /\ \A t \in todo[v] : Known(t[1])

\* The evaluators that have not sent yet, and those that have not logged.
Sending(p) == {v \in Evaluators : pc[v] = "send" /\ PairOf(v) = p}
Working(p) == {v \in Evaluators : pc[v] \in {"send", "log"} /\ PairOf(v) = p}
Delivering(p) == {v \in Evaluators : pc[v] = "log" /\ sent[v] /\ PairOf(v) = p}

\* Pairs whose attempts alert_logs tells everything of.
Tracked(p) == p[1] \notin gone /\ p \notin untold

LoggedInv ==
    \A p \in Pairs : /\ unlogged[p] >= Cardinality(Working(p))
                     /\ Tracked(p) => unlogged[p] = Cardinality(Working(p))

\* Outside the cooldown the messages that count are those still to be logged;
\* within it, whoever has passed the check may add one more.
ReceivedInv ==
    \A p \in Pairs :
        /\ received[p] >= Cardinality(Delivering(p))
        /\ p \in fresh => received[p] > 0
        /\ Tracked(p) /\ p \notin fresh => received[p] = Cardinality(Delivering(p))
        /\ Tracked(p) /\ p \in fresh
                => received[p] + Cardinality(Sending(p)) =< Cardinality(Evaluators)

AlertInv == TypeOK /\ HandlingInv /\ LoggedInv /\ ReceivedInv

-----------------------------------------------------------------------------
(* Counting evaluators *)

One(b) == IF b THEN 1 ELSE 0

\* Two finite sets that differ in v at most.
LEMMA CountStep ==
    ASSUME NEW S, NEW T, NEW v, IsFiniteSet(S), IsFiniteSet(T), S \ {v} = T \ {v}
    PROVE  /\ Cardinality(S) \in Nat /\ Cardinality(T) \in Nat
           /\ Cardinality(T) - One(v \in T) = Cardinality(S) - One(v \in S)
<1>. DEFINE R == S \ {v}
<1>1. IsFiniteSet(R)
  BY FS_Subset
<1>2. /\ Cardinality(R) \in Nat /\ v \notin R
      /\ Cardinality(R \cup {v}) = Cardinality(R) + 1
  BY <1>1, FS_CardinalityType, FS_AddElement
<1>3. S = IF v \in S THEN R \cup {v} ELSE R
  OBVIOUS
<1>4. T = IF v \in T THEN R \cup {v} ELSE R
  OBVIOUS
<1>. HIDE DEF R
<1>5. Cardinality(S) = Cardinality(R) + One(v \in S)
  BY <1>2, <1>3 DEF One
<1>6. Cardinality(T) = Cardinality(R) + One(v \in T)
  BY <1>2, <1>4 DEF One
<1>7. One(v \in S) \in {0, 1} /\ One(v \in T) \in {0, 1}
  BY DEF One
<1>. QED BY <1>2, <1>5, <1>6, <1>7

\* No more evaluators are sending and delivering than there are.
LEMMA Bounds ==
    ASSUME NEW p
    PROVE  /\ IsFiniteSet(Sending(p)) /\ IsFiniteSet(Working(p)) /\ IsFiniteSet(Delivering(p))
           /\ Cardinality(Evaluators) \in Nat /\ Cap = Cardinality(Evaluators) + 1
           /\ Cardinality(Sending(p)) \in Nat /\ Cardinality(Delivering(p)) \in Nat
           /\ Cardinality(Working(p)) \in 0..Cardinality(Evaluators)
           /\ Cardinality(Sending(p)) + Cardinality(Delivering(p)) =< Cardinality(Evaluators)
<1>. DEFINE S == Sending(p)
            W == Working(p)
            D == Delivering(p)
<1>1. IsFiniteSet(Evaluators)
  BY ConstantsAssumption
<1>2. S \subseteq Evaluators /\ W \subseteq Evaluators /\ D \subseteq Evaluators /\ S \cap D = {}
  BY DEF Sending, Working, Delivering
<1>. HIDE DEF S, W, D
<1>3. /\ IsFiniteSet(S) /\ IsFiniteSet(W) /\ IsFiniteSet(D)
      /\ Cardinality(W) =< Cardinality(Evaluators)
  BY <1>1, <1>2, FS_Subset
<1>4. /\ Cardinality(S) \in Nat /\ Cardinality(D) \in Nat /\ Cardinality(W) \in Nat
      /\ Cardinality(Evaluators) \in Nat
  BY <1>1, <1>3, FS_CardinalityType
<1>5. Cardinality(S \cup D) = Cardinality(S) + Cardinality(D) - Cardinality(S \cap D)
  BY <1>3, FS_Union
<1>6. Cardinality(S \cap D) = 0
  BY <1>2, FS_EmptySet
<1>7. Cardinality(S \cup D) =< Cardinality(Evaluators)
  BY <1>1, <1>2, FS_Subset
<1>. QED BY <1>3, <1>4, <1>5, <1>6, <1>7 DEF S, W, D, Cap

\* v is the only evaluator that takes a step.
Only(v) ==
    \A u \in Evaluators \ {v} : /\ pc'[u] = pc[u] /\ event'[u] = event[u]
                                /\ rule'[u] = rule[u] /\ sent'[u] = sent[u]

LEMMA SetsStep ==
    ASSUME NEW p, NEW v \in Evaluators, Only(v)
    PROVE  /\ Sending(p) \ {v} = Sending(p)' \ {v}
           /\ Working(p) \ {v} = Working(p)' \ {v}
           /\ Delivering(p) \ {v} = Delivering(p)' \ {v}
BY DEF Only, Sending, Working, Delivering, PairOf

LEMMA CountsStep ==
    ASSUME NEW p, NEW v \in Evaluators, Only(v)
    PROVE  /\ Cardinality(Sending(p)') - One(v \in Sending(p)')
                = Cardinality(Sending(p)) - One(v \in Sending(p))
           /\ Cardinality(Working(p)') - One(v \in Working(p)')
                = Cardinality(Working(p)) - One(v \in Working(p))
           /\ Cardinality(Delivering(p)') - One(v \in Delivering(p)')
                = Cardinality(Delivering(p)) - One(v \in Delivering(p))
<1>1. IsFiniteSet(Sending(p)) /\ IsFiniteSet(Working(p)) /\ IsFiniteSet(Delivering(p))
  BY Bounds
<1>2. IsFiniteSet(Sending(p)') /\ IsFiniteSet(Working(p)') /\ IsFiniteSet(Delivering(p)')
  <2>1. IsFiniteSet(Evaluators)
    BY ConstantsAssumption
  <2>2. /\ Sending(p)' \subseteq Evaluators /\ Working(p)' \subseteq Evaluators
        /\ Delivering(p)' \subseteq Evaluators
    BY DEF Sending, Working, Delivering
  <2>. QED BY <2>1, <2>2, FS_Subset
<1>. QED BY <1>1, <1>2, SetsStep, CountStep
-----------------------------------------------------------------------------
(* Types *)

\* What is reported has the type and the condition of an occurrence.
LEMMA OccurrencesTyped ==
    ASSUME NEW e \in AllEvents, NEW n \in Entities
    PROVE  [entity |-> n, type |-> e[1], condition |-> Condition(e[1], e[2])] \in Occurrences
<1>1. e[1] \in AlertEntityType
  BY DEF AllEvents, AlertEntityType
<1>2. Condition(e[1], e[2]) \in {Condition(f[1], f[2]) : f \in AllEvents}
  OBVIOUS
<1>. QED BY <1>1, <1>2 DEF Occurrences

LEMMA PairTyped ==
    ASSUME HandlingInv, NEW v \in Evaluators, pc[v] \in {"cooldown", "send", "log"}
    PROVE  PairOf(v) \in Pairs /\ PairOf(v)[1] = rule[v][1]
<1>1. rule[v] \in Rules \X Channels /\ event[v] \in Occurrences
  BY DEF HandlingInv
<1>2. rule[v][1] \in Rules /\ event[v].entity \in Entities
  BY <1>1 DEF Occurrences
<1>. QED BY <1>2 DEF PairOf, Pairs

TablesTyped ==
    /\ rules \in [Rules -> AllDrafts \cup {Null}] /\ gone \subseteq Rules
    /\ patch \in [rule : Rules, entity : AllDrafts] \cup {Null}

LocalsTyped ==
    /\ pc \in [Evaluators -> {"idle", "find", "loop", "cooldown", "send", "log"}]
    /\ event \in [Evaluators -> Occurrences \cup {Null}]
    /\ todo \in [Evaluators -> SUBSET (Rules \X Channels)]
    /\ rule \in [Evaluators -> (Rules \X Channels) \cup {Null}]
    /\ sent \in [Evaluators -> BOOLEAN]

GhostsTyped ==
    /\ fresh \subseteq Pairs
    /\ unlogged \in [Pairs -> 0..Cap] /\ received \in [Pairs -> 0..Cap]
    /\ untold \subseteq Pairs /\ changes \in 0..MaxChanges

LEMMA TypesSplit == TypeOK <=> TablesTyped /\ LocalsTyped /\ GhostsTyped
BY DEF TypeOK, TablesTyped, LocalsTyped, GhostsTyped, Channels, Occurrences

\* Administrators write drafts, or rows they have read.
LEMMA AdministerTypes ==
    ASSUME TypeOK, Administer
    PROVE  /\ TablesTyped' /\ UNCHANGED <<unlogged, received, untold, pc, locals>>
           /\ fresh' \subseteq fresh /\ changes' \in 0..MaxChanges
           /\ \A r \in Rules : rules[r] # Null => rules'[r] # Null \/ r \in gone'
           /\ gone \subseteq gone'
           /\ \A p \in Pairs : p \in fresh => p \in fresh' \/ p[1] \in gone'
<1>. USE ConstantsAssumption DEF TypeOK, TablesTyped
<1>1. ASSUME NEW r \in Rules, CreateRule(r)
      PROVE  /\ TablesTyped' /\ UNCHANGED <<fresh, gone, ghosts, pc, locals>>
             /\ \A s \in Rules : rules[s] # Null => rules'[s] # Null
  <2>1. PICK d \in Drafts[r] : rules' = [rules EXCEPT ![r] = d]
    BY <1>1 DEF CreateRule
  <2>2. d \in AllDrafts
    OBVIOUS
  <2>. QED BY <1>1, <2>1, <2>2 DEF CreateRule
<1>2. ASSUME NEW r \in Rules, FindForUpdate(r)
      PROVE  /\ TablesTyped' /\ UNCHANGED <<rules, fresh, gone, unlogged, received, untold>>
             /\ UNCHANGED <<pc, locals>>
             /\ changes' \in 0..MaxChanges
  <2>1. /\ patch' = [rule |-> r, entity |-> [rules[r] EXCEPT !.enabled = ~ @]]
        /\ UNCHANGED <<rules, gone, fresh, unlogged, received, untold, pc, locals>>
        /\ changes < MaxChanges /\ changes' = changes + 1
    BY <1>2 DEF FindForUpdate, Change
  <2>2. rules[r] \in AllDrafts
    BY <1>2 DEF FindForUpdate
  <2>3. [rules[r] EXCEPT !.enabled = ~ @] \in AllDrafts
    BY <2>2 DEF AllDrafts
  <2>. QED BY <2>1, <2>3
<1>3. ASSUME SaveUpdate
      PROVE  /\ TablesTyped' /\ UNCHANGED <<fresh, gone, ghosts, pc, locals>>
             /\ \A s \in Rules : rules[s] # Null => rules'[s] # Null
  <2>1. patch.rule \in Rules /\ patch.entity \in AllDrafts
    BY <1>3 DEF SaveUpdate
  <2>. QED BY <1>3, <2>1 DEF SaveUpdate
<1>4. ASSUME NEW r \in Rules, RemoveRule(r)
      PROVE  /\ TablesTyped' /\ UNCHANGED <<unlogged, received, untold, pc, locals>>
             /\ fresh' = {p \in fresh : p[1] # r} /\ gone' = gone \cup {r}
             /\ \A s \in Rules \ {r} : rules'[s] = rules[s]
             /\ changes' \in 0..MaxChanges
  BY <1>4 DEF RemoveRule, Change
<1>. QED BY <1>1, <1>2, <1>3, <1>4 DEF Administer, ghosts
\* One evaluator's step, by what becomes of its program counter and locals.
LEMMA LocalsStep ==
    ASSUME TypeOK, HandlingInv, NEW v \in Evaluators, UNCHANGED tables,
           pc' = [pc EXCEPT ![v] = pc'[v]], event' = [event EXCEPT ![v] = event'[v]],
           todo' = [todo EXCEPT ![v] = todo'[v]], rule' = [rule EXCEPT ![v] = rule'[v]],
           sent' = [sent EXCEPT ![v] = sent'[v]],
           pc'[v] \in {"idle", "find", "loop", "cooldown", "send", "log"},
           event'[v] \in Occurrences \cup {Null}, todo'[v] \subseteq Rules \X Channels,
           rule'[v] \in (Rules \X Channels) \cup {Null}, sent'[v] \in BOOLEAN,
           pc'[v] # "idle" => event'[v] \in Occurrences,
           pc'[v] \in {"cooldown", "send", "log"}
                => rule'[v] \in Rules \X Channels /\ Known(rule'[v][1]),
           \A t \in todo'[v] : Known(t[1])
    PROVE  LocalsTyped' /\ HandlingInv' /\ Only(v)
<1>0. TypeOK => LocalsTyped
  BY TypesSplit
<1>1. LocalsTyped'
  <2>1. sent' \in [Evaluators -> BOOLEAN]
    BY <1>0 DEF LocalsTyped
  <2>. QED BY <1>0, <2>1 DEF LocalsTyped
<1>2. HandlingInv'
  <2>1. \A r : Known(r)' <=> Known(r)
    BY DEF Known, tables
  <2>2. \A u \in Evaluators \ {v} : /\ pc'[u] = pc[u] /\ event'[u] = event[u]
                                    /\ rule'[u] = rule[u] /\ todo'[u] = todo[u]
    BY <1>0 DEF LocalsTyped
  <2>. QED BY <2>1, <2>2 DEF HandlingInv
<1>3. Only(v)
  BY <1>0 DEF Only, LocalsTyped
<1>. QED BY <1>1, <1>2, <1>3

Handled(v) == LocalsTyped' /\ HandlingInv' /\ Only(v) /\ UNCHANGED tables

\* Every step of an evaluator keeps its locals typed, leaves the others alone,
\* and handles rules it has read.
LEMMA EvaluatorStep ==
    ASSUME TypeOK, HandlingInv, NEW v \in Evaluators,
           \/ Work(v) \/ Throws(v)
           \/ \E n \in Entities, e \in Events : Evaluate(v, n, e)
    PROVE  Handled(v)
<1>. USE DEF At, Handled, locals
<1>0. LocalsTyped /\ TablesTyped
  BY TypesSplit
<1>. USE DEF LocalsTyped
<1>a. /\ pc[v] # "idle" => event[v] \in Occurrences
      /\ pc[v] \in {"cooldown", "send", "log"} => rule[v] \in Rules \X Channels /\ Known(rule[v][1])
      /\ todo[v] \in SUBSET (Rules \X Channels) /\ \A t \in todo[v] : Known(t[1])
  BY <1>0 DEF HandlingInv
<1>b. /\ event = [event EXCEPT ![v] = event[v]] /\ todo = [todo EXCEPT ![v] = todo[v]]
      /\ rule = [rule EXCEPT ![v] = rule[v]] /\ sent = [sent EXCEPT ![v] = sent[v]]
      /\ sent[v] \in BOOLEAN /\ event[v] \in Occurrences \cup {Null}
      /\ rule[v] \in (Rules \X Channels) \cup {Null}
  <2>1. sent = [sent EXCEPT ![v] = sent[v]] /\ sent[v] \in BOOLEAN
    BY <1>0
  <2>. QED BY <1>0, <2>1
<1>1. ASSUME NEW n \in Entities, NEW e \in Events, Evaluate(v, n, e) PROVE Handled(v)
  <2>. DEFINE ev == [entity |-> n, type |-> e[1], condition |-> Condition(e[1], e[2])]
  <2>1. ev \in Occurrences
    BY OccurrencesTyped, ConstantsAssumption
  <2>2. /\ Goto(v, "find") /\ event' = [event EXCEPT ![v] = ev]
        /\ UNCHANGED <<tables, todo, rule, sent>>
    BY <1>1 DEF Evaluate
  <2>. HIDE DEF ev
  <2>3. event'[v] = ev /\ event' = [event EXCEPT ![v] = event'[v]]
    BY <1>0, <2>2
  <2>4. pc'[v] = "find" /\ pc' = [pc EXCEPT ![v] = pc'[v]]
    BY <1>0, <2>2 DEF Goto
  <2>. QED BY <1>a, <1>b, <2>1, <2>2, <2>3, <2>4, LocalsStep
<1>2. ASSUME Return(v), UNCHANGED tables PROVE Handled(v)
  <2>1. /\ pc'[v] = "idle" /\ pc' = [pc EXCEPT ![v] = pc'[v]]
        /\ event'[v] = Null /\ event' = [event EXCEPT ![v] = event'[v]]
        /\ todo'[v] = {} /\ todo' = [todo EXCEPT ![v] = todo'[v]]
        /\ rule'[v] = Null /\ rule' = [rule EXCEPT ![v] = rule'[v]]
    BY <1>0, <1>2 DEF Return, Goto
  <2>2. sent'[v] = FALSE /\ sent' = [sent EXCEPT ![v] = sent'[v]]
    BY <1>0, <1>2 DEF Return
  <2>. QED BY <1>2, <2>1, <2>2, LocalsStep
<1>3. ASSUME FindRules(v) PROVE Handled(v)
  <2>. DEFINE ts == {<<r, rules[r].channel>> : r \in Matching(event[v])}
  <2>1. \A r \in Matching(event[v]) :
            r \in Rules /\ rules[r] # Null /\ rules[r].channel \in Channels
    BY <1>0 DEF Matching, TablesTyped, AllDrafts, Channels
  <2>2. ts \subseteq Rules \X Channels /\ \A t \in ts : Known(t[1])
    BY <2>1 DEF Known
  <2>3. /\ Goto(v, "loop") /\ todo' = [todo EXCEPT ![v] = ts]
        /\ UNCHANGED <<tables, event, rule, sent>>
        /\ pc[v] = "find"
    BY <1>3 DEF FindRules
  <2>. HIDE DEF ts
  <2>4. todo'[v] = ts /\ todo' = [todo EXCEPT ![v] = todo'[v]]
    BY <1>0, <2>3
  <2>5. pc'[v] = "loop" /\ pc' = [pc EXCEPT ![v] = pc'[v]]
    BY <1>0, <2>3 DEF Goto
  <2>. QED BY <1>a, <1>b, <2>2, <2>3, <2>4, <2>5, LocalsStep
<1>4. ASSUME FindRulesThrows(v) PROVE Handled(v)
  BY <1>2, <1>4 DEF FindRulesThrows
<1>5. ASSUME NextRule(v) PROVE Handled(v)
  <2>1. CASE todo[v] = {}
    BY <1>2, <1>5, <2>1 DEF NextRule
  <2>2. CASE todo[v] # {}
    <3>1. PICK t \in todo[v] : /\ rule' = [rule EXCEPT ![v] = t]
                               /\ todo' = [todo EXCEPT ![v] = @ \ {t}]
      BY <1>5, <2>2 DEF NextRule
    <3>2. Goto(v, "cooldown") /\ UNCHANGED <<tables, event, sent>> /\ pc[v] = "loop"
      BY <1>5, <2>2 DEF NextRule
    <3>3. /\ rule'[v] = t /\ rule' = [rule EXCEPT ![v] = rule'[v]]
          /\ todo'[v] = todo[v] \ {t} /\ todo' = [todo EXCEPT ![v] = todo'[v]]
      BY <1>0, <3>1
    <3>4. pc'[v] = "cooldown" /\ pc' = [pc EXCEPT ![v] = pc'[v]]
      BY <1>0, <3>2 DEF Goto
    <3>5. todo[v] \ {t} \subseteq Rules \X Channels /\ t \in Rules \X Channels
      BY <1>a
    <3>. QED BY <1>a, <1>b, <3>2, <3>3, <3>4, <3>5, LocalsStep
  <2>. QED BY <2>1, <2>2
<1>6. ASSUME CheckCooldown(v) PROVE Handled(v)
  <2>1. PICK step \in {"loop", "send"} : Goto(v, step)
    BY <1>6 DEF CheckCooldown
  <2>2. UNCHANGED <<tables, event, todo, rule, sent>> /\ pc[v] = "cooldown"
    BY <1>6 DEF CheckCooldown
  <2>3. pc'[v] = step /\ pc' = [pc EXCEPT ![v] = pc'[v]]
    BY <1>0, <2>1 DEF Goto
  <2>. QED BY <1>a, <1>b, <2>2, <2>3, LocalsStep
<1>7. ASSUME SendSlack(v) \/ SendFails(v) PROVE Handled(v)
  <2>1. Result(v, TRUE) \/ Result(v, FALSE)
    BY <1>7 DEF SendSlack, SendFails
  <2>2. UNCHANGED <<tables, event, todo, rule>> /\ pc[v] = "send"
    BY <1>7 DEF SendSlack, SendFails
  <2>3. pc'[v] = "log" /\ pc' = [pc EXCEPT ![v] = pc'[v]]
    BY <1>0, <2>1 DEF Result, Goto
  <2>4. sent'[v] \in BOOLEAN /\ sent' = [sent EXCEPT ![v] = sent'[v]]
    <3>1. CASE Result(v, TRUE)
      BY <1>0, <3>1 DEF Result
    <3>2. CASE Result(v, FALSE)
      BY <1>0, <3>2 DEF Result
    <3>. QED BY <2>1, <3>1, <3>2
  <2>. QED BY <1>a, <1>b, <2>2, <2>3, <2>4, LocalsStep
<1>8. ASSUME WriteLog(v) \/ WriteLogThrows(v) PROVE Handled(v)
  <2>1. Goto(v, "loop") /\ UNCHANGED <<tables, event, todo, rule, sent>> /\ pc[v] = "log"
    BY <1>8 DEF WriteLog, Written, WriteLogThrows
  <2>2. pc'[v] = "loop" /\ pc' = [pc EXCEPT ![v] = pc'[v]]
    BY <1>0, <2>1 DEF Goto
  <2>. QED BY <1>a, <1>b, <2>1, <2>2, LocalsStep
<1>. QED BY <1>1, <1>3, <1>4, <1>5, <1>6, <1>7, <1>8 DEF Work, Throws
-----------------------------------------------------------------------------
(* Attempts and messages *)

Counters == GhostsTyped /\ LoggedInv /\ ReceivedInv

\* One evaluator's step in numbers, for one pair.
LEMMA Numbers ==
    ASSUME NEW p \in Pairs, NEW v \in Evaluators, Handled(v)
    PROVE  /\ Cardinality(Evaluators) \in Nat /\ Cap = Cardinality(Evaluators) + 1
           /\ Cardinality(Sending(p)) \in Nat /\ Cardinality(Sending(p)') \in Nat
           /\ Cardinality(Working(p)) \in 0..Cardinality(Evaluators)
           /\ Cardinality(Working(p)') \in 0..Cardinality(Evaluators)
           /\ Cardinality(Delivering(p)) \in Nat /\ Cardinality(Delivering(p)') \in Nat
           /\ Cardinality(Sending(p)) + Cardinality(Delivering(p)) =< Cardinality(Evaluators)
           /\ Cardinality(Sending(p)') + Cardinality(Delivering(p)') =< Cardinality(Evaluators)
           /\ Cardinality(Sending(p)') - One(v \in Sending(p)')
                = Cardinality(Sending(p)) - One(v \in Sending(p))
           /\ Cardinality(Working(p)') - One(v \in Working(p)')
                = Cardinality(Working(p)) - One(v \in Working(p))
           /\ Cardinality(Delivering(p)') - One(v \in Delivering(p)')
                = Cardinality(Delivering(p)) - One(v \in Delivering(p))
           /\ Tracked(p)' => Tracked(p) \/ untold' # untold
<1>. DEFINE S == Sending(p)'
            W == Working(p)'
            D == Delivering(p)'
<1>1. IsFiniteSet(Evaluators)
  BY ConstantsAssumption
<1>2. S \subseteq Evaluators /\ W \subseteq Evaluators /\ D \subseteq Evaluators /\ S \cap D = {}
  BY DEF Sending, Working, Delivering
<1>. HIDE DEF S, W, D
<1>3. /\ IsFiniteSet(S) /\ IsFiniteSet(W) /\ IsFiniteSet(D)
      /\ Cardinality(W) =< Cardinality(Evaluators)
  BY <1>1, <1>2, FS_Subset
<1>4. /\ Cardinality(S) \in Nat /\ Cardinality(D) \in Nat /\ Cardinality(W) \in Nat
      /\ Cardinality(Evaluators) \in Nat
  BY <1>1, <1>3, FS_CardinalityType
<1>5. Cardinality(S \cup D) = Cardinality(S) + Cardinality(D) - Cardinality(S \cap D)
  BY <1>3, FS_Union
<1>6. Cardinality(S \cap D) = 0
  BY <1>2, FS_EmptySet
<1>7. Cardinality(S \cup D) =< Cardinality(Evaluators)
  BY <1>1, <1>2, FS_Subset
<1>8. /\ Cardinality(S) + Cardinality(D) =< Cardinality(Evaluators)
      /\ Cardinality(W) \in 0..Cardinality(Evaluators)
  BY <1>3, <1>4, <1>5, <1>6, <1>7
<1>9. Tracked(p)' => Tracked(p) \/ untold' # untold
  BY DEF Tracked, Handled, tables
<1>10. Only(v)
  BY DEF Handled
<1>. QED BY <1>4, <1>8, <1>9, <1>10, Bounds, CountsStep DEF S, W, D

\* Neither sending nor about to log.
LEMMA QuietStep ==
    ASSUME AlertInv, NEW v \in Evaluators, Handled(v),
           pc[v] \notin {"send", "log"}, pc'[v] \notin {"send", "log"},
           UNCHANGED <<fresh, unlogged, received, untold>>, changes' \in 0..MaxChanges
    PROVE  Counters'
<1>1. GhostsTyped
  BY TypesSplit DEF AlertInv
<1>2. \A p : Sending(p)' = Sending(p) /\ Working(p)' = Working(p) /\ Delivering(p)' = Delivering(p)
  BY SetsStep DEF Handled, Sending, Working, Delivering
<1>3. \A p : Tracked(p)' <=> Tracked(p)
  BY DEF Tracked, Handled, tables
<1>4. GhostsTyped'
  BY <1>1 DEF GhostsTyped
<1>. QED BY <1>2, <1>3, <1>4 DEF Counters, AlertInv, LoggedInv, ReceivedInv

\* An attempt begins.
LEMMA CheckStep ==
    ASSUME AlertInv, NEW v \in Evaluators, Handled(v), CheckCooldown(v), pc'[v] = "send"
    PROVE  Counters'
<1>. DEFINE p0 == PairOf(v)
<1>0. TypeOK /\ HandlingInv /\ LoggedInv /\ ReceivedInv /\ GhostsTyped
  BY TypesSplit DEF AlertInv
<1>1. /\ UNCHANGED <<fresh, received, untold, changes, event, rule, sent, gone>>
      /\ pc[v] = "cooldown" /\ p0 \notin fresh
      /\ unlogged' = [unlogged EXCEPT ![p0] = IF @ = Cap THEN @ ELSE @ + 1]
  <2>1. ~ Goto(v, "loop")
    BY <1>0 DEF Goto, TypeOK
  <2>. QED BY <2>1 DEF CheckCooldown, WithinCooldown, At, locals, tables
<1>2. p0 \in Pairs
  BY <1>0, <1>1, PairTyped
<1>3. \A p : /\ v \notin Sending(p) /\ v \notin Working(p) /\ v \notin Delivering(p)
             /\ v \in Sending(p)' <=> p = p0
             /\ v \in Working(p)' <=> p = p0
             /\ v \notin Delivering(p)'
  BY <1>1 DEF Sending, Working, Delivering, PairOf
<1>4. \A p : Tracked(p)' <=> Tracked(p)
  BY <1>1 DEF Tracked
<1>. HIDE DEF p0
<1>5. ASSUME NEW p \in Pairs
      PROVE  /\ unlogged'[p] \in 0..Cap /\ unlogged'[p] >= Cardinality(Working(p)')
             /\ Tracked(p) => unlogged'[p] = Cardinality(Working(p)')
  <2>1. /\ unlogged[p] \in 0..Cap /\ unlogged[p] >= Cardinality(Working(p))
        /\ Tracked(p) => unlogged[p] = Cardinality(Working(p))
    BY <1>0 DEF LoggedInv, GhostsTyped
  <2>2. unlogged'[p] = IF p = p0 /\ unlogged[p] # Cap THEN unlogged[p] + 1 ELSE unlogged[p]
    BY <1>0, <1>1 DEF GhostsTyped
  <2>3. /\ One(v \in Working(p)) = 0 /\ One(v \in Working(p)') = IF p = p0 THEN 1 ELSE 0
    BY <1>3 DEF One
  <2>4. /\ Cardinality(Working(p)') = Cardinality(Working(p)) + (IF p = p0 THEN 1 ELSE 0)
        /\ Cardinality(Working(p)) \in 0..(Cap - 1) /\ Cap \in Nat
    BY <2>3, Numbers
  <2>5. CASE p = p0
    BY <2>1, <2>2, <2>4, <2>5
  <2>6. CASE p # p0
    BY <2>1, <2>2, <2>4, <2>6
  <2>. QED BY <2>5, <2>6
<1>6. ASSUME NEW p \in Pairs
      PROVE  /\ Cardinality(Delivering(p)') = Cardinality(Delivering(p))
             /\ p \in fresh => Cardinality(Sending(p)') = Cardinality(Sending(p))
  <2>1. /\ One(v \in Delivering(p)) = 0 /\ One(v \in Delivering(p)') = 0
        /\ One(v \in Sending(p)) = 0
        /\ p \in fresh => One(v \in Sending(p)') = 0
    BY <1>1, <1>3 DEF One
  <2>. QED BY <2>1, Numbers
<1>7. GhostsTyped'
  BY <1>0, <1>1, <1>5 DEF GhostsTyped
<1>8. LoggedInv'
  BY <1>4, <1>5 DEF LoggedInv
<1>9. ReceivedInv'
  BY <1>0, <1>1, <1>4, <1>6 DEF ReceivedInv
<1>. QED BY <1>7, <1>8, <1>9 DEF Counters
\* A message is sent, or not: whoever sent it is about to log that.
LEMMA SendStep ==
    ASSUME AlertInv, NEW v \in Evaluators, Handled(v), SendSlack(v) \/ SendFails(v)
    PROVE  Counters'
<1>. DEFINE p0 == PairOf(v)
<1>0. TypeOK /\ HandlingInv /\ LoggedInv /\ ReceivedInv /\ GhostsTyped
  BY TypesSplit DEF AlertInv
<1>1. UNCHANGED <<fresh, unlogged, event, rule, gone>> /\ pc[v] = "send"
  BY DEF SendSlack, SendFails, At, tables, ghosts
<1>2. \/ Result(v, TRUE) /\ Arrives(v) /\ UNCHANGED <<untold, changes>>
      \/ Result(v, FALSE) /\ changes' \in 0..MaxChanges /\ UNCHANGED <<received, untold>>
      \/ Result(v, FALSE) /\ changes' \in 0..MaxChanges /\ Arrives(v) /\ untold' = untold \cup {p0}
  <2>1. changes \in 0..MaxChanges /\ (Change => changes' \in 0..MaxChanges)
    BY <1>0, ConstantsAssumption DEF GhostsTyped, Change
  <2>2. CASE SendSlack(v)
    BY <2>1, <2>2, Zenon DEF SendSlack
  <2>3. CASE SendFails(v)
    BY <2>1, <2>3 DEF SendFails, ghosts
  <2>. QED BY <2>2, <2>3
<1>3. pc'[v] = "log" /\ (Result(v, TRUE) => sent'[v]) /\ (Result(v, FALSE) => ~ sent'[v])
  BY <1>0, <1>2 DEF Result, Goto, TypeOK
<1>4. p0 \in Pairs
  BY <1>0, <1>1, PairTyped
<1>5. \A p : /\ v \in Sending(p) <=> p = p0
             /\ v \in Working(p) <=> p = p0
             /\ v \notin Delivering(p)
             /\ v \notin Sending(p)'
             /\ v \in Working(p)' <=> p = p0
             /\ v \in Delivering(p)' <=> p = p0 /\ sent'[v]
  BY <1>1, <1>3 DEF Sending, Working, Delivering, PairOf
<1>. HIDE DEF p0
<1>6. ASSUME NEW p \in Pairs
      PROVE  /\ Cardinality(Working(p)') = Cardinality(Working(p))
             /\ Cardinality(Sending(p)') = Cardinality(Sending(p)) - One(p = p0)
             /\ Cardinality(Delivering(p)') = Cardinality(Delivering(p)) + One(p = p0 /\ sent'[v])
             /\ One(p = p0) \in {0, 1}
  <2>1. /\ One(v \in Working(p)) = One(v \in Working(p)') /\ One(v \in Working(p)) \in {0, 1}
        /\ One(v \in Sending(p)) = One(p = p0) /\ One(p = p0) \in {0, 1}
        /\ One(v \in Sending(p)') = 0 /\ One(v \in Delivering(p)) = 0
        /\ One(v \in Delivering(p)') = One(p = p0 /\ sent'[v])
        /\ One(p = p0 /\ sent'[v]) \in {0, 1}
    BY <1>5 DEF One
  <2>. QED BY <2>1, Numbers
<1>7. untold \subseteq untold' /\ untold' \subseteq Pairs /\ changes' \in 0..MaxChanges
  BY <1>0, <1>2, <1>4 DEF GhostsTyped
<1>8. \A p : Tracked(p)' => Tracked(p)
  BY <1>1, <1>7 DEF Tracked
<1>9. LoggedInv'
  BY <1>0, <1>1, <1>6, <1>8 DEF LoggedInv
<1>10. ASSUME NEW p \in Pairs
       PROVE  /\ received'[p] \in 0..Cap /\ received'[p] >= Cardinality(Delivering(p)')
              /\ p \in fresh => received'[p] > 0
              /\ Tracked(p)' /\ p \notin fresh => received'[p] = Cardinality(Delivering(p)')
              /\ Tracked(p)' /\ p \in fresh
                    => received'[p] + Cardinality(Sending(p)') =< Cardinality(Evaluators)
  <2>1. /\ received[p] \in 0..Cap /\ received[p] >= Cardinality(Delivering(p))
        /\ p \in fresh => received[p] > 0
        /\ Tracked(p) /\ p \notin fresh => received[p] = Cardinality(Delivering(p))
        /\ Tracked(p) /\ p \in fresh
              => received[p] + Cardinality(Sending(p)) =< Cardinality(Evaluators)
    BY <1>0 DEF ReceivedInv, GhostsTyped
  <2>2. /\ Cardinality(Evaluators) \in Nat /\ Cap = Cardinality(Evaluators) + 1
        /\ Cardinality(Sending(p)) \in Nat /\ Cardinality(Sending(p)') \in Nat
        /\ Cardinality(Delivering(p)) \in Nat /\ Cardinality(Delivering(p)') \in Nat
        /\ Cardinality(Sending(p)) + Cardinality(Delivering(p)) =< Cardinality(Evaluators)
    BY Numbers
  <2>3. CASE p # p0
    <3>1. received'[p] = received[p]
      BY <1>0, <1>2, <2>3 DEF GhostsTyped, Arrives, p0
    <3>2. One(p = p0) = 0 /\ One(p = p0 /\ sent'[v]) = 0
      BY <2>3 DEF One
    <3>. QED BY <1>6, <1>8, <2>1, <2>2, <3>1, <3>2
  <2>4. CASE p = p0 /\ UNCHANGED received /\ ~ sent'[v]
    <3>1. One(p = p0) = 1 /\ One(p = p0 /\ sent'[v]) = 0
      BY <2>4 DEF One
    <3>. QED BY <1>6, <1>8, <2>1, <2>2, <2>4, <3>1
  <2>5. CASE p = p0 /\ Arrives(v) /\ (sent'[v] \/ p \in untold')
    <3>1. received'[p] = IF received[p] = Cap THEN received[p] ELSE received[p] + 1
      BY <1>0, <2>5 DEF Arrives, GhostsTyped, p0
    <3>2. /\ Cardinality(Sending(p)') = Cardinality(Sending(p)) - 1
          /\ \/ Cardinality(Delivering(p)') = Cardinality(Delivering(p)) + 1 /\ sent'[v]
             \/ Cardinality(Delivering(p)') = Cardinality(Delivering(p)) /\ ~ sent'[v]
      <4>1. One(p = p0) = 1
        BY <2>5 DEF One
      <4>2. CASE sent'[v]
        <5>1. One(p = p0 /\ sent'[v]) = 1
          BY <2>5, <4>2 DEF One
        <5>. QED BY <1>6, <4>1, <4>2, <5>1
      <4>3. CASE ~ sent'[v]
        <5>1. One(p = p0 /\ sent'[v]) = 0
          BY <4>3 DEF One
        <5>. QED BY <1>6, <2>2, <4>1, <4>3, <5>1
      <4>. QED BY <4>2, <4>3
    <3>3. Tracked(p)' => Tracked(p) /\ sent'[v]
      BY <1>8, <2>5 DEF Tracked
    <3>. QED BY <2>1, <2>2, <3>1, <3>2, <3>3
  <2>. QED BY <1>2, <1>3, <2>3, <2>4, <2>5
<1>11. received' \in [Pairs -> 0..Cap]
  <2>1. received' = received \/ Arrives(v)
    BY <1>2
  <2>2. DOMAIN received' = Pairs /\ received' = [p \in Pairs |-> received'[p]]
    BY <1>0, <2>1 DEF GhostsTyped, Arrives
  <2>. QED BY <1>10, <2>2
<1>12. GhostsTyped'
  <2>1. Cap' = Cap
    BY DEF Cap
  <2>. QED BY <1>0, <1>1, <1>7, <1>11 DEF GhostsTyped
<1>13. ReceivedInv'
  BY <1>1, <1>10 DEF ReceivedInv
<1>. QED BY <1>9, <1>12, <1>13 DEF Counters
\* An attempt ends, with a row, or without one that the log could have.
LEMMA LogStep ==
    ASSUME AlertInv, NEW v \in Evaluators, Handled(v), WriteLog(v) \/ WriteLogThrows(v)
    PROVE  Counters'
<1>. DEFINE p0 == PairOf(v)
<1>0. TypeOK /\ HandlingInv /\ LoggedInv /\ ReceivedInv /\ GhostsTyped
  BY TypesSplit DEF AlertInv
<1>1. /\ UNCHANGED <<received, event, rule, sent>> /\ pc[v] = "log" /\ Goto(v, "loop")
      /\ UNCHANGED gone
  BY DEF WriteLog, Written, WriteLogThrows, At, locals, tables
<1>2. p0 \in Pairs /\ Known(p0[1])
  BY <1>0, <1>1, PairTyped DEF HandlingInv
<1>3. changes' \in 0..MaxChanges
  BY <1>0, ConstantsAssumption DEF GhostsTyped, Change, WriteLog, Written, WriteLogThrows
<1>4. \/ /\ UNCHANGED <<fresh, unlogged>>
         /\ untold' = untold \/ untold' = untold \cup {p0}
         /\ p0[1] \in gone \/ p0 \in untold'
      \/ /\ fresh' = IF sent[v] THEN fresh \cup {p0} ELSE fresh
         /\ unlogged' = [unlogged EXCEPT ![p0] = @ - 1]
         /\ untold' = untold
  <2>1. CASE WriteLogThrows(v)
    BY <2>1 DEF WriteLogThrows
  <2>2. CASE WriteLog(v) /\ rules[rule[v][1]] = Null
    <3>1. p0[1] \in gone
      BY <1>0, <1>1, <1>2, <2>2, PairTyped DEF Known
    <3>. QED BY <2>2, <3>1 DEF WriteLog, Written
  <2>3. CASE WriteLog(v) /\ rules[rule[v][1]] # Null
    BY <2>3 DEF WriteLog, Written
  <2>. QED BY <2>1, <2>2, <2>3
<1>5. \A p : /\ v \in Working(p) <=> p = p0
             /\ v \notin Working(p)'
             /\ v \notin Sending(p) /\ v \notin Sending(p)'
             /\ v \in Delivering(p) <=> p = p0 /\ sent[v]
             /\ v \notin Delivering(p)'
  <2>1. pc'[v] = "loop"
    BY <1>0, <1>1 DEF Goto, TypeOK
  <2>. QED BY <1>1, <2>1 DEF Sending, Working, Delivering, PairOf
<1>. HIDE DEF p0
<1>6. ASSUME NEW p \in Pairs
      PROVE  /\ Cardinality(Working(p)') = Cardinality(Working(p)) - One(p = p0)
             /\ Cardinality(Sending(p)') = Cardinality(Sending(p))
             /\ Cardinality(Delivering(p)') = Cardinality(Delivering(p)) - One(p = p0 /\ sent[v])
             /\ One(p = p0) \in {0, 1} /\ One(p = p0 /\ sent[v]) \in {0, 1}
  <2>1. /\ One(v \in Working(p)) = One(p = p0) /\ One(p = p0) \in {0, 1}
        /\ One(v \in Working(p)') = 0
        /\ One(v \in Sending(p)) = 0 /\ One(v \in Sending(p)') = 0
        /\ One(v \in Delivering(p)) = One(p = p0 /\ sent[v])
        /\ One(v \in Delivering(p)') = 0 /\ One(p = p0 /\ sent[v]) \in {0, 1}
    BY <1>5 DEF One
  <2>. QED BY <2>1, Numbers
<1>7. untold \subseteq untold' /\ untold' \subseteq Pairs
  BY <1>0, <1>2, <1>4 DEF GhostsTyped
<1>8. \A p : Tracked(p)' => Tracked(p)
  BY <1>1, <1>7 DEF Tracked
<1>9. ASSUME NEW p \in Pairs
      PROVE  /\ unlogged'[p] \in 0..Cap /\ unlogged'[p] >= Cardinality(Working(p)')
             /\ Tracked(p)' => unlogged'[p] = Cardinality(Working(p)')
  <2>1. /\ unlogged[p] \in 0..Cap /\ unlogged[p] >= Cardinality(Working(p))
        /\ Tracked(p) => unlogged[p] = Cardinality(Working(p))
    BY <1>0 DEF LoggedInv, GhostsTyped
  <2>2. Cardinality(Working(p)) \in Nat /\ Cardinality(Working(p)') \in Nat /\ Cap \in Nat
    BY Numbers
  <2>3. CASE p # p0
    <3>1. unlogged'[p] = unlogged[p] /\ One(p = p0) = 0
      BY <1>0, <1>4, <2>3 DEF GhostsTyped, One
    <3>. QED BY <1>6, <1>8, <2>1, <2>2, <3>1
  <2>4. CASE p = p0
    <3>1. One(p = p0) = 1
      BY <2>4 DEF One
    <3>2. unlogged'[p] = unlogged[p] - 1 \/ (unlogged'[p] = unlogged[p] /\ ~ Tracked(p)')
      BY <1>0, <1>1, <1>4, <2>4 DEF GhostsTyped, Tracked
    <3>. QED BY <1>6, <1>8, <2>1, <2>2, <3>1, <3>2
  <2>. QED BY <2>3, <2>4
<1>10. ASSUME NEW p \in Pairs
       PROVE  /\ received[p] >= Cardinality(Delivering(p)')
              /\ p \in fresh' => received[p] > 0
              /\ Tracked(p)' /\ p \notin fresh' => received[p] = Cardinality(Delivering(p)')
              /\ Tracked(p)' /\ p \in fresh'
                    => received[p] + Cardinality(Sending(p)') =< Cardinality(Evaluators)
  <2>1. /\ received[p] \in 0..Cap /\ received[p] >= Cardinality(Delivering(p))
        /\ p \in fresh => received[p] > 0
        /\ Tracked(p) /\ p \notin fresh => received[p] = Cardinality(Delivering(p))
        /\ Tracked(p) /\ p \in fresh
              => received[p] + Cardinality(Sending(p)) =< Cardinality(Evaluators)
    BY <1>0 DEF ReceivedInv, GhostsTyped
  <2>2. /\ Cardinality(Evaluators) \in Nat /\ Cap = Cardinality(Evaluators) + 1
        /\ Cardinality(Sending(p)) \in Nat /\ Cardinality(Delivering(p)) \in Nat
        /\ Cardinality(Delivering(p)') \in Nat
        /\ Cardinality(Sending(p)) + Cardinality(Delivering(p)) =< Cardinality(Evaluators)
    BY Numbers
  <2>3. CASE p # p0 \/ ~ sent[v]
    <3>1. p \in fresh' <=> p \in fresh
      BY <1>4, <2>3
    <3>2. One(p = p0 /\ sent[v]) = 0
      BY <2>3 DEF One
    <3>. QED BY <1>6, <1>8, <2>1, <2>2, <3>1, <3>2
  <2>4. CASE p = p0 /\ sent[v]
    <3>1. One(p = p0 /\ sent[v]) = 1
      BY <2>4 DEF One
    <3>2. p \in fresh' \/ ~ Tracked(p)'
      BY <1>1, <1>4, <2>4 DEF Tracked
    <3>3. Cardinality(Delivering(p)) = Cardinality(Delivering(p)') + 1
      BY <1>6, <2>2, <3>1
    <3>4. received[p] > 0
      BY <2>1, <2>2, <3>3
    <3>5. Cardinality(Sending(p)') = Cardinality(Sending(p))
      BY <1>6
    <3>. QED BY <1>8, <2>1, <2>2, <3>2, <3>3, <3>4, <3>5
  <2>. QED BY <2>3, <2>4
<1>11. unlogged' \in [Pairs -> 0..Cap]
  <2>1. unlogged' = [p \in Pairs |-> unlogged'[p]]
    BY <1>0, <1>4 DEF GhostsTyped
  <2>. QED BY <1>9, <2>1
<1>12. GhostsTyped'
  <2>1. Cap' = Cap
    BY DEF Cap
  <2>2. fresh' \subseteq Pairs
    BY <1>0, <1>2, <1>4 DEF GhostsTyped
  <2>. QED BY <1>0, <1>1, <1>3, <1>7, <1>11, <2>2 DEF GhostsTyped
<1>13. LoggedInv' /\ ReceivedInv'
  BY <1>1, <1>9, <1>10 DEF LoggedInv, ReceivedInv
<1>. QED BY <1>12, <1>13 DEF Counters
\* Every step of an evaluator keeps the counts.
LEMMA EvaluatorCounters ==
    ASSUME AlertInv, NEW v \in Evaluators,
           \/ Work(v) \/ Throws(v)
           \/ \E n \in Entities, e \in Events : Evaluate(v, n, e)
    PROVE  Handled(v) /\ Counters'
<1>1. Handled(v)
  BY EvaluatorStep DEF AlertInv
<1>2. changes \in 0..MaxChanges /\ (Change => changes' \in 0..MaxChanges) /\ LocalsTyped
  BY TypesSplit, ConstantsAssumption DEF AlertInv, GhostsTyped, Change
<1>3. ASSUME UNCHANGED <<fresh, ghosts>>, NEW s \in {"idle", "find", "loop", "cooldown"},
             pc[v] \notin {"send", "log"}, Goto(v, s)
      PROVE  Counters'
  <2>1. pc'[v] = s
    BY <1>2, <1>3 DEF Goto, LocalsTyped
  <2>. QED BY <1>1, <1>2, <1>3, <2>1, QuietStep DEF ghosts
<1>4. CASE \E n \in Entities, e \in Events : Evaluate(v, n, e)
  BY <1>1, <1>3, <1>4 DEF Evaluate, At
<1>5. CASE FindRules(v)
  BY <1>1, <1>3, <1>5 DEF FindRules, At
<1>6. CASE FindRulesThrows(v)
  <2>1. pc'[v] = "idle"
    BY <1>2, <1>6 DEF FindRulesThrows, Return, Goto, LocalsTyped
  <2>. QED BY <1>1, <1>2, <1>6, <2>1, QuietStep DEF FindRulesThrows, At
<1>7. CASE NextRule(v)
  BY <1>1, <1>3, <1>7 DEF NextRule, Return, At
<1>8. CASE CheckCooldown(v)
  <2>1. pc'[v] = "send" \/ (Goto(v, "loop") /\ UNCHANGED <<fresh, ghosts>> /\ pc[v] = "cooldown")
    BY <1>2, <1>8 DEF CheckCooldown, At, Goto, LocalsTyped, ghosts
  <2>. QED BY <1>1, <1>3, <1>8, <2>1, CheckStep
<1>9. CASE SendSlack(v) \/ SendFails(v)
  BY <1>1, <1>9, SendStep
<1>10. CASE WriteLog(v) \/ WriteLogThrows(v)
  BY <1>1, <1>10, LogStep
<1>. QED BY <1>1, <1>4, <1>5, <1>6, <1>7, <1>8, <1>9, <1>10 DEF Work, Throws

\* A cooldown ends: the messages left are those that are still to be logged.
LEMMA ExpireStep ==
    ASSUME AlertInv, NEW q \in Pairs, Expire(q)
    PROVE  AlertInv'
<1>0. TypeOK /\ HandlingInv /\ LoggedInv /\ ReceivedInv /\ GhostsTyped /\ TablesTyped /\ LocalsTyped
  BY TypesSplit DEF AlertInv
<1>1. /\ UNCHANGED <<rules, gone, patch, unlogged, untold, changes, pc, event, todo, rule, sent>>
      /\ fresh' = fresh \ {q}
      /\ received' = [received EXCEPT ![q] = Cardinality(Delivering(q))]
  BY DEF Expire, tables, locals, Delivering
<1>2. \A p : /\ Sending(p)' = Sending(p) /\ Working(p)' = Working(p)
             /\ Delivering(p)' = Delivering(p)
             /\ Tracked(p)' <=> Tracked(p)
  BY <1>1 DEF Sending, Working, Delivering, Tracked, PairOf
<1>3. Cardinality(Delivering(q)) \in 0..Cap
  <2>1. Cardinality(Sending(q)) \in Nat /\ Cardinality(Delivering(q)) \in Nat
    BY Bounds
  <2>2. /\ Cardinality(Sending(q)) + Cardinality(Delivering(q)) =< Cardinality(Evaluators)
        /\ Cardinality(Evaluators) \in Nat /\ Cap = Cardinality(Evaluators) + 1
    BY Bounds
  <2>. QED BY <2>1, <2>2
<1>4. TypeOK'
  <2>1. GhostsTyped'
    BY <1>0, <1>1, <1>3 DEF GhostsTyped, Cap
  <2>2. TablesTyped' /\ LocalsTyped'
    BY <1>0, <1>1 DEF TablesTyped, LocalsTyped
  <2>. QED BY <2>1, <2>2 DEF TypeOK, TablesTyped, LocalsTyped, GhostsTyped, Channels, Occurrences
<1>5. HandlingInv'
  BY <1>0, <1>1 DEF HandlingInv, Known
<1>6. LoggedInv'
  BY <1>0, <1>1, <1>2 DEF LoggedInv
<1>7. ASSUME NEW p \in Pairs
      PROVE  /\ received'[p] >= Cardinality(Delivering(p))
             /\ p \in fresh' => received'[p] > 0
             /\ Tracked(p) /\ p \notin fresh' => received'[p] = Cardinality(Delivering(p))
             /\ Tracked(p) /\ p \in fresh'
                   => received'[p] + Cardinality(Sending(p)) =< Cardinality(Evaluators)
  <2>1. CASE p = q
    <3>1. received'[p] = Cardinality(Delivering(p)) /\ p \notin fresh'
      BY <1>0, <1>1, <2>1 DEF GhostsTyped
    <3>. QED BY <1>3, <2>1, <3>1
  <2>2. CASE p # q
    <3>1. received'[p] = received[p] /\ (p \in fresh' <=> p \in fresh)
      BY <1>0, <1>1, <2>2 DEF GhostsTyped
    <3>. QED BY <1>0, <3>1 DEF ReceivedInv
  <2>. QED BY <2>1, <2>2
<1>8. ReceivedInv'
  BY <1>2, <1>7 DEF ReceivedInv
<1>. QED BY <1>4, <1>5, <1>6, <1>8 DEF AlertInv

\* A rule that is removed takes its rows along and is no longer tracked.
LEMMA AdministerStep ==
    ASSUME AlertInv, Administer
    PROVE  AlertInv'
<1>0. TypeOK /\ HandlingInv /\ LoggedInv /\ ReceivedInv /\ GhostsTyped /\ LocalsTyped
  BY TypesSplit DEF AlertInv
<1>1. /\ TablesTyped' /\ UNCHANGED <<unlogged, received, untold, pc, event, todo, rule, sent>>
      /\ fresh' \subseteq fresh /\ changes' \in 0..MaxChanges
      /\ \A r \in Rules : rules[r] # Null => rules'[r] # Null \/ r \in gone'
      /\ gone \subseteq gone'
      /\ \A p \in Pairs : p \in fresh => p \in fresh' \/ p[1] \in gone'
  BY <1>0, AdministerTypes DEF locals
<1>2. \A p : /\ Sending(p)' = Sending(p) /\ Working(p)' = Working(p)
             /\ Delivering(p)' = Delivering(p)
             /\ Tracked(p)' => Tracked(p) /\ p[1] \notin gone'
  BY <1>1 DEF Sending, Working, Delivering, Tracked, PairOf
<1>3. TypeOK'
  <2>1. GhostsTyped'
    BY <1>0, <1>1 DEF GhostsTyped, Cap
  <2>2. LocalsTyped'
    BY <1>0, <1>1 DEF LocalsTyped
  <2>. QED BY <1>1, <2>1, <2>2 DEF TypeOK, TablesTyped, LocalsTyped, GhostsTyped, Channels,
                                Occurrences
<1>4. HandlingInv'
  <2>1. \A r \in Rules : Known(r) => Known(r)'
    BY <1>1 DEF Known
  <2>2. ASSUME NEW v \in Evaluators, NEW t \in todo[v] PROVE t[1] \in Rules
    BY <1>0 DEF LocalsTyped
  <2>. QED BY <1>0, <1>1, <2>1, <2>2 DEF HandlingInv
<1>5. LoggedInv'
  BY <1>0, <1>1, <1>2 DEF LoggedInv
<1>6. ReceivedInv'
  BY <1>0, <1>1, <1>2 DEF ReceivedInv
<1>. QED BY <1>3, <1>4, <1>5, <1>6 DEF AlertInv
-----------------------------------------------------------------------------
(* The theorems *)

LEMMA AlertNext == AlertInv /\ [Next]_vars => AlertInv'
<1>. SUFFICES ASSUME AlertInv, [Next]_vars PROVE AlertInv'
  OBVIOUS
<1>1. CASE Administer
  BY <1>1, AdministerStep
<1>2. ASSUME NEW v \in Evaluators,
             \/ Work(v) \/ Throws(v)
             \/ \E n \in Entities, e \in Events : Evaluate(v, n, e)
      PROVE  AlertInv'
  <2>1. Handled(v) /\ Counters'
    BY <1>2, EvaluatorCounters
  <2>2. TablesTyped /\ UNCHANGED tables
    BY <2>1, TypesSplit DEF AlertInv, Handled
  <2>3. TablesTyped'
    BY <2>2 DEF TablesTyped, tables
  <2>4. TypeOK'
    BY <2>1, <2>3 DEF Handled, Counters, TypeOK, TablesTyped, LocalsTyped, GhostsTyped, Channels,
                      Occurrences
  <2>. QED BY <2>1, <2>4 DEF AlertInv, Handled, Counters
<1>3. ASSUME NEW q \in Pairs, Expire(q) PROVE AlertInv'
  BY <1>3, ExpireStep
<1>4. CASE UNCHANGED vars
  <2>1. UNCHANGED <<rules, gone, patch, fresh, unlogged, received, untold, changes, pc, event, todo,
                    rule, sent>>
    BY <1>4 DEF vars, tables, ghosts, locals
  <2>2. \A p : /\ Sending(p)' = Sending(p) /\ Working(p)' = Working(p)
               /\ Delivering(p)' = Delivering(p)
               /\ Tracked(p)' <=> Tracked(p)
    BY <2>1 DEF Sending, Working, Delivering, Tracked, PairOf
  <2>3. TypeOK'
    BY <2>1 DEF AlertInv, TypeOK, Cap
  <2>4. HandlingInv'
    BY <2>1 DEF AlertInv, HandlingInv, Known
  <2>. QED BY <2>1, <2>2, <2>3, <2>4 DEF AlertInv, LoggedInv, ReceivedInv
<1>. QED BY <1>1, <1>2, <1>3, <1>4 DEF Next

LEMMA AlertInit == Init => AlertInv
<1>. SUFFICES ASSUME Init PROVE AlertInv
  OBVIOUS
<1>1. \A p : Sending(p) = {} /\ Working(p) = {} /\ Delivering(p) = {}
  BY DEF Init, Sending, Working, Delivering
<1>2. \A p : /\ Cardinality(Sending(p)) = 0 /\ Cardinality(Working(p)) = 0
             /\ Cardinality(Delivering(p)) = 0
  BY <1>1, FS_EmptySet
<1>3. Cap \in Nat /\ Cardinality(Evaluators) \in Nat
  BY Bounds
<1>4. TablesTyped /\ GhostsTyped
  BY <1>3, ConstantsAssumption DEF Init, TablesTyped, GhostsTyped
<1>5. LocalsTyped
  <2>1. sent \in [Evaluators -> BOOLEAN]
    BY DEF Init
  <2>. QED BY <2>1 DEF Init, LocalsTyped
<1>6. HandlingInv
  BY DEF Init, HandlingInv
<1>7. \A p \in Pairs : unlogged[p] = 0 /\ received[p] = 0 /\ p \notin fresh
  BY DEF Init
<1>8. LoggedInv /\ ReceivedInv
  BY <1>2, <1>3, <1>7 DEF LoggedInv, ReceivedInv
<1>. QED BY <1>4, <1>5, <1>6, <1>8, TypesSplit DEF AlertInv

LEMMA AlertHolds == Spec => []AlertInv
BY AlertInit, AlertNext, PTL DEF Spec

\* The attempts without a row of alert_logs are those under way, whatever
\* number of jobs overlap and whatever fails (evaluateRule and writeLog).
THEOREM AttemptsLogged == Spec => []EveryAttemptIsLogged
<1>1. AlertInv => EveryAttemptIsLogged
  BY DEF AlertInv, LoggedInv, EveryAttemptIsLogged, Working, Tracked
<1>. QED BY <1>1, AlertHolds, PTL

\* An event that a rule waits for is reported by some caller.
CanFire(d) == \E e \in AllEvents : e[1] = d.type /\ Condition(e[1], e[2]) = d.condition

FromOptions == \A r \in Rules : \A d \in Drafts[r] : d.type = OptionType(d.condition)

\* What the form offers can fire.
LEMMA OptionsFire ==
    ASSUME NEW d \in AllDrafts, d.type = OptionType(d.condition)
    PROVE  CanFire(d)
<1>1. d.condition \in ALERT_CONDITIONS
  BY DEF AllDrafts
<1>2. ASSUME NEW s \in {"unreachable", "degraded"},
             d.condition = <<"host_status_transitioned_to", s>>
      PROVE  CanFire(d)
  <2>1. d.type = "host" /\ Condition("host", s) = d.condition
    BY <1>2 DEF OptionType, Condition
  <2>2. <<"host", s>> \in AllEvents
    BY DEF AllEvents
  <2>. QED BY <2>1, <2>2 DEF CanFire
<1>3. ASSUME NEW s \in {"expiring_soon", "expired"},
             d.condition = <<"ssl_status_transitioned_to", s>>
      PROVE  CanFire(d)
  <2>1. d.type = "ssl_certificate" /\ Condition("ssl_certificate", s) = d.condition
    BY <1>3 DEF OptionType, Condition
  <2>2. <<"ssl_certificate", s>> \in AllEvents
    BY DEF AllEvents
  <2>. QED BY <2>1, <2>2 DEF CanFire
<1>4. ASSUME NEW s \in {"crash_loop", "unhealthy"},
             d.condition = <<"service_status_transitioned_to", s>>
      PROVE  CanFire(d)
  <2>1. d.type = "service" /\ Condition("service", s) = d.condition
    BY <1>4 DEF OptionType, Condition
  <2>2. <<"service", s>> \in AllEvents
    BY DEF AllEvents
  <2>. QED BY <2>1, <2>2 DEF CanFire
<1>5. ASSUME NEW s \in {"idle_host_detected", "orphan_detected"},
             d.condition = <<"system", s>>
      PROVE  CanFire(d)
  <2>1. d.type = "system" /\ Condition("system", s) = d.condition
    BY <1>5 DEF OptionType, Condition
  <2>2. <<"system", s>> \in AllEvents
    BY DEF AllEvents
  <2>. QED BY <2>1, <2>2 DEF CanFire
<1>6. CASE d.condition = <<"rollback_event", "failed">>
  <2>1. d.type = "rollback_event" /\ Condition("rollback_event", "failed") = d.condition
    BY <1>6 DEF OptionType, Condition
  <2>2. <<"rollback_event", "failed">> \in AllEvents
    BY DEF AllEvents
  <2>. QED BY <2>1, <2>2 DEF CanFire
<1>. QED BY <1>1, <1>2, <1>3, <1>4, <1>5, <1>6 DEF ALERT_CONDITIONS

FiringInv ==
    /\ \A r \in Rules : rules[r] # Null => CanFire(rules[r])
    /\ patch # Null => CanFire(patch.entity)

\* A patch keeps what the rule waits for.
LEMMA FiringNext ==
    ASSUME FromOptions
    PROVE  AlertInv /\ FiringInv /\ [Next]_vars => FiringInv'
<1>. SUFFICES ASSUME AlertInv, FiringInv, [Next]_vars PROVE FiringInv'
  OBVIOUS
<1>0. TablesTyped
  BY TypesSplit DEF AlertInv
<1>1. ASSUME NEW r \in Rules, CreateRule(r) PROVE FiringInv'
  <2>1. PICK d \in Drafts[r] : rules' = [rules EXCEPT ![r] = d]
    BY <1>1 DEF CreateRule
  <2>2. CanFire(d)
    BY OptionsFire, ConstantsAssumption DEF FromOptions
  <2>3. patch' = patch
    BY <1>1 DEF CreateRule
  <2>. QED BY <1>0, <2>1, <2>2, <2>3 DEF FiringInv, TablesTyped
<1>2. ASSUME NEW r \in Rules, FindForUpdate(r) PROVE FiringInv'
  <2>1. /\ patch' = [rule |-> r, entity |-> [rules[r] EXCEPT !.enabled = ~ @]]
        /\ rules' = rules /\ rules[r] \in AllDrafts /\ CanFire(rules[r])
    BY <1>0, <1>2 DEF FindForUpdate, FiringInv, TablesTyped
  <2>2. /\ patch'.entity.type = rules[r].type
        /\ patch'.entity.condition = rules[r].condition
    BY <2>1 DEF AllDrafts
  <2>. QED BY <2>1, <2>2 DEF FiringInv, CanFire
<1>3. ASSUME SaveUpdate PROVE FiringInv'
  <2>1. /\ patch # Null /\ patch' = Null /\ rules' = [rules EXCEPT ![patch.rule] = patch.entity]
    BY <1>3 DEF SaveUpdate
  <2>. QED BY <1>0, <2>1 DEF FiringInv, TablesTyped
<1>4. ASSUME NEW r \in Rules, RemoveRule(r) PROVE FiringInv'
  <2>1. rules' = [rules EXCEPT ![r] = Null] /\ patch' = patch
    BY <1>4 DEF RemoveRule
  <2>. QED BY <1>0, <2>1 DEF FiringInv, TablesTyped
<1>5. CASE UNCHANGED tables
  BY <1>5 DEF FiringInv, tables
<1>6. ASSUME NEW v \in Evaluators,
             \/ Work(v) \/ Throws(v)
             \/ \E n \in Entities, e \in Events : Evaluate(v, n, e)
      PROVE  UNCHANGED tables
  BY <1>6, EvaluatorStep DEF AlertInv, Handled
<1>7. \A q \in Pairs : Expire(q) => UNCHANGED tables
  BY DEF Expire
<1>8. UNCHANGED vars => UNCHANGED tables
  BY DEF vars
<1>. QED BY <1>1, <1>2, <1>3, <1>4, <1>5, <1>6, <1>7, <1>8 DEF Next, Administer

\* When rules are made with the form, whose choice of a condition fixes the
\* entity type, each can fire; and a rule is silent only because a message has
\* arrived that no job sends a second time (isWithinCooldown, writeLog).
THEOREM RulesSound == ASSUME FromOptions PROVE Spec => []RulesAreSound
<1>1. Init => FiringInv
  BY DEF Init, FiringInv
<1>2. AlertInv /\ FiringInv /\ [Next]_vars => FiringInv'
  BY FiringNext
<1>3. AlertInv /\ FiringInv => RulesAreSound
  <2>. SUFFICES ASSUME AlertInv, FiringInv PROVE RulesAreSound
    OBVIOUS
  <2>1. TypeOK /\ EveryRuleCanFire /\ SilencedWasReceived
    BY DEF AlertInv, FiringInv, CanFire, EveryRuleCanFire, ReceivedInv, SilencedWasReceived, TypeOK
  <2>2. OneMessageEach
    <3>. SUFFICES ASSUME NEW p \in Pairs, Tracked(p) PROVE received[p] =< Cardinality(Evaluators)
      BY DEF OneMessageEach, Tracked
    <3>1. /\ p \notin fresh => received[p] = Cardinality(Delivering(p))
          /\ p \in fresh => received[p] + Cardinality(Sending(p)) =< Cardinality(Evaluators)
      BY DEF AlertInv, ReceivedInv
    <3>2. received[p] \in Nat
      BY Bounds DEF AlertInv, TypeOK
    <3>. QED BY <3>1, <3>2, Bounds
  <2>. QED BY <2>1, <2>2 DEF RulesAreSound
<1>. QED BY <1>1, <1>2, <1>3, AlertHolds, PTL DEF Spec


=============================================================================
