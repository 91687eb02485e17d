--------------------------- MODULE InsightsProofs ---------------------------
(***************************************************************************)
(* Proofs about Insights, for every set of hosts and domains, however      *)
(* often their tables change and runs fail.                                *)
(***************************************************************************)
EXTENDS Insights, TLAPS

-----------------------------------------------------------------------------
(***************************************************************************)
(* EveryEpisodeIsReported looks at rests between runs.  Within a run it is *)
(* the persisted flags that remember what was reported: those of a flag    *)
(* not being evaluated are what was found last (Settled); those of the     *)
(* flag being evaluated go from what the last run left, over its union     *)
(* with what this one finds, to what this one found.                       *)
(***************************************************************************)

\* The evaluations told of f are one for each entity of the set.
ToldOf(f, entities) == told[f] = [e \in Entities |-> IF e \in entities THEN 1 ELSE 0]

Settled(f) == Active(f) = found[f] /\ ToldOf(f, found[f])

\* Of what is found, the entities that were reported in this episode: by an
\* earlier run, or by this one, which has left the others to do.
Reported ==
    {e \in found[flag] : e \in previous \/ e \notin todo \/ (pc = "upsert" /\ e = at)}

EvaluatedFlag ==
    CASE pc \in {"idle", "first"} -> Settled(flag)
      [] pc \in {"second", "states"} -> ToldOf(flag, Active(flag))
      [] pc \in {"match", "upsert"} ->
            /\ todo \subseteq found[flag] /\ (pc = "upsert" => at \in todo)
            /\ Active(flag) = previous \cup (found[flag] \ todo)
            /\ ToldOf(flag, Reported)
      [] pc = "clear" ->
            /\ todo \cap found[flag] = {}
            /\ Active(flag) = found[flag] \cup todo
            /\ ToldOf(flag, found[flag])

FlagsRemember ==
    /\ \A f \in InsightFlag \ {flag} : Settled(f)
    /\ EvaluatedFlag

InsightsInv == TypeOK /\ (faults = 0 => FlagsRemember)

-----------------------------------------------------------------------------
(* Types *)

LEMMA NextFlagIsAFlag == \A f \in InsightFlag : FlagAfter(f) \in InsightFlag
  BY DEF InsightFlag, FlagAfter

LEMMA InitTypes == Init => TypeOK
<1>. SUFFICES ASSUME Init PROVE TypeOK
  OBVIOUS
<1>1. host \in [Hosts -> HostRows \cup {Null}] /\ domain \in [Domains -> DomainRows \cup {Null}]
  BY DEF Init
<1>2. state \in [InsightFlag -> [Entities -> {TRUE, FALSE, Null}]]
  BY DEF Init
<1>3. told \in [InsightFlag -> [Entities -> 0..2]]
  BY DEF Init
<1>4. found \in [InsightFlag -> SUBSET Entities]
  BY DEF Init
<1>5. flag \in InsightFlag
  BY DEF Init, InsightFlag
<1>6. changes \in 0..MaxChanges /\ faults \in 0..MaxFaults
  BY ConstantsAssumption DEF Init
<1>. QED BY <1>1, <1>2, <1>3, <1>4, <1>5, <1>6 DEF Init, TypeOK

LEMMA QueryTypes ==
    ASSUME TypeOK, FirstQuery \/ SecondQuery
    PROVE  TypeOK'
<1>1. ASSUME FirstQuery PROVE TypeOK'
  <2>1. \A h \in Registered : h \in Hosts /\ host[h] \in HostRows
    BY DEF Registered, TypeOK
  <2>2. read' \subseteq (Hosts \X HostRows) \cup (Domains \X DomainRows)
    BY <1>1, <2>1 DEF FirstQuery, TypeOK, InsightFlag, Candidates
  <2>3. found' \in [InsightFlag -> SUBSET Entities]
    BY <1>1 DEF FirstQuery, TypeOK
  <2>. QED BY <1>1, <2>2, <2>3 DEF FirstQuery, TypeOK, Steps, tables
<1>2. ASSUME SecondQuery PROVE TypeOK'
  <2>1. \A r \in read : r[1] \in Entities
    BY DEF TypeOK, Entities
  <2>2. found' \in [InsightFlag -> SUBSET Entities]
    <3>. DEFINE Matches(r) ==
            CASE flag = "idle_host" -> host[r[1]] = Null \/ ~ host[r[1]].running
              [] flag = "orphaned_domain" -> IsOrphan(r[2])
              [] flag = "orphaned_host" -> r[1] \notin Referenced
         matches == {r[1] : r \in {r \in read : Matches(r)}}
    <3>1. found' = [found EXCEPT ![flag] = matches]
      BY <1>2 DEF SecondQuery
    <3>. HIDE DEF Matches
    <3>2. matches \subseteq Entities
      BY <2>1
    <3>. HIDE DEF matches
    <3>. QED BY <3>1, <3>2 DEF TypeOK
  <2>. QED BY <1>2, <2>2 DEF SecondQuery, TypeOK, Steps, tables
<1>. QED BY <1>1, <1>2

LEMMA TransitionTypes ==
    ASSUME TypeOK,
           \/ FindPrevious \/ SetFlag \/ StartClearing \/ NextFlag
           \/ \E e \in Entities : Report(e) \/ ClearFlag(e)
    PROVE  TypeOK'
<1>1. ASSUME FindPrevious PROVE TypeOK'
  <2>1. told' \in [InsightFlag -> [Entities -> 0..2]]
    <3>. DEFINE row == [e \in Entities |-> IF e \in found[flag] THEN told[flag][e] ELSE 0]
    <3>1. row \in [Entities -> 0..2]
      BY DEF TypeOK
    <3>2. told' = [told EXCEPT ![flag] = row]
      BY <1>1 DEF FindPrevious
    <3>. HIDE DEF row
    <3>. QED BY <3>1, <3>2 DEF TypeOK
  <2>2. previous' \subseteq Entities /\ todo' \subseteq Entities /\ read' = {}
    BY <1>1 DEF FindPrevious, TypeOK, Active
  <2>. QED BY <1>1, <2>1, <2>2 DEF FindPrevious, TypeOK, Steps, tables
<1>2. ASSUME SetFlag PROVE TypeOK'
  <2>1. state' \in [InsightFlag -> [Entities -> {TRUE, FALSE, Null}]]
    BY <1>2 DEF SetFlag, TypeOK, Upserted
  <2>. QED BY <1>2, <2>1 DEF SetFlag, TypeOK, tables
<1>3. ASSUME StartClearing PROVE TypeOK'
  BY <1>3 DEF StartClearing, NoLongerMatching, TypeOK, Steps, tables
<1>4. ASSUME NextFlag PROVE TypeOK'
  BY <1>4, NextFlagIsAFlag DEF NextFlag, TypeOK, tables
<1>5. ASSUME NEW e \in Entities, Report(e) PROVE TypeOK'
  <2>1. told' \in [InsightFlag -> [Entities -> 0..2]]
    <3>1. CASE NewlyMatches(e) /\ told[flag][e] < 2
      <4>1. told[flag][e] + 1 \in 0..2
        BY <3>1 DEF TypeOK
      <4>2. told' = [told EXCEPT ![flag] = [told[flag] EXCEPT ![e] = told[flag][e] + 1]]
        BY <1>5, <3>1 DEF Report
      <4>. QED BY <4>1, <4>2 DEF TypeOK
    <3>2. CASE ~ (NewlyMatches(e) /\ told[flag][e] < 2)
      BY <1>5, <3>2 DEF Report, TypeOK
    <3>. QED BY <3>1, <3>2
  <2>. QED BY <1>5, <2>1 DEF Report, TypeOK, Steps, tables
<1>6. ASSUME NEW e \in Entities, ClearFlag(e) PROVE TypeOK'
  <2>1. state' \in [InsightFlag -> [Entities -> {TRUE, FALSE, Null}]]
    BY <1>6 DEF ClearFlag, TypeOK, Upserted
  <2>. QED BY <1>6, <2>1 DEF ClearFlag, TypeOK, tables
<1>. QED BY <1>1, <1>2, <1>3, <1>4, <1>5, <1>6

LEMMA ChangeTypes == ASSUME TypeOK, Change PROVE TypeOK'
<1>. DEFINE Tables == /\ host' \in [Hosts -> HostRows \cup {Null}] /\ removed' \subseteq Entities
                      /\ domain' \in [Domains -> DomainRows \cup {Null}]
<1>1. changes' \in 0..MaxChanges
  BY ConstantsAssumption DEF Change, TypeOK
<1>2. ASSUME NEW h \in Hosts, ChangeHost(h) PROVE Tables
  <2>1. ASSUME NEW row \in HostRows, host' = [host EXCEPT ![h] = row],
               UNCHANGED <<domain, removed>>
        PROVE  Tables
    BY <2>1 DEF TypeOK
  <2>2. ASSUME host' = [host EXCEPT ![h] = Null], removed' = removed \cup {h},
               domain' = [d \in Domains |->
                    IF domain[d] # Null /\ domain[d].host = h
                    THEN [domain[d] EXCEPT !.host = Null] ELSE domain[d]]
        PROVE  Tables
    <3>1. \A d \in Domains : domain[d] # Null =>
                [domain[d] EXCEPT !.host = Null] \in DomainRows
      BY DEF TypeOK, DomainRows
    <3>2. domain' \in [Domains -> DomainRows \cup {Null}]
      BY <2>2, <3>1 DEF TypeOK
    <3>. QED BY <2>2, <3>2 DEF TypeOK, Entities
  <2>. QED BY <1>2, <2>1, <2>2 DEF ChangeHost
<1>3. ASSUME NEW d \in Domains, ChangeDomain(d) PROVE Tables
  <2>1. ASSUME NEW row \in DomainRows \cup {Null}, domain' = [domain EXCEPT ![d] = row],
               removed' \in {removed, removed \cup {d}}, UNCHANGED host
        PROVE  Tables
    BY <2>1 DEF TypeOK, Entities
  <2>2. \A h \in Registered \cup {Null} : [host |-> h, ip |-> Null] \in DomainRows
    BY DEF DomainRows, Registered
  <2>3. ASSUME NEW ip \in Hosts \cup {Null}, domain[d] # Null
        PROVE  [domain[d] EXCEPT !.ip = ip] \in DomainRows
    BY <2>3 DEF TypeOK, DomainRows
  <2>. QED BY <1>3, <2>1, <2>2, <2>3 DEF ChangeDomain
<1>4. Tables
  BY <1>2, <1>3 DEF Change
<1>. QED BY <1>1, <1>4 DEF Change, TypeOK, locals

LEMMA TypeStep == ASSUME TypeOK, [Next]_vars PROVE TypeOK'
<1>1. ASSUME Schedule \/ Take PROVE TypeOK'
  BY <1>1 DEF Schedule, Take, TypeOK, tables, locals, InsightFlag
<1>2. ASSUME RunStep PROVE TypeOK'
  BY <1>2, QueryTypes, TransitionTypes DEF RunStep
<1>3. ASSUME DatabaseThrows \/ Crash PROVE TypeOK'
  <2>1. Lose /\ tick' \in BOOLEAN
    BY <1>3 DEF DatabaseThrows, Crash, TypeOK
  <2>2. faults' \in 0..MaxFaults
    BY <2>1, ConstantsAssumption DEF Lose, TypeOK
  <2>. QED BY <2>1, <2>2 DEF Lose, TypeOK, tables, InsightFlag
<1>4. ASSUME Change PROVE TypeOK'
  BY <1>4, ChangeTypes
<1>5. ASSUME UNCHANGED vars PROVE TypeOK'
  BY <1>5 DEF vars, tables, locals, TypeOK
<1>. QED BY <1>1, <1>2, <1>3, <1>4, <1>5 DEF Next

-----------------------------------------------------------------------------
(* The flags *)

LEMMA InitRemembers == Init => FlagsRemember
<1>. SUFFICES ASSUME Init PROVE FlagsRemember
  OBVIOUS
<1>1. ASSUME NEW f \in InsightFlag PROVE Settled(f)
  <2>1. Active(f) = {}
    BY ConstantsAssumption DEF Init, Active
  <2>2. found[f] = {} /\ told[f] = [e \in Entities |-> 0]
    BY DEF Init
  <2>. QED BY <2>1, <2>2 DEF Settled, ToldOf
<1>2. flag \in InsightFlag /\ pc = "idle"
  BY DEF Init, InsightFlag
<1>. QED BY <1>1, <1>2 DEF FlagsRemember, EvaluatedFlag

\* Every step but those of a run leaves what FlagsRemember is about.
LEMMA RestRemembers ==
    ASSUME FlagsRemember, flag' = flag,
           UNCHANGED <<state, found, told, pc, previous, todo, at>>
    PROVE  FlagsRemember'
  BY DEF FlagsRemember, EvaluatedFlag, Settled, ToldOf, Active, Reported

\* A step that changes the evaluated flag only leaves the others settled.
LEMMA OthersRemember ==
    ASSUME FlagsRemember, flag' = flag,
           \A f \in InsightFlag \ {flag} :
                state'[f] = state[f] /\ found'[f] = found[f] /\ told'[f] = told[f]
    PROVE  \A f \in InsightFlag \ {flag} : Settled(f)'
  BY DEF FlagsRemember, Settled, ToldOf, Active

LEMMA FirstQueryRemembers == ASSUME TypeOK, FlagsRemember, FirstQuery PROVE FlagsRemember'
<1>1. /\ pc = "first" /\ pc' \in {"states", "second"} /\ flag' = flag
      /\ UNCHANGED <<state, told>>
      /\ \A f \in InsightFlag \ {flag} : found'[f] = found[f]
  BY DEF FirstQuery, Steps, TypeOK
<1>2. \A f \in InsightFlag \ {flag} : Settled(f)'
  BY <1>1, OthersRemember
<1>3. ToldOf(flag, Active(flag))
  BY <1>1 DEF FlagsRemember, EvaluatedFlag, Settled
<1>4. ToldOf(flag, Active(flag))'
  BY <1>1, <1>3 DEF ToldOf, Active
<1>. QED BY <1>1, <1>2, <1>4 DEF FlagsRemember, EvaluatedFlag

LEMMA SecondQueryRemembers == ASSUME TypeOK, FlagsRemember, SecondQuery PROVE FlagsRemember'
<1>1. /\ pc = "second" /\ pc' = "states" /\ flag' = flag
      /\ UNCHANGED <<state, told>>
      /\ \A f \in InsightFlag \ {flag} : found'[f] = found[f]
  BY DEF SecondQuery, Steps, TypeOK
<1>2. \A f \in InsightFlag \ {flag} : Settled(f)'
  BY <1>1, OthersRemember
<1>3. ToldOf(flag, Active(flag))
  BY <1>1 DEF FlagsRemember, EvaluatedFlag
<1>4. ToldOf(flag, Active(flag))'
  BY <1>1, <1>3 DEF ToldOf, Active
<1>. QED BY <1>1, <1>2, <1>4 DEF FlagsRemember, EvaluatedFlag

\* What the last run left is what it reported; of what this run finds, that
\* counts as reported, and all is still to do.
LEMMA FindPreviousRemembers == ASSUME TypeOK, FlagsRemember, FindPrevious PROVE FlagsRemember'
<1>1. /\ pc = "states" /\ pc' = "match" /\ flag' = flag /\ flag \in InsightFlag
      /\ UNCHANGED <<state, found>> /\ previous' = Active(flag) /\ todo' = found[flag]
      /\ found[flag] \subseteq Entities
      /\ \A f \in InsightFlag \ {flag} : told'[f] = told[f]
      /\ told'[flag] = [e \in Entities |-> IF e \in found[flag] THEN told[flag][e] ELSE 0]
  BY DEF FindPrevious, Steps, TypeOK
<1>2. \A f \in InsightFlag \ {flag} : Settled(f)'
  BY <1>1, OthersRemember
<1>3. ToldOf(flag, Active(flag))
  BY <1>1 DEF FlagsRemember, EvaluatedFlag
<1>4. Active(flag)' = Active(flag)
  BY <1>1 DEF Active
<1>5. Reported' = found[flag] \cap Active(flag)
  BY <1>1 DEF Reported
<1>6. told'[flag] = [e \in Entities |-> IF e \in Reported' THEN 1 ELSE 0]
  BY <1>1, <1>3, <1>5 DEF ToldOf
<1>7. ToldOf(flag, Reported)'
  BY <1>1, <1>6 DEF ToldOf
<1>. QED BY <1>1, <1>2, <1>4, <1>7 DEF FlagsRemember, EvaluatedFlag

\* An entity that is new is reported for the first time in its episode.
LEMMA ReportRemembers ==
    ASSUME TypeOK, FlagsRemember, NEW e \in Entities, Report(e)
    PROVE  FlagsRemember'
<1>1. /\ pc = "match" /\ pc' = "upsert" /\ flag' = flag /\ flag \in InsightFlag
      /\ UNCHANGED <<state, found, previous, todo>> /\ e \in todo /\ at' = e
      /\ \A f \in InsightFlag \ {flag} : told'[f] = told[f]
  BY DEF Report, Steps, TypeOK
<1>2. \A f \in InsightFlag \ {flag} : Settled(f)'
  BY <1>1, OthersRemember
<1>3. /\ todo \subseteq found[flag] /\ Active(flag) = previous \cup (found[flag] \ todo)
      /\ ToldOf(flag, Reported)
  BY <1>1 DEF FlagsRemember, EvaluatedFlag
<1>4. Reported = {x \in found[flag] : x \in previous \/ x \notin todo}
  BY <1>1 DEF Reported
<1>5. Reported' = Reported \cup {e}
  BY <1>1, <1>3, <1>4 DEF Reported
<1>6. told'[flag] = [x \in Entities |-> IF x \in Reported \cup {e} THEN 1 ELSE 0]
  <2>1. CASE e \in previous
    <3>1. told' = told /\ Reported \cup {e} = Reported
      BY <1>1, <1>3, <1>4, <2>1 DEF Report, NewlyMatches
    <3>. QED BY <1>3, <3>1 DEF ToldOf
  <2>2. CASE e \notin previous
    <3>1. told[flag][e] = 0
      BY <1>1, <1>3, <1>4, <2>2 DEF ToldOf
    <3>2. told'[flag] = [told[flag] EXCEPT ![e] = 1]
      BY <1>1, <2>2, <3>1 DEF Report, NewlyMatches, TypeOK
    <3>. QED BY <1>3, <3>2 DEF ToldOf
  <2>. QED BY <2>1, <2>2
<1>7. ToldOf(flag, Reported)'
  BY <1>1, <1>5, <1>6 DEF ToldOf
<1>8. Active(flag)' = Active(flag)
  BY <1>1 DEF Active
<1>. QED BY <1>1, <1>2, <1>3, <1>7, <1>8 DEF FlagsRemember, EvaluatedFlag

LEMMA SetFlagRemembers == ASSUME TypeOK, FlagsRemember, SetFlag PROVE FlagsRemember'
<1>1. /\ pc = "upsert" /\ pc' = "match" /\ flag' = flag /\ flag \in InsightFlag
      /\ UNCHANGED <<found, previous, told>> /\ todo' = todo \ {at}
      /\ state' = [state EXCEPT ![flag] = [state[flag] EXCEPT ![at] = TRUE]]
      /\ state[flag] \in [Entities -> {TRUE, FALSE, Null}] /\ DOMAIN state = InsightFlag
  BY DEF SetFlag, Upserted, TypeOK
<1>2. \A f \in InsightFlag \ {flag} : Settled(f)'
  BY <1>1, OthersRemember
<1>3. /\ todo \subseteq found[flag] /\ at \in todo
      /\ Active(flag) = previous \cup (found[flag] \ todo)
      /\ ToldOf(flag, Reported) /\ at \in Entities
  BY <1>1 DEF FlagsRemember, EvaluatedFlag, TypeOK
<1>4. Reported' = Reported
  BY <1>1, <1>3 DEF Reported
<1>5. Active(flag)' = Active(flag) \cup {at}
  BY <1>1, <1>3 DEF Active
<1>6. Active(flag)' = previous' \cup (found'[flag] \ todo')
  BY <1>1, <1>3, <1>5
<1>7. ToldOf(flag, Reported)'
  BY <1>1, <1>3, <1>4 DEF ToldOf
<1>. QED BY <1>1, <1>2, <1>3, <1>6, <1>7 DEF FlagsRemember, EvaluatedFlag

LEMMA StartClearingRemembers ==
    ASSUME TypeOK, FlagsRemember, StartClearing
    PROVE  FlagsRemember'
<1>1. /\ pc = "match" /\ pc' = "clear" /\ flag' = flag /\ todo = {}
      /\ todo' = previous \ found[flag] /\ UNCHANGED <<state, found, told>>
  BY DEF StartClearing, NoLongerMatching, Steps
<1>2. \A f \in InsightFlag \ {flag} : Settled(f)'
  BY <1>1, OthersRemember
<1>3. Active(flag) = previous \cup found[flag] /\ ToldOf(flag, Reported)
  BY <1>1 DEF FlagsRemember, EvaluatedFlag
<1>4. Reported = found[flag]
  BY <1>1 DEF Reported
<1>5. ToldOf(flag, found[flag])'
  BY <1>1, <1>3, <1>4 DEF ToldOf
<1>6. Active(flag)' = found'[flag] \cup todo'
  BY <1>1, <1>3 DEF Active
<1>. QED BY <1>1, <1>2, <1>5, <1>6 DEF FlagsRemember, EvaluatedFlag

LEMMA ClearFlagRemembers ==
    ASSUME TypeOK, FlagsRemember, NEW e \in Entities, ClearFlag(e)
    PROVE  FlagsRemember'
<1>1. /\ pc = "clear" /\ pc' = "clear" /\ flag' = flag /\ flag \in InsightFlag
      /\ UNCHANGED <<found, told>> /\ e \in todo /\ todo' = todo \ {e}
      /\ state' = [state EXCEPT ![flag] = [state[flag] EXCEPT ![e] = FALSE]]
      /\ state[flag] \in [Entities -> {TRUE, FALSE, Null}] /\ DOMAIN state = InsightFlag
  BY DEF ClearFlag, Upserted, TypeOK
<1>2. \A f \in InsightFlag \ {flag} : Settled(f)'
  BY <1>1, OthersRemember
<1>3. /\ todo \cap found[flag] = {} /\ Active(flag) = found[flag] \cup todo
      /\ ToldOf(flag, found[flag])
  BY <1>1 DEF FlagsRemember, EvaluatedFlag
<1>4. Active(flag)' = Active(flag) \ {e}
  BY <1>1 DEF Active
<1>5. ToldOf(flag, found[flag])'
  BY <1>1, <1>3 DEF ToldOf
<1>. QED BY <1>1, <1>2, <1>3, <1>4, <1>5 DEF FlagsRemember, EvaluatedFlag

\* The flag that is done is settled, as the next one is already.
LEMMA NextFlagRemembers == ASSUME TypeOK, FlagsRemember, NextFlag PROVE FlagsRemember'
<1>1. /\ pc = "clear" /\ pc' \in {"idle", "first"} /\ todo = {} /\ flag \in InsightFlag
      /\ flag' \in InsightFlag /\ UNCHANGED <<state, found, told>>
  BY NextFlagIsAFlag DEF NextFlag, TypeOK
<1>2. Settled(flag)
  BY <1>1 DEF FlagsRemember, EvaluatedFlag, Settled
<1>3. \A f \in InsightFlag : Settled(f)
  BY <1>2 DEF FlagsRemember
<1>4. \A f \in InsightFlag : Settled(f)'
  BY <1>1, <1>3 DEF Settled, ToldOf, Active
<1>. QED BY <1>1, <1>4 DEF FlagsRemember, EvaluatedFlag

-----------------------------------------------------------------------------
(* The invariant *)

LEMMA InsightsStep == ASSUME InsightsInv, [Next]_vars PROVE InsightsInv'
<1>1. TypeOK /\ TypeOK'
  BY TypeStep DEF InsightsInv
<1>2. ASSUME faults' = 0 PROVE FlagsRemember'
  <2>1. ~ Lose /\ faults = 0
    <3>1. ASSUME Lose PROVE FALSE
      BY <1>1, <1>2, <3>1 DEF Lose, TypeOK
    <3>2. UNCHANGED faults
      BY <3>1 DEF Next, Schedule, Take, RunStep, FirstQuery, SecondQuery, FindPrevious, SetFlag,
         StartClearing, NextFlag, Report, ClearFlag, Change, DatabaseThrows, Crash, vars, Steps
    <3>. QED BY <1>2, <3>1, <3>2
  <2>2. FlagsRemember
    BY <2>1 DEF InsightsInv
  <2>3. ASSUME Schedule \/ Change \/ UNCHANGED vars PROVE FlagsRemember'
    BY <2>2, <2>3, RestRemembers DEF Schedule, Change, vars, locals
  <2>4. ASSUME Take PROVE FlagsRemember'
    <3>1. /\ pc = "idle" /\ pc' = "first" /\ flag' \in InsightFlag /\ flag \in InsightFlag
          /\ UNCHANGED <<state, found, told>>
      BY <1>1, <2>4 DEF Take, InsightFlag, TypeOK
    <3>2. \A f \in InsightFlag : Settled(f)
      BY <2>2, <3>1 DEF FlagsRemember, EvaluatedFlag
    <3>3. \A f \in InsightFlag : Settled(f)'
      BY <3>1, <3>2 DEF Settled, ToldOf, Active
    <3>. QED BY <3>1, <3>3 DEF FlagsRemember, EvaluatedFlag
  <2>5. ASSUME RunStep PROVE FlagsRemember'
    BY <1>1, <2>2, <2>5, FirstQueryRemembers, SecondQueryRemembers, FindPreviousRemembers,
       ReportRemembers, SetFlagRemembers, StartClearingRemembers, ClearFlagRemembers,
       NextFlagRemembers DEF RunStep
  <2>. QED BY <2>1, <2>3, <2>4, <2>5 DEF Next, DatabaseThrows, Crash
<1>. QED BY <1>1, <1>2 DEF InsightsInv

LEMMA ReportsFollow == InsightsInv => ReportsAreSound
<1>. SUFFICES ASSUME InsightsInv PROVE ReportsAreSound
  OBVIOUS
<1>1. ASSUME faults = 0 PROVE \A f \in InsightFlag : \E s \in SUBSET Entities : ToldOf(f, s)
  <2>1. \A f \in InsightFlag : found[f] \subseteq Entities /\ Active(f) \subseteq Entities
    BY DEF InsightsInv, TypeOK, Active
  <2>2. flag \in InsightFlag /\ Reported \subseteq Entities
    BY <2>1 DEF Reported, InsightsInv, TypeOK
  <2>3. \A f \in InsightFlag \ {flag} : ToldOf(f, found[f])
    BY <1>1 DEF InsightsInv, FlagsRemember, Settled
  <2>4. \E s \in SUBSET Entities : ToldOf(flag, s)
    <3>1. \/ ToldOf(flag, found[flag]) \/ ToldOf(flag, Active(flag)) \/ ToldOf(flag, Reported)
      BY <1>1 DEF InsightsInv, FlagsRemember, EvaluatedFlag, Settled, TypeOK
    <3>. QED BY <2>1, <2>2, <3>1
  <2>. QED BY <2>1, <2>3, <2>4
<1>2. ReportedOncePerEpisode
  <2>. SUFFICES ASSUME faults = 0, NEW f \in InsightFlag, NEW e \in Entities
                PROVE  told[f][e] =< 1
    BY DEF ReportedOncePerEpisode
  <2>1. PICK s \in SUBSET Entities : ToldOf(f, s)
    BY <1>1
  <2>2. told[f][e] = IF e \in s THEN 1 ELSE 0
    BY <2>1 DEF ToldOf
  <2>. QED BY <2>2
<1>3. EveryEpisodeIsReported
  <2>. SUFFICES ASSUME pc = "idle", faults = 0, NEW f \in InsightFlag, NEW e \in found[f]
                PROVE  told[f][e] > 0
    BY DEF EveryEpisodeIsReported
  <2>1. ToldOf(f, found[f]) /\ found[f] \subseteq Entities
    BY DEF InsightsInv, FlagsRemember, EvaluatedFlag, Settled, TypeOK
  <2>. QED BY <2>1 DEF ToldOf
<1>. QED BY <1>2, <1>3 DEF ReportsAreSound, InsightsInv

\* Without faults the insights of each entity are reported once in each episode
\* of matching runs (insights.service.ts evaluates the rules before it persists
\* the flag, which the next run compares with), whatever hosts and domains do
\* between the queries of a run.
THEOREM ReportsSound == Spec => []ReportsAreSound
<1>1. Init => InsightsInv
  BY InitTypes, InitRemembers DEF InsightsInv
<1>2. InsightsInv /\ [Next]_vars => InsightsInv'
  BY InsightsStep
<1>3. InsightsInv => ReportsAreSound
  BY ReportsFollow
<1>. QED BY <1>1, <1>2, <1>3, PTL DEF Spec

=============================================================================
