------------------------------ MODULE Insights ------------------------------
(***************************************************************************)
(* The daily insights check of insights.service.ts: for each flag it       *)
(* queries the entities that match, reports those that newly match and     *)
(* persists the flags, which the next run compares with.  A query, an      *)
(* evaluation of the alert rules (which never throws) and an upsert are    *)
(* one step each; hosts, containers and domains change between them.       *)
(***************************************************************************)
EXTENDS Naturals, FiniteSets

CONSTANTS
    Hosts, Domains,
    MaxChanges,     \* bound: changes of hosts, containers and domains
    MaxFaults,      \* bound: failed queries and crashes
    Null

ASSUME ConstantsAssumption ==
    /\ Hosts \cap Domains = {} /\ Null \notin Hosts \cup Domains \cup BOOLEAN
    /\ MaxChanges \in Nat /\ MaxFaults \in Nat

VARIABLES
    host,           \* each row, or Null: healthy, over 24 hours old, running containers
    domain,         \* each row, or Null: its host, and the host its address is of
    removed,        \* ids of rows that were deleted; an id is used once
    state,          \* insight_states: per flag and entity TRUE, FALSE or no row
    tick,           \* does a job wait
    pc, flag,       \* step of the running check, and the flag it evaluates
    read,           \* rows of the first of the two queries behind a flag
    found,          \* per flag: entities the last evaluation found matching
    previous, todo, \* previouslyActiveIds; entities the current loop has left
    at,             \* the entity being upserted
    told,           \* evaluations of each episode of matching runs, up to 2
    complete,       \* did the last run reach its end
    changes, faults

tables == <<host, domain, removed>>
locals == <<flag, read, found, previous, todo, at>>
vars == <<tables, state, tick, pc, locals, told, complete, changes, faults>>

Entities == Hosts \cup Domains
InsightFlag == {"idle_host", "orphaned_domain", "orphaned_host"}
HostRows == [healthy : BOOLEAN, old : BOOLEAN, running : BOOLEAN]
\* An address is that of a host id, whether or not the host is registered.
DomainRows == [host : Hosts \cup {Null}, ip : Hosts \cup {Null}]

-----------------------------------------------------------------------------
(* The heuristics *)

Registered == {h \in Hosts : host[h] # Null}
Candidates == {h \in Registered : host[h].healthy /\ host[h].old}

\* A row read from "domains", judged by the addresses of the hosts.
IsOrphan(row) == row.host = Null \/ (row.ip # Null /\ row.ip \notin Registered)
Referenced == {domain[d].host : d \in {d \in Domains : domain[d] # Null}}

\* What the README says of each flag, of one moment.
Matching(f) ==
    CASE f = "idle_host" -> {h \in Candidates : ~ host[h].running}
      [] f = "orphaned_domain" -> {d \in Domains : domain[d] # Null /\ IsOrphan(domain[d])}
      [] f = "orphaned_host" -> Registered \ Referenced

Active(f) == {e \in Entities : state[f][e] = TRUE}

-----------------------------------------------------------------------------
(* runDailyCheck *)

Init ==
    /\ host = [h \in Hosts |-> Null] /\ domain = [d \in Domains |-> Null]
    /\ removed = {} /\ state = [f \in InsightFlag |-> [e \in Entities |-> Null]]
    /\ tick = FALSE /\ pc = "idle" /\ flag = "idle_host" /\ read = {}
    /\ found = [f \in InsightFlag |-> {}] /\ previous = {} /\ todo = {} /\ at = Null
    /\ told = [f \in InsightFlag |-> [e \in Entities |-> 0]]
    /\ complete = FALSE /\ changes = 0 /\ faults = 0

\* the scheduled tick
Schedule ==
    /\ ~ tick /\ tick' = TRUE
    /\ UNCHANGED <<tables, state, pc, locals, told, complete, changes, faults>>

Take ==
    /\ tick /\ pc = "idle" /\ tick' = FALSE /\ pc' = "first" /\ flag' = "idle_host"
    /\ complete' = FALSE
    /\ UNCHANGED <<tables, state, read, found, previous, todo, at, told, changes, faults>>

Steps == <<tables, state, tick, complete, changes, faults>>

\* A read row is kept as <<id, row>>: the second query may see another state.
FirstQuery ==
    /\ pc = "first"
    /\ read' = CASE flag = "idle_host" -> {<<h, host[h]>> : h \in Candidates}
                 [] flag = "orphaned_domain" ->
                        {<<d, domain[d]>> : d \in {d \in Domains : domain[d] # Null}}
                 [] flag = "orphaned_host" -> {<<h, host[h]>> : h \in Registered}
    /\ pc' = IF read' = {} THEN "states" ELSE "second"
    /\ found' = [found EXCEPT ![flag] = {}]
    /\ UNCHANGED <<Steps, flag, previous, todo, at, told>>

SecondQuery ==
    /\ pc = "second" /\ pc' = "states"
    /\ found' = [found EXCEPT ![flag] = {r[1] : r \in {r \in read :
            CASE flag = "idle_host" -> host[r[1]] = Null \/ ~ host[r[1]].running
              [] flag = "orphaned_domain" -> IsOrphan(r[2])
              [] flag = "orphaned_host" -> r[1] \notin Referenced}}]
    /\ UNCHANGED <<Steps, flag, read, previous, todo, at, told>>

\* evaluateFlagTransitions: the flags of the run before
FindPrevious ==
    /\ pc = "states" /\ pc' = "match"
    /\ previous' = Active(flag) /\ todo' = found[flag] /\ read' = {}
    /\ told' = [told EXCEPT ![flag] = [e \in Entities |-> IF e \in found[flag] THEN @[e] ELSE 0]]
    /\ UNCHANGED <<Steps, flag, found, at>>

NewlyMatches(e) == e \notin previous

\* evaluateDirectCondition, whatever becomes of the message
Report(e) ==
    /\ pc = "match" /\ e \in todo /\ at' = e /\ pc' = "upsert"
    /\ told' = IF NewlyMatches(e) /\ told[flag][e] < 2
               THEN [told EXCEPT ![flag][e] = @ + 1] ELSE told
    /\ UNCHANGED <<Steps, flag, read, found, previous, todo>>

\* Variant: an existing row is left as it is.
InsertOnly(row, active) == IF row = Null THEN active ELSE row

\* upsertFlag
Upserted(row, active) == active

SetFlag ==
    /\ pc = "upsert" /\ pc' = "match"
    /\ state' = [state EXCEPT ![flag][at] = Upserted(@, TRUE)]
    /\ todo' = todo \ {at} /\ at' = Null
    /\ UNCHANGED <<tables, tick, complete, changes, faults, flag, read, found, previous, told>>

\* Variant: the flags of entities that no longer match stay.
NothingToClear == {}

NoLongerMatching == previous \ found[flag]

StartClearing ==
    /\ pc = "match" /\ todo = {} /\ pc' = "clear" /\ todo' = NoLongerMatching
    /\ UNCHANGED <<Steps, flag, read, found, previous, at, told>>

ClearFlag(e) ==
    /\ pc = "clear" /\ e \in todo /\ todo' = todo \ {e}
    /\ state' = [state EXCEPT ![flag][e] = Upserted(@, FALSE)]
    /\ UNCHANGED <<tables, tick, complete, changes, faults, pc, flag, read, found, previous, at, told>>

FlagAfter(f) == CASE f = "idle_host" -> "orphaned_domain"
                  [] f = "orphaned_domain" -> "orphaned_host" [] OTHER -> "idle_host"

NextFlag ==
    /\ pc = "clear" /\ todo = {} /\ flag' = FlagAfter(flag) /\ previous' = {}
    /\ IF flag = "orphaned_host" THEN pc' = "idle" /\ complete' = TRUE
       ELSE pc' = "first" /\ UNCHANGED complete
    /\ UNCHANGED <<tables, state, tick, changes, faults, read, found, todo, at, told>>

Lose == /\ faults < MaxFaults /\ faults' = faults + 1 /\ pc # "idle" /\ pc' = "idle"
        /\ read' = {} /\ previous' = {} /\ todo' = {} /\ at' = Null /\ flag' = "idle_host"
        /\ UNCHANGED <<tables, state, found, told, complete, changes>>

\* A query or an upsert rejects: the job fails, the next one is tomorrow's.
DatabaseThrows == Lose /\ UNCHANGED tick

\* The process dies: the job is stalled and taken again.
Crash == Lose /\ tick' = TRUE

RunStep ==
    \/ FirstQuery \/ SecondQuery \/ FindPrevious \/ SetFlag \/ StartClearing \/ NextFlag
    \/ \E e \in Entities : Report(e) \/ ClearFlag(e)

-----------------------------------------------------------------------------
(* What other components do to the tables *)

\* Health checks, syncs, registration, removal (a domain stays without its
\* host) and the passing of a day.
ChangeHost(h) ==
    \/ \E row \in HostRows :
        /\ IF host[h] = Null THEN h \notin removed /\ ~ row.old /\ ~ row.running
           ELSE host[h].old => row.old
        /\ host' = [host EXCEPT ![h] = row] /\ UNCHANGED <<domain, removed>>
    \/ /\ host[h] # Null /\ host' = [host EXCEPT ![h] = Null] /\ removed' = removed \cup {h}
       /\ domain' = [d \in Domains |->
            IF domain[d] # Null /\ domain[d].host = h THEN [domain[d] EXCEPT !.host = Null]
            ELSE domain[d]]

\* Domains are created, removed and resolved; no operation changes their host.
ChangeDomain(d) ==
    /\ \/ /\ domain[d] = Null /\ d \notin removed /\ UNCHANGED removed
          /\ \E h \in Registered \cup {Null} :
                domain' = [domain EXCEPT ![d] = [host |-> h, ip |-> Null]]
       \/ /\ domain[d] # Null /\ UNCHANGED removed
          /\ \E ip \in Hosts \cup {Null} : domain' = [domain EXCEPT ![d].ip = ip]
       \/ /\ domain[d] # Null /\ domain' = [domain EXCEPT ![d] = Null]
          /\ removed' = removed \cup {d}
    /\ UNCHANGED host

Change ==
    /\ changes < MaxChanges /\ changes' = changes + 1
    /\ \/ \E h \in Hosts : ChangeHost(h)
       \/ \E d \in Domains : ChangeDomain(d)
    /\ UNCHANGED <<state, tick, pc, locals, told, complete, faults>>

Next == Schedule \/ Take \/ RunStep \/ DatabaseThrows \/ Crash \/ Change

Spec == Init /\ [][Next]_vars

\* Ticks keep coming and a job goes on by itself.
FairSpec == Spec /\ WF_vars(Schedule) /\ WF_vars(Take) /\ WF_vars(RunStep)

-----------------------------------------------------------------------------
(* Properties *)

\* Types of every variable.
TypeOK ==
    /\ host \in [Hosts -> HostRows \cup {Null}] /\ domain \in [Domains -> DomainRows \cup {Null}]
    /\ removed \subseteq Entities /\ state \in [InsightFlag -> [Entities -> {TRUE, FALSE, Null}]]
    /\ tick \in BOOLEAN /\ pc \in {"idle", "first", "second", "states", "match", "upsert", "clear"}
    /\ flag \in InsightFlag /\ found \in [InsightFlag -> SUBSET Entities]
    /\ read \subseteq (Hosts \X HostRows) \cup (Domains \X DomainRows)
    /\ previous \subseteq Entities /\ todo \subseteq Entities /\ at \in Entities \cup {Null}
    /\ told \in [InsightFlag -> [Entities -> 0..2]] /\ complete \in BOOLEAN
    /\ changes \in 0..MaxChanges /\ faults \in 0..MaxFaults

\* "alerts only for entities newly matching a heuristic": as long as each run
\* finds an entity matching and none was cut off, its rules are evaluated once.
ReportedOncePerEpisode == faults = 0 => \A f \in InsightFlag, e \in Entities : told[f][e] <= 1

\* "a future re-match fires again instead of staying silently suppressed": what
\* a complete run found was reported, by it or by a run of the same episode.
EveryEpisodeIsReported ==
    pc = "idle" /\ complete /\ faults = 0 => \A f \in InsightFlag : \A e \in found[f] : told[f][e] > 0

\* When the tables hold still the flags come to say what matches, also for
\* entities that are gone and after runs that failed or were cut off.
FlagsConverge == <>[](\A f \in InsightFlag : Active(f) = Matching(f))

\* Without faults each episode is reported exactly once.
ReportsAreSound == TypeOK /\ ReportedOncePerEpisode /\ EveryEpisodeIsReported
=============================================================================
