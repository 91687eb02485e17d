----------------------------- MODULE Migrations -----------------------------
(***************************************************************************)
(* The schema of the database under migration:run and migration:revert,    *)
(* while code of several versions writes rows between them.  Version n has *)
(* the first n migrations: 1 InitSchema, 2 Phase2DomainsAndPolymorphicLogs,*)
(* 3 Phase3Services, 4 Phase4RollbackAndSnapshots, 5                       *)
(* Phase5AlertingAndInsights, 6 Phase7ServerGeneratedHostKeys, 7           *)
(* Phase12CloudAccounts.  A run or revert is one transaction; the columns  *)
(* modelled are those whose type or meaning a migration changes.           *)
(***************************************************************************)
EXTENDS Naturals, FiniteSets

CONSTANTS
    Hosts, Domains, Services,   \* ids; each is used once
    MaxLogs,        \* bound: rows of health_check_logs
    Null

Latest == 7
CheckStatus == {"healthy", "degraded", "unreachable"}
HostStatusEnum(s) ==
    {"unknown"} \cup CheckStatus \cup (IF s >= 6 THEN {"pending_setup"} ELSE {})

ConstantsAssumption ==
    /\ Hosts \cap Domains = {} /\ Hosts \cap Services = {} /\ Domains \cap Services = {}
    /\ Null \notin HostStatusEnum(Latest) /\ MaxLogs \in Nat

VARIABLES
    schema, code,   \* migrations applied, migrations the checked-out code has
    hosts,          \* status of each row, or Null
    key, verified,  \* hosts whose ssh_public_key is not empty, whose setup_verified_at is not null
    domains, services,      \* ids of rows
    logs,           \* rows of health_check_logs
    used            \* ids that were given out

rows == <<hosts, key, verified, domains, services, logs, used>>
vars == <<schema, code, rows>>

Entities == Hosts \cup Domains \cup Services
Registered == {h \in Hosts : hosts[h] # Null}

-----------------------------------------------------------------------------
(* Types by schema version *)

EntityTypeEnum(s) == {"host", "domain"} \cup (IF s >= 3 THEN {"service"} ELSE {})
\* what the checkers write of an entity
StatusOf(type) == CASE type = "host" -> CheckStatus \cup {"pending_setup"}
                    [] type = "domain" -> {"resolving", "whois_ok"} [] OTHER -> {"running"}

HostLog(h, status) == [host_id |-> h, status |-> status]
EntityLog(type, e, status) == [entity_type |-> type, entity_id |-> e, status |-> status]
LogTable(s) ==
    IF s < 2 THEN {HostLog(h, status) : h \in Hosts, status \in CheckStatus}
    ELSE UNION {{EntityLog(type, e, status) : e \in Entities, status \in StatusOf(type)} :
                    type \in EntityTypeEnum(s)}

\* The DEFAULT of a column, which ALTER COLUMN TYPE has to convert as well.
HostStatusDefault == "unknown"
EntityTypeDefault == "host"

\* PostgreSQL converts values by USING; there is no cast from a default of one
\* enum type to another.
CastsToEnum(values, enum, default) == default = Null /\ values \subseteq enum

-----------------------------------------------------------------------------
(* migration:run *)

Init ==
    /\ schema = 0 /\ code = 1 /\ hosts = [h \in Hosts |-> Null] /\ key = {} /\ verified = {}
    /\ domains = {} /\ services = {} /\ logs = {} /\ used = {}

\* Variant: rows of which nothing was found wrong are not taken over.
LogsOfTrouble(ls) == {EntityLog("host", l.host_id, l.status) : l \in {l \in ls : l.status # "healthy"}}

\* entity_type gets its default, entity_id the host
LogsToEntities(ls) == {EntityLog("host", l.host_id, l.status) : l \in ls}

\* All pending migrations.  Rows of older hosts get an empty public key.
MigrationRun ==
    /\ schema < code /\ schema' = code
    /\ logs' = IF schema < 2 /\ code >= 2 THEN LogsToEntities(logs) ELSE logs
    /\ UNCHANGED <<code, hosts, key, verified, domains, services, used>>

Deploy ==
    /\ code < Latest /\ code' = code + 1
    /\ UNCHANGED <<schema, rows>>

Checkout ==
    /\ schema > 0 /\ schema < code /\ code' = schema
    /\ UNCHANGED <<schema, rows>>

-----------------------------------------------------------------------------
(* migration:revert *)

Types == {l.entity_type : l \in logs}

\* The logs that stay when host_id is back.
OfHosts(ls) == {l \in ls : l.entity_type = "host"}

\* host_id from entity_id; the other rows are deleted
LogsToHosts(ls) == {HostLog(l.entity_id, l.status) : l \in OfHosts(ls)}

\* Variant: the constraint is added NOT VALID.
Unvalidated == TRUE

\* FK_health_check_logs_host_id
EveryLogHasItsHost == \A l \in OfHosts(logs) : l.entity_id \in Registered

\* Does the down migration of the newest version run through.  The status is
\* converted while the rows of domains are still there.
Reverts ==
    CASE schema = 6 -> CastsToEnum({hosts[h] : h \in Registered}, HostStatusEnum(5),
                                   HostStatusDefault)
      [] schema = 3 -> CastsToEnum(Types, EntityTypeEnum(2), EntityTypeDefault)
      [] schema = 2 -> /\ CastsToEnum({l.status : l \in logs}, CheckStatus, Null)
                       /\ EveryLogHasItsHost
      [] OTHER -> TRUE

\* The tables, columns and rows that the down migration leaves; one that does
\* not run through is rolled back.
MigrationRevert ==
    /\ schema > 0 /\ Reverts /\ schema' = schema - 1
    /\ key' = (IF schema <= 6 THEN {} ELSE key)
    /\ verified' = (IF schema <= 6 THEN {} ELSE verified)
    /\ services' = IF schema <= 3 THEN {} ELSE services
    /\ domains' = IF schema <= 2 THEN {} ELSE domains
    /\ logs' = (CASE schema = 2 -> LogsToHosts(logs) [] schema = 1 -> {} [] OTHER -> logs)
    /\ hosts' = IF schema = 1 THEN [h \in Hosts |-> Null] ELSE hosts
    /\ UNCHANGED <<code, used>>

-----------------------------------------------------------------------------
(* What the code of a version writes, once its migrations are applied *)

Running == schema = code

AddHost(h) ==
    /\ Running /\ h \notin used /\ used' = used \cup {h}
    /\ hosts' = [hosts EXCEPT ![h] = IF code >= 6 THEN "pending_setup" ELSE "unknown"]
    /\ key' = IF code >= 6 THEN key \cup {h} ELSE key
    /\ UNCHANGED <<schema, code, verified, domains, services, logs>>

\* The cascades of the schema: logs have a host only in version 1.
RemoveHost(h) ==
    /\ Running /\ h \in Registered
    /\ hosts' = [hosts EXCEPT ![h] = Null] /\ key' = key \ {h}
    /\ verified' = verified \ {h} /\ services' = {}
    /\ logs' = IF schema = 1 THEN {l \in logs : l.host_id # h} ELSE logs
    /\ UNCHANGED <<schema, code, domains, used>>

AddEntity ==
    /\ Running /\ UNCHANGED <<schema, code, hosts, key, verified, logs>>
    /\ \/ \E d \in Domains \ used : /\ code >= 2 /\ domains' = domains \cup {d}
                                    /\ used' = used \cup {d} /\ UNCHANGED services
       \/ \E e \in Services \ used : /\ code >= 3 /\ Registered # {}
                                     /\ services' = services \cup {e}
                                     /\ used' = used \cup {e} /\ UNCHANGED domains

\* An authentication that fails before any succeeded means that the setup is
\* still to be done, since there is a setup.
Outcome(h, check) ==
    IF check # "rejected" THEN check
    ELSE IF code >= 6 /\ h \notin verified THEN "pending_setup" ELSE "unreachable"

CheckHost(h, check) ==
    /\ Running /\ h \in Registered /\ Cardinality(logs) < MaxLogs
    /\ hosts' = [hosts EXCEPT ![h] = Outcome(h, check)]
    /\ logs' = logs \cup {IF code < 2 THEN HostLog(h, Outcome(h, check))
                          ELSE EntityLog("host", h, Outcome(h, check))}
    /\ verified' = IF code >= 6 /\ check \in {"healthy", "degraded"} THEN verified \cup {h}
                   ELSE verified
    /\ UNCHANGED <<schema, code, key, domains, services, used>>

CheckEntity ==
    /\ Running /\ Cardinality(logs) < MaxLogs
    /\ \/ \E d \in domains : \E status \in StatusOf("domain") :
            logs' = logs \cup {EntityLog("domain", d, status)}
       \/ \E e \in services : \E status \in StatusOf("service") :
            logs' = logs \cup {EntityLog("service", e, status)}
    /\ UNCHANGED <<schema, code, hosts, key, verified, domains, services, used>>

Next ==
    \/ MigrationRun \/ MigrationRevert \/ Deploy \/ Checkout \/ AddEntity \/ CheckEntity
    \/ \E h \in Hosts : \/ AddHost(h) \/ RemoveHost(h)
                        \/ \E check \in CheckStatus \cup {"rejected"} : CheckHost(h, check)

Spec == Init /\ [][Next]_vars

-----------------------------------------------------------------------------
(* Properties *)

\* Types of every variable.
TypeOK ==
    /\ schema \in 0..Latest /\ code \in 1..Latest /\ schema <= code
    /\ hosts \in [Hosts -> HostStatusEnum(Latest) \cup {Null}] /\ key \subseteq Hosts
    /\ verified \subseteq Hosts
    /\ domains \subseteq Domains /\ services \subseteq Services /\ used \subseteq Entities
    /\ Cardinality(logs) <= MaxLogs

\* Whatever versions wrote them, the rows have the columns, values and
\* references of the schema in force.
RowsFitSchema ==
    /\ \A h \in Registered : hosts[h] \in HostStatusEnum(schema)
    /\ logs \subseteq LogTable(schema)
    /\ schema < 2 => domains = {} /\ \A l \in logs : l.host_id \in Registered
    /\ schema < 3 => services = {}
    /\ schema < 6 => key = {} /\ verified = {}

ChecksOf == IF schema < 2 THEN {<<l.host_id, l.status>> : l \in logs}
            ELSE {<<l.entity_id, l.status>> : l \in OfHosts(logs)}

\* The checks of the hosts survive every run and every revert that does not
\* drop their table (Phase2 moves them between host_id and entity_id).
HostChecksAreKept ==
    [][schema # schema' /\ schema' > 0 => ChecksOf' = ChecksOf]_vars
=============================================================================
