--------------------------- MODULE Administration ---------------------------
(***************************************************************************)
(* What people do to the system rather than the system to the fleet:       *)
(* registering (Registration), connecting a cloud provider (CloudAccounts) *)
(* and migrating the schema (Migrations).  The three share no state, so    *)
(* that a behaviour of all is their behaviours interleaved, and each of    *)
(* their properties may be checked while the other two rest: part says     *)
(* which one moves.                                                        *)
(***************************************************************************)
EXTENDS Naturals, FiniteSets

CONSTANTS
    Null,
    Emails, Names, DEFAULT_ORGANIZATION_NAME, Handlers, MaxOrganizations,
    Tabs, Labels, MaxConnects,
    Hosts, Domains, Services, MaxLogs

VARIABLES
    part,
    organizations, users, pc, email, name, org, answered, claims,
    open, lossy, accounts, made, given, spc, number, copy, seen, shown, qpc, answer, form,
    schema, code, hosts, key, verified, domains, services, logs, used

registration == <<organizations, users, pc, email, name, org, answered, claims>>
providers ==
    <<open, lossy, accounts, made, given, spc, number, copy, seen, shown, qpc, answer, form>>
migrations == <<schema, code, hosts, key, verified, domains, services, logs, used>>
vars == <<part, registration, providers, migrations>>

Register == INSTANCE Registration
Provider == INSTANCE CloudAccounts WITH rows <- accounts
Migrate == INSTANCE Migrations

ASSUME ConstantsAssumption ==
    Register!ConstantsAssumption /\ Provider!ConstantsAssumption /\ Migrate!ConstantsAssumption

Init ==
    /\ part \in {"registration", "providers", "migrations"}
    /\ Register!Init /\ Provider!Init /\ Migrate!Init
    /\ part # "providers" => open = {} /\ ~ lossy

Next ==
    \/ part = "registration" /\ Register!Next /\ UNCHANGED <<part, providers, migrations>>
    \/ part = "providers" /\ Provider!Next /\ UNCHANGED <<part, registration, migrations>>
    \/ part = "migrations" /\ Migrate!Next /\ UNCHANGED <<part, registration, providers>>

Spec == Init /\ [][Next]_vars

-----------------------------------------------------------------------------
(* Properties *)

\* Registrations, however many overlap: one that was answered with 201 is stored
\* (auth.service.ts looks the e-mail up two statements before it inserts), no
\* organization has two users, and a token names the organization of its user.
AccountsAreSound ==
    /\ Register!TypeOK /\ Register!AnsweredIsStored
    /\ Register!OneUserPerOrganization /\ Register!ClaimsAreOfTheUser

\* One row per provider, however connects of two tabs overlap (the unique index
\* rejects the second insert); with one tab, a label was given together with
\* its key, and the card shows the stored row (invalidateQueries).
ConnectionIsSound ==
    /\ Provider!TypeOK /\ Provider!OneAccountPerProvider
    /\ Provider!KeyHasItsLabel /\ Provider!ShownIsStored

\* The rows have the types of the schema in force, after any runs and reverts
\* of the migrations.
RowsFitSchema == Migrate!TypeOK /\ Migrate!RowsFitSchema

\* Checks of hosts survive the moves between host_id and entity_id (Phase2).
HostChecksAreKept == Migrate!HostChecksAreKept
=============================================================================
