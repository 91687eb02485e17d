------------------------ MODULE AdministrationProofs ------------------------
(***************************************************************************)
(* Proofs about Administration: its three parts one after the other, each  *)
(* for every value of its constants, and then their composition.           *)
(***************************************************************************)
EXTENDS Administration, FiniteSetTheorems, TLAPS

-----------------------------------------------------------------------------
(* Registration *)

\* A handler that is to insert a user holds an e-mail and an organization that
\* exists, and one that is to insert an organization has its name.
HandlersAreReady ==
    \A h \in Handlers :
        /\ pc[h] = "organization" => name[h] \in Names
        /\ pc[h] = "user" => /\ email[h] \in Emails /\ org[h] \in Register!Ids
                             /\ organizations[org[h]] # Null

\* An organization has one user or is held by one handler, never both.
OrganizationsAreApart ==
    /\ \A h, g \in Handlers : h # g /\ pc[h] = "user" /\ pc[g] = "user" => org[h] # org[g]
    /\ \A h \in Handlers, e \in Emails :
            pc[h] = "user" /\ users[e] # Null => users[e] # org[h]
    /\ \A e \in Emails : users[e] # Null => organizations[users[e]] # Null

\* A token is of a user that exists.
ClaimsAreOfUsers == \A e \in Emails : claims[e] # Null => users[e] # Null

AccountsInv == AccountsAreSound /\ HandlersAreReady /\ OrganizationsAreApart /\ ClaimsAreOfUsers

LEMMA InitAccounts == Register!Init => AccountsInv
  BY ConstantsAssumption
  DEF Register!Init, AccountsInv, AccountsAreSound, HandlersAreReady, OrganizationsAreApart,
      ClaimsAreOfUsers, Register!TypeOK, Register!AnsweredIsStored,
      Register!OneUserPerOrganization, Register!ClaimsAreOfTheUser

LEMMA RegistrationStep ==
    ASSUME AccountsInv, Register!Next
    PROVE  AccountsInv'
<1>. USE ConstantsAssumption
     DEF AccountsInv, AccountsAreSound, HandlersAreReady, OrganizationsAreApart,
         ClaimsAreOfUsers, Register!TypeOK, Register!AnsweredIsStored,
         Register!OneUserPerOrganization, Register!ClaimsAreOfTheUser, Register!Claims,
         Register!tables, Register!locals, Register!ConstantsAssumption
<1>1. ASSUME NEW h \in Handlers, Register!CreateOrganization(h) PROVE AccountsInv'
  BY <1>1 DEF Register!CreateOrganization, Register!Free, Register!Return
<1>2. ASSUME NEW h \in Handlers, Register!CreateUser(h) PROVE AccountsInv'
  BY <1>2 DEF Register!CreateUser, Register!Return, Register!EmailTaken, Register!NewUser
<1>3. ASSUME NEW h \in Handlers, Register!Throws(h) PROVE AccountsInv'
  BY <1>3 DEF Register!Throws, Register!Return
<1>4. ASSUME NEW h \in Handlers, Register!StartSeed(h) PROVE AccountsInv'
  BY <1>4 DEF Register!StartSeed
<1>5. ASSUME NEW h \in Handlers, NEW e \in Emails, NEW n \in Names, Register!StartRegister(h, e, n)
      PROVE  AccountsInv'
  BY <1>5 DEF Register!StartRegister
<1>6. ASSUME NEW e \in Emails, Register!IssueToken(e) PROVE AccountsInv'
  BY <1>6 DEF Register!IssueToken, Register!OrganizationOf
<1>. QED BY <1>1, <1>2, <1>3, <1>4, <1>5, <1>6 DEF Register!Next, Register!Register

-----------------------------------------------------------------------------
(* Cloud accounts *)

\* Every set of rows somebody holds is one of rows.
RowSets ==
    /\ copy \in [Tabs -> SUBSET Provider!CloudAccount]
    /\ seen \in [Tabs -> SUBSET Provider!CloudAccount]
    /\ shown \in [Tabs -> SUBSET Provider!CloudAccount]
    /\ answer \in [Tabs -> SUBSET Provider!CloudAccount]

\* The unique index as the proof uses it.
OneRow == \A row, other \in accounts : row = other

\* A connect request has a number that was given out, and its label.
ConnectsAreNumbered ==
    /\ \A t \in Tabs :
        /\ spc[t] \in {"connect", "select", "write"} => number[t] # Null
        /\ number[t] # Null => number[t] <= made /\ given[number[t]] \in Labels
    /\ \A row \in accounts : row.key <= made

\* With one tab, nobody changes a row between its save's SELECT and UPDATE.
SeenIsStored ==
    \A t \in open : spc[t] = "write" => seen[t] \subseteq accounts

\* With one tab whose responses arrive, a finished query has seen the last
\* write: a write ends with a new query.
QueriesAreFresh ==
    \A t \in open : spc[t] # "done" =>
        /\ qpc[t] = "idle" => shown[t] = accounts
        /\ qpc[t] = "read" => answer[t] = accounts

Single == \A t, u \in open : t = u

ConnectionInv ==
    /\ Provider!TypeOK /\ RowSets /\ OneRow /\ ConnectsAreNumbered
    /\ Single => SeenIsStored /\ \A row \in accounts : row.label = given[row.key]
    /\ Single /\ ~ lossy => QueriesAreFresh

\* The operators of FiniteSets reach an instance under a name of its own.
LEMMA ProviderSets ==
    ASSUME NEW S
    PROVE  /\ Provider!Cardinality(S) = Cardinality(S)
           /\ Provider!IsFiniteSet(S) <=> IsFiniteSet(S)
<1>1. Provider!Cardinality(S) = Cardinality(S)
  BY DEF Provider!Cardinality, Cardinality
<1>2. Provider!IsFiniteSet(S) <=> IsFiniteSet(S)
  BY DEF Provider!IsFiniteSet, IsFiniteSet
<1>. QED BY <1>1, <1>2

LEMMA InitConnection == Provider!Init => ConnectionInv
<1>. SUFFICES ASSUME Provider!Init PROVE ConnectionInv
  OBVIOUS
<1>1. /\ accounts = {} /\ RowSets
      /\ spc = [t \in Tabs |-> "idle"] /\ qpc = [t \in Tabs |-> "sent"]
      /\ number = [t \in Tabs |-> Null] /\ open \subseteq Tabs
  BY DEF Provider!Init, RowSets
<1>2. Provider!TypeOK
  BY <1>1, ConstantsAssumption DEF Provider!Init, Provider!TypeOK, Provider!ConstantsAssumption
<1>. QED
  BY <1>1, <1>2
  DEF ConnectionInv, OneRow, ConnectsAreNumbered, SeenIsStored, QueriesAreFresh

LEMMA ConnectionImplies == ConnectionInv => ConnectionIsSound
<1>. SUFFICES ASSUME ConnectionInv PROVE ConnectionIsSound
  OBVIOUS
<1>1. Provider!OneAccountPerProvider
  <2>1. accounts = {} \/ \E row : accounts = {row}
    BY DEF ConnectionInv, OneRow
  <2>2. Cardinality(accounts) \in {0, 1}
    BY <2>1, FS_EmptySet, FS_Singleton
  <2>. QED BY <2>2, ProviderSets DEF Provider!OneAccountPerProvider
<1>2. Provider!OneTab => Single
  <2>1. IsFiniteSet(open)
    BY ConstantsAssumption, FS_Subset, ProviderSets
    DEF ConnectionInv, Provider!TypeOK, Provider!ConstantsAssumption
  <2>. QED BY <2>1, FS_Singleton, ProviderSets DEF Provider!OneTab, Single
<1>. QED
  BY <1>1, <1>2
  DEF ConnectionInv, ConnectionIsSound, Provider!KeyHasItsLabel, Provider!ShownIsStored,
      QueriesAreFresh

\* The statements of the service that look or refuse, and the page.
LEMMA LooksStep ==
    ASSUME ConnectionInv, NEW t \in open,
           \/ Provider!ConnectFind(t) \/ Provider!SaveSelects(t) \/ Provider!DisconnectFind(t)
           \/ Provider!ToggleForm(t) \/ Provider!Disconnect(t) \/ Provider!QueryReads(t)
           \/ Provider!QueryEnds(t) \/ Provider!Reopen(t)
    PROVE  ConnectionInv'
<1>. USE DEF ConnectionInv, Provider!TypeOK, RowSets, OneRow, ConnectsAreNumbered, SeenIsStored,
         QueriesAreFresh, Single, Provider!Go, Provider!server, Provider!page, Provider!WithId
<1>1. CASE Provider!ConnectFind(t)
  BY <1>1 DEF Provider!ConnectFind
<1>2. CASE Provider!SaveSelects(t)
  BY <1>2 DEF Provider!SaveSelects
<1>3. CASE Provider!DisconnectFind(t)
  BY <1>3 DEF Provider!DisconnectFind
<1>4. CASE Provider!ToggleForm(t)
  BY <1>4 DEF Provider!ToggleForm
<1>5. CASE Provider!Disconnect(t)
  BY <1>5 DEF Provider!Disconnect
<1>6. CASE Provider!QueryReads(t)
  BY <1>6 DEF Provider!QueryReads
<1>7. CASE Provider!QueryEnds(t)
  BY <1>7 DEF Provider!QueryEnds
<1>8. CASE Provider!Reopen(t)
  BY <1>8 DEF Provider!Reopen
<1>. QED BY <1>1, <1>2, <1>3, <1>4, <1>5, <1>6, <1>7, <1>8

\* What a save is about to write is a row, of the label its number was given.
LEMMA SavedIsARow ==
    ASSUME ConnectionInv, NEW t \in Tabs, spc[t] = "write"
    PROVE  /\ Provider!Saved(t) \in Provider!CloudAccount
           /\ Provider!Saved(t).key = number[t]
           /\ Provider!Saved(t).label = given[number[t]]
           /\ number[t] <= made
<1>1. number[t] \in Provider!Numbers /\ given[number[t]] \in Labels /\ number[t] <= made
  BY DEF ConnectionInv, Provider!TypeOK, ConnectsAreNumbered
<1>2. ASSUME copy[t] # {}
      PROVE  (CHOOSE row \in copy[t] : TRUE).id \in Provider!Numbers
  BY <1>2 DEF ConnectionInv, RowSets, Provider!CloudAccount
<1>. QED BY <1>1, <1>2 DEF Provider!Saved, Provider!Row, Provider!CloudAccount

LEMMA WritesStep ==
    ASSUME ConnectionInv, NEW t \in open,
           \/ Provider!SaveInserts(t) \/ Provider!SaveUpdates(t) \/ Provider!Remove(t)
    PROVE  ConnectionInv'
<1>. USE DEF ConnectionInv, Provider!TypeOK, RowSets, OneRow, ConnectsAreNumbered, SeenIsStored,
         QueriesAreFresh, Single, Provider!Go, Provider!server, Provider!page
<1>1. CASE Provider!SaveInserts(t)
  BY <1>1, SavedIsARow DEF Provider!SaveInserts, Provider!Taken
<1>2. CASE Provider!SaveUpdates(t)
  <2>. DEFINE saved == Provider!Saved(t)
              New(row, old) == IF row.id = old.id THEN Provider!Updated(row, saved, old) ELSE row
  <2>1. PICK old \in seen[t] : accounts' = {New(row, old) : row \in accounts}
    BY <1>2 DEF Provider!SaveUpdates
  <2>2. /\ spc[t] = "write" /\ spc' = [spc EXCEPT ![t] = "done"]
        /\ UNCHANGED <<open, lossy, made, given, number, copy, seen, shown, qpc, answer, form>>
    BY <1>2 DEF Provider!SaveUpdates
  <2>3. /\ saved \in Provider!CloudAccount /\ saved.key = number[t] /\ number[t] <= made
        /\ saved.label = given[number[t]]
    BY <2>2, SavedIsARow
  <2>4. old \in Provider!CloudAccount
    BY <2>1
  <2>5. ASSUME NEW row \in accounts
        PROVE  /\ New(row, old) \in Provider!CloudAccount
               /\ New(row, old).key \in {row.key, saved.key}
               /\ Single => New(row, old).label = given[New(row, old).key]
    <3>1. row \in Provider!CloudAccount
      OBVIOUS
    <3>2. CASE row.id = old.id
      <4>1. New(row, old) = [id |-> row.id, key |-> saved.key,
                label |-> IF saved.label = old.label THEN row.label ELSE saved.label]
        BY <3>1, <3>2 DEF Provider!Updated, Provider!CloudAccount
      <4>2. Single => row = old
        BY <2>2, <2>1
      <4>. QED BY <2>3, <2>4, <3>1, <4>1, <4>2 DEF Provider!CloudAccount
    <3>3. CASE row.id # old.id
      BY <3>1, <3>3
    <3>. QED BY <3>2, <3>3
  <2>6. accounts' \subseteq Provider!CloudAccount /\ OneRow'
    BY <2>1, <2>5
  <2>7. ConnectsAreNumbered'
    BY <2>1, <2>2, <2>3, <2>5
  <2>8. Single' => \A row \in accounts' : row.label = given'[row.key]
    BY <2>1, <2>2, <2>5
  <2>9. (Single => SeenIsStored)' /\ (Single /\ ~ lossy => QueriesAreFresh)'
    BY <2>2
  <2>. QED BY <2>2, <2>6, <2>7, <2>8, <2>9
<1>3. CASE Provider!Remove(t)
  BY <1>3 DEF Provider!Remove
<1>. QED BY <1>1, <1>2, <1>3

LEMMA MutationsStep ==
    ASSUME ConnectionInv, NEW t \in open,
           \/ Provider!Succeeds(t) \/ Provider!Fails(t)
           \/ \E label \in Labels : Provider!Connect(t, label)
    PROVE  ConnectionInv'
<1>. USE DEF ConnectionInv, Provider!TypeOK, RowSets, OneRow, ConnectsAreNumbered, SeenIsStored,
         QueriesAreFresh, Single, Provider!Go, Provider!server, Provider!page
<1>1. CASE Provider!Succeeds(t)
  BY <1>1 DEF Provider!Succeeds, Provider!Settle, Provider!Invalidate
<1>2. CASE Provider!Fails(t)
  BY <1>2 DEF Provider!Fails, Provider!Settle
<1>3. ASSUME NEW label \in Labels, Provider!Connect(t, label) PROVE ConnectionInv'
  <2>1. /\ spc[t] = "idle" /\ spc' = [spc EXCEPT ![t] = "connect"]
        /\ made' = made + 1 /\ made' \in Provider!Numbers
        /\ number' = [number EXCEPT ![t] = made'] /\ given' = [given EXCEPT ![made'] = label]
        /\ UNCHANGED <<open, lossy, accounts, copy, seen, shown, qpc, answer, form>>
    BY <1>3, ConstantsAssumption DEF Provider!Connect, Provider!ConstantsAssumption, Provider!Numbers
  <2>2. Provider!TypeOK'
    <3>1. made' \in 0..MaxConnects
      BY <2>1 DEF Provider!Numbers
    <3>2. given' \in [Provider!Numbers -> Labels \cup {Null}]
      BY <2>1
    <3>3. number' \in [Tabs -> Provider!Numbers \cup {Null}]
      BY <2>1
    <3>4. spc' \in [Tabs -> {"idle", "connect", "select", "write", "disconnect", "remove",
                            "done", "rejected"}]
      BY <2>1
    <3>5. UNCHANGED <<open, lossy, accounts, copy, seen, shown, qpc, answer, form>>
      BY <2>1
    <3>6. /\ open' \subseteq Tabs /\ lossy' \in BOOLEAN /\ accounts' \subseteq Provider!CloudAccount
          /\ qpc' \in [Tabs -> {"idle", "sent", "read"}] /\ form' \in [Tabs -> BOOLEAN]
          /\ \A u \in Tabs : copy'[u] \cup seen'[u] \cup shown'[u] \cup answer'[u]
                                \subseteq Provider!CloudAccount
      BY <3>5
    <3>. QED BY <3>1, <3>2, <3>3, <3>4, <3>6
  <2>3. ConnectsAreNumbered'
    <3>1. ASSUME NEW u \in Tabs, number'[u] # Null
          PROVE  number'[u] <= made' /\ given'[number'[u]] \in Labels
      BY <2>1, <3>1 DEF Provider!Numbers
    <3>2. ASSUME NEW u \in Tabs, spc'[u] \in {"connect", "select", "write"}
          PROVE  number'[u] # Null
      <4>1. u # t => number'[u] = number[u] /\ spc'[u] = spc[u]
        BY <2>1
      <4>2. number'[t] = made'
        BY <2>1
      <4>. QED
        BY <2>1, <3>2, <4>1, <4>2, ConstantsAssumption
        DEF Provider!ConstantsAssumption, Provider!Numbers
    <3>3. \A row \in accounts' : row.key <= made'
      BY <2>1 DEF Provider!CloudAccount, Provider!Numbers
    <3>. QED BY <3>1, <3>2, <3>3
  <2>4. Single => \A row \in accounts' : row.label = given'[row.key]
    BY <2>1 DEF Provider!CloudAccount, Provider!Numbers
  <2>5. (Single => SeenIsStored)' /\ (Single /\ ~ lossy => QueriesAreFresh)'
    BY <2>1
  <2>. QED BY <2>1, <2>2, <2>3, <2>4, <2>5
<1>. QED BY <1>1, <1>2, <1>3

LEMMA ConnectionStep == ConnectionInv /\ Provider!Next => ConnectionInv'
<1>1. ConnectionInv => open \subseteq Tabs
  BY DEF ConnectionInv, Provider!TypeOK
<1>. QED BY <1>1, LooksStep, WritesStep, MutationsStep DEF Provider!Next

-----------------------------------------------------------------------------
(* Migrations *)

\* The enums of the schema only grow from version to version.
LEMMA EnumsGrow ==
    ASSUME NEW s \in Nat, NEW r \in Nat, s <= r
    PROVE  /\ Migrate!HostStatusEnum(s) \subseteq Migrate!HostStatusEnum(r)
           /\ Migrate!EntityTypeEnum(s) \subseteq Migrate!EntityTypeEnum(r)
  BY DEF Migrate!HostStatusEnum, Migrate!EntityTypeEnum

\* A log of one host, and a log of an entity.
LEMMA HostLogs ==
    ASSUME NEW s \in Nat, s < 2, NEW l
    PROVE  l \in Migrate!LogTable(s)
              <=> \E h \in Hosts, status \in Migrate!CheckStatus : l = Migrate!HostLog(h, status)
  BY DEF Migrate!LogTable

LEMMA EntityLogs ==
    ASSUME NEW s \in Nat, s >= 2, NEW l
    PROVE  l \in Migrate!LogTable(s)
              <=> \E type \in Migrate!EntityTypeEnum(s) :
                      \E e \in Migrate!Entities, status \in Migrate!StatusOf(type) :
                          l = Migrate!EntityLog(type, e, status)
  BY DEF Migrate!LogTable

LEMMA LogFields ==
    /\ \A h, status : /\ Migrate!HostLog(h, status).host_id = h
                      /\ Migrate!HostLog(h, status).status = status
    /\ \A type, e, status : /\ Migrate!EntityLog(type, e, status).entity_type = type
                            /\ Migrate!EntityLog(type, e, status).entity_id = e
                            /\ Migrate!EntityLog(type, e, status).status = status
  BY DEF Migrate!HostLog, Migrate!EntityLog

MigrationsInv == RowsFitSchema /\ IsFiniteSet(logs)

LEMMA MigrateSets ==
    ASSUME NEW S
    PROVE  Migrate!Cardinality(S) = Cardinality(S)
  BY DEF Migrate!Cardinality, Cardinality

LEMMA InitMigrations == Migrate!Init => MigrationsInv
  BY FS_EmptySet, MigrateSets, ConstantsAssumption
  DEF Migrate!Init, MigrationsInv, RowsFitSchema, Migrate!TypeOK, Migrate!RowsFitSchema,
      Migrate!Latest, Migrate!Registered, Migrate!ConstantsAssumption

\* A conversion of every row to another makes no rows.
LEMMA ConvertedLogs ==
    ASSUME NEW S, IsFiniteSet(S), NEW f, NEW T, T = {f[x] : x \in S}, f \in [S -> T]
    PROVE  IsFiniteSet(T) /\ Cardinality(T) <= Cardinality(S)
<1>1. f \in Surjection(S, T)
  BY DEF Surjection
<1>. QED BY <1>1, FS_Surjection

LEMMA MigrationRunStep ==
    ASSUME MigrationsInv, Migrate!MigrationRun
    PROVE  MigrationsInv'
<1>. USE DEF MigrationsInv, RowsFitSchema, Migrate!TypeOK, Migrate!RowsFitSchema
<1>1. schema' = code /\ schema < code /\ schema \in Nat /\ code \in Nat /\ schema' \in 0..Migrate!Latest
      /\ UNCHANGED <<code, hosts, key, verified, domains, services, used>>
  BY DEF Migrate!MigrationRun, Migrate!Latest
<1>2. Migrate!HostStatusEnum(schema) \subseteq Migrate!HostStatusEnum(schema')
  BY <1>1, EnumsGrow
<1>3. /\ logs' \subseteq Migrate!LogTable(schema')
      /\ IsFiniteSet(logs') /\ Cardinality(logs') <= Cardinality(logs)
      /\ schema' < 2 => logs' = logs
  <2>1. CASE schema < 2 /\ code >= 2
    <3>. DEFINE f == [l \in logs |-> Migrate!EntityLog("host", l.host_id, l.status)]
    <3>1. logs' = {f[l] : l \in logs}
      BY <2>1 DEF Migrate!MigrationRun, Migrate!LogsToEntities
    <3>2. IsFiniteSet(logs') /\ Cardinality(logs') <= Cardinality(logs)
      <4>1. f \in [logs -> logs']
        BY <3>1
      <4>. QED BY <3>1, <4>1, ConvertedLogs
    <3>3. ASSUME NEW l \in logs PROVE f[l] \in Migrate!LogTable(schema')
      <4>1. PICK h \in Hosts, status \in Migrate!CheckStatus : l = Migrate!HostLog(h, status)
        BY <1>1, <2>1, HostLogs
      <4>2. f[l] = Migrate!EntityLog("host", h, status)
        BY <4>1, LogFields
      <4>3. /\ "host" \in Migrate!EntityTypeEnum(schema') /\ h \in Migrate!Entities
            /\ status \in Migrate!StatusOf("host")
        BY DEF Migrate!EntityTypeEnum, Migrate!Entities, Migrate!StatusOf
      <4>. QED BY <1>1, <2>1, <4>2, <4>3, EntityLogs
    <3>. QED BY <1>1, <2>1, <3>1, <3>2, <3>3
  <2>2. CASE ~ (schema < 2 /\ code >= 2)
    <3>1. logs' = logs
      BY <2>2 DEF Migrate!MigrationRun
    <3>2. Migrate!LogTable(schema) \subseteq Migrate!LogTable(schema')
      BY <1>1, <2>2, EnumsGrow DEF Migrate!LogTable
    <3>3. Cardinality(logs) <= Cardinality(logs)
      BY FS_CardinalityType
    <3>. QED BY <1>1, <3>1, <3>2, <3>3
  <2>. QED BY <2>1, <2>2
<1>4. Migrate!Cardinality(logs') <= MaxLogs
  BY <1>3, FS_CardinalityType, MigrateSets, ConstantsAssumption DEF Migrate!ConstantsAssumption
<1>. QED
  BY <1>1, <1>2, <1>3, <1>4 DEF Migrate!Registered

\* A revert converts what is left, or is refused: each case of Reverts is what
\* the rows of the older schema need.
LEMMA MigrationRevertStep ==
    ASSUME MigrationsInv, Migrate!MigrationRevert
    PROVE  MigrationsInv'
<1>. USE DEF MigrationsInv, RowsFitSchema, Migrate!TypeOK, Migrate!RowsFitSchema
<1>. DEFINE s == schema
<1>1. s \in 1..7 /\ schema' = s - 1 /\ code \in 1..7 /\ Migrate!Reverts
      /\ UNCHANGED <<code, used>>
  BY DEF Migrate!MigrationRevert, Migrate!Latest
<1>2. /\ s <= 6 => key' = {} /\ verified' = {}
      /\ s > 6 => UNCHANGED <<key, verified>>
      /\ s <= 3 => services' = {}
      /\ s > 3 => UNCHANGED services
      /\ s <= 2 => domains' = {}
      /\ s > 2 => UNCHANGED domains
      /\ s = 1 => hosts' = [h \in Hosts |-> Null]
      /\ s # 1 => UNCHANGED hosts
      /\ s = 1 => logs' = {}
      /\ s = 2 => logs' = Migrate!LogsToHosts(logs)
      /\ s > 2 => UNCHANGED logs
  BY <1>1 DEF Migrate!MigrationRevert
<1>3. \A h \in Hosts : hosts'[h] # Null => hosts'[h] \in Migrate!HostStatusEnum(schema')
  <2>1. CASE s = 1
    BY <1>2, <2>1
  <2>2. CASE s = 6
    BY <1>1, <1>2, <2>2 DEF Migrate!Reverts, Migrate!CastsToEnum, Migrate!Registered
  <2>3. CASE s \notin {1, 6}
    BY <1>1, <1>2, <2>3 DEF Migrate!HostStatusEnum, Migrate!Registered
  <2>. QED BY <2>1, <2>2, <2>3
<1>4. /\ logs' \subseteq Migrate!LogTable(schema')
      /\ IsFiniteSet(logs') /\ Cardinality(logs') <= Cardinality(logs)
      /\ schema' < 2 => \A l \in logs' : l.host_id \in Migrate!Registered'
  <2>1. CASE s = 1
    <3>1. Cardinality(logs) \in Nat
      BY FS_CardinalityType
    <3>. QED BY <1>1, <1>2, <2>1, <3>1, FS_EmptySet
  <2>2. CASE s = 2
    <3>. DEFINE kept == Migrate!OfHosts(logs)
                f == [l \in kept |-> Migrate!HostLog(l.entity_id, l.status)]
    <3>1. logs' = {f[l] : l \in kept}
      BY <1>2, <2>2 DEF Migrate!LogsToHosts
    <3>2. kept \subseteq logs
      BY DEF Migrate!OfHosts
    <3>3. IsFiniteSet(kept) /\ Cardinality(kept) <= Cardinality(logs)
      BY <3>2, FS_Subset
    <3>4. IsFiniteSet(logs') /\ Cardinality(logs') <= Cardinality(kept)
      <4>1. f \in [kept -> logs']
        BY <3>1
      <4>. QED BY <3>1, <3>3, <4>1, ConvertedLogs
    <3>5. Cardinality(logs') <= Cardinality(logs)
      BY <3>3, <3>4, FS_CardinalityType
    <3>6. ASSUME NEW l \in kept
          PROVE  f[l] \in Migrate!LogTable(1) /\ f[l].host_id \in Migrate!Registered
      <4>1. l.entity_id \in Migrate!Registered /\ l.status \in Migrate!CheckStatus
        BY <1>1, <2>2, <3>2
        DEF Migrate!Reverts, Migrate!EveryLogHasItsHost, Migrate!CastsToEnum
      <4>2. l.entity_id \in Hosts
        BY <4>1 DEF Migrate!Registered
      <4>. QED BY <4>1, <4>2, HostLogs, LogFields
    <3>7. Migrate!Registered' = Migrate!Registered
      BY <1>2, <2>2 DEF Migrate!Registered
    <3>. QED BY <1>1, <2>2, <3>1, <3>4, <3>5, <3>6, <3>7
  <2>3. CASE s > 2
    <3>1. UNCHANGED logs
      BY <1>2, <2>3
    <3>2. ASSUME NEW l \in logs PROVE l \in Migrate!LogTable(schema')
      <4>1. PICK type \in Migrate!EntityTypeEnum(s) :
                \E e \in Migrate!Entities, status \in Migrate!StatusOf(type) :
                    l = Migrate!EntityLog(type, e, status)
        BY <1>1, <2>3, EntityLogs
      <4>2. l.entity_type = type
        BY <4>1, LogFields
      <4>3. type \in Migrate!EntityTypeEnum(schema')
        <5>1. CASE s = 3
          BY <1>1, <4>2, <5>1 DEF Migrate!Reverts, Migrate!CastsToEnum, Migrate!Types
        <5>2. CASE s # 3
          BY <1>1, <2>3, <5>2 DEF Migrate!EntityTypeEnum
        <5>. QED BY <5>1, <5>2
      <4>. QED BY <1>1, <2>3, <4>1, <4>3, EntityLogs
    <3>. QED BY <1>1, <2>3, <3>1, <3>2, FS_CardinalityType
  <2>. QED BY <1>1, <2>1, <2>2, <2>3
<1>5. Migrate!Cardinality(logs') <= MaxLogs
  BY <1>4, FS_CardinalityType, MigrateSets, ConstantsAssumption DEF Migrate!ConstantsAssumption
<1>6. Migrate!TypeOK'
  <2>1. hosts' \in [Hosts -> Migrate!HostStatusEnum(Migrate!Latest) \cup {Null}]
    BY <1>2
  <2>. QED BY <1>1, <1>2, <1>5, <2>1 DEF Migrate!Latest
<1>. QED
  BY <1>1, <1>2, <1>3, <1>4, <1>6 DEF Migrate!Registered

\* A log more, as long as there is room for one.
LEMMA OneMoreLog ==
    ASSUME MigrationsInv, Migrate!Cardinality(logs) < MaxLogs, NEW l, logs' = logs \cup {l}
    PROVE  IsFiniteSet(logs') /\ Migrate!Cardinality(logs') <= MaxLogs
<1>1. IsFiniteSet(logs) /\ Cardinality(logs) \in Nat /\ Cardinality(logs) < MaxLogs
  BY MigrateSets, FS_CardinalityType DEF MigrationsInv
<1>2. IsFiniteSet(logs') /\ Cardinality(logs') <= Cardinality(logs) + 1
  BY <1>1, FS_AddElement
<1>3. Cardinality(logs') \in Nat /\ MaxLogs \in Nat
  BY <1>2, FS_CardinalityType, ConstantsAssumption DEF Migrate!ConstantsAssumption
<1>. QED BY <1>1, <1>2, <1>3, MigrateSets

LEMMA VersionsStep ==
    ASSUME MigrationsInv, Migrate!Deploy \/ Migrate!Checkout
    PROVE  MigrationsInv'
  BY DEF MigrationsInv, RowsFitSchema, Migrate!TypeOK, Migrate!RowsFitSchema, Migrate!Deploy,
         Migrate!Checkout, Migrate!rows, Migrate!Latest, Migrate!Registered

LEMMA HostsStep ==
    ASSUME MigrationsInv, NEW h \in Hosts, Migrate!AddHost(h) \/ Migrate!RemoveHost(h)
    PROVE  MigrationsInv'
<1>. USE DEF MigrationsInv, RowsFitSchema, Migrate!TypeOK, Migrate!RowsFitSchema,
         Migrate!Registered, Migrate!Running
<1>1. CASE Migrate!AddHost(h)
  <2>1. h \in Migrate!Entities
    BY DEF Migrate!Entities
  <2>. DEFINE status == IF code >= 6 THEN "pending_setup" ELSE "unknown"
  <2>2. /\ hosts' = [hosts EXCEPT ![h] = status]
        /\ key' \subseteq key \cup {h} /\ (code < 6 => key' = key)
        /\ schema = code /\ code \in 1..7 /\ used' = used \cup {h}
        /\ UNCHANGED <<schema, code, verified, domains, services, logs>>
    BY <1>1 DEF Migrate!AddHost, Migrate!Latest
  <2>3. /\ status # Null
        /\ status \in Migrate!HostStatusEnum(schema)
        /\ status \in Migrate!HostStatusEnum(Migrate!Latest)
    BY <2>2, ConstantsAssumption
    DEF Migrate!HostStatusEnum, Migrate!Latest, Migrate!ConstantsAssumption
  <2>4. Migrate!TypeOK'
    BY <2>1, <2>2, <2>3
  <2>5. \A g \in Hosts : hosts'[g] # Null => hosts'[g] \in Migrate!HostStatusEnum(schema')
    BY <2>2, <2>3
  <2>6. schema' < 2 => domains' = {} /\ \A l \in logs' : l.host_id \in Migrate!Registered'
    BY <2>2, <2>3
  <2>. QED BY <2>2, <2>4, <2>5, <2>6
<1>2. CASE Migrate!RemoveHost(h)
  <2>1. logs' \subseteq logs
    BY <1>2 DEF Migrate!RemoveHost
  <2>2. IsFiniteSet(logs') /\ Migrate!Cardinality(logs') <= MaxLogs
    <3>1. /\ IsFiniteSet(logs') /\ Cardinality(logs') <= Cardinality(logs)
          /\ Cardinality(logs') \in Nat /\ Cardinality(logs) \in Nat
      BY <2>1, FS_Subset, FS_CardinalityType
    <3>. QED BY <3>1, MigrateSets, ConstantsAssumption DEF Migrate!ConstantsAssumption
  <2>3. schema' < 2 => \A l \in logs' : l.host_id \in Migrate!Registered'
    BY <1>2 DEF Migrate!RemoveHost, Migrate!Latest
  <2>. QED BY <1>2, <2>1, <2>2, <2>3 DEF Migrate!RemoveHost
<1>. QED BY <1>1, <1>2

LEMMA EntitiesStep ==
    ASSUME MigrationsInv, Migrate!AddEntity
    PROVE  MigrationsInv'
  BY DEF MigrationsInv, RowsFitSchema, Migrate!TypeOK, Migrate!RowsFitSchema,
         Migrate!Registered, Migrate!Running, Migrate!AddEntity, Migrate!Entities

\* A check writes the statuses its version knows, in the columns it has.
LEMMA ChecksStep ==
    ASSUME MigrationsInv,
           \/ Migrate!CheckEntity
           \/ \E h \in Hosts, check \in Migrate!CheckStatus \cup {"rejected"} :
                    Migrate!CheckHost(h, check)
    PROVE  MigrationsInv'
<1>. USE DEF MigrationsInv, RowsFitSchema, Migrate!TypeOK, Migrate!RowsFitSchema,
         Migrate!Registered, Migrate!Running
<1>1. ASSUME NEW h \in Hosts, NEW check \in Migrate!CheckStatus \cup {"rejected"},
             Migrate!CheckHost(h, check)
      PROVE  MigrationsInv'
  <2>. DEFINE status == Migrate!Outcome(h, check)
              l == IF code < 2 THEN Migrate!HostLog(h, status) ELSE Migrate!EntityLog("host", h, status)
  <2>1. /\ schema = code /\ code \in 1..7 /\ hosts[h] # Null
        /\ hosts' = [hosts EXCEPT ![h] = status] /\ logs' = logs \cup {l}
        /\ Migrate!Cardinality(logs) < MaxLogs
        /\ verified' \in {verified, verified \cup {h}} /\ (code < 6 => verified' = verified)
        /\ UNCHANGED <<schema, code, key, domains, services, used>>
    BY <1>1 DEF Migrate!CheckHost, Migrate!Latest
  <2>2. /\ status \in Migrate!CheckStatus \cup (IF code >= 6 THEN {"pending_setup"} ELSE {})
        /\ status \in Migrate!HostStatusEnum(code)
    BY DEF Migrate!Outcome, Migrate!HostStatusEnum, Migrate!CheckStatus
  <2>3. l \in Migrate!LogTable(schema) /\ (schema < 2 => l.host_id = h)
    <3>1. CASE code < 2
      BY <2>1, <2>2, <3>1, HostLogs, LogFields
    <3>2. CASE code >= 2
      <4>1. /\ "host" \in Migrate!EntityTypeEnum(schema) /\ h \in Migrate!Entities
            /\ status \in Migrate!StatusOf("host")
        BY <2>2 DEF Migrate!EntityTypeEnum, Migrate!Entities, Migrate!StatusOf
      <4>. QED BY <2>1, <3>2, <4>1, EntityLogs
    <3>. QED BY <2>1, <3>1, <3>2
  <2>4. status \in Migrate!HostStatusEnum(Migrate!Latest)
    BY <2>1, <2>2, EnumsGrow DEF Migrate!Latest
  <2>9. status # Null
    BY <2>4, ConstantsAssumption DEF Migrate!ConstantsAssumption
  <2>5. IsFiniteSet(logs') /\ Migrate!Cardinality(logs') <= MaxLogs
    BY <2>1, OneMoreLog
  <2>6. Migrate!TypeOK'
    BY <2>1, <2>4, <2>5
  <2>7. \A g \in Hosts : hosts'[g] # Null => hosts'[g] \in Migrate!HostStatusEnum(schema')
    BY <2>1, <2>2
  <2>8. schema' < 2 => domains' = {} /\ \A m \in logs' : m.host_id \in Migrate!Registered'
    BY <2>1, <2>2, <2>3, <2>9
  <2>. QED BY <2>1, <2>3, <2>5, <2>6, <2>7, <2>8
<1>2. CASE Migrate!CheckEntity
  <2>1. PICK type \in {"domain", "service"} : \E e \in Migrate!Entities :
            \E status \in Migrate!StatusOf(type) :
                /\ logs' = logs \cup {Migrate!EntityLog(type, e, status)}
                /\ e \in (IF type = "domain" THEN domains ELSE services)
    BY <1>2 DEF Migrate!CheckEntity, Migrate!Entities
  <2>2. PICK e \in Migrate!Entities, status \in Migrate!StatusOf(type) :
                /\ logs' = logs \cup {Migrate!EntityLog(type, e, status)}
                /\ e \in (IF type = "domain" THEN domains ELSE services)
    BY <2>1
  <2>3. /\ schema >= 2 /\ schema \in Nat /\ Migrate!Cardinality(logs) < MaxLogs
        /\ UNCHANGED <<schema, code, hosts, key, verified, domains, services, used>>
    BY <1>2, <2>2 DEF Migrate!CheckEntity
  <2>4. Migrate!EntityLog(type, e, status) \in Migrate!LogTable(schema)
    <3>1. type \in Migrate!EntityTypeEnum(schema)
      BY <2>2, <2>3 DEF Migrate!EntityTypeEnum
    <3>. QED BY <2>3, <3>1, EntityLogs
  <2>5. IsFiniteSet(logs') /\ Migrate!Cardinality(logs') <= MaxLogs
    BY <2>2, <2>3, OneMoreLog
  <2>. QED BY <2>2, <2>3, <2>4, <2>5
<1>. QED BY <1>1, <1>2

LEMMA MigrationsStep == MigrationsInv /\ Migrate!Next => MigrationsInv'
  BY MigrationRunStep, MigrationRevertStep, VersionsStep, HostsStep, EntitiesStep, ChecksStep
  DEF Migrate!Next

-----------------------------------------------------------------------------
(* The three together: one of them moves, and the others keep their state *)

AdministrationInv == AccountsInv /\ ConnectionInv /\ MigrationsInv

LEMMA AccountsRest == AccountsInv /\ UNCHANGED registration => AccountsInv'
  BY DEF registration, AccountsInv, AccountsAreSound, HandlersAreReady, OrganizationsAreApart,
         ClaimsAreOfUsers, Register!TypeOK, Register!AnsweredIsStored,
         Register!OneUserPerOrganization, Register!ClaimsAreOfTheUser, Register!Claims

LEMMA ConnectionRests == ConnectionInv /\ UNCHANGED providers => ConnectionInv'
  BY DEF providers, ConnectionInv, Provider!TypeOK, RowSets, OneRow, ConnectsAreNumbered,
         SeenIsStored, QueriesAreFresh, Single

LEMMA MigrationsRest == MigrationsInv /\ UNCHANGED migrations => MigrationsInv'
  BY DEF migrations, MigrationsInv, RowsFitSchema, Migrate!TypeOK, Migrate!RowsFitSchema,
         Migrate!Registered

LEMMA AdministrationStep == AdministrationInv /\ [Next]_vars => AdministrationInv'
<1>. SUFFICES ASSUME AdministrationInv, [Next]_vars PROVE AdministrationInv'
  OBVIOUS
<1>1. CASE Register!Next /\ UNCHANGED <<providers, migrations>>
  BY <1>1, RegistrationStep, ConnectionRests, MigrationsRest DEF AdministrationInv
<1>2. CASE Provider!Next /\ UNCHANGED <<registration, migrations>>
  BY <1>2, ConnectionStep, AccountsRest, MigrationsRest DEF AdministrationInv
<1>3. CASE Migrate!Next /\ UNCHANGED <<registration, providers>>
  BY <1>3, MigrationsStep, AccountsRest, ConnectionRests DEF AdministrationInv
<1>4. CASE UNCHANGED vars
  BY <1>4, AccountsRest, ConnectionRests, MigrationsRest DEF AdministrationInv, vars
<1>. QED BY <1>1, <1>2, <1>3, <1>4 DEF Next

LEMMA AdministrationHolds == Spec => []AdministrationInv
<1>1. Init => AdministrationInv
  BY InitAccounts, InitConnection, InitMigrations DEF Init, AdministrationInv
<1>. QED BY <1>1, AdministrationStep, PTL DEF Spec

\* The logs of hosts, in the columns of before and after a run or a revert.
LEMMA ChecksAreMoved ==
    ASSUME MigrationsInv, [Migrate!Next]_(Migrate!vars), schema # schema', schema' > 0
    PROVE  Migrate!ChecksOf' = Migrate!ChecksOf
<1>. USE DEF MigrationsInv, RowsFitSchema, Migrate!TypeOK, Migrate!RowsFitSchema, Migrate!Latest
<1>1. Migrate!MigrationRun \/ Migrate!MigrationRevert
  BY DEF Migrate!Next, Migrate!vars, Migrate!rows, Migrate!Deploy, Migrate!Checkout, Migrate!AddHost,
         Migrate!RemoveHost, Migrate!AddEntity, Migrate!CheckHost, Migrate!CheckEntity
<1>2. CASE Migrate!MigrationRun
  <2>1. CASE schema < 2 /\ schema' >= 2
    <3>1. logs' = {Migrate!EntityLog("host", l.host_id, l.status) : l \in logs}
      BY <1>2, <2>1 DEF Migrate!MigrationRun, Migrate!LogsToEntities
    <3>2. {l \in logs' : l.entity_type = "host"} = logs'
      BY <3>1, LogFields
    <3>3. Migrate!ChecksOf = {<<l.host_id, l.status>> : l \in logs}
      BY <2>1 DEF Migrate!ChecksOf
    <3>4. Migrate!ChecksOf' =
                {<<l.entity_id, l.status>> : l \in {l \in logs' : l.entity_type = "host"}}
      BY <1>2, <2>1 DEF Migrate!MigrationRun, Migrate!ChecksOf, Migrate!OfHosts
    <3>. QED BY <3>1, <3>2, <3>3, <3>4, LogFields
  <2>2. CASE ~ (schema < 2 /\ schema' >= 2)
    <3>1. logs' = logs /\ (schema < 2 <=> schema' < 2)
      BY <1>2, <2>2 DEF Migrate!MigrationRun
    <3>. QED BY <3>1 DEF Migrate!ChecksOf, Migrate!OfHosts
  <2>. QED BY <2>1, <2>2
<1>3. CASE Migrate!MigrationRevert
  <2>1. CASE schema = 2
    <3>1. /\ schema' = 1
          /\ logs' = {Migrate!HostLog(l.entity_id, l.status) : l \in Migrate!OfHosts(logs)}
      BY <1>3, <2>1 DEF Migrate!MigrationRevert, Migrate!LogsToHosts
    <3>2. Migrate!ChecksOf = {<<l.entity_id, l.status>> : l \in Migrate!OfHosts(logs)}
      BY <2>1 DEF Migrate!ChecksOf
    <3>3. Migrate!ChecksOf' = {<<l.host_id, l.status>> : l \in logs'}
      BY <3>1 DEF Migrate!ChecksOf
    <3>. QED BY <3>1, <3>2, <3>3, LogFields
  <2>2. CASE schema > 2
    <3>1. logs' = logs /\ ~ schema < 2 /\ ~ schema' < 2
      BY <1>3, <2>2 DEF Migrate!MigrationRevert
    <3>. QED BY <3>1 DEF Migrate!ChecksOf, Migrate!OfHosts
  <2>3. schema # 1 /\ schema # 0
    BY <1>3 DEF Migrate!MigrationRevert
  <2>. QED BY <2>1, <2>2, <2>3
<1>. QED BY <1>1, <1>2, <1>3

-----------------------------------------------------------------------------
(* Theorems *)

\* Registrations of one e-mail may overlap and fail half way: who was told of
\* an account has it, in an organization of its own, and its token says so
\* (auth.service.ts).
THEOREM AccountsSound == Spec => []AccountsAreSound
<1>1. AdministrationInv => AccountsAreSound
  BY DEF AdministrationInv, AccountsInv
<1>. QED BY <1>1, AdministrationHolds, PTL

\* One row per provider, however connects overlap; with one tab the row has
\* the label given with its key and the card shows it
\* (cloud-accounts.service.ts, InvoicesPage.tsx).
THEOREM ConnectionSound == Spec => []ConnectionIsSound
<1>1. AdministrationInv => ConnectionIsSound
  BY ConnectionImplies DEF AdministrationInv
<1>. QED BY <1>1, AdministrationHolds, PTL

\* After any runs and reverts, with any version of the code writing between
\* them, the rows have the types of the schema in force (the migrations).
THEOREM RowsFit == Spec => []RowsFitSchema
<1>1. AdministrationInv => RowsFitSchema
  BY DEF AdministrationInv, MigrationsInv
<1>. QED BY <1>1, AdministrationHolds, PTL

\* Phase2DomainsAndPolymorphicLogs moves every check of a host between host_id
\* and entity_id, up and down, and no other migration touches them.
THEOREM ChecksKept == Spec => HostChecksAreKept
<1>1. AdministrationInv /\ [Next]_vars
        => [schema # schema' /\ schema' > 0 => Migrate!ChecksOf' = Migrate!ChecksOf]_(Migrate!vars)
  <2>1. ASSUME AdministrationInv, [Next]_vars PROVE [Migrate!Next]_(Migrate!vars)
    BY <2>1 DEF Next, vars, migrations, Migrate!vars, Migrate!rows
  <2>. QED BY <2>1, ChecksAreMoved DEF AdministrationInv
<1>. QED BY <1>1, AdministrationHolds, PTL DEF Spec, HostChecksAreKept, Migrate!HostChecksAreKept
=============================================================================
