------------------------- MODULE DeploymentsProofs --------------------------
(***************************************************************************)
(* The deployment history of a host's services, for every set of container *)
(* names, images, rows and rollbacks, any number of overlapping checks and *)
(* any bound on what the operators of the host do: rows keep their types,  *)
(* a rollback is recorded if and only if it succeeded, and the tables      *)
(* implement DeploymentHistory.                                            *)
(***************************************************************************)
EXTENDS Deployments, FiniteSetTheorems, SequenceTheorems, TLAPS

(* The parts of the inductive invariant *)

\* What a check and a rollback keep between two awaits; the ids they read stay
\* valid, since docker never reuses one and rows are never deleted.
Missing == [row : Rows, entity : Entities]
SyncLocals == [todo : SUBSET Containers, seen : SUBSET Ids,
               container : Containers \cup {NoContainer}, row : Rows \cup {Null},
               flip : SUBSET Nat, missing : SUBSET Missing]
RollLocals == [row : Rows \cup {Null}, entity : Entities \cup {NoEntity},
               target : Images \cup {Null}, started : BOOLEAN, found : Ids \cup {Null},
               flip : SUBSET Nat]

LocalsTyped ==
    /\ pc \in [Syncs \cup Rollbacks -> SyncPoints \cup RollPoints]
    /\ sync \in [Syncs -> SyncLocals]
    /\ roll \in [Rollbacks -> RollLocals]
    /\ history \in [Rows -> Seq(Snapshots)]

\* A check saves and captures only what it found, a rollback what it loaded.
SyncLoaded(y) ==
    /\ pc[y] \in {"save", "capture", "inspect", "flip", "insert"}
            => sync[y].container \in Containers
    /\ pc[y] \in {"capture", "inspect", "flip", "insert"} => sync[y].row \in Rows

RollLoaded(k) ==
    /\ pc[k] # "idle"
            => roll[k].row \in Rows /\ roll[k].entity \in Entities /\ roll[k].target \in Images
    /\ pc[k] = "save_service" => roll[k].found \in Ids

Typed ==
    /\ TypeOK /\ LocalsTyped /\ nextId > 0
    /\ \A y \in Syncs : SyncLoaded(y)
    /\ \A k \in Rollbacks : RollLoaded(k)

\* exactly one row per service is ever current, the newest
NewestIsCurrent ==
    \A r \in Rows : CurrentOf(r) = IF history[r] = <<>> THEN {} ELSE {Len(history[r])}

RecordsOf(k, rows) == {i \in 1..Len(rows) : rows[i].by = k}

\* A rollback is recorded by its own insert alone, under the row it loaded.
RecordedByInsert ==
    \A k \in Rollbacks :
        IF pc[k] \in {"succeeded", "save_event"}
        THEN \E i \in 1..Len(history[roll[k].row]) : RecordsOf(k, history[roll[k].row]) = {i}
        ELSE \A r \in Rows : RecordsOf(k, history[r]) = {}

IInv == Typed /\ NewestIsCurrent /\ RecordedByInsert

-----------------------------------------------------------------------------
(* Typing *)

LEMMA UpTo ==
    ASSUME NEW a \in Nat, NEW b \in {a, a + 1}
    PROVE  1..(a - 1) \subseteq 1..(b - 1)
  OBVIOUS

\* Ids that docker handed out stay ids, and so does what was built from them.
LEMMA IdsGrow ==
    ASSUME nextId \in Nat, nextId > 0, nextId' \in {nextId, nextId + 1}
    PROVE  /\ Ids \subseteq Ids' /\ Containers \subseteq Containers' /\ Entities \subseteq Entities'
           /\ SyncLocals \subseteq SyncLocals' /\ RollLocals \subseteq RollLocals'
           /\ nextId' \in Nat /\ nextId' > 0
<1>1. Ids \subseteq Ids'
  BY UpTo DEF Ids
<1>7. nextId' \in Nat /\ nextId' > 0
  OBVIOUS
<1>2. Containers \subseteq Containers'
  BY <1>1 DEF Containers
<1>3. Entities \subseteq Entities'
  BY <1>1 DEF Entities
<1>4. Missing \subseteq Missing'
  BY <1>3 DEF Missing
<1>5. SyncLocals \subseteq SyncLocals'
  BY <1>1, <1>2, <1>4 DEF SyncLocals
<1>6. RollLocals \subseteq RollLocals'
  BY <1>1, <1>3 DEF RollLocals
<1>. QED BY <1>1, <1>2, <1>3, <1>5, <1>6, <1>7

\* The two kinds of processes have different names.
LEMMA Apart == \A y \in Syncs, k \in Rollbacks : y # k
  BY DeploymentAssumption

\* What a process does to its own locals leaves those of the others loaded.
LEMMA SyncFrame ==
    ASSUME Typed, NEW y \in Syncs, UNCHANGED <<docker, nextId, overlap, roll>>,
           changes' \in 0..MaxChanges[overlap],
           services' \in [Rows -> Entities \cup {Null}],
           history' \in [Rows -> Seq(Snapshots)],
           sync' = [sync EXCEPT ![y] = sync'[y]], sync'[y] \in SyncLocals,
           pc' = [pc EXCEPT ![y] = pc'[y]], pc'[y] \in SyncPoints,
           pc'[y] \in {"save", "capture", "inspect", "flip", "insert"}
                => sync'[y].container \in Containers,
           pc'[y] \in {"capture", "inspect", "flip", "insert"} => sync'[y].row \in Rows
    PROVE  Typed'
<1>1. /\ Ids' = Ids /\ Containers' = Containers /\ Entities' = Entities
      /\ SyncLocals' = SyncLocals /\ RollLocals' = RollLocals
  BY DEF Ids, Containers, Entities, SyncLocals, RollLocals, Missing
<1>2. TypeOK'
  BY <1>1, Apart DEF Typed, TypeOK, LocalsTyped
<1>3. LocalsTyped'
  BY <1>1 DEF Typed, LocalsTyped
<1>4. ASSUME NEW z \in Syncs PROVE SyncLoaded(z)'
  BY <1>1 DEF Typed, LocalsTyped, SyncLoaded
<1>5. ASSUME NEW k \in Rollbacks PROVE RollLoaded(k)'
  BY <1>1, Apart DEF Typed, LocalsTyped, RollLoaded
<1>. QED BY <1>2, <1>3, <1>4, <1>5 DEF Typed

LEMMA RollFrame ==
    ASSUME Typed, NEW k \in Rollbacks, UNCHANGED <<overlap, sync>>,
           nextId' \in {nextId, nextId + 1},
           docker' \in [Names -> Containers' \cup {Null}],
           changes' \in 0..MaxChanges[overlap],
           services' \in [Rows -> Entities' \cup {Null}],
           history' \in [Rows -> Seq(Snapshots)],
           roll' = [roll EXCEPT ![k] = roll'[k]], roll'[k] \in RollLocals',
           pc' = [pc EXCEPT ![k] = pc'[k]], pc'[k] \in RollPoints,
           pc'[k] # "idle" => /\ roll'[k].row \in Rows /\ roll'[k].entity \in Entities'
                              /\ roll'[k].target \in Images,
           pc'[k] = "save_service" => roll'[k].found \in Ids'
    PROVE  Typed'
<1>1. /\ Ids \subseteq Ids' /\ Containers \subseteq Containers' /\ Entities \subseteq Entities'
      /\ SyncLocals \subseteq SyncLocals' /\ RollLocals \subseteq RollLocals'
      /\ nextId' \in Nat /\ nextId' > 0
  BY IdsGrow DEF Typed, TypeOK
<1>2. TypeOK'
  BY <1>1, Apart DEF Typed, TypeOK, LocalsTyped
<1>3. LocalsTyped'
  BY <1>1 DEF Typed, LocalsTyped
<1>4. ASSUME NEW y \in Syncs PROVE SyncLoaded(y)'
  BY <1>1, Apart DEF Typed, LocalsTyped, SyncLoaded
<1>5. ASSUME NEW j \in Rollbacks PROVE RollLoaded(j)'
  BY <1>1 DEF Typed, LocalsTyped, RollLoaded
<1>. QED BY <1>1, <1>2, <1>3, <1>4, <1>5 DEF Typed

\* Some names of a finite host have distinct numbers.
LEMMA Numbering ==
    /\ Cardinality(Names) \in Nat
    /\ \E f \in [Names -> 1..Cardinality(Names)] : OneToOne(f)
<1>1. Cardinality(Names) \in Nat /\ ExistsBijection(1..Cardinality(Names), Names)
  BY DeploymentAssumption, FS_CardinalityType
<1>2. PICK g \in Bijection(1..Cardinality(Names), Names) : TRUE
  BY <1>1 DEF ExistsBijection
<1>3. /\ g \in [1..Cardinality(Names) -> Names]
      /\ \A i, j \in 1..Cardinality(Names) : g[i] = g[j] => i = j
      /\ \A n \in Names : \E i \in 1..Cardinality(Names) : g[i] = n
  BY <1>2 DEF Bijection, Injection, IsInjective, Surjection
<1>. DEFINE f == [n \in Names |-> CHOOSE i \in 1..Cardinality(Names) : g[i] = n]
<1>4. \A n \in Names : f[n] \in 1..Cardinality(Names) /\ g[f[n]] = n
  BY <1>3
<1>5. f \in [Names -> 1..Cardinality(Names)] /\ OneToOne(f)
  BY <1>4 DEF OneToOne
<1>. QED BY <1>1, <1>5

\* The host was checked once.
LEMMA InitTyped == Init => IInv
<1>. SUFFICES ASSUME Init PROVE IInv
  OBVIOUS
<1>. DEFINE rowOf == CHOOSE f \in [Names -> Rows] : OneToOne(f)
            idOf == CHOOSE f \in [Names -> 1..Cardinality(Names)] : OneToOne(f)
            nameOf(r) == CHOOSE n \in Names : rowOf[n] = r
<1>1. idOf \in [Names -> 1..Cardinality(Names)]
  BY Numbering
<1>2. PICK image \in [Names -> Images \ {Untagged}] :
        /\ docker = [n \in Names |->
                [id |-> idOf[n], name |-> n, image |-> image[n], up |-> TRUE]]
        /\ services = [r \in Rows |->
                IF \E n \in Names : rowOf[n] = r
                THEN [container |-> idOf[nameOf(r)], name |-> nameOf(r),
                      image |-> image[nameOf(r)], status |-> "running"]
                ELSE Null]
  BY DEF Init
<1>3. nextId \in Nat /\ nextId > 0 /\ \A i \in 1..Cardinality(Names) : i \in Ids
  BY Numbering DEF Init, Ids
<1>4. docker \in [Names -> Containers \cup {Null}]
  BY <1>1, <1>2, <1>3 DEF Containers
<1>5. ASSUME NEW r \in Rows PROVE services[r] \in Entities \cup {Null}
  <2>1. CASE \E n \in Names : rowOf[n] = r
    <3>1. nameOf(r) \in Names
      BY <2>1
    <3>. HIDE DEF nameOf, idOf, rowOf
    <3>. QED BY <1>1, <1>2, <1>3, <2>1, <3>1 DEF Entities
  <2>2. CASE ~ \E n \in Names : rowOf[n] = r
    BY <1>2, <2>2
  <2>. QED BY <2>1, <2>2
<1>. HIDE DEF idOf, rowOf, nameOf
<1>6. services \in [Rows -> Entities \cup {Null}]
  BY <1>2, <1>5
<1>7. ASSUME NEW r \in Rows
      PROVE  /\ history[r] \in Seq(Snapshots)
             /\ \/ history[r] = <<>>
                \/ Len(history[r]) = 1 /\ history[r][1].current /\ history[r][1].by = Null
  <2>1. CASE services[r] = Null
    <3>1. history[r] = <<>>
      BY <2>1 DEF Init
    <3>. QED BY <3>1
  <2>2. CASE services[r] # Null
    <3>. DEFINE first == [image |-> services[r].image, by |-> Null, current |-> TRUE]
    <3>1. services[r].image \in Images
      BY <1>5, <2>2 DEF Entities
    <3>2. first \in Snapshots
      BY <3>1 DEF Snapshots
    <3>3. history[r] = <<first>>
      BY <2>2 DEF Init
    <3>4. first.current = TRUE /\ first.by = Null
      OBVIOUS
    <3>. HIDE DEF first
    <3>. QED BY <3>2, <3>3, <3>4
  <2>. QED BY <2>1, <2>2
<1>8. TypeOK
  <2>1. overlap \in Syncs /\ changes \in 0..MaxChanges[overlap]
    BY DeploymentAssumption DEF Init
  <2>2. /\ \A y \in Syncs : pc[y] \in SyncPoints
        /\ \A k \in Rollbacks : pc[k] \in RollPoints
    BY DEF Init, SyncPoints, RollPoints
  <2>. QED BY <1>3, <1>4, <1>6, <1>7, <2>1, <2>2 DEF TypeOK
<1>9. LocalsTyped
  <2>1. sync \in [Syncs -> SyncLocals]
    BY DEF Init, NoSync, SyncLocals
  <2>2. roll \in [Rollbacks -> RollLocals]
    BY DEF Init, NoRoll, RollLocals
  <2>3. history \in [Rows -> Seq(Snapshots)]
    BY <1>7 DEF Init
  <2>. QED BY <2>1, <2>2, <2>3 DEF Init, LocalsTyped, SyncPoints, RollPoints
<1>10. Typed
  BY <1>3, <1>8, <1>9 DEF Init, Typed, SyncLoaded, RollLoaded
<1>11. ASSUME NEW r \in Rows
       PROVE  CurrentOf(r) = IF history[r] = <<>> THEN {} ELSE {Len(history[r])}
  <2>1. CASE history[r] = <<>>
    BY <2>1 DEF CurrentOf
  <2>2. ASSUME Len(history[r]) = 1, history[r][1].current
        PROVE  CurrentOf(r) = {1} /\ history[r] # <<>>
    BY <2>2 DEF CurrentOf
  <2>. QED BY <1>7, <2>1, <2>2
<1>12. RecordedByInsert
  <2>1. Null \notin Rollbacks
    BY DeploymentAssumption
  <2>2. \A k \in Rollbacks : pc[k] = "idle"
    BY DEF Init
  <2>3. \A k \in Rollbacks, r \in Rows : RecordsOf(k, history[r]) = {}
    BY <1>7, <2>1 DEF RecordsOf
  <2>. QED BY <2>2, <2>3 DEF RecordedByInsert
<1>. QED BY <1>10, <1>11, <1>12 DEF IInv, NewestIsCurrent

-----------------------------------------------------------------------------
(* createSnapshot *)

\* rows is old with current unset in flip, and a new current row after it
Extends(rows, old, flip, image, by) ==
    /\ rows \in Seq(Snapshots) /\ Len(old) \in Nat /\ Len(rows) = Len(old) + 1
    /\ \A i \in 1..Len(old) :
        /\ rows[i].image = old[i].image /\ rows[i].by = old[i].by
        /\ i \in flip => ~ rows[i].current
        /\ i \notin flip => (rows[i].current <=> old[i].current)
    /\ rows[Len(old) + 1] = [image |-> image, by |-> by, current |-> TRUE]

\* The transaction keeps the rows it found, unsets current in those of flip,
\* and adds one.
LEMMA RecordedRows ==
    ASSUME NEW r \in Rows, history[r] \in Seq(Snapshots), NEW flip \in SUBSET Nat,
           NEW image \in Images, NEW by \in Rollbacks \cup {Null}
    PROVE  Extends(Recorded(r, flip, image, by), history[r], flip, image, by)
<1>. DEFINE unset == [i \in 1..Len(history[r]) |->
                IF i \in flip THEN [history[r][i] EXCEPT !.current = FALSE] ELSE history[r][i]]
            row == [image |-> image, by |-> by, current |-> TRUE]
<1>1. Len(history[r]) \in Nat /\ \A i \in 1..Len(history[r]) : history[r][i] \in Snapshots
  OBVIOUS
<1>2. row \in Snapshots
  BY DEF Snapshots
<1>3. \A i \in 1..Len(history[r]) :
        /\ unset[i] \in Snapshots /\ unset[i].image = history[r][i].image
        /\ unset[i].by = history[r][i].by
        /\ unset[i].current = IF i \in flip THEN FALSE ELSE history[r][i].current
  BY <1>1 DEF Snapshots
<1>4. unset \in Seq(Snapshots) /\ Len(unset) = Len(history[r])
  <2>1. unset \in [1..Len(history[r]) -> Snapshots]
    BY <1>3
  <2>. HIDE DEF unset
  <2>. QED BY <1>1, <2>1
<1>5. Recorded(r, flip, image, by) = Append(unset, row)
  BY DEF Recorded
<1>. HIDE DEF unset, row
<1>6. /\ Append(unset, row) \in Seq(Snapshots)
      /\ Len(Append(unset, row)) = Len(history[r]) + 1
      /\ \A i \in 1..Len(history[r]) : Append(unset, row)[i] = unset[i]
      /\ Append(unset, row)[Len(history[r]) + 1] = row
  BY <1>1, <1>2, <1>4
<1>. QED BY <1>1, <1>3, <1>5, <1>6 DEF row, Extends

LEMMA RecordedTyped ==
    ASSUME NEW r \in Rows, history[r] \in Seq(Snapshots), NEW flip \in SUBSET Nat,
           NEW image \in Images, NEW by \in Rollbacks \cup {Null}
    PROVE  Recorded(r, flip, image, by) \in Seq(Snapshots)
  BY RecordedRows DEF Extends

\* A process that recorded in the history of its row.
Captured(r, image, by) ==
    \E flip \in SUBSET Nat :
        /\ CurrentOf(r) \subseteq flip
        /\ history' = [history EXCEPT ![r] = Recorded(r, flip, image, by)]

-----------------------------------------------------------------------------
(* The steps of a check *)

LEMMA ListTyped == ASSUME Typed, NEW y \in 1..overlap, List(y) PROVE Typed'
<1>1. y \in Syncs /\ overlap' = overlap /\ Present \subseteq Containers
  <2>1. overlap \in 1..Slots /\ docker \in [Names -> Containers \cup {Null}]
    BY DEF Typed, TypeOK, Syncs
  <2>2. y \in Syncs
    BY <2>1, DeploymentAssumption DEF Syncs
  <2>3. Present \subseteq Containers
    BY <2>1 DEF Present
  <2>. QED BY <2>2, <2>3 DEF List
<1>2. changes' \in 0..MaxChanges[overlap]
  BY DeploymentAssumption DEF Typed, TypeOK, List, Change
<1>3. PICK listed \in {Present, {}} :
        sync' = [sync EXCEPT ![y] = [NoSync EXCEPT !.todo = listed, !.seen = {c.id : c \in listed}]]
  BY DEF List
<1>4. listed \in SUBSET Containers /\ {c.id : c \in listed} \in SUBSET Ids
  BY <1>1, <1>3 DEF Containers
<1>5. sync'[y] = [NoSync EXCEPT !.todo = listed, !.seen = {c.id : c \in listed}]
  BY <1>1, <1>3 DEF Typed, LocalsTyped
<1>6. sync'[y] \in SyncLocals
  BY <1>4, <1>5 DEF NoSync, SyncLocals
<1>7. pc' = [pc EXCEPT ![y] = pc'[y]] /\ pc'[y] = "upsert"
  BY <1>1 DEF List, Step, Typed, LocalsTyped
<1>8. UNCHANGED <<docker, nextId, overlap, roll, services, history>>
  BY DEF List, tables
<1>. QED
  <2>1. sync' = [sync EXCEPT ![y] = sync'[y]]
    BY <1>3, <1>5
  <2>2. /\ services' \in [Rows -> Entities \cup {Null}] /\ history' \in [Rows -> Seq(Snapshots)]
    BY <1>8 DEF Typed, TypeOK, LocalsTyped
  <2>. QED BY <1>1, <1>2, <1>6, <1>7, <1>8, <2>1, <2>2, SyncFrame DEF SyncPoints

\* Every await of a check keeps the types.
LEMMA SyncTyped == ASSUME IInv, NEW y \in Syncs, SyncStep(y) PROVE Typed'
<1>. DEFINE s == sync[y]
            Local(next) == /\ sync' = [sync EXCEPT ![y] = next] /\ next \in SyncLocals
                           /\ sync'[y] = next
            Point(next) == pc' = [pc EXCEPT ![y] = next] /\ pc'[y] = next /\ next \in SyncPoints
<1>1. /\ Typed /\ s \in SyncLocals /\ SyncLoaded(y)
      /\ services \in [Rows -> Entities \cup {Null}] /\ history \in [Rows -> Seq(Snapshots)]
      /\ changes \in 0..MaxChanges[overlap]
  BY DEF IInv, Typed, TypeOK, LocalsTyped
<1>2. /\ s.todo \in SUBSET Containers /\ s.seen \in SUBSET Ids
      /\ s.container \in Containers \cup {NoContainer} /\ s.row \in Rows \cup {Null}
      /\ s.flip \in SUBSET Nat /\ s.missing \in SUBSET Missing
  BY <1>1 DEF SyncLocals
<1>3. ASSUME NEW todo \in SUBSET Containers, NEW seen \in SUBSET Ids,
             NEW container \in Containers \cup {NoContainer}, NEW row \in Rows \cup {Null},
             NEW flip \in SUBSET Nat, NEW missing \in SUBSET Missing
      PROVE  [todo |-> todo, seen |-> seen, container |-> container, row |-> row,
              flip |-> flip, missing |-> missing] \in SyncLocals
  BY DEF SyncLocals
<1>4. NoSync \in SyncLocals /\ [NoSync EXCEPT !.todo = s.todo, !.seen = s.seen] \in SyncLocals
  BY <1>2 DEF NoSync, SyncLocals
<1>5. ASSUME NEW next, next \in SyncLocals, sync' = [sync EXCEPT ![y] = next] PROVE Local(next)
  BY <1>5, <1>1 DEF Typed, LocalsTyped
<1>6. ASSUME NEW from, NEW next \in SyncPoints, Step(y, from, next)
      PROVE  pc[y] = from /\ Point(next)
  BY <1>6, <1>1 DEF Step, Typed, LocalsTyped
<1>7. /\ sync = [sync EXCEPT ![y] = s]
      /\ pc = [pc EXCEPT ![y] = pc[y]] /\ pc[y] \in SyncPoints
  BY <1>1 DEF Typed, TypeOK, LocalsTyped
<1>. HIDE DEF s, Local, Point
<1>8. ASSUME NEW next, Local(next), NEW point, Point(point),
             UNCHANGED <<docker, nextId, overlap, roll>>,
             changes' \in 0..MaxChanges[overlap],
             services' \in [Rows -> Entities \cup {Null}], history' \in [Rows -> Seq(Snapshots)],
             point \in {"save", "capture", "inspect", "flip", "insert"}
                => next.container \in Containers,
             point \in {"capture", "inspect", "flip", "insert"} => next.row \in Rows
      PROVE  Typed'
  BY <1>1, <1>8, SyncFrame DEF Local, Point
<1>11. ASSUME NEW c \in s.todo, FindRow(y, c) PROVE Typed'
  <2>1. PICK row \in Rows \cup {Null} :
          sync' = [sync EXCEPT ![y].container = c, ![y].row = row, ![y].todo = @ \ {c}]
    BY <1>11 DEF FindRow
  <2>. DEFINE next == [s EXCEPT !.container = c, !.row = row, !.todo = @ \ {c}]
  <2>2. sync' = [sync EXCEPT ![y] = next]
    BY <2>1, <1>1 DEF s, Typed, LocalsTyped
  <2>3. next \in SyncLocals /\ next.container \in Containers
    BY <1>1, <1>2 DEF SyncLocals
  <2>. HIDE DEF next
  <2>4. Point("save")
    BY <1>6, <1>11 DEF FindRow, SyncPoints
  <2>5. Local(next)
    BY <1>5, <2>2, <2>3
  <2>6. UNCHANGED <<docker, nextId, overlap, changes, services, history, roll>>
    BY <1>11 DEF FindRow, host, tables
  <2>. QED BY <1>1, <1>8, <2>3, <2>4, <2>5, <2>6
<1>12. CASE SaveRow(y)
  <2>1. PICK r \in Rows :
          /\ Step(y, "save", "capture")
          /\ services' = [services EXCEPT ![r] =
                [container |-> s.container.id, name |-> s.container.name,
                 image |-> s.container.image, status |-> Classify(s.container)]]
          /\ sync' = [sync EXCEPT ![y].row = r]
          /\ UNCHANGED <<host, history, roll>>
    BY <1>12 DEF SaveRow, s
  <2>. DEFINE next == [s EXCEPT !.row = r]
  <2>2. sync' = [sync EXCEPT ![y] = next]
    BY <2>1, <1>1 DEF s, Typed, LocalsTyped
  <2>3. pc[y] = "save" /\ Point("capture")
    BY <1>6, <2>1 DEF SyncPoints
  <2>4. s.container \in Containers
    BY <1>1, <2>3 DEF SyncLoaded, s
  <2>5. next \in SyncLocals /\ next.container \in Containers /\ next.row \in Rows
    BY <1>1, <2>4 DEF SyncLocals
  <2>6. services' \in [Rows -> Entities \cup {Null}]
    BY <1>1, <2>1, <2>4 DEF Entities, Containers, Classify
  <2>. HIDE DEF next
  <2>7. Local(next)
    BY <1>5, <2>2, <2>5
  <2>8. UNCHANGED <<docker, nextId, overlap, changes, history, roll>>
    BY <2>1 DEF host
  <2>. QED BY <1>1, <1>8, <2>3, <2>5, <2>6, <2>7, <2>8
<1>13. CASE SaveRowRejected(y)
  <2>1. Point("idle") /\ Local(NoSync)
    BY <1>4, <1>5, <1>6, <1>13 DEF SaveRowRejected, SyncPoints
  <2>2. UNCHANGED <<docker, nextId, overlap, changes, services, history, roll>>
    BY <1>13 DEF SaveRowRejected, host, tables
  <2>. QED BY <1>1, <1>8, <2>1, <2>2
<1>14. CASE CompareImage(y)
  <2>1. UNCHANGED <<docker, nextId, overlap, changes, services, history, roll>>
    BY <1>14 DEF CompareImage, host, tables
  <2>2. \/ Step(y, "capture", "upsert") /\ sync' = Returned(y)
        \/ Step(y, "capture", "inspect") /\ sync' = sync
    BY <1>14 DEF CompareImage
  <2>3. ASSUME Step(y, "capture", "upsert"), sync' = Returned(y) PROVE Typed'
    <3>1. Point("upsert") /\ Local([NoSync EXCEPT !.todo = s.todo, !.seen = s.seen])
      BY <1>4, <1>5, <1>6, <2>3 DEF Returned, SyncPoints, s
    <3>. QED BY <1>1, <1>8, <2>1, <3>1
  <2>4. ASSUME Step(y, "capture", "inspect"), sync' = sync PROVE Typed'
    <3>1. pc[y] = "capture" /\ Point("inspect") /\ Local(s)
      BY <1>1, <1>5, <1>6, <1>7, <2>4 DEF SyncPoints
    <3>2. s.container \in Containers /\ s.row \in Rows
      BY <1>1, <3>1 DEF SyncLoaded, s
    <3>. QED BY <1>1, <1>8, <2>1, <3>1, <3>2
  <2>. QED BY <2>2, <2>3, <2>4
<1>15. CASE Inspect(y)
  <2>1. UNCHANGED <<docker, nextId, overlap, services, history, roll>>
    BY <1>15 DEF Inspect, tables
  <2>2. changes' \in 0..MaxChanges[overlap]
    BY <1>1, <1>15, DeploymentAssumption DEF Inspect, Change, Typed, TypeOK
  <2>3. \/ Step(y, "inspect", "flip") /\ sync' = sync
        \/ Step(y, "inspect", "upsert") /\ sync' = Returned(y)
    BY <1>15 DEF Inspect
  <2>4. ASSUME Step(y, "inspect", "upsert"), sync' = Returned(y) PROVE Typed'
    <3>1. Point("upsert") /\ Local([NoSync EXCEPT !.todo = s.todo, !.seen = s.seen])
      BY <1>4, <1>5, <1>6, <2>4 DEF Returned, SyncPoints, s
    <3>. QED BY <1>1, <1>8, <2>1, <2>2, <3>1
  <2>5. ASSUME Step(y, "inspect", "flip"), sync' = sync PROVE Typed'
    <3>1. pc[y] = "inspect" /\ Point("flip") /\ Local(s)
      BY <1>1, <1>5, <1>6, <1>7, <2>5 DEF SyncPoints
    <3>2. s.container \in Containers /\ s.row \in Rows
      BY <1>1, <3>1 DEF SyncLoaded, s
    <3>. QED BY <1>1, <1>8, <2>1, <2>2, <3>1, <3>2
  <2>. QED BY <2>3, <2>4, <2>5
<1>16. CASE FlipCurrent(y)
  <2>. DEFINE next == [s EXCEPT !.flip = Flipped(s.row)]
  <2>1. pc[y] = "flip" /\ Point("insert")
    BY <1>6, <1>16 DEF FlipCurrent, SyncPoints
  <2>2. s.container \in Containers /\ s.row \in Rows
    BY <1>1, <2>1 DEF SyncLoaded, s
  <2>3. Flipped(s.row) \in SUBSET Nat
    BY <1>1, <2>2 DEF Flipped, CurrentOf
  <2>4. next \in SyncLocals /\ next.container \in Containers /\ next.row \in Rows
    BY <1>1, <2>2, <2>3 DEF SyncLocals
  <2>5. sync' = [sync EXCEPT ![y] = next]
    BY <1>16, <1>1 DEF FlipCurrent, s, Typed, LocalsTyped
  <2>. HIDE DEF next
  <2>6. Local(next)
    BY <1>5, <2>4, <2>5
  <2>7. UNCHANGED <<docker, nextId, overlap, changes, services, history, roll>>
    BY <1>16 DEF FlipCurrent, host, tables
  <2>. QED BY <1>1, <1>8, <2>1, <2>4, <2>6, <2>7
<1>17. CASE InsertSnapshot(y)
  <2>1. pc[y] = "insert" /\ Point("upsert")
    BY <1>6, <1>17 DEF InsertSnapshot, SyncPoints
  <2>2. Local([NoSync EXCEPT !.todo = s.todo, !.seen = s.seen])
    BY <1>4, <1>5, <1>17 DEF InsertSnapshot, Returned, s
  <2>3. s.container.image \in Images /\ s.row \in Rows /\ history[s.row] \in Seq(Snapshots)
    BY <1>1, <2>1 DEF SyncLoaded, s, Containers
  <2>4. Recorded(s.row, s.flip, s.container.image, Null) \in Seq(Snapshots)
    BY <1>2, <2>3, RecordedTyped
  <2>5. history' \in [Rows -> Seq(Snapshots)]
    BY <1>1, <1>17, <2>3, <2>4 DEF InsertSnapshot, s
  <2>6. UNCHANGED <<docker, nextId, overlap, changes, services, roll>>
    BY <1>17 DEF InsertSnapshot, host
  <2>. QED BY <1>1, <1>8, <2>1, <2>2, <2>5, <2>6
<1>18. CASE FindMissing(y)
  <2>. DEFINE found == {[row |-> r, entity |-> services[r]] :
                r \in {q \in Rows : /\ services[q] # Null
                                    /\ services[q].container \notin sync[y].seen
                                    /\ services[q].status # "unknown"}}
  <2>1. found \in SUBSET Missing
    BY <1>1 DEF Missing
  <2>2. sync' = [sync EXCEPT ![y] = [NoSync EXCEPT !.missing = found]]
    BY <1>18 DEF FindMissing
  <2>. HIDE DEF found
  <2>3. [NoSync EXCEPT !.missing = found] \in SyncLocals
    BY <2>1 DEF NoSync, SyncLocals
  <2>4. Point("mark") /\ Local([NoSync EXCEPT !.missing = found])
    BY <1>5, <1>6, <1>18, <2>2, <2>3 DEF FindMissing, SyncPoints
  <2>5. UNCHANGED <<docker, nextId, overlap, changes, services, history, roll>>
    BY <1>18 DEF FindMissing, host, tables
  <2>. QED BY <1>1, <1>8, <2>4, <2>5
<1>19. ASSUME NEW m \in s.missing, SaveMissing(y, m) PROVE Typed'
  <2>1. m.row \in Rows /\ m.entity \in Entities
    BY <1>2 DEF Missing
  <2>2. UNCHANGED <<docker, nextId, overlap, changes, history, roll>>
    BY <1>19 DEF SaveMissing, host
  <2>3. ASSUME Step(y, "mark", "idle"), sync' = [sync EXCEPT ![y] = NoSync], UNCHANGED services
        PROVE  Typed'
    <3>1. Point("idle") /\ Local(NoSync)
      BY <1>4, <1>5, <1>6, <2>3 DEF SyncPoints
    <3>. QED BY <1>1, <1>8, <2>2, <2>3, <3>1
  <2>4. ASSUME pc[y] = "mark", UNCHANGED pc,
               services' = [services EXCEPT ![m.row] = [m.entity EXCEPT !.status = "unknown"]],
               sync' = [sync EXCEPT ![y].missing = @ \ {m}]
        PROVE  Typed'
    <3>. DEFINE next == [s EXCEPT !.missing = @ \ {m}]
    <3>1. next \in SyncLocals
      BY <1>1, <1>2 DEF SyncLocals
    <3>2. sync' = [sync EXCEPT ![y] = next]
      BY <2>4, <1>1 DEF s, Typed, LocalsTyped
    <3>. HIDE DEF next
    <3>3. Local(next)
      BY <1>5, <3>1, <3>2
    <3>4. Point("mark")
      BY <1>7, <2>4 DEF Point
    <3>5. services' \in [Rows -> Entities \cup {Null}]
      BY <1>1, <2>1, <2>4 DEF Entities
    <3>. QED BY <1>1, <1>8, <2>2, <3>3, <3>4, <3>5
  <2>. QED BY <1>19, <2>3, <2>4 DEF SaveMissing
<1>20. CASE SyncDone(y)
  <2>1. Point("idle") /\ Local(NoSync)
    BY <1>4, <1>5, <1>6, <1>20 DEF SyncDone, SyncPoints
  <2>2. UNCHANGED <<docker, nextId, overlap, changes, services, history, roll>>
    BY <1>20 DEF SyncDone, host, tables
  <2>. QED BY <1>1, <1>8, <2>1, <2>2
<1>. QED BY <1>11, <1>12, <1>13, <1>14, <1>15, <1>16, <1>17, <1>18, <1>19, <1>20 DEF SyncStep, s

-----------------------------------------------------------------------------
(* The steps of a rollback and of the operators *)

LEMMA LoadTyped ==
    ASSUME IInv, NEW k \in Rollbacks, NEW r \in Rows, NEW target \in Images, Load(k, r, target)
    PROVE  Typed'
<1>1. /\ Typed /\ services \in [Rows -> Entities \cup {Null}]
      /\ history \in [Rows -> Seq(Snapshots)]
      /\ docker \in [Names -> Containers \cup {Null}] /\ changes \in 0..MaxChanges[overlap]
  BY DEF IInv, Typed, TypeOK, LocalsTyped
<1>2. /\ UNCHANGED <<docker, nextId, overlap, changes, services, history, sync>>
      /\ services[r] \in Entities
  BY <1>1 DEF Load, host, tables
<1>3. /\ Ids' = Ids /\ Containers' = Containers /\ Entities' = Entities
      /\ RollLocals' = RollLocals
  BY <1>2 DEF Ids, Containers, Entities, RollLocals
<1>. DEFINE next == [NoRoll EXCEPT !.row = r, !.entity = services[r], !.target = target]
<1>4. next \in RollLocals /\ next.row \in Rows /\ next.entity \in Entities /\ next.target \in Images
  BY <1>2 DEF NoRoll, RollLocals
<1>5. roll' = [roll EXCEPT ![k] = next]
  BY DEF Load
<1>. HIDE DEF next
<1>6. roll' = [roll EXCEPT ![k] = roll'[k]] /\ roll'[k] = next
  BY <1>1, <1>5 DEF Typed, LocalsTyped
<1>7. pc' = [pc EXCEPT ![k] = pc'[k]] /\ pc'[k] = "stop"
  BY <1>1 DEF Load, Step, Typed, LocalsTyped
<1>. QED BY <1>1, <1>2, <1>3, <1>4, <1>6, <1>7, RollFrame DEF RollPoints, Executing

\* Every await of a rollback keeps the types.
LEMMA RollTyped == ASSUME IInv, NEW k \in Rollbacks, RollbackStep(k) PROVE Typed'
<1>. DEFINE l == roll[k]
            Local(next) == /\ roll' = [roll EXCEPT ![k] = next] /\ roll'[k] = next
                           /\ next \in RollLocals
                           /\ next.row = l.row /\ next.entity = l.entity /\ next.target = l.target
            Point(next) == pc' = [pc EXCEPT ![k] = next] /\ pc'[k] = next /\ next \in RollPoints
            Name == l.entity.name
<1>1. /\ Typed /\ l \in RollLocals /\ RollLoaded(k)
      /\ services \in [Rows -> Entities \cup {Null}] /\ history \in [Rows -> Seq(Snapshots)]
      /\ docker \in [Names -> Containers \cup {Null}]
      /\ changes \in 0..MaxChanges[overlap] /\ nextId \in Nat /\ nextId > 0
  BY DEF IInv, Typed, TypeOK, LocalsTyped
<1>2. pc[k] # "idle"
  BY DEF RollbackStep, Stop, Remove, Run, ListAndClassify, SshFails, SaveService,
         SaveServiceRejected, FlipForRollback, InsertForRollback, SaveEvent, Step
<1>3. /\ l.row \in Rows /\ l.entity \in Entities /\ l.target \in Images /\ l.started \in BOOLEAN
      /\ l.found \in Ids \cup {Null} /\ l.flip \in SUBSET Nat
      /\ Name \in Names
  BY <1>1, <1>2 DEF RollLoaded, RollLocals, Entities
<1>4. ASSUME NEW next, next \in RollLocals, roll' = [roll EXCEPT ![k] = next],
             next.row = l.row, next.entity = l.entity, next.target = l.target
      PROVE  Local(next)
  BY <1>4, <1>1 DEF Typed, LocalsTyped
<1>5. ASSUME NEW from, NEW next \in RollPoints, Step(k, from, next)
      PROVE  pc[k] = from /\ Point(next)
  BY <1>5, <1>1 DEF Step, Typed, LocalsTyped
<1>6. ASSUME UNCHANGED roll PROVE Local(l)
  BY <1>6, <1>1 DEF Typed, LocalsTyped
<1>7. ASSUME nextId' \in {nextId, nextId + 1}
      PROVE  /\ Ids \subseteq Ids' /\ Containers \subseteq Containers'
             /\ Entities \subseteq Entities' /\ RollLocals \subseteq RollLocals'
  BY <1>1, <1>7, IdsGrow
<1>8. ASSUME UNCHANGED nextId
      PROVE  /\ Ids' = Ids /\ Containers' = Containers /\ Entities' = Entities
             /\ nextId' \in {nextId, nextId + 1}
  BY <1>8 DEF Ids, Containers, Entities
<1>. HIDE DEF l, Local, Point, Name
<1>9. ASSUME NEW next, Local(next), NEW point, Point(point),
             UNCHANGED <<overlap, sync>>, nextId' \in {nextId, nextId + 1},
             docker' \in [Names -> Containers' \cup {Null}],
             changes' \in 0..MaxChanges[overlap],
             services' \in [Rows -> Entities' \cup {Null}], history' \in [Rows -> Seq(Snapshots)],
             point = "save_service" => next.found \in Ids'
      PROVE  Typed'
  <2>1. /\ roll'[k] \in RollLocals' /\ roll'[k].row \in Rows /\ roll'[k].entity \in Entities'
        /\ roll'[k].target \in Images
    BY <1>3, <1>7, <1>9 DEF Local
  <2>2. /\ roll' = [roll EXCEPT ![k] = roll'[k]]
        /\ pc' = [pc EXCEPT ![k] = pc'[k]] /\ pc'[k] \in RollPoints
        /\ pc'[k] = "save_service" => roll'[k].found \in Ids'
    BY <1>9 DEF Local, Point
  <2>. QED BY <1>1, <1>9, <2>1, <2>2, RollFrame
<1>10. ASSUME NEW next, Local(next), NEW point, Point(point), point # "save_service",
              UNCHANGED <<nextId, overlap, changes, services, history, sync>>,
              docker' \in [Names -> Containers \cup {Null}]
       PROVE  Typed'
  BY <1>1, <1>8, <1>9, <1>10
<1>11. CASE Stop(k)
  <2>1. docker' \in [Names -> Containers \cup {Null}]
    BY <1>1, <1>3, <1>11 DEF Stop, Reaches, NameOf, Containers, Name, l
  <2>2. Point("remove") /\ Local(l)
    BY <1>5, <1>6, <1>11 DEF Stop, RollPoints, Executing
  <2>3. UNCHANGED <<nextId, overlap, changes, services, history, sync>>
    BY <1>11 DEF Stop, tables
  <2>. QED BY <1>10, <2>1, <2>2, <2>3
<1>12. CASE Remove(k)
  <2>1. docker' \in [Names -> Containers \cup {Null}]
    BY <1>1, <1>3, <1>12 DEF Remove, NameOf, Name, l
  <2>2. Point("run") /\ Local(l)
    BY <1>5, <1>6, <1>12 DEF Remove, RollPoints, Executing
  <2>3. UNCHANGED <<nextId, overlap, changes, services, history, sync>>
    BY <1>12 DEF Remove, tables
  <2>. QED BY <1>10, <2>1, <2>2, <2>3
<1>13. CASE Run(k)
  <2>1. Point("list") /\ UNCHANGED <<overlap, services, history, sync>>
    BY <1>5, <1>13 DEF Run, RollPoints, Executing, tables
  <2>2. \/ /\ Create(NameOf(k), roll[k].target)
           /\ roll' = [roll EXCEPT ![k].started = TRUE]
           /\ UNCHANGED changes
        \/ /\ Change \/ UNCHANGED changes
           /\ UNCHANGED <<docker, nextId, roll>>
    BY <1>13 DEF Run
  <2>3. ASSUME Change \/ UNCHANGED changes, UNCHANGED <<docker, nextId, roll>> PROVE Typed'
    <3>1. Local(l)
      BY <1>6, <2>3
    <3>2. changes' \in 0..MaxChanges[overlap]
      BY <1>1, <2>3, DeploymentAssumption DEF Change, Typed, TypeOK
    <3>. QED BY <1>1, <1>8, <1>9, <2>1, <2>3, <3>1, <3>2
  <2>4. ASSUME Create(NameOf(k), roll[k].target), roll' = [roll EXCEPT ![k].started = TRUE],
               UNCHANGED changes
        PROVE  Typed'
    <3>. DEFINE next == [l EXCEPT !.started = TRUE]
    <3>1. /\ next \in RollLocals /\ next.row = l.row /\ next.entity = l.entity
          /\ next.target = l.target
      BY <1>1 DEF RollLocals
    <3>2. roll' = [roll EXCEPT ![k] = next]
      BY <2>4, <1>1 DEF l, Typed, LocalsTyped
    <3>. HIDE DEF next
    <3>3. Local(next)
      BY <1>4, <3>1, <3>2
    <3>4. /\ nextId' = nextId + 1 /\ nextId \in Ids'
          /\ Containers \subseteq Containers' /\ Entities \subseteq Entities'
      BY <1>1, <1>7, <2>4 DEF Create, Ids
    <3>5. docker' \in [Names -> Containers' \cup {Null}]
      BY <1>1, <1>3, <2>4, <3>4 DEF Create, Containers, NameOf, l, Name
    <3>. QED BY <1>1, <1>9, <2>1, <2>4, <3>3, <3>4, <3>5
  <2>. QED BY <2>2, <2>3, <2>4
<1>14. CASE ListAndClassify(k)
  <2>. DEFINE c == docker[NameOf(k)]
              found == IF c = Null THEN Null ELSE c.id
              next == [l EXCEPT !.found = found]
  <2>1. c \in Containers \cup {Null} /\ (c # Null => c.id \in Ids)
    BY <1>1, <1>3 DEF NameOf, Name, l, Containers
  <2>2. found \in Ids \cup {Null} /\ (c # Null => found \in Ids)
    BY <2>1
  <2>. HIDE DEF found
  <2>3. /\ next \in RollLocals /\ next.row = l.row /\ next.entity = l.entity
        /\ next.target = l.target /\ next.found = found
    BY <1>1, <2>2 DEF RollLocals
  <2>4. roll' = [roll EXCEPT ![k] = next]
    BY <1>1, <1>14 DEF ListAndClassify, found, l, Typed, LocalsTyped
  <2>. HIDE DEF next
  <2>5. Local(next)
    BY <1>4, <2>3, <2>4
  <2>6. UNCHANGED <<docker, nextId, overlap, changes, services, history, sync>>
    BY <1>14 DEF ListAndClassify, host, tables
  <2>7. \/ Step(k, "list", "save_service") /\ c # Null
        \/ Step(k, "list", "failed")
    BY <1>14 DEF ListAndClassify, HealthCheck
  <2>8. ASSUME Step(k, "list", "save_service"), c # Null PROVE Typed'
    <3>1. Point("save_service")
      BY <1>5, <2>8 DEF RollPoints, Executing
    <3>. QED BY <1>1, <1>8, <1>9, <2>2, <2>3, <2>5, <2>6, <2>8, <3>1
  <2>9. ASSUME Step(k, "list", "failed") PROVE Typed'
    <3>1. Point("failed")
      BY <1>5, <2>9 DEF RollPoints, Executing
    <3>. QED BY <1>1, <1>10, <2>5, <2>6, <3>1
  <2>. QED BY <2>7, <2>8, <2>9
<1>15. CASE SshFails(k)
  <2>1. pc' = [pc EXCEPT ![k] = "failed"] /\ UNCHANGED roll
    BY <1>15 DEF SshFails
  <2>2. Point("failed") /\ Local(l)
    BY <1>1, <1>6, <2>1 DEF Point, RollPoints, Typed, LocalsTyped
  <2>3. UNCHANGED <<docker, nextId, overlap, changes, services, history, sync>>
    BY <1>15 DEF SshFails, host, tables
  <2>. QED BY <1>1, <1>10, <2>2, <2>3
<1>16. CASE SaveService(k)
  <2>1. pc[k] = "save_service" /\ Point("create_flip") /\ Local(l)
    BY <1>5, <1>6, <1>16 DEF SaveService, RollPoints, Executing
  <2>2. l.found \in Ids
    BY <1>1, <2>1 DEF RollLoaded, l
  <2>3. UNCHANGED <<docker, nextId, overlap, changes, history, sync>>
    BY <1>16 DEF SaveService, host
  <2>. DEFINE saved == [l.entity EXCEPT !.container = l.found, !.image = l.target,
                                        !.status = "running"]
  <2>4. saved \in Entities
    BY <1>3, <2>2 DEF Entities
  <2>5. services' = [services EXCEPT ![l.row] = saved]
    BY <1>16 DEF SaveService, l
  <2>. HIDE DEF saved
  <2>6. services' \in [Rows -> Entities \cup {Null}]
    BY <1>1, <1>3, <2>4, <2>5
  <2>. QED BY <1>1, <1>8, <1>9, <2>1, <2>3, <2>6
<1>17. CASE SaveServiceRejected(k)
  <2>1. Point("thrown") /\ Local(l)
    BY <1>5, <1>6, <1>17 DEF SaveServiceRejected, RollPoints
  <2>2. UNCHANGED <<docker, nextId, overlap, changes, services, history, sync>>
    BY <1>17 DEF SaveServiceRejected, host, tables
  <2>. QED BY <1>1, <1>10, <2>1, <2>2
<1>18. CASE FlipForRollback(k)
  <2>. DEFINE next == [l EXCEPT !.flip = Flipped(l.row)]
  <2>1. Flipped(l.row) \in SUBSET Nat
    BY <1>1, <1>3 DEF Flipped, CurrentOf
  <2>2. next \in RollLocals /\ next.row = l.row /\ next.entity = l.entity /\ next.target = l.target
    BY <1>1, <2>1 DEF RollLocals
  <2>3. roll' = [roll EXCEPT ![k] = next]
    BY <1>1, <1>18 DEF FlipForRollback, l, Typed, LocalsTyped
  <2>. HIDE DEF next
  <2>4. Point("create_insert") /\ Local(next)
    BY <1>4, <1>5, <1>18, <2>2, <2>3 DEF FlipForRollback, RollPoints, Executing
  <2>5. UNCHANGED <<docker, nextId, overlap, changes, services, history, sync>>
    BY <1>18 DEF FlipForRollback, host, tables
  <2>. QED BY <1>1, <1>10, <2>4, <2>5
<1>19. CASE InsertForRollback(k)
  <2>1. UNCHANGED <<docker, nextId, overlap, changes, services, sync>> /\ Local(l)
    BY <1>6, <1>19 DEF InsertForRollback, host
  <2>2. Recorded(l.row, l.flip, l.target, k) \in Seq(Snapshots)
    BY <1>1, <1>3, RecordedTyped
  <2>3. history' \in [Rows -> Seq(Snapshots)]
    BY <1>1, <1>3, <1>19, <2>2 DEF InsertForRollback, l
  <2>4. PICK point \in {"thrown", "save_event"} : Step(k, "create_insert", point)
    BY <1>19 DEF InsertForRollback
  <2>5. point \in RollPoints /\ point # "save_service"
    BY <2>4 DEF RollPoints, Executing
  <2>6. Point(point)
    BY <1>5, <2>4, <2>5
  <2>. QED BY <1>1, <1>8, <1>9, <2>1, <2>3, <2>5, <2>6
<1>20. CASE SaveEvent(k)
  <2>1. Point("succeeded") /\ Local(l)
    BY <1>5, <1>6, <1>20 DEF SaveEvent, RollPoints
  <2>2. UNCHANGED <<docker, nextId, overlap, changes, services, history, sync>>
    BY <1>20 DEF SaveEvent, host, tables
  <2>. QED BY <1>1, <1>10, <2>1, <2>2
<1>. QED BY <1>11, <1>12, <1>13, <1>14, <1>15, <1>16, <1>17, <1>18, <1>19, <1>20 DEF RollbackStep

\* What the operators do keeps the types of all that was read before.
LEMMA OperatorTyped == ASSUME IInv, NEW n \in Names, Operator(n) PROVE Typed'
<1>1. /\ Typed /\ docker \in [Names -> Containers \cup {Null}] /\ nextId \in Nat /\ nextId > 0
      /\ services \in [Rows -> Entities \cup {Null}]
  BY DEF IInv, Typed, TypeOK
<1>2. /\ UNCHANGED <<overlap, services, history, pc, sync, roll>>
      /\ changes' \in 0..MaxChanges[overlap]
  BY <1>1, DeploymentAssumption DEF Operator, Change, tables, Typed, TypeOK
<1>3. nextId' \in {nextId, nextId + 1}
  BY DEF Operator, Deploy, Create, Retag, Exit, TakeDown
<1>4. /\ Ids \subseteq Ids' /\ Containers \subseteq Containers' /\ Entities \subseteq Entities'
      /\ SyncLocals \subseteq SyncLocals' /\ RollLocals \subseteq RollLocals'
      /\ nextId' \in Nat /\ nextId' > 0
  BY <1>1, <1>3, IdsGrow
<1>5. docker' \in [Names -> Containers' \cup {Null}]
  <2>1. docker \in [Names -> Containers' \cup {Null}]
    BY <1>1, <1>4
  <2>2. ASSUME NEW image \in Images, Create(n, image)
        PROVE  docker' \in [Names -> Containers' \cup {Null}]
    <3>1. nextId \in Ids'
      BY <1>1, <2>2 DEF Create, Ids
    <3>. QED BY <2>1, <2>2, <3>1 DEF Create, Containers
  <2>3. ASSUME Retag(n) PROVE docker' \in [Names -> Containers' \cup {Null}]
    <3>1. docker[n] \in Containers'
      BY <2>1, <2>3 DEF Retag
    <3>2. [docker[n] EXCEPT !.image = Untagged] \in Containers'
      BY <3>1, DeploymentAssumption DEF Containers
    <3>. QED BY <2>1, <2>3, <3>2 DEF Retag
  <2>4. ASSUME Exit(n) PROVE docker' \in [Names -> Containers' \cup {Null}]
    <3>1. docker[n] \in Containers'
      BY <2>1, <2>4 DEF Exit
    <3>2. [docker[n] EXCEPT !.up = FALSE] \in Containers'
      BY <3>1 DEF Containers
    <3>. QED BY <2>1, <2>4, <3>2 DEF Exit
  <2>5. ASSUME TakeDown(n) PROVE docker' \in [Names -> Containers' \cup {Null}]
    BY <2>1, <2>5 DEF TakeDown
  <2>. QED BY <2>2, <2>3, <2>4, <2>5 DEF Operator, Deploy
<1>6. TypeOK'
  <2>1. services' \in [Rows -> Entities' \cup {Null}]
    BY <1>1, <1>2, <1>4
  <2>. QED BY <1>1, <1>2, <1>4, <1>5, <2>1 DEF Typed, TypeOK
<1>7. LocalsTyped'
  BY <1>1, <1>2, <1>4 DEF Typed, LocalsTyped
<1>8. ASSUME NEW y \in Syncs PROVE SyncLoaded(y)'
  BY <1>1, <1>2, <1>4 DEF Typed, SyncLoaded
<1>9. ASSUME NEW k \in Rollbacks PROVE RollLoaded(k)'
  BY <1>1, <1>2, <1>4 DEF Typed, RollLoaded
<1>. QED BY <1>4, <1>6, <1>7, <1>8, <1>9 DEF Typed

LEMMA NextTyped == IInv /\ [Next]_vars => Typed'
<1>. SUFFICES ASSUME IInv, [Next]_vars PROVE Typed'
  OBVIOUS
<1>1. Typed
  BY DEF IInv
<1>2. ASSUME UNCHANGED vars PROVE Typed'
  BY <1>1, <1>2 DEF vars, host, tables, Typed, TypeOK, LocalsTyped, SyncLoaded, RollLoaded, Ids,
                    Containers, Entities, SyncLocals, RollLocals, Missing
<1>. QED
  BY <1>1, <1>2, ListTyped, SyncTyped, LoadTyped, RollTyped, OperatorTyped DEF Next

-----------------------------------------------------------------------------
(* Who writes the history *)

\* the rollback has inserted its snapshot
Inserted(k) == pc[k] \in {"succeeded", "save_event"}

Untouched(k) ==
    /\ Inserted(k)' <=> Inserted(k)
    /\ Inserted(k) => roll'[k].row = roll[k].row

LEMMA SyncUntouched ==
    ASSUME IInv, NEW y \in Syncs, SyncStep(y) \/ (y \in 1..overlap /\ List(y)),
           NEW k \in Rollbacks
    PROVE  Untouched(k)
<1>1. UNCHANGED roll
  BY DEF SyncStep, FindRow, SaveRow, SaveRowRejected, CompareImage, Inspect, FlipCurrent,
         InsertSnapshot, FindMissing, SaveMissing, SyncDone, List
<1>2. \E next \in SyncPoints : pc' = [pc EXCEPT ![y] = next] \/ UNCHANGED pc
  BY DEF SyncStep, FindRow, SaveRow, SaveRowRejected, CompareImage, Inspect, FlipCurrent,
         InsertSnapshot, FindMissing, SaveMissing, SyncDone, List, Step, SyncPoints
<1>3. pc'[k] = pc[k]
  BY <1>2, Apart DEF IInv, Typed, LocalsTyped
<1>. QED BY <1>1, <1>3 DEF Untouched, Inserted

LEMMA RollUntouched ==
    ASSUME IInv, NEW j \in Rollbacks,
           RollbackStep(j) \/ (\E r \in Rows, target \in Images : Load(j, r, target)),
           NEW k \in Rollbacks,
           j = k => ~ (InsertForRollback(k) /\ ~ SecondCurrent(roll[k].row, roll[k].flip))
    PROVE  Untouched(k)
<1>1. PICK next \in RollPoints : pc' = [pc EXCEPT ![j] = next]
  BY DEF RollbackStep, Stop, Remove, Run, ListAndClassify, SshFails, SaveService,
         SaveServiceRejected, FlipForRollback, InsertForRollback, SaveEvent, Load, Step,
         RollPoints, Executing
<1>4. \E local : UNCHANGED roll \/ roll' = [roll EXCEPT ![j] = local]
  BY DEF RollbackStep, Stop, Remove, Run, ListAndClassify, SshFails, SaveService,
         SaveServiceRejected, FlipForRollback, InsertForRollback, SaveEvent, Load
<1>2. CASE j # k
  <2>1. pc'[k] = pc[k] /\ roll'[k] = roll[k]
    BY <1>1, <1>2, <1>4 DEF IInv, Typed, LocalsTyped
  <2>. QED BY <2>1 DEF Untouched, Inserted
<1>3. CASE j = k
  <2>1. CASE SaveEvent(k)
    BY <2>1 DEF SaveEvent, Step, Untouched, Inserted, IInv, Typed, LocalsTyped
  <2>2. CASE InsertForRollback(k)
    <3>1. Step(k, "create_insert", "thrown")
      BY <1>3, <2>2 DEF InsertForRollback
    <3>. QED BY <3>1 DEF Step, Untouched, Inserted, IInv, Typed, LocalsTyped
  <2>3. ASSUME ~ SaveEvent(k), ~ InsertForRollback(k)
        PROVE  ~ Inserted(k) /\ pc'[k] \notin {"succeeded", "save_event"}
    <3>1. pc'[k] = next
      BY <1>1, <1>3 DEF IInv, Typed, LocalsTyped
    <3>2. /\ pc[k] \in {"idle", "stop", "remove", "run", "list", "save_service", "create_flip"}
          /\ \E point \in {"stop", "remove", "run", "list", "save_service", "failed", "create_flip",
                           "create_insert", "thrown"} : pc' = [pc EXCEPT ![k] = point]
      BY <1>3, <2>3
         DEF RollbackStep, Stop, Remove, Run, ListAndClassify, SshFails, SaveService,
             SaveServiceRejected, FlipForRollback, Load, Step
    <3>3. pc'[k] \in {"stop", "remove", "run", "list", "save_service", "failed", "create_flip",
                      "create_insert", "thrown"}
      BY <3>2 DEF IInv, Typed, LocalsTyped
    <3>. QED BY <3>2, <3>3 DEF Inserted
  <2>. QED BY <2>1, <2>2, <2>3 DEF Untouched, Inserted
<1>. QED BY <1>2, <1>3

\* A step leaves the history alone, or one process that found all current rows
\* records: a check for itself, a rollback by moving on to save_event.
LEMMA HistoryFlow ==
    ASSUME IInv, [Next]_vars
    PROVE  \/ UNCHANGED history /\ \A k \in Rollbacks : Untouched(k)
           \/ /\ \A k \in Rollbacks : Untouched(k)
              /\ \E r \in Rows, image \in Images : Captured(r, image, Null)
           \/ \E k \in Rollbacks :
                /\ \A j \in Rollbacks \ {k} : Untouched(j)
                /\ pc[k] = "create_insert" /\ pc'[k] = "save_event"
                /\ UNCHANGED roll /\ roll[k].row \in Rows
                /\ \E image \in Images : Captured(roll[k].row, image, k)
<1>. DEFINE Goal == \/ UNCHANGED history /\ \A k \in Rollbacks : Untouched(k)
                    \/ /\ \A k \in Rollbacks : Untouched(k)
                       /\ \E r \in Rows, image \in Images : Captured(r, image, Null)
                    \/ \E k \in Rollbacks :
                        /\ \A j \in Rollbacks \ {k} : Untouched(j)
                        /\ pc[k] = "create_insert" /\ pc'[k] = "save_event"
                        /\ UNCHANGED roll /\ roll[k].row \in Rows
                        /\ \E image \in Images : Captured(roll[k].row, image, k)
<1>1. Typed
  BY DEF IInv
<1>2. ASSUME NEW y \in Syncs, InsertSnapshot(y), ~ UNCHANGED history
      PROVE  \E r \in Rows, image \in Images : Captured(r, image, Null)
  <2>1. pc[y] = "insert"
    BY <1>2 DEF InsertSnapshot, Step
  <2>2. /\ sync[y].row \in Rows /\ sync[y].container.image \in Images
        /\ sync[y].flip \in SUBSET Nat
    BY <1>1, <2>1 DEF Typed, LocalsTyped, SyncLoaded, Containers, SyncLocals
  <2>3. Captured(sync[y].row, sync[y].container.image, Null)
    BY <1>2, <2>2 DEF InsertSnapshot, SecondCurrent, Captured
  <2>. QED BY <2>2, <2>3
<1>3. ASSUME NEW y \in Syncs, SyncStep(y) PROVE Goal
  <2>1. \A k \in Rollbacks : Untouched(k)
    BY <1>3, SyncUntouched
  <2>2. ASSUME ~ InsertSnapshot(y) PROVE UNCHANGED history
    BY <1>3, <2>2 DEF SyncStep, FindRow, SaveRow, SaveRowRejected, CompareImage, Inspect,
                      FlipCurrent, FindMissing, SaveMissing, SyncDone, tables
  <2>. QED BY <1>2, <2>1, <2>2
<1>4. ASSUME NEW k \in Rollbacks, InsertForRollback(k), ~ SecondCurrent(roll[k].row, roll[k].flip)
      PROVE  Goal
  <2>1. pc[k] = "create_insert" /\ pc'[k] = "save_event" /\ UNCHANGED roll
    BY <1>1, <1>4 DEF InsertForRollback, Step, Typed, LocalsTyped
  <2>2. roll[k].row \in Rows /\ roll[k].target \in Images /\ roll[k].flip \in SUBSET Nat
    BY <1>1, <2>1 DEF Typed, LocalsTyped, RollLoaded, RollLocals
  <2>3. Captured(roll[k].row, roll[k].target, k)
    BY <1>4, <2>2 DEF InsertForRollback, SecondCurrent, Captured
  <2>4. \A j \in Rollbacks \ {k} : Untouched(j)
    BY <1>4, RollUntouched DEF RollbackStep
  <2>. QED BY <2>1, <2>2, <2>3, <2>4
<1>5. ASSUME NEW k \in Rollbacks, RollbackStep(k),
             ~ (InsertForRollback(k) /\ ~ SecondCurrent(roll[k].row, roll[k].flip))
      PROVE  Goal
  <2>1. \A j \in Rollbacks : Untouched(j)
    BY <1>5, RollUntouched
  <2>2. UNCHANGED history
    BY <1>5 DEF RollbackStep, Stop, Remove, Run, ListAndClassify, SshFails, SaveService,
                SaveServiceRejected, FlipForRollback, InsertForRollback, SaveEvent, tables
  <2>. QED BY <2>1, <2>2
<1>6. ASSUME NEW y \in 1..overlap, List(y) PROVE Goal
  <2>1. y \in Syncs
    BY <1>1, DeploymentAssumption DEF Typed, TypeOK, Syncs
  <2>. QED BY <1>6, <2>1, SyncUntouched DEF List, tables
<1>7. ASSUME NEW k \in Rollbacks, NEW r \in Rows, NEW target \in Images, Load(k, r, target)
      PROVE  Goal
  <2>1. ~ InsertForRollback(k)
    BY <1>7 DEF Load, InsertForRollback, Step
  <2>. QED BY <1>7, <2>1, RollUntouched DEF Load, tables
<1>8. ASSUME (\E n \in Names : Operator(n)) \/ UNCHANGED vars PROVE Goal
  BY <1>8 DEF Operator, vars, tables, Untouched, Inserted
<1>. HIDE DEF Goal
<1>9. Goal
  BY <1>3, <1>4, <1>5, <1>6, <1>7, <1>8 DEF Next
<1>. QED BY <1>9 DEF Goal

\* What a recording process does to the history of its service, and only there.
LEMMA CapturedRow ==
    ASSUME IInv, NEW r \in Rows, NEW image \in Images, NEW by \in Rollbacks \cup {Null},
           Captured(r, image, by)
    PROVE  /\ \A q \in Rows : q # r => history'[q] = history[q]
           /\ \E flip \in SUBSET Nat : /\ CurrentOf(r) \subseteq flip
                                      /\ Extends(history'[r], history[r], flip, image, by)
<1>1. history \in [Rows -> Seq(Snapshots)]
  BY DEF IInv, Typed, LocalsTyped
<1>2. PICK flip \in SUBSET Nat :
        CurrentOf(r) \subseteq flip
        /\ history' = [history EXCEPT ![r] = Recorded(r, flip, image, by)]
  BY DEF Captured
<1>3. /\ history'[r] = Recorded(r, flip, image, by)
      /\ \A q \in Rows : q # r => history'[q] = history[q]
  BY <1>1, <1>2
<1>. QED BY <1>1, <1>2, <1>3, RecordedRows

-----------------------------------------------------------------------------
(* The newest deployment is the one that is current *)

LEMMA CapturedIsCurrent ==
    ASSUME IInv, NEW r \in Rows, NEW image \in Images, NEW by \in Rollbacks \cup {Null},
           Captured(r, image, by)
    PROVE  /\ CurrentOf(r)' = {Len(history[r]) + 1}
           /\ \A q \in Rows : q # r => CurrentOf(q)' = CurrentOf(q)
<1>. DEFINE n == Len(history[r])
<1>0. PICK flip \in SUBSET Nat :
        CurrentOf(r) \subseteq flip /\ Extends(history'[r], history[r], flip, image, by)
  BY CapturedRow
<1>1. /\ n \in Nat /\ Len(history'[r]) = n + 1
      /\ \A i \in 1..n : ~ history'[r][i].current
      /\ history'[r][n + 1].current
      /\ \A q \in Rows : q # r => history'[q] = history[q]
  <2>1. ASSUME NEW i \in 1..n PROVE ~ history'[r][i].current
    <3>1. i \notin flip => ~ history[r][i].current
      BY <1>0 DEF CurrentOf
    <3>. QED BY <1>0, <3>1 DEF Extends
  <2>. QED BY <1>0, <2>1, CapturedRow DEF Extends
<1>2. CurrentOf(r)' = {i \in 1..(n + 1) : history'[r][i].current}
  BY <1>1 DEF CurrentOf
<1>. HIDE DEF n
<1>3. \A i \in 1..(n + 1) : i \in 1..n \/ i = n + 1
  BY <1>1
<1>4. n + 1 \in 1..(n + 1)
  BY <1>1
<1>5. CurrentOf(r)' = {n + 1}
  BY <1>1, <1>2, <1>3, <1>4
<1>6. \A q \in Rows : q # r => CurrentOf(q)' = CurrentOf(q)
  BY <1>1 DEF CurrentOf
<1>. QED BY <1>5, <1>6 DEF n

LEMMA NewestStep == IInv /\ [Next]_vars => NewestIsCurrent'
<1>. SUFFICES ASSUME IInv, [Next]_vars, NEW r \in Rows
              PROVE  CurrentOf(r)' = IF history'[r] = <<>> THEN {} ELSE {Len(history'[r])}
  BY DEF NewestIsCurrent
<1>1. CurrentOf(r) = IF history[r] = <<>> THEN {} ELSE {Len(history[r])}
  BY DEF IInv, NewestIsCurrent
<1>2. CASE UNCHANGED history
  BY <1>1, <1>2 DEF CurrentOf
<1>3. ASSUME NEW q \in Rows, NEW image \in Images, NEW by \in Rollbacks \cup {Null},
             Captured(q, image, by)
      PROVE  CurrentOf(r)' = IF history'[r] = <<>> THEN {} ELSE {Len(history'[r])}
  <2>1. CASE q = r
    <3>1. /\ Len(history'[r]) = Len(history[r]) + 1 /\ Len(history[r]) \in Nat
          /\ CurrentOf(r)' = {Len(history[r]) + 1}
      BY <1>3, <2>1, CapturedRow, CapturedIsCurrent DEF Extends
    <3>2. history'[r] # <<>>
      BY <3>1
    <3>. QED BY <3>1, <3>2
  <2>2. CASE q # r
    <3>1. history'[r] = history[r] /\ CurrentOf(r)' = CurrentOf(r)
      BY <1>3, <2>2, CapturedRow, CapturedIsCurrent
    <3>. QED BY <1>1, <3>1
  <2>. QED BY <2>1, <2>2
<1>. QED BY <1>2, <1>3, HistoryFlow

-----------------------------------------------------------------------------
(* A rollback is recorded by its own insert alone *)

LEMMA CapturedRecords ==
    ASSUME IInv, NEW r \in Rows, NEW image \in Images, NEW by \in Rollbacks \cup {Null},
           Captured(r, image, by), NEW k \in Rollbacks
    PROVE  /\ k # by => \A q \in Rows : RecordsOf(k, history'[q]) = RecordsOf(k, history[q])
           /\ k = by => RecordsOf(k, history'[r])
                            = RecordsOf(k, history[r]) \cup {Len(history[r]) + 1}
           /\ Len(history'[r]) = Len(history[r]) + 1 /\ Len(history[r]) \in Nat
           /\ \A q \in Rows : q # r => history'[q] = history[q]
<1>. DEFINE n == Len(history[r])
<1>1. /\ n \in Nat /\ Len(history'[r]) = n + 1
      /\ \A i \in 1..n : history'[r][i].by = history[r][i].by
      /\ history'[r][n + 1].by = by
      /\ \A q \in Rows : q # r => history'[q] = history[q]
  <2>1. PICK flip \in SUBSET Nat : Extends(history'[r], history[r], flip, image, by)
    BY CapturedRow
  <2>2. \A q \in Rows : q # r => history'[q] = history[q]
    BY CapturedRow
  <2>. QED BY <2>1, <2>2 DEF Extends
<1>2. /\ RecordsOf(k, history'[r]) = {i \in 1..(n + 1) : history'[r][i].by = k}
      /\ RecordsOf(k, history[r]) = {i \in 1..n : history[r][i].by = k}
      /\ \A q \in Rows : q # r => RecordsOf(k, history'[q]) = RecordsOf(k, history[q])
  BY <1>1 DEF RecordsOf
<1>. HIDE DEF n
<1>3. \A i : i \in 1..(n + 1) <=> i \in 1..n \/ i = n + 1
  BY <1>1
<1>4. k # by => RecordsOf(k, history'[r]) = RecordsOf(k, history[r])
  BY <1>1, <1>2, <1>3
<1>5. k = by => RecordsOf(k, history'[r]) = RecordsOf(k, history[r]) \cup {n + 1}
  BY <1>1, <1>2, <1>3
<1>. QED BY <1>1, <1>2, <1>4, <1>5 DEF n

LEMMA RecordedStep == IInv /\ [Next]_vars => RecordedByInsert'
<1>. SUFFICES ASSUME IInv, [Next]_vars, NEW k \in Rollbacks
              PROVE  IF Inserted(k)'
                     THEN \E i \in 1..Len(history'[roll'[k].row]) :
                            RecordsOf(k, history'[roll'[k].row]) = {i}
                     ELSE \A r \in Rows : RecordsOf(k, history'[r]) = {}
  BY DEF RecordedByInsert, Inserted
<1>1. /\ Inserted(k) => /\ roll[k].row \in Rows
                        /\ \E i \in 1..Len(history[roll[k].row]) :
                                RecordsOf(k, history[roll[k].row]) = {i}
      /\ ~ Inserted(k) => \A r \in Rows : RecordsOf(k, history[r]) = {}
  BY DEF IInv, RecordedByInsert, Inserted, Typed, RollLoaded
<1>2. Null \notin Rollbacks
  BY DeploymentAssumption
<1>. DEFINE Kept == /\ \A q \in Rows : RecordsOf(k, history'[q]) = RecordsOf(k, history[q])
                    /\ \A q \in Rows : \A i \in 1..Len(history[q]) : i \in 1..Len(history'[q])
            Goal == IF Inserted(k)'
                    THEN \E i \in 1..Len(history'[roll'[k].row]) :
                            RecordsOf(k, history'[roll'[k].row]) = {i}
                    ELSE \A r \in Rows : RecordsOf(k, history'[r]) = {}
<1>3. ASSUME Kept, Untouched(k) PROVE Goal
  <2>1. CASE Inserted(k)
    <3>1. Inserted(k)' /\ roll'[k].row = roll[k].row
      BY <1>3, <2>1 DEF Untouched
    <3>2. PICK i \in 1..Len(history[roll[k].row]) : RecordsOf(k, history[roll[k].row]) = {i}
      BY <1>1, <2>1
    <3>3. roll[k].row \in Rows
      BY <1>1, <2>1
    <3>4. RecordsOf(k, history'[roll'[k].row]) = {i} /\ i \in 1..Len(history'[roll'[k].row])
      BY <1>3, <3>1, <3>2, <3>3
    <3>. QED BY <3>1, <3>4
  <2>2. CASE ~ Inserted(k)
    BY <1>1, <1>3, <2>2 DEF Untouched
  <2>. QED BY <2>1, <2>2
<1>4. ASSUME UNCHANGED history PROVE Kept
  BY <1>4 DEF RecordsOf
<1>5. ASSUME NEW r \in Rows, NEW image \in Images, NEW by \in Rollbacks \cup {Null},
             Captured(r, image, by), k # by
      PROVE  Kept
  <2>1. \A q \in Rows : RecordsOf(k, history'[q]) = RecordsOf(k, history[q])
    BY <1>5, CapturedRecords
  <2>2. /\ Len(history'[r]) = Len(history[r]) + 1 /\ Len(history[r]) \in Nat
        /\ \A q \in Rows : q # r => history'[q] = history[q]
    BY <1>5, CapturedRecords
  <2>3. \A i \in 1..Len(history[r]) : i \in 1..Len(history'[r])
    BY <2>2
  <2>. QED BY <2>1, <2>2, <2>3
<1>6. ASSUME pc[k] = "create_insert", pc'[k] = "save_event", UNCHANGED roll, roll[k].row \in Rows,
             NEW image \in Images, Captured(roll[k].row, image, k)
      PROVE  Goal
  <2>. DEFINE r == roll[k].row
  <2>1. RecordsOf(k, history[r]) = {}
    BY <1>1, <1>6 DEF Inserted
  <2>2. /\ RecordsOf(k, history'[r]) = RecordsOf(k, history[r]) \cup {Len(history[r]) + 1}
        /\ Len(history'[r]) = Len(history[r]) + 1 /\ Len(history[r]) \in Nat
    BY <1>6, CapturedRecords
  <2>3. Inserted(k)' /\ roll'[k].row = r
    BY <1>6 DEF Inserted
  <2>4. Len(history[r]) + 1 \in 1..Len(history'[r])
    BY <2>2
  <2>5. RecordsOf(k, history'[r]) = {Len(history[r]) + 1}
    BY <2>1, <2>2
  <2>. QED BY <2>3, <2>4, <2>5
<1>. HIDE DEF Kept, Goal
<1>7. Goal
  BY <1>2, <1>3, <1>4, <1>5, <1>6, HistoryFlow
<1>. QED BY <1>7 DEF Goal

-----------------------------------------------------------------------------
(* The theorems *)

LEMMA Inductive == Spec => []IInv
<1>1. IInv /\ [Next]_vars => IInv'
  BY NextTyped, NewestStep, RecordedStep DEF IInv
<1>. QED BY <1>1, InitTyped, PTL DEF Spec

\* However checks, rollbacks and operators interleave, the rows have their
\* types and point to containers docker created, and a rollback is in the
\* history of its service once if it succeeded, and not at all if it failed.
THEOREM HistorySound == Spec => []HistoryIsSound
<1>1. IInv => HistoryIsSound
  <2>. SUFFICES ASSUME IInv, NEW k \in Rollbacks
                PROVE  /\ pc[k] \in {"succeeded", "save_event"}
                            => Cardinality(RecordsOf(k, history[roll[k].row])) = 1
                       /\ pc[k] \in {"failed", "thrown"} => RecordsOf(k, history[roll[k].row]) = {}
    BY DEF HistoryIsSound, RecordedIffSucceeded, RecordsOf, IInv, Typed
  <2>1. pc[k] # "idle" => roll[k].row \in Rows
    BY DEF IInv, Typed, RollLoaded
  <2>2. IF pc[k] \in {"succeeded", "save_event"}
        THEN \E i \in 1..Len(history[roll[k].row]) : RecordsOf(k, history[roll[k].row]) = {i}
        ELSE \A r \in Rows : RecordsOf(k, history[r]) = {}
    BY DEF IInv, RecordedByInsert
  <2>. QED BY <2>1, <2>2, FS_Singleton
<1>. QED BY <1>1, Inductive, PTL

\* Concurrent captures and rollbacks only ever append to a service's history,
\* and the deployment a step appended is the one that is current after it.
THEOREM ImplementsHistory == Spec => KeepsDeploymentHistory
<1>. DEFINE Log(r) == [i \in 1..Len(history[r]) |->
                [image |-> history[r][i].image, by |-> history[r][i].by]]
            Deployed == [image : Images, by : Rollbacks \cup {Null}]
            log == [r \in Rows |-> Log(r)]
            current == [r \in Rows |-> CurrentOf(r)]
<1>1. ASSUME IInv, NEW r \in Rows
      PROVE  /\ Log(r) \in Seq(Deployed) /\ Len(Log(r)) = Len(history[r])
             /\ Log(r) = <<>> <=> history[r] = <<>>
             /\ Len(history[r]) \in Nat
  <2>1. /\ history[r] \in Seq(Snapshots) /\ Len(history[r]) \in Nat
        /\ \A i \in 1..Len(history[r]) : history[r][i] \in Snapshots
    BY <1>1 DEF IInv, Typed, LocalsTyped
  <2>2. Log(r) \in [1..Len(history[r]) -> Deployed]
    BY <2>1 DEF Snapshots
  <2>. HIDE DEF Log, Deployed
  <2>3. Log(r) \in Seq(Deployed) /\ Len(Log(r)) = Len(history[r])
    BY <2>1, <2>2
  <2>. QED BY <2>1, <2>3
<1>2. Init => AbstractHistory!Init
  <2>. SUFFICES ASSUME Init
                PROVE  /\ log \in [Rows -> Seq(Deployed)]
                       /\ current = [r \in Rows |-> AbstractHistory!Newest(log[r])]
    BY DEF AbstractHistory!Init
  <2>1. IInv
    BY InitTyped
  <2>2. \A r \in Rows : CurrentOf(r) = IF Log(r) = <<>> THEN {} ELSE {Len(Log(r))}
    BY <1>1, <2>1 DEF IInv, NewestIsCurrent
  <2>3. \A r \in Rows : Log(r) \in Seq(Deployed)
    BY <1>1, <2>1
  <2>. HIDE DEF Log, Deployed
  <2>. QED BY <2>2, <2>3 DEF AbstractHistory!Newest
<1>3. ASSUME IInv, IInv', NEW r \in Rows, NEW image \in Images, NEW by \in Rollbacks \cup {Null},
             Captured(r, image, by)
      PROVE  AbstractHistory!Next
  <2>. DEFINE d == [image |-> image, by |-> by]
              n == Len(history[r])
  <2>1. PICK flip \in SUBSET Nat : Extends(history'[r], history[r], flip, image, by)
    BY <1>3, CapturedRow
  <2>2. /\ n \in Nat /\ Len(history'[r]) = n + 1
        /\ \A i \in 1..n :
            history'[r][i].image = history[r][i].image /\ history'[r][i].by = history[r][i].by
        /\ history'[r][n + 1].image = image /\ history'[r][n + 1].by = by
    BY <2>1 DEF Extends
  <2>3. Log(r) \in Seq(Deployed) /\ Len(Log(r)) = n
    BY <1>1, <1>3
  <2>4. d \in Deployed
    OBVIOUS
  <2>5. Log(r)' = Append(Log(r), d)
    <3>1. Log(r)' = [i \in 1..(n + 1) |->
                [image |-> history'[r][i].image, by |-> history'[r][i].by]]
      BY <2>2
    <3>2. \A i \in 1..n : Log(r)'[i] = Log(r)[i]
      <4>1. \A i \in 1..n : i \in 1..(n + 1)
        BY <2>2
      <4>. QED BY <2>2, <3>1, <4>1
    <3>3. Log(r)'[n + 1] = d
      <4>1. n + 1 \in 1..(n + 1)
        BY <2>2
      <4>. QED BY <2>2, <3>1, <4>1
    <3>4. Log(r)' \in Seq(Deployed) /\ Len(Log(r)') = n + 1
      <4>1. \A i \in 1..(n + 1) : i \in 1..n \/ i = n + 1
        BY <2>2
      <4>2. \A i \in 1..(n + 1) : Log(r)'[i] \in Deployed
        <5>1. \A i \in 1..n : Log(r)[i] \in Deployed
          BY <2>3
        <5>. QED BY <2>4, <3>2, <3>3, <4>1, <5>1
      <4>3. Log(r)' \in [1..(n + 1) -> Deployed]
        BY <3>1, <4>2
      <4>. HIDE DEF Log, Deployed
      <4>. QED BY <2>2, <4>3
    <3>. DEFINE a == Append(Log(r), d)
    <3>. HIDE DEF Log, Deployed, d, n
    <3>5. /\ a \in Seq(Deployed) /\ Len(a) = n + 1
          /\ \A i \in 1..n : a[i] = Log(r)[i]
          /\ a[n + 1] = d
      BY <2>2, <2>3, <2>4
    <3>. HIDE DEF a
    <3>6. \A i \in 1..(n + 1) : i \in 1..n \/ i = n + 1
      BY <2>2
    <3>7. \A i \in 1..Len(Log(r)') : Log(r)'[i] = a[i]
      BY <3>2, <3>3, <3>4, <3>5, <3>6
    <3>8. Log(r)' = a
      BY <3>4, <3>5, <3>7, SeqEqual
    <3>. QED BY <3>8 DEF a
  <2>6. CurrentOf(r)' = {n + 1} /\ \A q \in Rows : q # r => CurrentOf(q)' = CurrentOf(q)
    BY <1>3, CapturedIsCurrent
  <2>7. \A q \in Rows : q # r => Log(q)' = Log(q)
    BY <1>3, CapturedRow
  <2>8. d \in Deployed /\ Len(log[r]) = n
    BY <2>3, <2>4
  <2>. HIDE DEF d, n, Log, Deployed
  <2>9. log' = [log EXCEPT ![r] = Append(@, d)]
    BY <2>5, <2>7
  <2>10. current' = [current EXCEPT ![r] = {Len(log[r]) + 1}]
    BY <2>6, <2>8
  <2>. USE DEF Deployed, Log
  <2>11. AbstractHistory!Record(r, d)
    BY <2>9, <2>10 DEF AbstractHistory!Record
  <2>. QED BY <2>8, <2>11 DEF AbstractHistory!Next
<1>4. ASSUME UNCHANGED history PROVE UNCHANGED AbstractHistory!vars
  BY <1>4 DEF AbstractHistory!vars, CurrentOf
<1>5. IInv /\ IInv' /\ [Next]_vars => [AbstractHistory!Next]_AbstractHistory!vars
  BY <1>3, <1>4, HistoryFlow
<1>. QED BY <1>2, <1>5, Inductive, PTL DEF Spec, KeepsDeploymentHistory, AbstractHistory!Spec

=============================================================================
