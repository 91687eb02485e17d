---------------------------- MODULE Deployments -----------------------------
(***************************************************************************)
(* The rows that describe what runs on one host: services (keyed on host   *)
(* and container id) and deployment_snapshots, while the service sync of   *)
(* concurrent host checks, executing rollbacks and the operators of the    *)
(* host change them and the containers.                                    *)
(*                                                                         *)
(* A save of the ORM writes every column in which the entity differs from  *)
(* the row at that moment, the ones that were read long before included.   *)
(* Job delivery, crashes and the removal of hosts are those of Rollback.   *)
(***************************************************************************)
EXTENDS Naturals, Sequences, FiniteSets

CONSTANTS
    Names,          \* container names on the host
    Images, Untagged, \* image references; what docker ps shows once a tag moved on
    Rows,           \* ids a services row may get
    Slots,          \* bound: checks of this host that overlap
    Rollbacks,      \* rollback events that get executed
    Null,
    MaxChanges      \* bound on what the operators of the host do and on failures of docker,
                    \* for each number of checks that overlap

\* health-check worker slots checking this host
Syncs == 1..Slots

ASSUME DeploymentAssumption ==
    /\ IsFiniteSet(Names)
    /\ Slots \in Nat \ {0}
    /\ Null \notin Names \cup Images \cup Rows \cup Rollbacks \cup Nat
    /\ Syncs \cap Rollbacks = {}
    /\ Untagged \in Images
    /\ MaxChanges \in [Syncs -> Nat]

VARIABLES
    docker,     \* per name, its container
    nextId,     \* next container id docker hands out
    overlap,    \* slots that take checks of this host (fixed)
    changes,    \* how often operators acted and docker failed so far
    services,   \* services rows (Null: id unused)
    history,    \* deployment_snapshots rows of each service in insertion order
    pc,         \* next step of each sync and each rollback
    sync,       \* locals of each sync
    roll        \* locals of each rollback

host == <<docker, nextId, overlap, changes>>
tables == <<services, history>>
vars == <<host, tables, pc, sync, roll>>

NoContainer == [id |-> 0, name |-> Null, image |-> Null, up |-> FALSE]
NoEntity == [container |-> 0, name |-> Null, image |-> Null, status |-> "unknown"]
NoSync == [todo |-> {}, seen |-> {}, container |-> NoContainer, row |-> Null, flip |-> {},
           missing |-> {}]
NoRoll == [row |-> Null, entity |-> NoEntity, target |-> Null, started |-> FALSE, found |-> Null,
           flip |-> {}]

\* classifyContainerStatus; unhealthy and crash_loop count as stopped here
Classify(container) == IF container.up THEN "running" ELSE "stopped"

Present == {docker[n] : n \in {m \in Names : docker[m] # Null}}
RowsOf(id) == {r \in Rows : services[r] # Null /\ services[r].container = id}

\* the unique index on (host_id, container_id) rejects r with this id
Duplicate(r, id) == RowsOf(id) \ {r} # {}

CurrentOf(r) == {i \in 1..Len(history[r]) : history[r][i].current}

OneToOne(f) == \A m, n \in DOMAIN f : f[m] = f[n] => m = n

\* The host was checked once: each container has its row and a snapshot.
Init ==
    /\ \E image \in [Names -> Images \ {Untagged}] :
        LET rowOf == CHOOSE f \in [Names -> Rows] : OneToOne(f)
            idOf == CHOOSE f \in [Names -> 1..Cardinality(Names)] : OneToOne(f)
        IN  /\ docker = [n \in Names |->
                    [id |-> idOf[n], name |-> n, image |-> image[n], up |-> TRUE]]
            /\ services = [r \in Rows |->
                    IF \E n \in Names : rowOf[n] = r
                    THEN LET n == CHOOSE n \in Names : rowOf[n] = r
                         IN  [container |-> idOf[n], name |-> n, image |-> image[n],
                              status |-> "running"]
                    ELSE Null]
    /\ history = [r \in Rows |->
            IF services[r] = Null THEN <<>>
            ELSE <<[image |-> services[r].image, by |-> Null, current |-> TRUE]>>]
    /\ nextId = Cardinality(Names) + 1
    /\ overlap \in Syncs
    /\ changes = 0
    /\ pc = [p \in Syncs \cup Rollbacks |-> "idle"]
    /\ sync = [y \in Syncs |-> NoSync]
    /\ roll = [k \in Rollbacks |-> NoRoll]

Step(p, from, to) == pc[p] = from /\ pc' = [pc EXCEPT ![p] = to]

\* Operators act, and docker commands fail for reasons of their own, now and
\* then.
Change == changes < MaxChanges[overlap] /\ changes' = changes + 1

-----------------------------------------------------------------------------
(* DeploymentSnapshotsService.createSnapshot: one transaction of two statements *)

\* the UPDATE finds the rows that are current
Flipped(r) == CurrentOf(r)

\* the history after the transaction that unset flip and inserted a row
Recorded(r, flip, image, by) ==
    Append([i \in 1..Len(history[r]) |-> IF i \in flip THEN [history[r][i] EXCEPT !.current = FALSE]
                                         ELSE history[r][i]],
           [image |-> image, by |-> by, current |-> TRUE])

\* Variant: no unique index on the current snapshot.
NoCurrentIndex(r, flip) == FALSE

\* The INSERT violates the unique index: another transaction committed a
\* current row since this one's UPDATE.
SecondCurrent(r, flip) == CurrentOf(r) \ flip # {}

-----------------------------------------------------------------------------
(* ServicesSyncService.sync, with the docker ps of the host check before it *)

\* docker ps -a answers, or fails with output that names no container and does
\* not look like docker is missing.
List(y) ==
    /\ Step(y, "idle", "upsert")
    /\ \E listed \in {Present, {}} :
        /\ IF listed = Present THEN UNCHANGED changes ELSE Change
        /\ sync' = [sync EXCEPT ![y] =
                    [NoSync EXCEPT !.todo = listed, !.seen = {c.id : c \in listed}]]
    /\ UNCHANGED <<docker, nextId, overlap, tables, roll>>

\* sync after upsertService returned: its locals are gone
Returned(y) == [sync EXCEPT ![y] = [NoSync EXCEPT !.todo = sync[y].todo, !.seen = sync[y].seen]]

\* upsertService: serviceRepository.findOne by host and container id
FindRow(y, c) ==
    /\ c \in sync[y].todo
    /\ Step(y, "upsert", "save")
    /\ \E row \in Rows \cup {Null} :
        /\ IF RowsOf(c.id) = {} THEN row = Null ELSE row \in RowsOf(c.id)
        /\ sync' = [sync EXCEPT ![y].container = c, ![y].row = row, ![y].todo = @ \ {c}]
    /\ UNCHANGED <<host, tables, roll>>

\* the id of a new row; rows are never deleted, and which id it gets is all one
NewRow == CHOOSE r \in {q \in Rows : services[q] = Null} \cup {Null} :
              r = Null => \A q \in Rows : services[q] # Null

\* serviceRepository.save of the new or found entity
SaveRow(y) ==
    LET c == sync[y].container
    IN  \E r \in Rows :
            /\ r = IF sync[y].row = Null THEN NewRow ELSE sync[y].row
            /\ ~ Duplicate(r, c.id)
            /\ Step(y, "save", "capture")
            /\ services' = [services EXCEPT ![r] =
                    [container |-> c.id, name |-> c.name, image |-> c.image,
                     status |-> Classify(c)]]
            /\ sync' = [sync EXCEPT ![y].row = r]
            /\ UNCHANGED <<host, history, roll>>

\* The unique index rejects the save; the exception ends the whole check.
SaveRowRejected(y) ==
    /\ Step(y, "save", "idle")
    /\ Duplicate(sync[y].row, sync[y].container.id)
    /\ sync' = [sync EXCEPT ![y] = NoSync]
    /\ UNCHANGED <<host, tables, roll>>

\* Variant: only the first sight of a container is captured.
CompareNothing(y) ==
    /\ Step(y, "capture", IF CurrentOf(sync[y].row) = {} THEN "inspect" ELSE "upsert")
    /\ UNCHANGED <<host, tables, sync, roll>>

\* captureSnapshotIfImageChanged: findCurrentForService
CompareImage(y) ==
    LET r == sync[y].row
        same == \E i \in CurrentOf(r) : history[r][i].image = sync[y].container.image
    IN  /\ Step(y, "capture", IF same THEN "upsert" ELSE "inspect")
        /\ sync' = IF same THEN Returned(y) ELSE sync
        /\ UNCHANGED <<host, tables, roll>>

\* docker inspect finds the container, or it is gone or docker or SSH fails
Inspect(y) ==
    LET there == \E c \in Present : c.id = sync[y].container.id
    IN  /\ \/ there /\ Step(y, "inspect", "flip") /\ UNCHANGED <<changes, sync>>
           \/ /\ IF there THEN Change ELSE UNCHANGED changes
              /\ Step(y, "inspect", "upsert") /\ sync' = Returned(y)
        /\ UNCHANGED <<docker, nextId, overlap, tables, roll>>

FlipCurrent(y) ==
    /\ Step(y, "flip", "insert")
    /\ sync' = [sync EXCEPT ![y].flip = Flipped(sync[y].row)]
    /\ UNCHANGED <<host, tables, roll>>

\* The transaction commits, or is rejected; the exception is caught.
InsertSnapshot(y) ==
    LET r == sync[y].row
        flip == sync[y].flip
    IN  /\ Step(y, "insert", "upsert")
        /\ history' = IF SecondCurrent(r, flip) THEN history
                      ELSE [history EXCEPT ![r] =
                                Recorded(r, flip, sync[y].container.image, Null)]
        /\ sync' = Returned(y)
        /\ UNCHANGED <<host, services, roll>>

\* markMissingServicesUnknown reads the rows ...
FindMissing(y) ==
    /\ sync[y].todo = {}
    /\ Step(y, "upsert", "mark")
    /\ sync' = [sync EXCEPT ![y] = [NoSync EXCEPT !.missing =
            {[row |-> r, entity |-> services[r]] :
                r \in {q \in Rows : /\ services[q] # Null
                                    /\ services[q].container \notin sync[y].seen
                                    /\ services[q].status # "unknown"}}]]
    /\ UNCHANGED <<host, tables, roll>>

\* ... and saves them one after the other.
SaveMissing(y, m) ==
    /\ pc[y] = "mark"
    /\ m \in sync[y].missing
    /\ IF Duplicate(m.row, m.entity.container)
       THEN /\ Step(y, "mark", "idle")
            /\ sync' = [sync EXCEPT ![y] = NoSync]
            /\ UNCHANGED services
       ELSE /\ services' = [services EXCEPT ![m.row] = [m.entity EXCEPT !.status = "unknown"]]
            /\ sync' = [sync EXCEPT ![y].missing = @ \ {m}]
            /\ UNCHANGED pc
    /\ UNCHANGED <<host, history, roll>>

SyncDone(y) ==
    /\ sync[y].missing = {}
    /\ Step(y, "mark", "idle")
    /\ sync' = [sync EXCEPT ![y] = NoSync]
    /\ UNCHANGED <<host, tables, roll>>

\* one await of a running sync
SyncStep(y) ==
    \/ \E c \in sync[y].todo : FindRow(y, c)
    \/ SaveRow(y)
    \/ SaveRowRejected(y)
    \/ CompareImage(y)
    \/ Inspect(y)
    \/ FlipCurrent(y)
    \/ InsertSnapshot(y)
    \/ FindMissing(y)
    \/ \E m \in sync[y].missing : SaveMissing(y, m)
    \/ SyncDone(y)

-----------------------------------------------------------------------------
(* RollbackProcessor.process, once the event is in_progress *)

\* rollbacks between the load of the service row and the verdict
Executing == {"stop", "remove", "run", "list", "save_service", "create_flip", "create_insert",
              "save_event"}

\* The service row and the target snapshot are loaded; the rollback queue
\* executes one rollback of a service at a time.
Load(k, r, target) ==
    /\ Step(k, "idle", "stop")
    /\ services[r] # Null
    /\ target \in {history[r][i].image : i \in 1..Len(history[r])}
    /\ \A j \in Rollbacks : pc[j] \in Executing => roll[j].row # r
    /\ roll' = [roll EXCEPT ![k] = [NoRoll EXCEPT !.row = r, !.entity = services[r],
                                                 !.target = target]]
    /\ UNCHANGED <<host, tables, sync>>

\* the container name of the snapshot's config
NameOf(k) == roll[k].entity.name

\* the container id of the row, as it was loaded, is that of the container
Reaches(k) ==
    docker[NameOf(k)] # Null /\ docker[NameOf(k)].id = roll[k].entity.container

Stop(k) ==
    /\ Step(k, "stop", "remove")
    /\ docker' = IF Reaches(k) THEN [docker EXCEPT ![NameOf(k)].up = FALSE] ELSE docker
    /\ UNCHANGED <<nextId, overlap, changes, tables, sync, roll>>

Remove(k) ==
    /\ Step(k, "remove", "run")
    /\ docker' = IF Reaches(k) /\ ~ docker[NameOf(k)].up
                 THEN [docker EXCEPT ![NameOf(k)] = Null] ELSE docker
    /\ UNCHANGED <<nextId, overlap, changes, tables, sync, roll>>

\* a new container takes the name
Create(n, image) ==
    /\ docker' = [docker EXCEPT ![n] = [id |-> nextId, name |-> n, image |-> image, up |-> TRUE]]
    /\ nextId' = nextId + 1

\* docker run fails on a name in use, or for reasons of its own
Run(k) ==
    /\ Step(k, "run", "list")
    /\ \/ /\ docker[NameOf(k)] = Null
          /\ Create(NameOf(k), roll[k].target)
          /\ roll' = [roll EXCEPT ![k].started = TRUE]
          /\ UNCHANGED changes
       \/ /\ IF docker[NameOf(k)] = Null THEN Change ELSE UNCHANGED changes
          /\ UNCHANGED <<docker, nextId, roll>>
    /\ UNCHANGED <<overlap, tables, sync>>

\* docker run exited with 0 and the container found by name is running
HealthCheck(k, c) == roll[k].started /\ c # Null /\ Classify(c) = "running"

\* docker ps -a, the container with the name, its class, and the verdict
ListAndClassify(k) ==
    LET c == docker[NameOf(k)]
    IN  /\ Step(k, "list", IF HealthCheck(k, c) THEN "save_service" ELSE "failed")
        /\ roll' = [roll EXCEPT ![k].found = IF c = Null THEN Null ELSE c.id]
        /\ UNCHANGED <<host, tables, sync>>

\* The connection is lost: fail(), whatever the commands did so far.
SshFails(k) ==
    /\ pc[k] \in {"stop", "remove", "run", "list"}
    /\ pc' = [pc EXCEPT ![k] = "failed"]
    /\ UNCHANGED <<host, tables, sync, roll>>

\* succeed(): save of the loaded entity with the new id and image
SaveService(k) ==
    LET r == roll[k].row
    IN  /\ Step(k, "save_service", "create_flip")
        /\ ~ Duplicate(r, roll[k].found)
        /\ services' = [services EXCEPT ![r] =
                [roll[k].entity EXCEPT !.container = roll[k].found, !.image = roll[k].target,
                                       !.status = "running"]]
        /\ UNCHANGED <<host, history, sync, roll>>

\* Another row has that container id by now: the exception leaves process(),
\* the job fails, and the event stays in_progress.
SaveServiceRejected(k) ==
    /\ Step(k, "save_service", "thrown")
    /\ Duplicate(roll[k].row, roll[k].found)
    /\ UNCHANGED <<host, tables, sync, roll>>

FlipForRollback(k) ==
    /\ Step(k, "create_flip", "create_insert")
    /\ roll' = [roll EXCEPT ![k].flip = Flipped(roll[k].row)]
    /\ UNCHANGED <<host, tables, sync>>

\* Variant: a rejected snapshot is only logged, as the sync does.
InsertOrLog(k) ==
    LET r == roll[k].row
    IN  /\ Step(k, "create_insert", "save_event")
        /\ history' = IF SecondCurrent(r, roll[k].flip) THEN history
                      ELSE [history EXCEPT ![r] = Recorded(r, roll[k].flip, roll[k].target, k)]
        /\ UNCHANGED <<host, services, sync, roll>>

\* createSnapshot; its exception, too, leaves process()
InsertForRollback(k) ==
    LET r == roll[k].row
        rejected == SecondCurrent(r, roll[k].flip)
    IN  /\ Step(k, "create_insert", IF rejected THEN "thrown" ELSE "save_event")
        /\ history' = IF rejected THEN history
                      ELSE [history EXCEPT ![r] = Recorded(r, roll[k].flip, roll[k].target, k)]
        /\ UNCHANGED <<host, services, sync, roll>>

SaveEvent(k) ==
    /\ Step(k, "save_event", "succeeded")
    /\ UNCHANGED <<host, tables, sync, roll>>

RollbackStep(k) ==
    \/ Stop(k)
    \/ Remove(k)
    \/ Run(k)
    \/ ListAndClassify(k)
    \/ SshFails(k)
    \/ SaveService(k)
    \/ SaveServiceRejected(k)
    \/ FlipForRollback(k)
    \/ InsertForRollback(k)
    \/ SaveEvent(k)

-----------------------------------------------------------------------------
(* What the operators of the host do to the containers *)

\* docker compose up with another image: a new container under the name
Deploy(n, image) == Create(n, image)

\* docker pull moves the tag: docker ps now shows the image's id
Retag(n) ==
    /\ docker[n] # Null /\ docker[n].image # Untagged
    /\ docker' = [docker EXCEPT ![n].image = Untagged]
    /\ UNCHANGED nextId

Exit(n) ==
    /\ docker[n] # Null /\ docker[n].up
    /\ docker' = [docker EXCEPT ![n].up = FALSE]
    /\ UNCHANGED nextId

TakeDown(n) ==
    /\ docker[n] # Null
    /\ docker' = [docker EXCEPT ![n] = Null]
    /\ UNCHANGED nextId

Operator(n) ==
    /\ Change
    /\ \/ \E image \in Images \ {Untagged} : Deploy(n, image)
       \/ Retag(n)
       \/ Exit(n)
       \/ TakeDown(n)
    /\ UNCHANGED <<overlap, tables, pc, sync, roll>>

Next ==
    \/ \E y \in 1..overlap : List(y)
    \/ \E y \in Syncs : SyncStep(y)
    \/ \E k \in Rollbacks, r \in Rows, target \in Images : Load(k, r, target)
    \/ \E k \in Rollbacks : RollbackStep(k)
    \/ \E n \in Names : Operator(n)

Spec == Init /\ [][Next]_vars

\* The scheduler keeps sending host checks, and what was started goes on.
\* Nobody has to roll back or to touch the host.
Fairness ==
    /\ WF_vars(\E y \in 1..overlap : List(y))
    /\ \A y \in Syncs : WF_vars(SyncStep(y))
    /\ \A k \in Rollbacks : WF_vars(RollbackStep(k))

FairSpec == Spec /\ Fairness

-----------------------------------------------------------------------------
(* Properties *)

Ids == 1..(nextId - 1)
Entities == [container : Ids, name : Names, image : Images,
             status : {"running", "stopped", "unknown"}]
Snapshots == [image : Images, by : Rollbacks \cup {Null}, current : BOOLEAN]
Containers == [id : Ids, name : Names, image : Images, up : BOOLEAN]
SyncPoints == {"idle", "upsert", "save", "capture", "inspect", "flip", "insert", "mark"}
RollPoints == Executing \cup {"idle", "succeeded", "failed", "thrown"}

\* Every row, snapshot, container and program point has its type; rows and
\* containers have ids that docker handed out.
TypeOK ==
    /\ docker \in [Names -> Containers \cup {Null}]
    /\ nextId \in Nat
    /\ overlap \in Syncs /\ changes \in 0..MaxChanges[overlap]
    /\ services \in [Rows -> Entities \cup {Null}]
    /\ \A r \in Rows : history[r] \in Seq(Snapshots)
    /\ \A y \in Syncs : pc[y] \in SyncPoints
    /\ \A k \in Rollbacks : pc[k] \in RollPoints

AbstractHistory == INSTANCE DeploymentHistory WITH
    Services <- Rows,
    Deployments <- [image : Images, by : Rollbacks \cup {Null}],
    log <- [r \in Rows |-> [i \in 1..Len(history[r]) |->
                [image |-> history[r][i].image, by |-> history[r][i].by]]],
    current <- [r \in Rows |-> CurrentOf(r)]

\* Comment of createSnapshot, "exactly one row per service is ever current":
\* concurrent captures and rollbacks only ever append to the history of a
\* service and make the appended deployment the one that is current.
KeepsDeploymentHistory == AbstractHistory!Spec

\* A rollback is in the history exactly once if it succeeded and not at all if
\* it did not, whatever snapshots the syncs capture around it.
RecordedIffSucceeded ==
    \A k \in Rollbacks :
        LET r == roll[k].row
            recorded == {i \in 1..Len(history[r]) : history[r][i].by = k}
        IN  /\ pc[k] \in {"succeeded", "save_event"} => Cardinality(recorded) = 1
            /\ pc[k] \in {"failed", "thrown"} => recorded = {}

\* the rows tell what is on the host
Accurate ==
    /\ \A c \in Present : \E r \in RowsOf(c.id) :
        /\ services[r] = [container |-> c.id, name |-> c.name, image |-> c.image,
                          status |-> Classify(c)]
        /\ \E i \in CurrentOf(r) : history[r][i].image = c.image
    /\ \A r \in Rows : services[r] # Null /\ (\A c \in Present : services[r].container # c.id)
        => services[r].status = "unknown"

\* README "How the service sync works": once nobody touches the host any more,
\* each container has a row with its image, status and current snapshot, and
\* the rows of containers that are gone say unknown, whatever stale entities
\* concurrent syncs and rollbacks wrote back on the way.
RowsConverge == <>[]Accurate

\* What readers of the history see: rows of the right types, and each rollback
\* recorded if and only if it succeeded.
HistoryIsSound == TypeOK /\ RecordedIffSucceeded
=============================================================================
