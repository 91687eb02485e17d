------------------------------ MODULE Rollback ------------------------------
(***************************************************************************)
(* One-click rollback of a service: the POST /services/:id/rollback        *)
(* handler (RollbackService.enqueueRollback), the BullMQ `rollback` queue  *)
(* and the worker (RollbackProcessor.process), over the rows of            *)
(* rollback_events, services and deployment_snapshots, while hosts are     *)
(* removed and the one Node process that runs API and workers crashes.     *)
(*                                                                         *)
(* Every await of the source is an interleaving point: one action per      *)
(* database call, queue call or remote command.  The service sync, which   *)
(* also writes services and snapshots, is left to another module.          *)
(***************************************************************************)
EXTENDS Naturals, Sequences, FiniteSets

CONSTANTS
    Hosts, Services,
    HostOf,          \* services.host_id
    Images,          \* full image references
    InitialHistory,  \* per service, the images its snapshots recorded so far
    Events,          \* ids a rollback_events row may get
    Targets,         \* positions in a history that requests name as target
    Requests,        \* concurrent POST /services/:id/rollback handlers
    Workers,         \* worker slots, ROLLBACK_CONCURRENCY of them
    Null,
    MaxCrashes,      \* bound on process crashes
    Faults           \* which calls may fail: see FaultKinds

FaultKinds == {"db", "redis", "crypto", "docker"}
ImageOrNull == Images \cup {Null}
Containers == [id : Nat, image : ImageOrNull, up : BOOLEAN]

ASSUME ConstantsAssumption ==
    /\ HostOf \in [Services -> Hosts]
    /\ InitialHistory \in [Services -> Seq(Images)]
    /\ Null \notin Services \cup Events \cup Images \cup Containers
    /\ Targets \subseteq Nat
    /\ MaxCrashes \in Nat
    /\ Faults \subseteq FaultKinds

VARIABLES
    live,       \* services that have a row
    row,        \* services: container_id and image of each live row
    history,    \* deployment_snapshots of each service, the current one last
    status,     \* rollback_events.status ("none": id unused, "deleted": cascade)
    event,      \* the other columns of a rollback_events row
    alerted,    \* events evaluateTransition was called for
    job,        \* BullMQ state of the job that carries each event id
    stalls,     \* BullMQ stalled counter of that job
    docker,     \* the container that bears the service's container name
    nextId,     \* next container id docker hands out
    pc, held, mem,   \* each worker slot: next step, event of its job, locals
    rpc, req,   \* each request: next step, locals
    crashes

tables == <<live, row, history, status, event>>
queue == <<job, stalls>>
remote == <<docker, nextId>>
workers == <<pc, held, mem>>
requests == <<rpc, req>>
vars == <<tables, alerted, queue, remote, workers, requests, crashes>>

-----------------------------------------------------------------------------
(* Rows and columns *)

Active == {"pending", "in_progress"}
Terminal == {"succeeded", "failed"}
Statuses == {"none", "deleted"} \cup Active \cup Terminal

CommandSteps ==
    <<"stop_container", "remove_container", "start_container", "list_containers">>
HealthStep == "post_rollback_health_check"
LogSteps == {CommandSteps[i] : i \in 1..4} \cup {HealthStep, "failure"}

NoEvent == [service |-> Null, from |-> 0, to |-> 0, log |-> <<>>, completed |-> FALSE]
NoLocals == [container |-> 0, org |-> FALSE, target |-> Null, log |-> <<>>, logged |-> 0,
             started |-> FALSE, found |-> Null, running |-> FALSE]
NoRequest == [service |-> Null, to |-> 0, from |-> 0, event |-> Null]

\* rows the partial unique index on (service_id) ranges over
ActiveEventsOf(s) == {e \in Events : event[e].service = s /\ status[e] \in Active}

\* Variant: no partial unique index, only the check of enqueueRollback.
NoUniqueIndex(e, s) == FALSE

\* an insert or update that gives e an active status violates that index
ViolatesOneActive(e, s) == ActiveEventsOf(s) \ {e} # {}

\* A save of a row the cascade removed becomes an INSERT whose service_id and
\* snapshot ids no longer exist: the foreign keys reject it.
RowGone(e) == status[e] = "deleted"

Init ==
    /\ live = Services
    /\ row \in [Services -> [container : {1}, image : Images]]
    /\ \A s \in Services : Len(InitialHistory[s]) > 0
            => row[s].image = InitialHistory[s][Len(InitialHistory[s])]
    /\ history = [s \in Services |->
            [i \in 1..Len(InitialHistory[s]) |-> [image |-> InitialHistory[s][i], by |-> Null]]]
    /\ status = [e \in Events |-> "none"]
    /\ event = [e \in Events |-> NoEvent]
    /\ alerted = {}
    /\ job = [e \in Events |-> "none"]
    /\ stalls = [e \in Events |-> 0]
    /\ docker = [s \in Services |-> [id |-> 1, image |-> row[s].image, up |-> TRUE]]
    /\ nextId = 2
    /\ pc = [w \in Workers |-> "idle"]
    /\ held = [w \in Workers |-> Null]
    /\ mem = [w \in Workers |-> NoLocals]
    /\ rpc = [q \in Requests |-> "idle"]
    /\ req = [q \in Requests |-> NoRequest]
    /\ crashes = 0

-----------------------------------------------------------------------------
(* The request handler, RollbackService.enqueueRollback *)

RequestStep(q, from, to) == rpc[q] = from /\ rpc' = [rpc EXCEPT ![q] = to]

\* The handler returns or throws: the client has its answer.
Respond(q) ==
    /\ rpc' = [rpc EXCEPT ![q] = "idle"]
    /\ req' = [req EXCEPT ![q] = NoRequest]

\* findOneForOrgOrThrow: no such service, 404
FindService(q, s, to) ==
    /\ s \in live
    /\ RequestStep(q, "idle", "find_target")
    /\ req' = [req EXCEPT ![q] = [NoRequest EXCEPT !.service = s, !.to = to]]
    /\ UNCHANGED <<tables, alerted, queue, remote, workers, crashes>>

\* findOneForServiceOrThrow: the target is a snapshot of this service, else 400
FindTarget(q) ==
    /\ rpc[q] = "find_target"
    /\ LET s == req[q].service
       IN  IF req[q].to \in 1..Len(history[s])
           THEN RequestStep(q, "find_target", "find_current") /\ req' = req
           ELSE Respond(q)
    /\ UNCHANGED <<tables, alerted, queue, remote, workers, crashes>>

\* findCurrentForService: nothing to roll back from, 400
FindCurrent(q) ==
    /\ rpc[q] = "find_current"
    /\ LET current == Len(history[req[q].service])
       IN  IF current > 0
           THEN /\ RequestStep(q, "find_current", "check_active")
                /\ req' = [req EXCEPT ![q].from = current]
           ELSE Respond(q)
    /\ UNCHANGED <<tables, alerted, queue, remote, workers, crashes>>

\* the application-level check: an active rollback exists, 409
CheckActive(q) ==
    /\ rpc[q] = "check_active"
    /\ IF ActiveEventsOf(req[q].service) = {}
       THEN RequestStep(q, "check_active", "insert") /\ req' = req
       ELSE Respond(q)
    /\ UNCHANGED <<tables, alerted, queue, remote, workers, crashes>>

\* the INSERT, with a fresh uuid
InsertEvent(q, e) ==
    /\ RequestStep(q, "insert", "enqueue")
    /\ status[e] = "none"
    /\ req[q].service \in live
    /\ ~ ViolatesOneActive(e, req[q].service)
    /\ status' = [status EXCEPT ![e] = "pending"]
    /\ event' = [event EXCEPT ![e] = [NoEvent EXCEPT !.service = req[q].service,
                                        !.from = req[q].from, !.to = req[q].to]]
    /\ req' = [req EXCEPT ![q].event = e]
    /\ UNCHANGED <<live, row, history, alerted, queue, remote, workers, crashes>>

\* the INSERT is rejected: the unique index (409), a foreign key or the
\* database itself (500)
InsertRejected(q) ==
    /\ rpc[q] = "insert"
    /\ \/ ActiveEventsOf(req[q].service) # {}
       \/ req[q].service \notin live
       \/ "db" \in Faults
    /\ Respond(q)
    /\ UNCHANGED <<tables, alerted, queue, remote, workers, crashes>>

\* rollbackQueue.add, then 202
AddJob(q) ==
    /\ rpc[q] = "enqueue"
    /\ job' = [job EXCEPT ![req[q].event] = "waiting"]
    /\ Respond(q)
    /\ UNCHANGED <<tables, alerted, stalls, remote, workers, crashes>>

\* rollbackQueue.add throws, 500: the pending row stays
AddJobFails(q) ==
    /\ rpc[q] = "enqueue"
    /\ "redis" \in Faults
    /\ Respond(q)
    /\ UNCHANGED <<tables, alerted, queue, remote, workers, crashes>>

RequestNext(q) ==
    \/ \E s \in Services, to \in Targets : FindService(q, s, to)
    \/ FindTarget(q)
    \/ FindCurrent(q)
    \/ CheckActive(q)
    \/ \E e \in Events : InsertEvent(q, e)
    \/ InsertRejected(q)
    \/ AddJob(q)
    \/ AddJobFails(q)

-----------------------------------------------------------------------------
(* The worker, RollbackProcessor.process *)

\* One step of slot w from one program point to another.
Step(w, from, to) == pc[w] = from /\ pc' = [pc EXCEPT ![w] = to]

\* process() is over: the slot is free and the job takes its last BullMQ state.
Release(w, verdict) ==
    /\ job' = [job EXCEPT ![held[w]] = verdict]
    /\ pc' = [pc EXCEPT ![w] = "idle"]
    /\ held' = [held EXCEPT ![w] = Null]
    /\ mem' = [mem EXCEPT ![w] = NoLocals]
    /\ UNCHANGED stalls

\* An exception leaves process(): the job fails, attempts = 1, and nothing
\* touches the rollback_events row.
Throw(w) == Release(w, "failed") /\ UNCHANGED <<tables, alerted, remote, requests, crashes>>

\* BullMQ hands a waiting job to a free slot.
Take(w, e) ==
    /\ job[e] = "waiting"
    /\ job' = [job EXCEPT ![e] = "active"]
    /\ Step(w, "idle", "find_event")
    /\ held' = [held EXCEPT ![w] = e]
    /\ UNCHANGED <<tables, alerted, stalls, remote, mem, requests, crashes>>

\* Variant: every delivery starts the log afresh.
FindEventFreshLog(w) ==
    /\ Step(w, "find_event", "mark")
    /\ UNCHANGED <<held, queue, mem>>
    /\ UNCHANGED <<tables, alerted, remote, requests, crashes>>

\* Variant: a job is skipped unless its event is still pending.
FindEventOnlyPending(w) ==
    /\ pc[w] = "find_event"
    /\ IF status[held[w]] # "pending"
       THEN Release(w, "completed")
       ELSE Step(w, "find_event", "mark") /\ UNCHANGED <<held, queue, mem>>
    /\ UNCHANGED <<tables, alerted, remote, requests, crashes>>

\* rollbackEventRepository.findOne; "not found; skipping job"
FindEvent(w) ==
    /\ pc[w] = "find_event"
    /\ IF RowGone(held[w])
       THEN Release(w, "completed")
       ELSE /\ Step(w, "find_event", "mark")
            /\ mem' = [mem EXCEPT ![w].log = event[held[w]].log]
            /\ UNCHANGED <<held, queue>>
    /\ UNCHANGED <<tables, alerted, remote, requests, crashes>>

\* Variant: the save inserts the row again after the cascade removed it.
MarkRevives(w) ==
    /\ Step(w, "mark", "find_service")
    /\ status' = [status EXCEPT ![held[w]] = "in_progress"]
    /\ UNCHANGED <<live, row, history, event, alerted, queue, remote, held, mem, requests, crashes>>

\* status = IN_PROGRESS, whatever it was
MarkInProgress(w) ==
    /\ Step(w, "mark", "find_service")
    /\ ~ RowGone(held[w])
    /\ ~ ViolatesOneActive(held[w], event[held[w]].service)
    /\ status' = [status EXCEPT ![held[w]] = "in_progress"]
    /\ UNCHANGED <<live, row, history, event, alerted, queue, remote, held, mem, requests, crashes>>

\* serviceRepository.findOne: the worker keeps this containerId from here on.
FindServiceRow(w) ==
    /\ pc[w] = "find_service"
    /\ LET s == event[held[w]].service
       IN  IF s \in live
           THEN /\ Step(w, "find_service", "load_target")
                /\ mem' = [mem EXCEPT ![w].container = row[s].container, ![w].org = TRUE]
           ELSE Step(w, "find_service", "fail_log") /\ mem' = mem
    /\ UNCHANGED <<tables, alerted, queue, remote, held, requests, crashes>>

\* Variant: nobody asks whether host and snapshot were found.
LoadTargetUnchecked(w) ==
    /\ Step(w, "load_target", "stop")
    /\ LET e == held[w]
           s == event[e].service
       IN  mem' = [mem EXCEPT ![w].target =
                    IF s \in live THEN history[s][event[e].to].image ELSE "undefined"]
    /\ UNCHANGED <<tables, alerted, queue, remote, held, requests, crashes>>

\* hostRepository.findOne, snapshotRepository.findOne and decrypt(sshKey)
LoadTarget(w) ==
    /\ pc[w] = "load_target"
    /\ LET e == held[w]
           s == event[e].service
       IN  \/ /\ s \in live
              /\ Step(w, "load_target", "stop")
              /\ mem' = [mem EXCEPT ![w].target = history[s][event[e].to].image]
           \/ /\ s \notin live \/ "crypto" \in Faults
              /\ Step(w, "load_target", "fail_log")
              /\ mem' = mem
    /\ UNCHANGED <<tables, alerted, queue, remote, held, requests, crashes>>

\* decryptConfig throws inside a try that has no catch.
DecryptConfigThrows(w) == pc[w] = "stop" /\ "crypto" \in Faults /\ Throw(w)

\* Variant: docker is given the container's name instead of the stored id.
ReachesByName(w, s) == docker[s] # Null

\* `docker <command> <containerId>` reaches the container the row named.
Reaches(w, s) == docker[s] # Null /\ docker[s].id = mem[w].container

\* docker stop: its exit code is logged and ignored
DockerStop(w) ==
    /\ Step(w, "stop", "remove")
    /\ LET s == event[held[w]].service
       IN  \/ /\ Reaches(w, s)
              /\ docker' = [docker EXCEPT ![s].up = FALSE]
           \/ /\ ~ Reaches(w, s) \/ "docker" \in Faults
              /\ docker' = docker
    /\ UNCHANGED <<tables, alerted, queue, nextId, held, mem, requests, crashes>>

\* docker rm: refuses a running container; exit code logged and ignored
DockerRemove(w) ==
    /\ Step(w, "remove", "run")
    /\ LET s == event[held[w]].service
       IN  \/ /\ Reaches(w, s) /\ ~ docker[s].up
              /\ docker' = [docker EXCEPT ![s] = Null]
           \/ /\ ~ (Reaches(w, s) /\ ~ docker[s].up) \/ "docker" \in Faults
              /\ docker' = docker
    /\ UNCHANGED <<tables, alerted, queue, nextId, held, mem, requests, crashes>>

\* docker run -d --name <containerName>: starts a container, fails cleanly
\* (no such image), or leaves one that was created and never started (port
\* taken).  A name in use is a conflict.
DockerRun(w) ==
    /\ Step(w, "run", "list")
    /\ LET s == event[held[w]].service
           Create(up) == /\ docker[s] = Null
                         /\ docker' = [docker EXCEPT ![s] =
                                [id |-> nextId, image |-> mem[w].target, up |-> up]]
                         /\ nextId' = nextId + 1
                         /\ mem' = [mem EXCEPT ![w].started = up]
       IN  \/ Create(TRUE)
           \/ "docker" \in Faults /\ Create(FALSE)
           \/ /\ docker[s] # Null \/ "docker" \in Faults
              /\ UNCHANGED <<remote, mem>>
    /\ UNCHANGED <<tables, alerted, queue, held, requests, crashes>>

\* docker ps -a: the container with the snapshot's name, and whether
\* classifyContainerStatus says running; a container just started may be
\* restarting, unhealthy or exited by now.
DockerList(w) ==
    /\ Step(w, "list", "log_commands")
    /\ LET s == event[held[w]].service
       IN  \E running \in BOOLEAN :
              /\ running => docker[s] # Null /\ docker[s].up
              /\ mem' = [mem EXCEPT
                    ![w].found = IF docker[s] = Null THEN Null ELSE docker[s].id,
                    ![w].running = running]
    /\ UNCHANGED <<tables, alerted, queue, remote, held, requests, crashes>>

\* runCommands rejects: no connection, or it is lost between two commands, and
\* the results so far go with it.
SshFails(w) ==
    /\ pc[w] \in {"stop", "remove", "run", "list"}
    /\ pc' = [pc EXCEPT ![w] = "fail_log"]
    /\ UNCHANGED <<tables, alerted, queue, remote, held, mem, requests, crashes>>

\* appendLog: the whole array is rewritten from the worker's copy.
AppendLog(w, step) ==
    /\ ~ RowGone(held[w])
    /\ event' = [event EXCEPT ![held[w]].log = Append(mem[w].log, step)]
    /\ UNCHANGED <<live, row, history, status>>

\* Variant: the exit code of docker run is ignored, too.
LogCommandAnyExit(w) ==
    LET k == mem[w].logged + 1 IN
    /\ Step(w, "log_commands", IF k < Len(CommandSteps) THEN "log_commands" ELSE "log_health")
    /\ AppendLog(w, CommandSteps[k])
    /\ mem' = [mem EXCEPT ![w].log = Append(@, CommandSteps[k]), ![w].logged = k]
    /\ UNCHANGED <<alerted, queue, remote, held, requests, crashes>>

\* the four appendLog calls after the session, then the exit code of docker run
LogCommand(w) ==
    LET k == mem[w].logged + 1 IN
    /\ Step(w, "log_commands", IF k < Len(CommandSteps) THEN "log_commands"
                               ELSE IF mem[w].started THEN "log_health" ELSE "fail_log")
    /\ AppendLog(w, CommandSteps[k])
    /\ mem' = [mem EXCEPT ![w].log = Append(@, CommandSteps[k]), ![w].logged = k]
    /\ UNCHANGED <<alerted, queue, remote, held, requests, crashes>>

\* post_rollback_health_check: only a running container passes
LogHealthCheck(w) ==
    /\ Step(w, "log_health", IF mem[w].running THEN "save_service" ELSE "fail_log")
    /\ AppendLog(w, HealthStep)
    /\ mem' = [mem EXCEPT ![w].log = Append(mem[w].log, HealthStep)]
    /\ UNCHANGED <<alerted, queue, remote, held, requests, crashes>>

\* succeed(): the service row, ...
SaveService(w) ==
    LET s == event[held[w]].service IN
    /\ Step(w, "save_service", "create_snapshot")
    /\ s \in live
    /\ row' = [row EXCEPT ![s] = [container |-> mem[w].found, image |-> mem[w].target]]
    /\ UNCHANGED <<live, history, status, event, alerted, queue, remote, held, mem,
                   requests, crashes>>

\* Variant: a rollback is not recorded as a deployment.
SkipSnapshot(w) ==
    /\ Step(w, "create_snapshot", "save_success")
    /\ UNCHANGED <<tables, alerted, queue, remote, held, mem, requests, crashes>>

\* ... createSnapshot, which makes the new row the current one, ...
CreateSnapshot(w) ==
    LET s == event[held[w]].service IN
    /\ Step(w, "create_snapshot", "save_success")
    /\ s \in live
    /\ history' = [history EXCEPT ![s] = Append(@, [image |-> mem[w].target, by |-> held[w]])]
    /\ UNCHANGED <<live, row, status, event, alerted, queue, remote, held, mem,
                   requests, crashes>>

\* ... and, after the health-check log entry, the event.
SaveSuccess(w) ==
    /\ Step(w, "save_success", "ack")
    /\ ~ RowGone(held[w])
    /\ status' = [status EXCEPT ![held[w]] = "succeeded"]
    /\ event' = [event EXCEPT ![held[w]].completed = TRUE]
    /\ UNCHANGED <<live, row, history, alerted, queue, remote, held, mem, requests, crashes>>

\* Variant: the failure entry is not saved.
LogFailureUnsaved(w) ==
    /\ Step(w, "fail_log", "fail_save")
    /\ UNCHANGED <<tables, alerted, queue, remote, held, mem, requests, crashes>>

\* fail(): the failure entry, ...
LogFailure(w) ==
    /\ Step(w, "fail_log", "fail_save")
    /\ AppendLog(w, "failure")
    /\ mem' = [mem EXCEPT ![w].log = Append(mem[w].log, "failure")]
    /\ UNCHANGED <<alerted, queue, remote, held, requests, crashes>>

\* ... the event, ...
SaveFailure(w) ==
    /\ Step(w, "fail_save", "alert")
    /\ ~ RowGone(held[w])
    /\ status' = [status EXCEPT ![held[w]] = "failed"]
    /\ event' = [event EXCEPT ![held[w]].completed = TRUE]
    /\ UNCHANGED <<live, row, history, alerted, queue, remote, held, mem, requests, crashes>>

\* Variant: the alert is noted in the log of the event that has its verdict.
EvaluateAndLog(w) ==
    /\ Step(w, "alert", "ack")
    /\ AppendLog(w, "failure")
    /\ alerted' = IF mem[w].org THEN alerted \cup {held[w]} ELSE alerted
    /\ UNCHANGED <<queue, remote, held, mem, requests, crashes>>

\* ... and evaluateTransition, which never throws, when the org is known.
EvaluateTransition(w) ==
    /\ Step(w, "alert", "ack")
    /\ alerted' = IF mem[w].org THEN alerted \cup {held[w]} ELSE alerted
    /\ UNCHANGED <<tables, queue, remote, held, mem, requests, crashes>>

\* A database call of process() throws: the row is gone, the unique index
\* rejects it, or the database fails.
DatabaseThrows(w) ==
    /\ \/ /\ pc[w] \in {"mark", "log_commands", "log_health", "save_service",
                        "create_snapshot", "save_success", "fail_log", "fail_save"}
          /\ \/ RowGone(held[w])
             \/ pc[w] = "mark" /\ ViolatesOneActive(held[w], event[held[w]].service)
       \/ /\ "db" \in Faults
          /\ pc[w] \notin {"idle", "stop", "remove", "run", "list", "alert", "ack"}
    /\ Throw(w)

\* process() returned: BullMQ completes the job.
Acknowledge(w) ==
    /\ pc[w] = "ack"
    /\ Release(w, "completed")
    /\ UNCHANGED <<tables, alerted, remote, requests, crashes>>

WorkerStep(w) ==
    \/ FindEvent(w)
    \/ MarkInProgress(w)
    \/ FindServiceRow(w)
    \/ LoadTarget(w)
    \/ DecryptConfigThrows(w)
    \/ DockerStop(w)
    \/ DockerRemove(w)
    \/ DockerRun(w)
    \/ DockerList(w)
    \/ SshFails(w)
    \/ LogCommand(w)
    \/ LogHealthCheck(w)
    \/ SaveService(w)
    \/ CreateSnapshot(w)
    \/ SaveSuccess(w)
    \/ LogFailure(w)
    \/ SaveFailure(w)
    \/ EvaluateTransition(w)
    \/ DatabaseThrows(w)
    \/ Acknowledge(w)

-----------------------------------------------------------------------------
(* Host removal, crashes, and BullMQ's stalled-job check *)

\* HostsService.remove: the foreign keys cascade to services, snapshots and
\* rollback events.  What runs on the machine goes on running.
RemoveHost(h) ==
    LET gone == {s \in live : HostOf[s] = h} IN
    /\ gone # {}
    /\ live' = live \ gone
    /\ history' = [s \in Services |-> IF s \in gone THEN <<>> ELSE history[s]]
    /\ status' = [e \in Events |-> IF event[e].service \in gone THEN "deleted" ELSE status[e]]
    /\ UNCHANGED <<row, event, alerted, queue, remote, workers, requests, crashes>>

\* The Node process dies: handlers and workers are lost; the database, Redis
\* and the machines keep their state.  It restarts at once.
Crash ==
    /\ crashes < MaxCrashes
    /\ crashes' = crashes + 1
    /\ pc' = [w \in Workers |-> "idle"]
    /\ held' = [w \in Workers |-> Null]
    /\ mem' = [w \in Workers |-> NoLocals]
    /\ rpc' = [q \in Requests |-> "idle"]
    /\ req' = [q \in Requests |-> NoRequest]
    /\ UNCHANGED <<tables, alerted, queue, remote>>

\* BullMQ's default maxStalledCount, which @Processor leaves alone
MaxStalledCount == 1

\* An active job whose lock no worker renews goes back to the queue, once.
StalledCheck(e) ==
    /\ job[e] = "active"
    /\ \A w \in Workers : held[w] # e
    /\ IF stalls[e] < MaxStalledCount
       THEN /\ job' = [job EXCEPT ![e] = "waiting"]
            /\ stalls' = [stalls EXCEPT ![e] = @ + 1]
       ELSE /\ job' = [job EXCEPT ![e] = "failed"]
            /\ stalls' = stalls
    /\ UNCHANGED <<tables, alerted, remote, workers, requests, crashes>>

Next ==
    \/ \E q \in Requests : RequestNext(q)
    \/ \E w \in Workers, e \in Events : Take(w, e)
    \/ \E w \in Workers : WorkerStep(w)
    \/ \E h \in Hosts : RemoveHost(h)
    \/ Crash
    \/ \E e \in Events : StalledCheck(e)

Spec == Init /\ [][Next]_vars

\* Handlers and jobs run to their end and BullMQ keeps fetching jobs and
\* looking for stalled ones.  Nobody has to send a request or remove a host.
\* A remote command is assumed to return: the code gives it no timeout.
Fairness ==
    /\ \A q \in Requests : WF_vars(rpc[q] # "idle" /\ RequestNext(q))
    /\ \A w \in Workers : WF_vars(WorkerStep(w))
    /\ \A e \in Events : WF_vars(\E w \in Workers : Take(w, e))
    /\ \A e \in Events : WF_vars(StalledCheck(e))

FairSpec == Spec /\ Fairness

-----------------------------------------------------------------------------
(* Properties *)

WorkerPoints == {"idle", "find_event", "mark", "find_service", "load_target", "stop",
    "remove", "run", "list", "log_commands", "log_health", "save_service",
    "create_snapshot", "save_success", "fail_log", "fail_save", "alert", "ack"}
RequestPoints == {"idle", "find_target", "find_current", "check_active", "insert", "enqueue"}
JobStates == {"none", "waiting", "active", "completed", "failed"}
Rows == [container : Nat \cup {Null}, image : ImageOrNull]
Snapshots == [image : ImageOrNull, by : Events \cup {Null}]
Columns == [service : Services \cup {Null}, from : Nat, to : Nat, log : Seq(LogSteps),
            completed : BOOLEAN]
Locals == [container : Nat \cup {Null}, org : BOOLEAN, target : ImageOrNull,
           log : Seq(LogSteps), logged : 0..4, started : BOOLEAN, found : Nat \cup {Null},
           running : BOOLEAN]
RequestLocals == [service : Services \cup {Null}, to : Nat, from : Nat,
                  event : Events \cup {Null}]

\* Every variable keeps its type; a job is redelivered at most once
\* (MaxStalledCount).
TypeOK ==
    /\ live \subseteq Services
    /\ row \in [Services -> Rows]
    /\ history \in [Services -> Seq(Snapshots)]
    /\ status \in [Events -> Statuses]
    /\ event \in [Events -> Columns]
    /\ alerted \subseteq Events
    /\ job \in [Events -> JobStates]
    /\ stalls \in [Events -> 0..MaxStalledCount]
    /\ docker \in [Services -> Containers \cup {Null}]
    /\ nextId \in Nat
    /\ pc \in [Workers -> WorkerPoints]
    /\ held \in [Workers -> Events \cup {Null}]
    /\ mem \in [Workers -> Locals]
    /\ rpc \in [Requests -> RequestPoints]
    /\ req \in [Requests -> RequestLocals]
    /\ crashes \in 0..MaxCrashes

\* process() from the IN_PROGRESS save to the last save of the event
Executing == {"find_service", "load_target", "stop", "remove", "run", "list", "log_commands",
    "log_health", "save_service", "create_snapshot", "save_success", "fail_log", "fail_save"}
ServiceOf(w) == event[held[w]].service

\* README "two concurrent requests can't double-execute a rollback for the same
\* service": whatever the requests, the redelivered jobs and the removals, two
\* worker slots are never both executing a rollback of one service.
ExclusiveExecution ==
    \A v, w \in Workers :
        v # w /\ pc[v] \in Executing /\ pc[w] \in Executing => ServiceOf(v) # ServiceOf(w)

\* The audit log of an event is only ever extended, although every appendLog
\* rewrites the whole array from the worker's own copy, also when a redelivered
\* job runs the event a second time.
LogOnlyGrows ==
    [][\A e \in Events : SubSeq(event'[e].log, 1, Len(event[e].log)) = event[e].log]_vars

\* A verdict is complete and backed by the log: a succeeded event has the
\* health check as its last entry, a failed one its reason, and both have
\* completed_at.
VerdictMatchesLog ==
    \A e \in Events : status[e] \in Terminal =>
        /\ event[e].completed
        /\ event[e].log # <<>>
        /\ event[e].log[Len(event[e].log)] =
                IF status[e] = "succeeded" THEN HealthStep ELSE "failure"

\* When an event turns succeeded, the machine, the service row and the snapshot
\* history agree: the container under the service's name is the one the row
\* points to, it runs the image of the target snapshot, and the current
\* snapshot is the one this event created for that image.
SuccessIsConsistent ==
    [][\A e \in Events : status[e] # "succeeded" /\ status'[e] = "succeeded" =>
        LET s == event[e].service
            target == history[s][event[e].to].image
        IN  /\ docker[s] # Null
            /\ docker[s].id = row[s].container
            /\ docker[s].image = target
            /\ row[s].image = target
            /\ history[s][Len(history[s])] = [image |-> target, by |-> e]]_vars

SnapshotsBy(e) ==
    {i \in 1..Len(history[event[e].service]) : history[event[e].service][i].by = e}

\* A succeeded rollback is recorded as a deployment, once per execution: a job
\* that BullMQ never redelivered has exactly one snapshot to show for it.
DeploymentRecordedPerExecution ==
    \A e \in Events : status[e] = "succeeded" =>
        /\ SnapshotsBy(e) # {}
        /\ Cardinality(SnapshotsBy(e)) <= 1 + stalls[e]

\* A failed rollback whose job ran to its end was handed to alerting: the
\* early failures without an orgId cannot record a verdict at all.
FailureIsAnnounced ==
    \A e \in Events : status[e] = "failed" /\ job[e] = "completed" => e \in alerted

\* The container under the service's name is not the one its row points to, and
\* no worker is about to repair that.
Stranded(s) ==
    /\ docker[s] # Null
    /\ docker[s].id # row[s].container
    /\ \A w \in Workers : held[w] # Null /\ ServiceOf(w) = s /\ mem[w].started
            => pc[w] \notin {"list", "log_commands", "log_health", "save_service"}

\* A rollback that stops after docker run and before the service row is saved
\* (failed health check, lost connection, crash) leaves the row pointing at the
\* removed container.  Until someone acts on the host, stop and rm miss the new
\* container, docker run hits its name, and no rollback of it succeeds again.
StrandedForGood ==
    [][\A s \in Services : Stranded(s) =>
        /\ Stranded(s)'
        /\ \A e \in Events : event[e].service = s /\ status'[e] = "succeeded"
                => status[e] = "succeeded"]_vars

\* Once the job is in Redis, no fault of database, Redis, encryption, docker or
\* SSH, and no crash, makes the worker lose it without a trace: the event gets
\* its verdict, goes with its host, or BullMQ has the job as failed.
EnqueuedRollbackFinishes ==
    \A e \in Events : status[e] \in Active /\ job[e] # "none"
                        ~> status[e] \notin Active \/ job[e] = "failed"

EventOwner == [e \in Events |-> event[e].service]

Lifecycle == INSTANCE RollbackLifecycle
    WITH services <- live, state <- status, owner <- EventOwner, Redelivery <- TRUE

\* The handler and the worker keep the promise of RollbackLifecycle when jobs
\* may be redelivered.
KeepsLifecycle == Lifecycle!Spec

\* Only a redelivery makes a verdict and its log change again: while BullMQ has
\* not found the job stalled, a client that saw the verdict saw the last of it,
\* and only the removal of the host takes it away.
VerdictIsFinal ==
    [][\A e \in Events : status[e] \in Terminal /\ stalls[e] = 0 =>
        status'[e] \in {status[e], "deleted"} /\ event'[e] = event[e]]_vars

\* rollback-event.entity.ts: "Rows are never updated after completed_at is set".
CompletedNeverUpdated ==
    [][\A e \in Events : event[e].completed =>
        event'[e] = event[e] /\ status'[e] \in {status[e], "deleted"}]_vars

\* A verdict is backed by the log, and a failure reaches alerting as well.
VerdictIsBacked == VerdictMatchesLog /\ FailureIsAnnounced
=============================================================================
