--------------------------- MODULE RollbackProofs ---------------------------
(***************************************************************************)
(* Theorems about Rollback, for every set of services, events, requests    *)
(* and worker slots, any number of crashes and any set of faults.          *)
(***************************************************************************)
EXTENDS Rollback, FiniteSetTheorems, TLAPS

(* The parts of the inductive invariant *)

\* A slot is busy exactly when it holds a job; the job is active and no other
\* slot holds it.
HeldJobs ==
    /\ \A w \in Workers : pc[w] = "idle" <=> held[w] = Null
    /\ \A w \in Workers : held[w] # Null => job[held[w]] = "active"
    /\ \A v, w \in Workers : held[v] = held[w] /\ held[v] # Null => v = w

\* Between the INSERT and queue.add, a handler owns an event without a job.
UnqueuedEvents ==
    /\ \A q \in Requests : rpc[q] = "enqueue" =>
        /\ req[q].event \in Events
        /\ status[req[q].event] # "none"
        /\ job[req[q].event] = "none"
    /\ \A p, q \in Requests :
        rpc[p] = "enqueue" /\ rpc[q] = "enqueue" /\ req[p].event = req[q].event => p = q

\* An unused id has neither job nor service; a row lives with its service.
RowsFollowServices ==
    /\ \A e \in Events : status[e] = "none" => job[e] = "none" /\ event[e].service = Null
    /\ \A e \in Events : status[e] = "deleted" => event[e].service \in Services \ live
    /\ \A e \in Events : status[e] \in Active \cup Terminal => event[e].service \in live

\* Targets name a snapshot of the service while the service exists.
TargetsExist ==
    /\ \A q \in Requests : rpc[q] # "idle" => req[q].service \in Services
    /\ \A q \in Requests :
        rpc[q] \in {"find_current", "check_active", "insert"} /\ req[q].service \in live
            => req[q].to \in 1..Len(history[req[q].service])
    /\ \A e \in Events : event[e].service \in live
            => event[e].to \in 1..Len(history[event[e].service])

\* The partial unique index.
OneActivePerService ==
    \A e, f \in Events : e # f /\ event[e].service = event[f].service
        => status[e] \notin Active \/ status[f] \notin Active

\* A worker past its IN_PROGRESS save finds the event as it left it, unless the
\* cascade removed it.
ExecutingInProgress ==
    \A w \in Workers : pc[w] \in Executing => status[held[w]] \in {"in_progress", "deleted"}

\* The four command results are logged once per session.
LoggingBounded ==
    \A w \in Workers :
        /\ pc[w] \in {"idle", "find_event", "mark", "find_service", "load_target", "stop",
                     "remove", "run", "list"} => mem[w].logged = 0
        /\ pc[w] = "log_commands" => mem[w].logged < 4

IInv ==
    /\ TypeOK
    /\ HeldJobs
    /\ UnqueuedEvents
    /\ RowsFollowServices
    /\ TargetsExist
    /\ OneActivePerService
    /\ ExecutingInProgress
    /\ ExclusiveExecution
    /\ LoggingBounded

-----------------------------------------------------------------------------
(* Typing *)

\* The records a row, a slot and a handler start from are typed.
LEMMA Defaults == NoLocals \in Locals /\ NoRequest \in RequestLocals /\ NoEvent \in Columns
  <1>1. NoLocals \in Locals
    BY DEF NoLocals, Locals, ImageOrNull
  <1>2. NoRequest \in RequestLocals
    BY DEF NoRequest, RequestLocals
  <1>3. NoEvent \in Columns
    BY DEF NoEvent, Columns
  <1> QED
    BY <1>1, <1>2, <1>3

\* Every assignment process() makes to its locals keeps their type.
LEMMA LocalsUpdate ==
  ASSUME NEW m \in Locals
  PROVE  /\ \A l \in Seq(LogSteps), k \in 0..4 : [m EXCEPT !.log = l, !.logged = k] \in Locals
         /\ \A l \in Seq(LogSteps) : [m EXCEPT !.log = l] \in Locals
         /\ \A c \in Nat \cup {Null} : [m EXCEPT !.container = c, !.org = TRUE] \in Locals
         /\ \A i \in ImageOrNull : [m EXCEPT !.target = i] \in Locals
         /\ \A b \in BOOLEAN : [m EXCEPT !.started = b] \in Locals
         /\ \A f \in Nat \cup {Null}, b \in BOOLEAN :
               [m EXCEPT !.found = f, !.running = b] \in Locals
  BY DEF Locals

\* Appending to log_output and setting completed_at keep a row's type.
LEMMA ColumnsUpdate ==
  ASSUME NEW c \in Columns
  PROVE  /\ \A l \in Seq(LogSteps) : [c EXCEPT !.log = l] \in Columns
         /\ [c EXCEPT !.completed = TRUE] \in Columns
  BY DEF Columns

\* The entries process() appends are log steps.
LEMMA LogStepsTyped ==
  /\ \A k \in 1..4 : CommandSteps[k] \in LogSteps
  /\ HealthStep \in LogSteps
  /\ "failure" \in LogSteps
  BY DEF LogSteps

\* The state after startup is typed.
LEMMA TypeInit == Init => TypeOK
  <1> SUFFICES ASSUME Init PROVE TypeOK
    OBVIOUS
  <1>1. history \in [Services -> Seq(Snapshots)]
    BY ConstantsAssumption DEF Init, Snapshots, ImageOrNull
  <1>2. row \in [Services -> Rows]
    BY DEF Init, Rows, ImageOrNull
  <1>3. docker \in [Services -> Containers \cup {Null}]
    BY DEF Init, Containers, ImageOrNull
  <1>4. mem \in [Workers -> Locals]
    BY Defaults DEF Init
  <1>5. event \in [Events -> Columns]
    BY Defaults DEF Init
  <1>6. req \in [Requests -> RequestLocals]
    BY Defaults DEF Init
  <1> QED
    BY <1>1, <1>2, <1>3, <1>4, <1>5, <1>6, ConstantsAssumption
    DEF Init, TypeOK, Statuses, JobStates, WorkerPoints, RequestPoints, MaxStalledCount

\* findCurrentForService fills in fromSnapshotId.
LEMMA RequestFrom ==
  ASSUME NEW r \in RequestLocals, NEW n \in Nat
  PROVE  [r EXCEPT !.from = n] \in RequestLocals
  BY DEF RequestLocals

\* Every handler and worker step keeps the types; that the target snapshot is
\* found and that four command results are logged needs the invariant.
LEMMA TypeStep == ASSUME IInv, [Next]_vars PROVE TypeOK'
  <1> USE Defaults DEF TypeOK, IInv, HeldJobs, tables, queue, remote, workers, requests,
          Step, Release, RequestStep, Respond
  <1>1. ASSUME NEW q \in Requests, NEW s \in Services, NEW to \in Targets, FindService(q, s, to)
        PROVE  TypeOK'
    BY <1>1, ConstantsAssumption DEF FindService, RequestLocals, NoRequest, RequestPoints
  <1>2. ASSUME NEW q \in Requests, FindTarget(q) PROVE TypeOK'
    BY <1>2 DEF FindTarget, RequestPoints
  <1>3. ASSUME NEW q \in Requests, FindCurrent(q) PROVE TypeOK'
    <2> DEFINE current == Len(history[req[q].service])
    <2>1. req[q].service \in Services
      BY <1>3 DEF FindCurrent, TargetsExist
    <2>2. current \in Nat
      BY <2>1
    <2>3. req[q] \in RequestLocals
      OBVIOUS
    <2>4. [req[q] EXCEPT !.from = current] \in RequestLocals
      BY <2>2, <2>3, RequestFrom
    <2>5. req' \in [Requests -> RequestLocals]
      BY <1>3, <2>4 DEF FindCurrent
    <2> QED
      BY <1>3, <2>5 DEF FindCurrent, RequestPoints
  <1>4. ASSUME NEW q \in Requests, CheckActive(q) PROVE TypeOK'
    BY <1>4 DEF CheckActive, RequestPoints
  <1>5. ASSUME NEW q \in Requests, InsertRejected(q) PROVE TypeOK'
    BY <1>5 DEF InsertRejected, RequestPoints
  <1>6. ASSUME NEW q \in Requests, AddJob(q) PROVE TypeOK'
    BY <1>6 DEF AddJob, RequestPoints, JobStates
  <1>7. ASSUME NEW q \in Requests, AddJobFails(q) PROVE TypeOK'
    BY <1>7 DEF AddJobFails, RequestPoints
  <1>8. ASSUME NEW q \in Requests, NEW e \in Events, InsertEvent(q, e) PROVE TypeOK'
    <2>1. req[q] \in RequestLocals /\ req[q].service \in Services
      BY <1>8 DEF InsertEvent
    <2>2. [NoEvent EXCEPT !.service = req[q].service, !.from = req[q].from, !.to = req[q].to]
            \in Columns
      BY <2>1 DEF Columns, NoEvent, RequestLocals
    <2>3. event' \in [Events -> Columns]
      BY <1>8, <2>2 DEF InsertEvent
    <2>4. [req[q] EXCEPT !.event = e] \in RequestLocals
      BY <2>1 DEF RequestLocals
    <2>5. req' \in [Requests -> RequestLocals]
      BY <1>8, <2>4 DEF InsertEvent
    <2> QED
      BY <1>8, <2>3, <2>5 DEF InsertEvent, RequestPoints, Statuses, Active
  <1>9. ASSUME NEW w \in Workers, FindEvent(w) PROVE TypeOK'
    <2>1. held[w] \in Events
      BY <1>9 DEF FindEvent
    <2>2. event[held[w]].log \in Seq(LogSteps)
      BY <2>1 DEF Columns
    <2>3. [mem EXCEPT ![w].log = event[held[w]].log] \in [Workers -> Locals]
      BY <2>2, LocalsUpdate
    <2>4. mem' \in [Workers -> Locals]
      BY <1>9, <2>3 DEF FindEvent
    <2>5. /\ pc' \in [Workers -> WorkerPoints] /\ held' \in [Workers -> Events \cup {Null}]
          /\ job' \in [Events -> JobStates]
      <3>1. CASE RowGone(held[w])
        BY <1>9, <2>1, <3>1 DEF FindEvent, WorkerPoints, JobStates
      <3>2. CASE ~ RowGone(held[w])
        BY <1>9, <3>2 DEF FindEvent, WorkerPoints
      <3> QED
        BY <3>1, <3>2
    <2>6. UNCHANGED <<tables, alerted, stalls, remote, requests, crashes>>
      BY <1>9 DEF FindEvent
    <2> QED
      BY <2>4, <2>5, <2>6
  <1>10. ASSUME NEW w \in Workers, MarkInProgress(w) PROVE TypeOK'
    BY <1>10 DEF MarkInProgress, WorkerPoints, Statuses, Active
  <1>11. ASSUME NEW w \in Workers, FindServiceRow(w) PROVE TypeOK'
    <2> DEFINE s == event[held[w]].service
    <2>1. s \in live => row[s].container \in Nat \cup {Null}
      BY DEF Rows
    <2>2. s \in live => [mem[w] EXCEPT !.container = row[s].container, !.org = TRUE] \in Locals
      BY <2>1, LocalsUpdate
    <2>3. mem' \in [Workers -> Locals]
      <3>1. CASE s \in live
        <4>1. mem' = [mem EXCEPT ![w] =
                        [mem[w] EXCEPT !.container = row[s].container, !.org = TRUE]]
          BY <1>11, <3>1 DEF FindServiceRow
        <4> QED
          BY <2>2, <3>1, <4>1
      <3>2. CASE s \notin live
        BY <1>11, <3>2 DEF FindServiceRow
      <3> QED
        BY <3>1, <3>2
    <2> QED
      BY <1>11, <2>3 DEF FindServiceRow, WorkerPoints
  <1>12. ASSUME NEW w \in Workers, LoadTarget(w) PROVE TypeOK'
    <2> DEFINE s == event[held[w]].service
               i == history[s][event[held[w]].to].image
    <2>1. held[w] \in Events
      BY <1>12 DEF LoadTarget
    <2>2. s \in live => i \in ImageOrNull
      <3>1. SUFFICES ASSUME s \in live PROVE i \in ImageOrNull
        OBVIOUS
      <3>2. history[s] \in Seq(Snapshots) /\ event[held[w]].to \in 1..Len(history[s])
        BY <2>1, <3>1 DEF TargetsExist
      <3>3. history[s][event[held[w]].to] \in Snapshots
        BY <3>2
      <3> QED
        BY <3>3 DEF Snapshots
    <2>3. mem' \in [Workers -> Locals]
      <3>1. CASE s \in live /\ mem' = [mem EXCEPT ![w].target = i]
        <4>1. [mem[w] EXCEPT !.target = i] \in Locals
          BY <2>2, <3>1, LocalsUpdate
        <4> QED
          BY <3>1, <4>1
      <3>2. CASE mem' = mem
        BY <3>2
      <3> QED
        BY <1>12, <3>1, <3>2 DEF LoadTarget
    <2> QED
      BY <1>12, <2>3 DEF LoadTarget, WorkerPoints
  <1>13. ASSUME NEW w \in Workers, DecryptConfigThrows(w) PROVE TypeOK'
    BY <1>13 DEF DecryptConfigThrows, WorkerPoints, Throw, JobStates
  <1>14. ASSUME NEW w \in Workers, DockerStop(w) PROVE TypeOK'
    <2> DEFINE s == event[held[w]].service
    <2>1. held[w] \in Events /\ pc[w] = "stop"
      BY <1>14 DEF DockerStop
    <2>2. s \in Services
      BY <2>1 DEF ExecutingInProgress, Executing, RowsFollowServices, Active
    <2>3. Reaches(w, s) => [docker[s] EXCEPT !.up = FALSE] \in Containers
      <3>1. Reaches(w, s) => docker[s] \in Containers
        BY <2>2 DEF Reaches
      <3>2. \A c \in Containers : [c EXCEPT !.up = FALSE] \in Containers
        BY DEF Containers
      <3> QED
        BY <3>1, <3>2
    <2>4. docker' \in [Services -> Containers \cup {Null}]
      BY <1>14, <2>2, <2>3 DEF DockerStop
    <2> QED
      BY <1>14, <2>4 DEF DockerStop, WorkerPoints
  <1>15. ASSUME NEW w \in Workers, DockerRemove(w) PROVE TypeOK'
    BY <1>15 DEF DockerRemove, WorkerPoints
  <1>16. ASSUME NEW w \in Workers, DockerRun(w) PROVE TypeOK'
    <2> DEFINE s == event[held[w]].service
               new(up) == [id |-> nextId, image |-> mem[w].target, up |-> up]
    <2>1. held[w] \in Events /\ mem[w] \in Locals
      BY <1>16 DEF DockerRun
    <2>2. \A up \in BOOLEAN : new(up) \in Containers
      BY <2>1 DEF Containers, Locals
    <2>3. \A up \in BOOLEAN : [mem EXCEPT ![w].started = up] \in [Workers -> Locals]
      BY LocalsUpdate
    <2>4. \A up \in BOOLEAN :
            [docker EXCEPT ![s] = new(up)] \in [Services -> Containers \cup {Null}]
      BY <2>2
    <2>5. docker' \in [Services -> Containers \cup {Null}] /\ nextId' \in Nat
          /\ mem' \in [Workers -> Locals]
      <3>1. CASE UNCHANGED <<docker, nextId, mem>>
        BY <3>1
      <3>2. CASE \E up \in BOOLEAN :
                    /\ docker' = [docker EXCEPT ![s] = new(up)]
                    /\ nextId' = nextId + 1
                    /\ mem' = [mem EXCEPT ![w].started = up]
        BY <2>3, <2>4, <3>2
      <3> QED
        BY <1>16, <3>1, <3>2 DEF DockerRun
    <2> QED
      BY <1>16, <2>5 DEF DockerRun, WorkerPoints
  <1>17. ASSUME NEW w \in Workers, DockerList(w) PROVE TypeOK'
    <2>1. PICK running \in BOOLEAN :
            mem' = [mem EXCEPT ![w].found =
                      IF docker[event[held[w]].service] = Null
                      THEN Null ELSE docker[event[held[w]].service].id, ![w].running = running]
      BY <1>17 DEF DockerList
    <2> DEFINE s == event[held[w]].service
               f == IF docker[s] = Null THEN Null ELSE docker[s].id
    <2>2. held[w] \in Events /\ pc[w] = "list"
      BY <1>17 DEF DockerList
    <2>3. s \in Services
      BY <2>2 DEF ExecutingInProgress, Executing, RowsFollowServices, Active
    <2>4. f \in Nat \cup {Null}
      BY <2>3 DEF Containers
    <2>5. [mem[w] EXCEPT !.found = f, !.running = running] \in Locals
      BY <2>4, LocalsUpdate
    <2>6. mem' = [mem EXCEPT ![w] = [mem[w] EXCEPT !.found = f, !.running = running]]
      BY <2>1
    <2>7. mem' \in [Workers -> Locals]
      BY <2>5, <2>6
    <2> QED
      BY <1>17, <2>7 DEF DockerList, WorkerPoints
  <1>18. ASSUME NEW w \in Workers, SshFails(w) PROVE TypeOK'
    BY <1>18 DEF SshFails, WorkerPoints
  <1>19. ASSUME NEW w \in Workers, LogCommand(w) PROVE TypeOK'
    <2> DEFINE k == mem[w].logged + 1
    <2>1. held[w] \in Events
      BY <1>19 DEF LogCommand
    <2>2. k \in 1..4 /\ k \in 0..4
      <3>1. pc[w] = "log_commands"
        BY <1>19 DEF LogCommand
      <3>2. mem[w].logged \in 0..4
        BY DEF Locals
      <3> QED
        BY <3>1, <3>2 DEF LoggingBounded
    <2>3. mem[w] \in Locals /\ Append(mem[w].log, CommandSteps[k]) \in Seq(LogSteps)
      BY <2>2, LogStepsTyped DEF Locals
    <2>4. mem' \in [Workers -> Locals]
      <3>1. mem' = [mem EXCEPT ![w] = [mem[w] EXCEPT !.log = Append(mem[w].log, CommandSteps[k]),
                                                     !.logged = k]]
        BY <1>19 DEF LogCommand
      <3>2. [mem[w] EXCEPT !.log = Append(mem[w].log, CommandSteps[k]), !.logged = k] \in Locals
        BY <2>2, <2>3, LocalsUpdate
      <3> QED
        BY <3>1, <3>2
    <2>5. event' \in [Events -> Columns]
      BY <1>19, <2>1, <2>3, ColumnsUpdate DEF LogCommand, AppendLog
    <2> QED
      BY <1>19, <2>4, <2>5 DEF LogCommand, AppendLog, WorkerPoints
  <1>20. ASSUME NEW w \in Workers, LogHealthCheck(w) PROVE TypeOK'
    <2>1. held[w] \in Events
      BY <1>20 DEF LogHealthCheck
    <2>2. mem[w] \in Locals /\ Append(mem[w].log, HealthStep) \in Seq(LogSteps)
      BY LogStepsTyped DEF Locals
    <2>3. mem' \in [Workers -> Locals]
      BY <1>20, <2>2, LocalsUpdate DEF LogHealthCheck
    <2>4. event' \in [Events -> Columns]
      BY <1>20, <2>1, <2>2, ColumnsUpdate DEF LogHealthCheck, AppendLog
    <2> QED
      BY <1>20, <2>3, <2>4 DEF LogHealthCheck, AppendLog, WorkerPoints
  <1>21. ASSUME NEW w \in Workers, SaveService(w) PROVE TypeOK'
    BY <1>21 DEF SaveService, WorkerPoints, Rows, Locals, Columns
  <1>22. ASSUME NEW w \in Workers, CreateSnapshot(w) PROVE TypeOK'
    <2> DEFINE s == event[held[w]].service
               new == [image |-> mem[w].target, by |-> held[w]]
    <2>1. held[w] \in Events /\ mem[w] \in Locals
      BY <1>22 DEF CreateSnapshot
    <2>2. new \in Snapshots
      BY <2>1 DEF Snapshots, Locals
    <2>3. s \in Services
      BY <1>22 DEF CreateSnapshot
    <2>4. Append(history[s], new) \in Seq(Snapshots)
      BY <2>2, <2>3
    <2>5. history' \in [Services -> Seq(Snapshots)]
      BY <1>22, <2>3, <2>4 DEF CreateSnapshot
    <2> QED
      BY <1>22, <2>5 DEF CreateSnapshot, WorkerPoints
  <1>23. ASSUME NEW w \in Workers, SaveSuccess(w) PROVE TypeOK'
    BY <1>23, ColumnsUpdate DEF SaveSuccess, WorkerPoints, Statuses, Terminal
  <1>24. ASSUME NEW w \in Workers, LogFailure(w) PROVE TypeOK'
    <2>1. held[w] \in Events
      BY <1>24 DEF LogFailure
    <2>2. mem[w] \in Locals /\ Append(mem[w].log, "failure") \in Seq(LogSteps)
      BY LogStepsTyped DEF Locals
    <2>3. mem' \in [Workers -> Locals]
      BY <1>24, <2>2, LocalsUpdate DEF LogFailure
    <2>4. event' \in [Events -> Columns]
      BY <1>24, <2>1, <2>2, ColumnsUpdate DEF LogFailure, AppendLog
    <2> QED
      BY <1>24, <2>3, <2>4 DEF LogFailure, AppendLog, WorkerPoints
  <1>25. ASSUME NEW w \in Workers, SaveFailure(w) PROVE TypeOK'
    BY <1>25, ColumnsUpdate DEF SaveFailure, WorkerPoints, Statuses, Terminal
  <1>26. ASSUME NEW w \in Workers, EvaluateTransition(w) PROVE TypeOK'
    BY <1>26 DEF EvaluateTransition, WorkerPoints
  <1>27. ASSUME NEW w \in Workers, DatabaseThrows(w) PROVE TypeOK'
    BY <1>27 DEF DatabaseThrows, WorkerPoints, Throw, JobStates
  <1>28. ASSUME NEW w \in Workers, Acknowledge(w) PROVE TypeOK'
    BY <1>28 DEF Acknowledge, WorkerPoints, JobStates
  <1>29. ASSUME NEW w \in Workers, NEW e \in Events, Take(w, e) PROVE TypeOK'
    BY <1>29 DEF Take, WorkerPoints, JobStates
  <1>30. ASSUME NEW h \in Hosts, RemoveHost(h) PROVE TypeOK'
    BY <1>30 DEF RemoveHost, Statuses
  <1>31. CASE Crash
    BY <1>31, ConstantsAssumption DEF Crash, WorkerPoints, RequestPoints
  <1>32. ASSUME NEW e \in Events, StalledCheck(e) PROVE TypeOK'
    <2>1. stalls' \in [Events -> 0..MaxStalledCount]
      <3>1. stalls[e] \in 0..1 /\ stalls \in [Events -> 0..1]
        BY DEF MaxStalledCount
      <3>2. stalls[e] < 1 => stalls[e] + 1 \in 0..1
        BY <3>1
      <3>3. \/ stalls[e] < 1 /\ stalls' = [stalls EXCEPT ![e] = stalls[e] + 1]
            \/ stalls' = stalls
        BY <1>32 DEF StalledCheck, MaxStalledCount
      <3>4. stalls' \in [Events -> 0..1]
        BY <3>1, <3>2, <3>3
      <3> QED
        BY <3>4 DEF MaxStalledCount
    <2>2. job' \in [Events -> JobStates]
      BY <1>32 DEF StalledCheck, JobStates
    <2> QED
      BY <1>32, <2>1, <2>2 DEF StalledCheck
  <1>33. CASE UNCHANGED vars
    BY <1>33 DEF vars
  <1> QED
    BY <1>1, <1>2, <1>3, <1>4, <1>5, <1>6, <1>7, <1>8, <1>9, <1>10, <1>11, <1>12, <1>13, <1>14,
       <1>15, <1>16, <1>17, <1>18, <1>19, <1>20, <1>21, <1>22, <1>23, <1>24, <1>25, <1>26, <1>27,
       <1>28, <1>29, <1>30, <1>31, <1>32, <1>33 DEF Next, RequestNext, WorkerStep

-----------------------------------------------------------------------------
(* The shapes a step may take, as far as the job bookkeeping is concerned *)

BookKeeping == <<live, history, status, event, queue, pc, held, rpc, req>>

\* A handler reads, or answers: only its own locals change.
HandlerStep(q) ==
    /\ UNCHANGED <<live, history, status, event, queue, pc, held>>
    /\ \A p \in Requests : p # q => rpc'[p] = rpc[p] /\ req'[p] = req[p]
    /\ rpc'[q] # "enqueue"

\* A worker step inside process() that saves no status: it stays in the
\* executing part, or leaves it for the acknowledgement.
InsideStep(w) ==
    /\ UNCHANGED <<live, status, queue, held, rpc, req>>
    /\ \A e \in Events : event'[e].service = event[e].service /\ event'[e].to = event[e].to
    /\ \A s \in Services : Len(history'[s]) \in Nat /\ Len(history[s]) <= Len(history'[s])
    /\ pc' = [pc EXCEPT ![w] = pc'[w]]
    /\ \/ pc[w] \in Executing /\ pc'[w] \in Executing
       \/ pc[w] = "alert" /\ pc'[w] = "ack"

\* The last save of a verdict.
VerdictStep(w) ==
    /\ UNCHANGED <<live, history, queue, held, rpc, req>>
    /\ pc[w] \in Executing /\ status[held[w]] # "deleted"
    /\ \E verdict \in Terminal : status' = [status EXCEPT ![held[w]] = verdict]
    /\ \A e \in Events : event'[e].service = event[e].service /\ event'[e].to = event[e].to
    /\ \E to \in {"ack", "alert"} : pc' = [pc EXCEPT ![w] = to]

\* process() returns or throws: the slot is free again.
ReleaseStep(w) ==
    /\ pc[w] # "idle"
    /\ UNCHANGED <<live, history, status, event, rpc, req>>
    /\ \E verdict \in {"completed", "failed"} : Release(w, verdict)

\* process() found its event.
EventFound(w) ==
    /\ UNCHANGED <<live, history, status, event, queue, held, rpc, req>>
    /\ pc[w] = "find_event" /\ pc' = [pc EXCEPT ![w] = "mark"]

\* The reading and answering steps of enqueueRollback touch only the locals of
\* that handler and never reach queue.add.
LEMMA HandlerShapes ==
  ASSUME IInv, NEW q \in Requests,
         \/ \E s \in Services, to \in Targets : FindService(q, s, to)
         \/ FindTarget(q) \/ FindCurrent(q) \/ CheckActive(q)
         \/ InsertRejected(q) \/ AddJobFails(q)
  PROVE  HandlerStep(q)
  <1> USE DEF HandlerStep, RequestStep, Respond, tables, queue, workers
  <1>0. rpc \in [Requests -> RequestPoints] /\ req \in [Requests -> RequestLocals]
    BY DEF IInv, TypeOK
  <1>1. ASSUME NEW s \in Services, NEW to \in Targets, FindService(q, s, to) PROVE HandlerStep(q)
    BY <1>0, <1>1 DEF FindService
  <1>2. CASE FindTarget(q)
    BY <1>0, <1>2 DEF FindTarget
  <1>3. CASE FindCurrent(q)
    BY <1>0, <1>3 DEF FindCurrent
  <1>4. CASE CheckActive(q)
    BY <1>0, <1>4 DEF CheckActive
  <1>5. CASE InsertRejected(q)
    BY <1>0, <1>5 DEF InsertRejected
  <1>6. CASE AddJobFails(q)
    BY <1>0, <1>6 DEF AddJobFails
  <1> QED
    BY <1>1, <1>2, <1>3, <1>4, <1>5, <1>6

\* Between its IN_PROGRESS save and its verdict, process() changes neither a
\* status nor the queue.
LEMMA InsideShapes ==
  ASSUME IInv, NEW w \in Workers,
         \/ FindServiceRow(w) \/ LoadTarget(w) \/ DockerStop(w) \/ DockerRemove(w)
         \/ DockerRun(w) \/ DockerList(w) \/ SshFails(w) \/ LogCommand(w)
         \/ LogHealthCheck(w) \/ SaveService(w) \/ CreateSnapshot(w) \/ LogFailure(w)
         \/ EvaluateTransition(w)
  PROVE  InsideStep(w)
  <1> USE DEF InsideStep, Step, tables, queue, requests, Executing
  <1>0. /\ pc \in [Workers -> WorkerPoints] /\ event \in [Events -> Columns]
        /\ history \in [Services -> Seq(Snapshots)]
        /\ \A s \in Services : Len(history[s]) \in Nat
    BY DEF IInv, TypeOK
  <1>1. CASE FindServiceRow(w)
    BY <1>0, <1>1 DEF FindServiceRow
  <1>2. CASE LoadTarget(w)
    BY <1>0, <1>2 DEF LoadTarget
  <1>3. CASE DockerStop(w)
    BY <1>0, <1>3 DEF DockerStop
  <1>4. CASE DockerRemove(w)
    BY <1>0, <1>4 DEF DockerRemove
  <1>5. CASE DockerRun(w)
    BY <1>0, <1>5 DEF DockerRun
  <1>6. CASE DockerList(w)
    <2>1. /\ pc[w] = "list" /\ pc' = [pc EXCEPT ![w] = "log_commands"]
          /\ UNCHANGED <<live, row, history, status, event, job, stalls, held, rpc, req>>
      BY <1>6 DEF DockerList
    <2> QED
      BY <1>0, <2>1
  <1>7. CASE SshFails(w)
    BY <1>0, <1>7 DEF SshFails
  <1>8. CASE LogCommand(w)
    BY <1>0, <1>8 DEF LogCommand, AppendLog, Columns
  <1>9. CASE LogHealthCheck(w)
    BY <1>0, <1>9 DEF LogHealthCheck, AppendLog, Columns
  <1>10. CASE SaveService(w)
    BY <1>0, <1>10 DEF SaveService
  <1>11. CASE CreateSnapshot(w)
    <2> DEFINE s == event[held[w]].service
    <2>1. history' = [history EXCEPT ![s] =
            Append(history[s], [image |-> mem[w].target, by |-> held[w]])]
      BY <1>11 DEF CreateSnapshot
    <2>2. \A t \in Services : Len(history'[t]) \in Nat /\ Len(history[t]) <= Len(history'[t])
      <3>1. TAKE t \in Services
      <3>2. CASE t = s
        <4>1. history[s] \in Seq(Snapshots \cup {[image |-> mem[w].target, by |-> held[w]]})
          BY <1>0, <3>2
        <4>2. Len(Append(history[s], [image |-> mem[w].target, by |-> held[w]]))
                = Len(history[s]) + 1
          BY <4>1
        <4> QED
          BY <1>0, <2>1, <3>2, <4>2
      <3>3. CASE t # s
        BY <1>0, <2>1, <3>3
      <3> QED
        BY <3>2, <3>3
    <2> QED
      BY <1>0, <1>11, <2>2 DEF CreateSnapshot
  <1>12. CASE LogFailure(w)
    BY <1>0, <1>12 DEF LogFailure, AppendLog, Columns
  <1>13. CASE EvaluateTransition(w)
    BY <1>0, <1>13 DEF EvaluateTransition
  <1> QED
    BY <1>1, <1>2, <1>3, <1>4, <1>5, <1>6, <1>7, <1>8, <1>9, <1>10, <1>11, <1>12, <1>13

\* Every step of the system has one of these shapes.
LEMMA StepShapes ==
  ASSUME IInv, [Next]_vars
  PROVE  \/ \E q \in Requests : HandlerStep(q) /\ RequestNext(q)
         \/ \E q \in Requests, e \in Events : InsertEvent(q, e)
         \/ \E q \in Requests : AddJob(q)
         \/ \E w \in Workers, e \in Events : Take(w, e)
         \/ \E w \in Workers : \/ EventFound(w)
                               \/ MarkInProgress(w)
                               \/ InsideStep(w)
                               \/ VerdictStep(w)
                               \/ ReleaseStep(w)
         \/ \E h \in Hosts : RemoveHost(h)
         \/ Crash
         \/ \E e \in Events : StalledCheck(e)
         \/ UNCHANGED BookKeeping
  <1>1. ASSUME NEW q \in Requests, RequestNext(q)
        PROVE  \/ HandlerStep(q)
               \/ \E e \in Events : InsertEvent(q, e)
               \/ AddJob(q)
    BY <1>1, HandlerShapes DEF RequestNext
  <1>2. ASSUME NEW w \in Workers, WorkerStep(w)
        PROVE  \/ EventFound(w)
               \/ MarkInProgress(w)
               \/ InsideStep(w)
               \/ VerdictStep(w)
               \/ ReleaseStep(w)
    <2>0. event \in [Events -> Columns]
      BY DEF IInv, TypeOK
    <2>1. CASE FindEvent(w)
      <3>1. CASE RowGone(held[w])
        BY <2>1, <3>1 DEF FindEvent, ReleaseStep, tables, requests
      <3>2. CASE ~ RowGone(held[w])
        BY <2>1, <3>2 DEF FindEvent, EventFound, Step, tables, requests
      <3> QED
        BY <3>1, <3>2
    <2>2. CASE SaveSuccess(w)
      BY <2>0, <2>2 DEF SaveSuccess, VerdictStep, Step, Executing, RowGone, Terminal, Columns,
         requests
    <2>3. CASE SaveFailure(w)
      BY <2>0, <2>3 DEF SaveFailure, VerdictStep, Step, Executing, RowGone, Terminal, Columns,
         requests
    <2>4. CASE DecryptConfigThrows(w)
      BY <2>4 DEF DecryptConfigThrows, Throw, ReleaseStep, tables, requests
    <2>5. CASE DatabaseThrows(w)
      BY <2>5 DEF DatabaseThrows, Throw, ReleaseStep, tables, requests
    <2>6. CASE Acknowledge(w)
      BY <2>6 DEF Acknowledge, ReleaseStep, tables, requests
    <2> QED
      BY <1>2, <2>1, <2>2, <2>3, <2>4, <2>5, <2>6, InsideShapes DEF WorkerStep
  <1>3. CASE UNCHANGED vars
    BY <1>3 DEF vars, BookKeeping, tables, requests, workers
  <1> QED
    BY <1>1, <1>2, <1>3 DEF Next

\* BullMQ's lock: a job is delivered to one slot at a time, and a stalled job
\* only when its slot is gone.
LEMMA HeldJobsStep == ASSUME IInv, [Next]_vars PROVE HeldJobs'
  <1>0. /\ pc \in [Workers -> WorkerPoints]
        /\ held \in [Workers -> Events \cup {Null}]
        /\ job \in [Events -> JobStates]
        /\ HeldJobs
    BY DEF IInv, TypeOK
  <1> USE <1>0 DEF HeldJobs, queue
  <1>1. ASSUME NEW q \in Requests, HandlerStep(q) \/ \E e \in Events : InsertEvent(q, e)
        PROVE  HeldJobs'
    BY <1>1 DEF HandlerStep, InsertEvent, workers
  <1>2. ASSUME NEW q \in Requests, AddJob(q) PROVE HeldJobs'
    BY <1>2 DEF AddJob, workers, IInv, UnqueuedEvents
  <1>3. ASSUME NEW w \in Workers, NEW e \in Events, Take(w, e) PROVE HeldJobs'
    BY <1>3, ConstantsAssumption DEF Take, Step
  <1>4. ASSUME NEW w \in Workers, EventFound(w) \/ MarkInProgress(w) \/ InsideStep(w) \/
     VerdictStep(w)
        PROVE  HeldJobs'
    BY <1>4 DEF EventFound, MarkInProgress, Step, InsideStep, VerdictStep, Executing
  <1>5. ASSUME NEW w \in Workers, ReleaseStep(w) PROVE HeldJobs'
    BY <1>5, ConstantsAssumption DEF ReleaseStep, Release
  <1>6. ASSUME NEW h \in Hosts, RemoveHost(h) PROVE HeldJobs'
    BY <1>6 DEF RemoveHost, workers
  <1>7. CASE Crash
    BY <1>7 DEF Crash
  <1>8. ASSUME NEW e \in Events, StalledCheck(e) PROVE HeldJobs'
    BY <1>8, ConstantsAssumption DEF StalledCheck, workers
  <1>9. CASE UNCHANGED BookKeeping
    BY <1>9 DEF BookKeeping
  <1> QED
    BY <1>1, <1>2, <1>3, <1>4, <1>5, <1>6, <1>7, <1>8, <1>9, StepShapes

\* Between save and queue.add, the row of a handler stays its own.
LEMMA UnqueuedEventsStep == ASSUME IInv, [Next]_vars PROVE UnqueuedEvents'
  <1>0. /\ rpc \in [Requests -> RequestPoints]
        /\ req \in [Requests -> RequestLocals]
        /\ job \in [Events -> JobStates]
        /\ status \in [Events -> Statuses]
        /\ held \in [Workers -> Events \cup {Null}]
        /\ UnqueuedEvents
    BY DEF IInv, TypeOK
  <1> USE <1>0 DEF UnqueuedEvents, queue
  <1>1. ASSUME NEW q \in Requests, HandlerStep(q) PROVE UnqueuedEvents'
    BY <1>1 DEF HandlerStep
  <1>2. ASSUME NEW q \in Requests, NEW e \in Events, InsertEvent(q, e) PROVE UnqueuedEvents'
    BY <1>2 DEF InsertEvent, RequestStep, RequestLocals, IInv, RowsFollowServices
  <1>3. ASSUME NEW q \in Requests, AddJob(q) PROVE UnqueuedEvents'
    BY <1>3 DEF AddJob, Respond, tables
  <1>4. ASSUME NEW w \in Workers, NEW e \in Events, Take(w, e) PROVE UnqueuedEvents'
    BY <1>4 DEF Take, tables, requests
  <1>5. ASSUME NEW w \in Workers, EventFound(w) \/ MarkInProgress(w) \/ InsideStep(w) \/
     VerdictStep(w)
        PROVE  UnqueuedEvents'
    BY <1>5 DEF EventFound, MarkInProgress, InsideStep, VerdictStep, Terminal, requests
  <1>6. ASSUME NEW w \in Workers, ReleaseStep(w) PROVE UnqueuedEvents'
    BY <1>6 DEF ReleaseStep, Release, IInv, HeldJobs
  <1>7. ASSUME NEW h \in Hosts, RemoveHost(h) PROVE UnqueuedEvents'
    BY <1>7 DEF RemoveHost, requests
  <1>8. CASE Crash
    BY <1>8 DEF Crash
  <1>9. ASSUME NEW e \in Events, StalledCheck(e) PROVE UnqueuedEvents'
    BY <1>9 DEF StalledCheck, tables, requests
  <1>10. CASE UNCHANGED BookKeeping
    BY <1>10 DEF BookKeeping
  <1> QED
    BY <1>1, <1>2, <1>3, <1>4, <1>5, <1>6, <1>7, <1>8, <1>9, <1>10, StepShapes

\* The foreign keys: rows are deleted with their service and none is revived.
LEMMA RowsFollowServicesStep == ASSUME IInv, [Next]_vars PROVE RowsFollowServices'
  <1>0. /\ job \in [Events -> JobStates]
        /\ status \in [Events -> Statuses]
        /\ event \in [Events -> Columns]
        /\ held \in [Workers -> Events \cup {Null}]
        /\ live \subseteq Services
        /\ RowsFollowServices
        /\ HeldJobs
    BY DEF IInv, TypeOK
  <1> USE <1>0 DEF RowsFollowServices, queue, Active, Terminal
  <1>1. ASSUME NEW q \in Requests, HandlerStep(q) PROVE RowsFollowServices'
    BY <1>1 DEF HandlerStep
  <1>2. ASSUME NEW q \in Requests, NEW e \in Events, InsertEvent(q, e) PROVE RowsFollowServices'
    BY <1>2 DEF InsertEvent, NoEvent
  <1>3. ASSUME NEW q \in Requests, AddJob(q) PROVE RowsFollowServices'
    BY <1>3 DEF AddJob, tables, IInv, UnqueuedEvents
  <1>4. ASSUME NEW w \in Workers, NEW e \in Events, Take(w, e) PROVE RowsFollowServices'
    BY <1>4 DEF Take, tables
  <1>5. ASSUME NEW w \in Workers, EventFound(w) \/ InsideStep(w) PROVE RowsFollowServices'
    BY <1>5 DEF EventFound, InsideStep
  <1>6. ASSUME NEW w \in Workers, MarkInProgress(w) PROVE RowsFollowServices'
    BY <1>6 DEF MarkInProgress, Step, RowGone, HeldJobs, Statuses
  <1>7. ASSUME NEW w \in Workers, VerdictStep(w) PROVE RowsFollowServices'
    BY <1>7 DEF VerdictStep, IInv, ExecutingInProgress
  <1>8. ASSUME NEW w \in Workers, ReleaseStep(w) PROVE RowsFollowServices'
    BY <1>8 DEF ReleaseStep, Release, HeldJobs
  <1>9. ASSUME NEW h \in Hosts, RemoveHost(h) PROVE RowsFollowServices'
    BY <1>9, ConstantsAssumption DEF RemoveHost
  <1>10. CASE Crash
    BY <1>10 DEF Crash, tables
  <1>11. ASSUME NEW e \in Events, StalledCheck(e) PROVE RowsFollowServices'
    BY <1>11 DEF StalledCheck, tables
  <1>12. CASE UNCHANGED BookKeeping
    BY <1>12 DEF BookKeeping
  <1> QED
    BY <1>1, <1>2, <1>3, <1>4, <1>5, <1>6, <1>7, <1>8, <1>9, <1>10, <1>11, <1>12, StepShapes

\* The snapshot checks of enqueueRollback still hold when the worker reads the
\* target: snapshots are only removed with their service.
LEMMA TargetsExistStep == ASSUME IInv, [Next]_vars PROVE TargetsExist'
  <1>0. /\ rpc \in [Requests -> RequestPoints]
        /\ req \in [Requests -> RequestLocals]
        /\ event \in [Events -> Columns]
        /\ \A s \in Services : Len(history[s]) \in Nat
        /\ TargetsExist
    BY DEF IInv, TypeOK
  <1> USE <1>0 DEF TargetsExist
  <1>1. ASSUME NEW q \in Requests, HandlerStep(q), RequestNext(q) PROVE TargetsExist'
    <2>1. UNCHANGED <<live, event, history>>
      BY <1>1 DEF HandlerStep
    <2>2. rpc'[q] # "idle" => req'[q].service \in Services
      <3>1. ASSUME NEW s \in Services, NEW to \in Targets, FindService(q, s, to)
            PROVE  req'[q].service = s
        BY <3>1 DEF FindService, RequestStep, NoRequest, RequestLocals
      <3>2. ASSUME FindTarget(q) \/ CheckActive(q)
            PROVE  rpc'[q] = "idle" \/ (req' = req /\ rpc[q] # "idle")
        BY <3>2 DEF FindTarget, CheckActive, RequestStep, Respond
      <3>3. ASSUME FindCurrent(q)
            PROVE  \/ rpc'[q] = "idle"
                   \/ req'[q].service = req[q].service /\ rpc[q] # "idle"
        BY <3>3 DEF FindCurrent, RequestStep, Respond, RequestLocals
      <3>4. ASSUME InsertRejected(q) \/ AddJob(q) \/ AddJobFails(q)
            PROVE  rpc'[q] = "idle"
        BY <3>4 DEF InsertRejected, AddJob, AddJobFails, Respond
      <3>5. ASSUME NEW e \in Events, InsertEvent(q, e) PROVE FALSE
        BY <1>1, <3>5 DEF HandlerStep, InsertEvent, RequestStep
      <3>6. rpc[q] # "idle" => req[q].service \in Services
        OBVIOUS
      <3> QED
        BY <1>1, <3>1, <3>2, <3>3, <3>4, <3>5, <3>6 DEF RequestNext
    <2>3. rpc'[q] \in {"find_current", "check_active", "insert"} /\ req'[q].service \in live
            => req'[q].to \in 1..Len(history[req'[q].service])
      <3>1. CASE FindTarget(q)
        BY <3>1 DEF FindTarget, RequestStep, Respond
      <3>2. CASE FindCurrent(q)
        <4>1. rpc[q] = "find_current"
          BY <3>2 DEF FindCurrent
        <4>2. \/ rpc'[q] = "idle"
              \/ \E n : req' = [req EXCEPT ![q].from = n]
          BY <3>2 DEF FindCurrent, Respond
        <4>3. (\E n : req' = [req EXCEPT ![q].from = n])
                => req'[q].service = req[q].service /\ req'[q].to = req[q].to
          BY DEF RequestLocals
        <4> QED
          BY <2>1, <4>1, <4>2, <4>3
      <3>3. CASE CheckActive(q)
        BY <3>3 DEF CheckActive, RequestStep, Respond
      <3>4. ASSUME NEW s \in Services, NEW to \in Targets, FindService(q, s, to)
            PROVE  rpc'[q] = "find_target"
        BY <3>4 DEF FindService, RequestStep
      <3>5. ASSUME InsertRejected(q) \/ AddJob(q) \/ AddJobFails(q)
            PROVE  rpc'[q] = "idle"
        BY <3>5 DEF InsertRejected, AddJob, AddJobFails, Respond
      <3>6. ASSUME NEW e \in Events, InsertEvent(q, e) PROVE FALSE
        BY <1>1, <3>6 DEF HandlerStep, InsertEvent, RequestStep
      <3> QED
        BY <1>1, <3>1, <3>2, <3>3, <3>4, <3>5, <3>6 DEF RequestNext
    <2> QED
      BY <1>1, <2>1, <2>2, <2>3 DEF HandlerStep
  <1>2. ASSUME NEW q \in Requests, NEW e \in Events, InsertEvent(q, e) PROVE TargetsExist'
    BY <1>2 DEF InsertEvent, RequestStep, NoEvent, RequestLocals, Columns
  <1>3. ASSUME NEW q \in Requests, AddJob(q) PROVE TargetsExist'
    BY <1>3 DEF AddJob, Respond, tables
  <1>4. ASSUME NEW w \in Workers, NEW e \in Events, Take(w, e) PROVE TargetsExist'
    BY <1>4 DEF Take, tables, requests
  <1>5. ASSUME NEW w \in Workers, EventFound(w) \/ MarkInProgress(w) \/ ReleaseStep(w)
        PROVE  TargetsExist'
    BY <1>5 DEF EventFound, MarkInProgress, ReleaseStep, requests
  <1>6. ASSUME NEW w \in Workers, InsideStep(w) \/ VerdictStep(w) PROVE TargetsExist'
    <2>1. /\ UNCHANGED <<live, rpc, req>>
          /\ \A e \in Events : event'[e].service = event[e].service /\ event'[e].to = event[e].to
          /\ \A s \in Services : Len(history'[s]) \in Nat /\ Len(history[s]) <= Len(history'[s])
      BY <1>6 DEF InsideStep, VerdictStep
    <2>2. \A s \in Services, n \in Nat : n \in 1..Len(history[s]) => n \in 1..Len(history'[s])
      BY <2>1
    <2>3. live \subseteq Services
      BY DEF IInv, TypeOK
    <2> QED
      BY <2>1, <2>2, <2>3 DEF RequestLocals, Columns
  <1>7. ASSUME NEW h \in Hosts, RemoveHost(h) PROVE TargetsExist'
    BY <1>7 DEF RemoveHost, requests, IInv, TypeOK
  <1>8. CASE Crash
    BY <1>8 DEF Crash, tables
  <1>9. ASSUME NEW e \in Events, StalledCheck(e) PROVE TargetsExist'
    BY <1>9 DEF StalledCheck, tables, requests
  <1>10. CASE UNCHANGED BookKeeping
    BY <1>10 DEF BookKeeping
  <1> QED
    BY <1>1, <1>2, <1>3, <1>4, <1>5, <1>6, <1>7, <1>8, <1>9, <1>10, StepShapes

\* No insert and no IN_PROGRESS save gets past the partial unique index.
LEMMA OneActivePerServiceStep == ASSUME IInv, [Next]_vars PROVE OneActivePerService'
  <1>0. /\ status \in [Events -> Statuses]
        /\ event \in [Events -> Columns]
        /\ held \in [Workers -> Events \cup {Null}]
        /\ OneActivePerService
    BY DEF IInv, TypeOK
  <1> USE <1>0 DEF OneActivePerService, Active
  <1>1. ASSUME NEW q \in Requests, HandlerStep(q) PROVE OneActivePerService'
    BY <1>1 DEF HandlerStep
  <1>2. ASSUME NEW q \in Requests, NEW e \in Events, InsertEvent(q, e) PROVE OneActivePerService'
    BY <1>2 DEF InsertEvent, NoEvent, ViolatesOneActive, ActiveEventsOf, IInv, RowsFollowServices
  <1>3. ASSUME NEW q \in Requests, AddJob(q) PROVE OneActivePerService'
    BY <1>3 DEF AddJob, tables
  <1>4. ASSUME NEW w \in Workers, NEW e \in Events, Take(w, e) PROVE OneActivePerService'
    BY <1>4 DEF Take, tables
  <1>5. ASSUME NEW w \in Workers, EventFound(w) \/ InsideStep(w) \/ ReleaseStep(w)
        PROVE  OneActivePerService'
    BY <1>5 DEF EventFound, InsideStep, ReleaseStep
  <1>6. ASSUME NEW w \in Workers, MarkInProgress(w) PROVE OneActivePerService'
    BY <1>6 DEF MarkInProgress, ViolatesOneActive, ActiveEventsOf
  <1>7. ASSUME NEW w \in Workers, VerdictStep(w) PROVE OneActivePerService'
    BY <1>7 DEF VerdictStep, Terminal
  <1>8. ASSUME NEW h \in Hosts, RemoveHost(h) PROVE OneActivePerService'
    BY <1>8 DEF RemoveHost
  <1>9. CASE Crash
    BY <1>9 DEF Crash, tables
  <1>10. ASSUME NEW e \in Events, StalledCheck(e) PROVE OneActivePerService'
    BY <1>10 DEF StalledCheck, tables
  <1>11. CASE UNCHANGED BookKeeping
    BY <1>11 DEF BookKeeping
  <1> QED
    BY <1>1, <1>2, <1>3, <1>4, <1>5, <1>6, <1>7, <1>8, <1>9, <1>10, <1>11, StepShapes

\* Nobody else changes the status of an event that a worker executes, except
\* the cascade.
LEMMA ExecutingInProgressStep == ASSUME IInv, [Next]_vars PROVE ExecutingInProgress'
  <1>0. /\ pc \in [Workers -> WorkerPoints]
        /\ held \in [Workers -> Events \cup {Null}]
        /\ status \in [Events -> Statuses]
        /\ event \in [Events -> Columns]
        /\ HeldJobs
        /\ RowsFollowServices
        /\ ExecutingInProgress
    BY DEF IInv, TypeOK
  <1>a. \A w \in Workers : pc[w] \in Executing => held[w] \in Events
    BY <1>0 DEF HeldJobs, Executing
  <1> USE <1>0, <1>a DEF ExecutingInProgress
  <1>1. ASSUME NEW q \in Requests, HandlerStep(q) PROVE ExecutingInProgress'
    BY <1>1 DEF HandlerStep
  <1>2. ASSUME NEW q \in Requests, NEW e \in Events, InsertEvent(q, e) PROVE ExecutingInProgress'
    BY <1>2 DEF InsertEvent, workers
  <1>3. ASSUME NEW q \in Requests, AddJob(q) PROVE ExecutingInProgress'
    BY <1>3 DEF AddJob, tables, workers
  <1>4. ASSUME NEW w \in Workers, NEW e \in Events, Take(w, e) PROVE ExecutingInProgress'
    BY <1>4 DEF Take, Step, tables, Executing
  <1>5. ASSUME NEW w \in Workers, EventFound(w) \/ InsideStep(w) PROVE ExecutingInProgress'
    BY <1>5 DEF EventFound, InsideStep, Executing
  <1>6. ASSUME NEW w \in Workers, MarkInProgress(w) PROVE ExecutingInProgress'
    BY <1>6 DEF MarkInProgress, Step, HeldJobs
  <1>7. ASSUME NEW w \in Workers, VerdictStep(w) PROVE ExecutingInProgress'
    BY <1>7 DEF VerdictStep, HeldJobs, Executing
  <1>8. ASSUME NEW w \in Workers, ReleaseStep(w) PROVE ExecutingInProgress'
    BY <1>8 DEF ReleaseStep, Release, Executing
  <1>9. ASSUME NEW h \in Hosts, RemoveHost(h) PROVE ExecutingInProgress'
    BY <1>9 DEF RemoveHost, workers
  <1>10. CASE Crash
    BY <1>10 DEF Crash, Executing
  <1>11. ASSUME NEW e \in Events, StalledCheck(e) PROVE ExecutingInProgress'
    BY <1>11 DEF StalledCheck, tables, workers
  <1>12. CASE UNCHANGED BookKeeping
    BY <1>12 DEF BookKeeping
  <1> QED
    BY <1>1, <1>2, <1>3, <1>4, <1>5, <1>6, <1>7, <1>8, <1>9, <1>10, <1>11, <1>12, StepShapes

\* A worker gets to IN_PROGRESS only if no other worker executes a rollback of
\* that service, even when its own event was deleted under it.
LEMMA ExclusiveExecutionStep == ASSUME IInv, [Next]_vars PROVE ExclusiveExecution'
  <1>0. /\ pc \in [Workers -> WorkerPoints]
        /\ held \in [Workers -> Events \cup {Null}]
        /\ status \in [Events -> Statuses]
        /\ event \in [Events -> Columns]
        /\ ExclusiveExecution
        /\ ExecutingInProgress
        /\ RowsFollowServices
    BY DEF IInv, TypeOK
  <1>a. \A w \in Workers : pc[w] \in Executing => held[w] \in Events
    BY <1>0 DEF IInv, HeldJobs, Executing
  <1> USE <1>0, <1>a DEF ExclusiveExecution, ServiceOf
  <1>1. ASSUME NEW q \in Requests, HandlerStep(q) PROVE ExclusiveExecution'
    BY <1>1 DEF HandlerStep
  <1>2. ASSUME NEW q \in Requests, NEW e \in Events, InsertEvent(q, e) PROVE ExclusiveExecution'
    BY <1>2 DEF InsertEvent, workers, ExecutingInProgress
  <1>3. ASSUME NEW q \in Requests, AddJob(q) PROVE ExclusiveExecution'
    BY <1>3 DEF AddJob, tables, workers
  <1>4. ASSUME NEW w \in Workers, NEW e \in Events, Take(w, e) PROVE ExclusiveExecution'
    BY <1>4 DEF Take, Step, tables, Executing
  <1>5. ASSUME NEW w \in Workers, EventFound(w) \/ InsideStep(w) \/ VerdictStep(w)
        PROVE  ExclusiveExecution'
    BY <1>5 DEF EventFound, InsideStep, VerdictStep, Executing
  <1>6. ASSUME NEW w \in Workers, MarkInProgress(w) PROVE ExclusiveExecution'
    <2>1. /\ held[w] \in Events /\ pc[w] = "mark" /\ pc' = [pc EXCEPT ![w] = "find_service"]
          /\ UNCHANGED <<held, event>>
      BY <1>6 DEF MarkInProgress, Step, IInv, HeldJobs
    <2>2. ASSUME NEW v \in Workers, v # w, pc[v] \in Executing
          PROVE  event[held[v]].service # event[held[w]].service
      <3>1. held[v] \in Events /\ held[v] # held[w]
        BY <2>1, <2>2 DEF IInv, HeldJobs
      <3>2. CASE status[held[v]] = "in_progress"
        BY <1>6, <2>1, <3>1, <3>2 DEF MarkInProgress, ViolatesOneActive, ActiveEventsOf, Active
      <3>3. CASE status[held[v]] = "deleted"
        <4>1. event[held[v]].service \notin live
          BY <3>1, <3>3 DEF RowsFollowServices
        <4>2. job[held[w]] = "active" /\ status[held[w]] # "deleted"
          BY <1>6, <2>1 DEF MarkInProgress, RowGone, IInv, HeldJobs
        <4>3. event[held[w]].service \in live
          BY <2>1, <4>2 DEF RowsFollowServices, Statuses, Active, Terminal
        <4> QED
          BY <4>1, <4>3
      <3> QED
        BY <2>2, <3>2, <3>3 DEF ExecutingInProgress
    <2>3. \A u \in Workers : u # w => pc'[u] = pc[u]
      BY <2>1
    <2> QED
      BY <2>1, <2>2, <2>3
  <1>7. ASSUME NEW w \in Workers, ReleaseStep(w) PROVE ExclusiveExecution'
    BY <1>7 DEF ReleaseStep, Release, Executing
  <1>8. ASSUME NEW h \in Hosts, RemoveHost(h) PROVE ExclusiveExecution'
    BY <1>8 DEF RemoveHost, workers
  <1>9. CASE Crash
    BY <1>9 DEF Crash, Executing
  <1>10. ASSUME NEW e \in Events, StalledCheck(e) PROVE ExclusiveExecution'
    BY <1>10 DEF StalledCheck, tables, workers
  <1>11. CASE UNCHANGED BookKeeping
    BY <1>11 DEF BookKeeping
  <1> QED
    BY <1>1, <1>2, <1>3, <1>4, <1>5, <1>6, <1>7, <1>8, <1>9, <1>10, <1>11, StepShapes

\* process() logs four command results per session and then moves on.
LEMMA LoggingBoundedStep == ASSUME IInv, [Next]_vars PROVE LoggingBounded'
  <1>0. pc \in [Workers -> WorkerPoints] /\ mem \in [Workers -> Locals] /\ LoggingBounded
    BY DEF IInv, TypeOK
  <1> USE <1>0 DEF LoggingBounded
  <1>1. CASE UNCHANGED <<pc, mem>>
    BY <1>1
  <1>2. CASE (\E q \in Requests : RequestNext(q)) \/ (\E h \in Hosts : RemoveHost(h))
             \/ (\E e \in Events : StalledCheck(e)) \/ UNCHANGED vars
    BY <1>1, <1>2 DEF RequestNext, FindService, FindTarget, FindCurrent, CheckActive, InsertEvent,
         InsertRejected, AddJob, AddJobFails, RemoveHost, StalledCheck, vars, workers
  <1>3. ASSUME NEW w \in Workers, NEW e \in Events, Take(w, e) PROVE LoggingBounded'
    BY <1>3 DEF Take, Step
  <1>4. CASE Crash
    BY <1>4 DEF Crash, NoLocals
  <1>5. ASSUME NEW w \in Workers, WorkerStep(w) PROVE LoggingBounded'
    <2> SUFFICES /\ \A v \in Workers : v # w => pc'[v] = pc[v] /\ mem'[v] = mem[v]
                 /\ \/ pc'[w] = "idle" /\ mem'[w].logged = 0
                    \/ pc'[w] = "log_commands" /\ mem'[w].logged < 4
                    \/ pc'[w] \in {"mark", "find_service", "load_target", "stop", "remove",
                                   "run", "list"} /\ mem'[w].logged = 0
                    \/ pc'[w] \in {"log_health", "save_service", "create_snapshot",
                                   "save_success", "fail_log", "fail_save", "alert", "ack"}
      OBVIOUS
    <2> USE DEF Step, Locals, workers
    <2>1. CASE FindEvent(w)
      BY <2>1 DEF FindEvent, Release, NoLocals
    <2>2. CASE MarkInProgress(w)
      BY <2>2 DEF MarkInProgress
    <2>3. CASE FindServiceRow(w)
      BY <2>3 DEF FindServiceRow
    <2>4. CASE LoadTarget(w)
      BY <2>4 DEF LoadTarget
    <2>5. CASE DecryptConfigThrows(w) \/ DatabaseThrows(w) \/ Acknowledge(w)
      BY <2>5 DEF DecryptConfigThrows, DatabaseThrows, Acknowledge, Throw, Release, NoLocals
    <2>6. CASE DockerStop(w)
      BY <2>6 DEF DockerStop
    <2>7. CASE DockerRemove(w)
      BY <2>7 DEF DockerRemove
    <2>8. CASE DockerRun(w)
      BY <2>8 DEF DockerRun
    <2>9. CASE DockerList(w)
      BY <2>9 DEF DockerList
    <2>10. CASE SshFails(w)
      BY <2>10 DEF SshFails
    <2>11. CASE LogCommand(w)
      BY <2>11 DEF LogCommand, CommandSteps
    <2>12. CASE LogHealthCheck(w) \/ LogFailure(w)
      BY <2>12 DEF LogHealthCheck, LogFailure
    <2>13. CASE SaveService(w) \/ CreateSnapshot(w) \/ SaveSuccess(w) \/ SaveFailure(w)
                \/ EvaluateTransition(w)
      BY <2>13 DEF SaveService, CreateSnapshot, SaveSuccess, SaveFailure, EvaluateTransition
    <2> QED
      BY <1>5, <2>1, <2>2, <2>3, <2>4, <2>5, <2>6, <2>7, <2>8, <2>9, <2>10, <2>11, <2>12, <2>13
      DEF WorkerStep
  <1> QED
    BY <1>2, <1>3, <1>4, <1>5 DEF Next

\* The other parts of the invariant hold at startup, when nothing runs.
LEMMA OthersInit == Init => HeldJobs /\ UnqueuedEvents /\ RowsFollowServices /\ TargetsExist
        /\ OneActivePerService /\ ExecutingInProgress /\ ExclusiveExecution /\ LoggingBounded
  BY ConstantsAssumption DEF Init, HeldJobs, UnqueuedEvents, RowsFollowServices, TargetsExist,
     OneActivePerService, ExecutingInProgress, Executing, ExclusiveExecution, LoggingBounded,
     NoEvent, NoLocals, Active, Terminal

-----------------------------------------------------------------------------
(* Theorems *)

\* The inductive invariant holds of every state the rollback subsystem reaches.
LEMMA InvariantHolds == Spec => []IInv
  <1>1. Init => IInv
    BY TypeInit, OthersInit DEF IInv
  <1>2. IInv /\ [Next]_vars => IInv'
    BY TypeStep, HeldJobsStep, UnqueuedEventsStep, RowsFollowServicesStep, TargetsExistStep,
       OneActivePerServiceStep, ExecutingInProgressStep, ExclusiveExecutionStep,
       LoggingBoundedStep
    DEF IInv
  <1> QED
    BY <1>1, <1>2, PTL DEF Spec

\* Type correctness: rows, jobs, locals and counters keep their types; a job is
\* redelivered at most once.
THEOREM TypeCorrect == Spec => []TypeOK
  <1>1. IInv => TypeOK
    BY DEF IInv
  <1> QED
    BY <1>1, InvariantHolds, PTL

\* README "two concurrent requests can't double-execute a rollback for the same
\* service", with any number of handlers, slots, crashes and redeliveries.
THEOREM NeverConcurrent == Spec => []ExclusiveExecution
  <1>1. IInv => ExclusiveExecution
    BY DEF IInv
  <1> QED
    BY <1>1, InvariantHolds, PTL

-----------------------------------------------------------------------------
(* The lifecycle *)

\* In the owner column of the lifecycle, only the service of an event counts.
LEMMA OwnerUnchanged ==
  ASSUME \A e \in Events : event'[e].service = event[e].service
  PROVE  EventOwner' = EventOwner
  BY DEF EventOwner

\* The initial tables are those of the lifecycle.
LEMMA LifecycleInit == Init => Lifecycle!Init
  BY DEF Init, Lifecycle!Init, EventOwner, NoEvent

\* An accepted INSERT is a request of the lifecycle: the unique index is its
\* guard.
LEMMA InsertIsRequest ==
  ASSUME IInv, NEW q \in Requests, NEW e \in Events, InsertEvent(q, e)
  PROVE  \E s \in Services : Lifecycle!Request(e, s)
  <1> DEFINE s == req[q].service
  <1>0. status \in [Events -> Statuses] /\ event \in [Events -> Columns] /\ live \subseteq Services
    BY DEF IInv, TypeOK
  <1>1. s \in live /\ s \in Services /\ status[e] = "none" /\ UNCHANGED live
    BY <1>0 DEF InsertEvent
  <1>2. Lifecycle!NoOtherActive(e, s)
    BY DEF InsertEvent, ViolatesOneActive, ActiveEventsOf, Active, Lifecycle!NoOtherActive,
           Lifecycle!Active, EventOwner
  <1>3. EventOwner' = [EventOwner EXCEPT ![e] = s]
    BY <1>0 DEF InsertEvent, EventOwner, NoEvent
  <1> QED
    BY <1>1, <1>2, <1>3 DEF InsertEvent, Lifecycle!Request

\* The IN_PROGRESS save starts a pending rollback, starts a redelivered one
\* again, or changes nothing.
LEMMA MarkIsStart ==
  ASSUME IInv, NEW w \in Workers, MarkInProgress(w)
  PROVE  (\E e \in Events : Lifecycle!Start(e)) \/ UNCHANGED Lifecycle!vars
  <1> DEFINE e == held[w]
  <1>0. status \in [Events -> Statuses] /\ event \in [Events -> Columns]
    BY DEF IInv, TypeOK
  <1>1. e \in Events /\ job[e] = "active"
    BY DEF MarkInProgress, Step, IInv, TypeOK, HeldJobs
  <1>2. status[e] \in Active \cup Terminal
    BY <1>0, <1>1 DEF IInv, RowsFollowServices, MarkInProgress, RowGone, Statuses
  <1>3. status' = [status EXCEPT ![e] = "in_progress"] /\ UNCHANGED <<live, EventOwner>>
    BY DEF MarkInProgress, EventOwner
  <1>4. Lifecycle!NoOtherActive(e, EventOwner[e])
    BY <1>1 DEF MarkInProgress, ViolatesOneActive, ActiveEventsOf, Active,
                Lifecycle!NoOtherActive, Lifecycle!Active, EventOwner
  <1>5. CASE status[e] = "in_progress"
    BY <1>0, <1>3, <1>5 DEF Lifecycle!vars
  <1>6. CASE status[e] # "in_progress"
    BY <1>1, <1>2, <1>3, <1>4, <1>6 DEF Lifecycle!Start, Lifecycle!Verdicts, Active, Terminal
  <1> QED
    BY <1>5, <1>6

\* Every step is a step of the lifecycle or leaves it alone.
LEMMA LifecycleStep == ASSUME IInv, [Next]_vars PROVE [Lifecycle!Next]_(Lifecycle!vars)
  <1>0. held \in [Workers -> Events \cup {Null}] /\ event \in [Events -> Columns]
    BY DEF IInv, TypeOK
  <1>1. ASSUME UNCHANGED <<live, status, event>> PROVE UNCHANGED Lifecycle!vars
    BY <1>1 DEF Lifecycle!vars, EventOwner
  <1>2. ASSUME NEW q \in Requests, NEW e \in Events, InsertEvent(q, e)
        PROVE  Lifecycle!Next
    BY <1>2, InsertIsRequest DEF Lifecycle!Next
  <1>3. ASSUME NEW w \in Workers, MarkInProgress(w)
        PROVE  [Lifecycle!Next]_(Lifecycle!vars)
    BY <1>3, MarkIsStart DEF Lifecycle!Next
  <1>4. ASSUME NEW w \in Workers, InsideStep(w) PROVE UNCHANGED Lifecycle!vars
    BY <1>4, OwnerUnchanged DEF InsideStep, Lifecycle!vars
  <1>5. ASSUME NEW w \in Workers, VerdictStep(w) PROVE Lifecycle!Next
    <2>1. held[w] \in Events /\ status[held[w]] = "in_progress"
      BY <1>0, <1>5 DEF VerdictStep, IInv, ExecutingInProgress, HeldJobs, Executing
    <2>2. EventOwner' = EventOwner /\ UNCHANGED live
      BY <1>5, OwnerUnchanged DEF VerdictStep
    <2>3. Lifecycle!Finish(held[w])
      BY <1>5, <2>1, <2>2 DEF VerdictStep, Lifecycle!Finish, Lifecycle!Verdicts, Terminal
    <2> QED
      BY <2>1, <2>3 DEF Lifecycle!Next
  <1>6. ASSUME NEW h \in Hosts, RemoveHost(h) PROVE Lifecycle!Next
    <2> DEFINE gone == {s \in live : HostOf[s] = h}
    <2>1. status' = [e \in Events |-> IF EventOwner[e] \in gone THEN "deleted" ELSE status[e]]
      BY <1>6 DEF RemoveHost, EventOwner
    <2>2. Lifecycle!Remove(gone)
      BY <1>6, <2>1 DEF RemoveHost, Lifecycle!Remove, EventOwner
    <2> QED
      BY <2>2 DEF Lifecycle!Next
  <1>7. ASSUME \/ \E q \in Requests : HandlerStep(q) \/ AddJob(q)
               \/ \E w \in Workers : EventFound(w) \/ ReleaseStep(w)
               \/ \E w \in Workers, e \in Events : Take(w, e)
               \/ Crash
               \/ \E e \in Events : StalledCheck(e)
               \/ UNCHANGED BookKeeping
        PROVE  UNCHANGED <<live, status, event>>
    BY <1>7 DEF HandlerStep, AddJob, EventFound, ReleaseStep, Take, Crash, StalledCheck,
                BookKeeping, tables
  <1> QED
    BY <1>1, <1>2, <1>3, <1>4, <1>5, <1>6, <1>7, StepShapes

\* Handlers, queue and workers keep the lifecycle promised to API clients.
THEOREM ImplementsLifecycle == Spec => KeepsLifecycle
  <1> QED
    BY LifecycleInit, LifecycleStep, InvariantHolds, PTL
    DEF Spec, KeepsLifecycle, Lifecycle!Spec

-----------------------------------------------------------------------------
(***************************************************************************)
(* What a rollback leaves behind: its log, its verdict, its alert, the     *)
(* container, the service row and the snapshot.  IInv says who executes;   *)
(* AuditInv says what the slot that executes holds in its locals, and how  *)
(* far that agrees with the tables and the machine.                        *)
(***************************************************************************)

\* process() from the load of its target on, up to a success.
Loaded == {"stop", "remove", "run", "list", "log_commands", "log_health", "save_service",
           "create_snapshot", "save_success"}

\* A slot's copy of the log is the log, so that rewriting the whole array from
\* the copy extends it; the verdict it is about to save has its entry.
CopyIsCurrent(w) ==
    /\ pc[w] \in Executing \cup {"mark"} /\ ~ RowGone(held[w]) => mem[w].log = event[held[w]].log
    /\ pc[w] \in {"save_service", "create_snapshot", "save_success"}
            => mem[w].log # <<>> /\ mem[w].log[Len(mem[w].log)] = HealthStep
    /\ pc[w] = "fail_save" => mem[w].log # <<>> /\ mem[w].log[Len(mem[w].log)] = "failure"

\* fail() knows the organization to alert, as long as there is an event to fail.
OrgIsKnown(w) ==
    /\ pc[w] \in (Executing \ {"find_service"}) \cup {"alert"} => mem[w].org \/ RowGone(held[w])
    /\ pc[w] = "ack" /\ status[held[w]] = "failed" => held[w] \in alerted

\* The target is the snapshot the event names, and stop and rm are given the
\* container of the row.
TargetIsLoaded(w) ==
    /\ pc[w] \in Loaded /\ ~ RowGone(held[w])
            => mem[w].target = history[ServiceOf(w)][event[held[w]].to].image
    /\ pc[w] \in {"load_target", "stop", "remove", "run", "list", "log_commands", "log_health",
                  "save_service"}
            => mem[w].container = row[ServiceOf(w)].container

\* A slot that started a container finds it under the service's name, and only
\* such a slot passes the health check.
ContainerIsRunning(w) ==
    LET s == ServiceOf(w) IN
    /\ pc[w] \in {"idle", "find_event", "mark", "find_service", "load_target", "stop",
                  "remove", "run"} => ~ mem[w].started
    /\ pc[w] \in {"log_health", "save_service", "create_snapshot", "save_success"}
            => mem[w].started
    /\ pc[w] \in {"list", "log_commands", "log_health", "save_service", "create_snapshot",
                  "save_success"} /\ mem[w].started
            => /\ docker[s] # Null /\ docker[s].image = mem[w].target
               /\ pc[w] # "list" => mem[w].found = docker[s].id

\* What succeed() saved so far is still what the tables say.
SavesHold(w) ==
    LET s == ServiceOf(w) IN
    /\ pc[w] \in {"create_snapshot", "save_success"}
            => row[s] = [container |-> mem[w].found, image |-> mem[w].target]
    /\ pc[w] = "save_success" /\ ~ RowGone(held[w])
            => /\ history[s] # <<>>
               /\ history[s][Len(history[s])] = [image |-> mem[w].target, by |-> held[w]]

\* A job on its first run has no verdict yet.
FirstRun ==
    /\ \A e \in Events : status[e] \in Terminal /\ stalls[e] = 0 => job[e] \notin {"none", "waiting"}
    /\ \A w \in Workers : pc[w] \in {"find_event", "mark"} /\ stalls[held[w]] = 0
            => status[held[w]] \notin Terminal

\* Nothing was written of an id that no INSERT used.
UnusedEvents ==
    /\ \A e \in Events : status[e] = "none" => event[e].log = <<>>
    /\ \A s \in Services : \A i \in 1..Len(history[s]) :
            history[s][i].by # Null => status[history[s][i].by] # "none"

\* A run of a job adds at most one snapshot, and adds it right before the save
\* of its success.
RunsAdd(e) ==
    /\ Cardinality(SnapshotsBy(e)) <= 1 + stalls[e]
    /\ job[e] \in {"none", "waiting"} => Cardinality(SnapshotsBy(e)) <= stalls[e]
    /\ \A w \in Workers : held[w] = e /\ pc[w] \notin {"save_success", "ack"}
            => Cardinality(SnapshotsBy(e)) <= stalls[e]
    /\ status[e] = "succeeded" => SnapshotsBy(e) # {}

DeploymentsCounted == \A e \in Events : status[e] \in Active \cup Terminal => RunsAdd(e)

SlotsInv ==
    \A w \in Workers : /\ CopyIsCurrent(w) /\ OrgIsKnown(w) /\ TargetIsLoaded(w)
                       /\ ContainerIsRunning(w) /\ SavesHold(w)

AuditInv ==
    /\ SlotsInv /\ FirstRun /\ UnusedEvents /\ VerdictMatchesLog /\ FailureIsAnnounced
    /\ DeploymentsCounted

-----------------------------------------------------------------------------
(* What one slot's step leaves to the others *)

\* A step of a slot changes its own locals and event; machine, service row and
\* history it changes only while it executes, and only those of its service.
Touches(w) ==
    /\ \A v \in Workers \ {w} : pc'[v] = pc[v] /\ held'[v] = held[v] /\ mem'[v] = mem[v]
    /\ \A e \in Events \ {held[w]} : event'[e] = event[e] /\ status'[e] = status[e] /\ job'[e] = job[e]
    /\ \A e \in Events : event'[e].service = event[e].service /\ event'[e].to = event[e].to
    /\ UNCHANGED <<live, stalls>> /\ alerted \subseteq alerted'
    /\ pc[w] \in Executing \/ UNCHANGED <<docker, row, history>>
    /\ \A s \in Services \ {ServiceOf(w)} :
            docker'[s] = docker[s] /\ row'[s] = row[s] /\ history'[s] = history[s]

LEMMA WorkerTouches == ASSUME IInv, NEW w \in Workers, WorkerStep(w) PROVE Touches(w)
<1>0. /\ event \in [Events -> Columns] /\ status \in [Events -> Statuses]
      /\ job \in [Events -> JobStates] /\ history \in [Services -> Seq(Snapshots)]
      /\ row \in [Services -> Rows] /\ docker \in [Services -> Containers \cup {Null}]
      /\ pc \in [Workers -> WorkerPoints] /\ held \in [Workers -> Events \cup {Null}]
      /\ mem \in [Workers -> Locals]
  BY DEF IInv, TypeOK
<1>c. \A c \in Columns, l \in Seq(LogSteps) :
         [c EXCEPT !.log = l].service = c.service /\ [c EXCEPT !.log = l].to = c.to
  BY DEF Columns
<1>. USE <1>0 DEF Touches, ServiceOf, Step, Release, tables, queue, remote, workers, requests,
         AppendLog
<1>1. CASE FindEvent(w)
  BY <1>1 DEF FindEvent
<1>2. CASE MarkInProgress(w)
  BY <1>2 DEF MarkInProgress
<1>3. CASE FindServiceRow(w) \/ LoadTarget(w) \/ SshFails(w) \/ EvaluateTransition(w) \/ DockerList(w)
  <2>1. UNCHANGED <<live, row, history, status, event, job, stalls, docker, held>>
    BY <1>3 DEF FindServiceRow, LoadTarget, SshFails, EvaluateTransition, DockerList
  <2>2. \A v \in Workers \ {w} : pc'[v] = pc[v] /\ mem'[v] = mem[v]
    BY <1>3 DEF FindServiceRow, LoadTarget, SshFails, EvaluateTransition, DockerList
  <2>3. alerted \subseteq alerted'
    BY <1>3 DEF FindServiceRow, LoadTarget, SshFails, EvaluateTransition, DockerList
  <2>. QED BY <2>1, <2>2, <2>3
<1>4. CASE DecryptConfigThrows(w) \/ DatabaseThrows(w) \/ Acknowledge(w)
  BY <1>4 DEF DecryptConfigThrows, DatabaseThrows, Acknowledge, Throw
<1>5. CASE DockerStop(w)
  BY <1>5 DEF DockerStop, Executing
<1>6. CASE DockerRemove(w)
  BY <1>6 DEF DockerRemove, Executing
<1>7. CASE DockerRun(w)
  <2>1. /\ pc[w] = "run" /\ pc' = [pc EXCEPT ![w] = "list"]
        /\ UNCHANGED <<live, row, history, status, event, alerted, job, stalls, held>>
    BY <1>7 DEF DockerRun
  <2>2. \A v \in Workers \ {w} : mem'[v] = mem[v]
    BY <1>7 DEF DockerRun
  <2>3. \A s \in Services \ {ServiceOf(w)} : docker'[s] = docker[s]
    BY <1>7 DEF DockerRun
  <2>. QED BY <2>1, <2>2, <2>3 DEF Executing
<1>8. CASE LogCommand(w) \/ LogHealthCheck(w) \/ LogFailure(w)
  <2>1. /\ UNCHANGED <<live, row, history, status, alerted, job, stalls, docker, held>>
        /\ \E l : event' = [event EXCEPT ![held[w]].log = l]
    BY <1>8 DEF LogCommand, LogHealthCheck, LogFailure
  <2>2. \A v \in Workers \ {w} : pc'[v] = pc[v] /\ mem'[v] = mem[v]
    BY <1>8 DEF LogCommand, LogHealthCheck, LogFailure
  <2>3. InsideStep(w)
    BY <1>8, InsideShapes
  <2>. QED BY <2>1, <2>2, <2>3 DEF InsideStep
<1>9. CASE SaveService(w)
  BY <1>9 DEF SaveService, Executing
<1>10. CASE CreateSnapshot(w)
  BY <1>10 DEF CreateSnapshot, Executing
<1>11. CASE SaveSuccess(w)
  BY <1>11 DEF SaveSuccess, Executing, Columns
<1>12. CASE SaveFailure(w)
  BY <1>12 DEF SaveFailure, Executing, Columns
<1>. QED
  BY <1>1, <1>2, <1>3, <1>4, <1>5, <1>6, <1>7, <1>8, <1>9, <1>10, <1>11, <1>12 DEF WorkerStep

\* A slot that others pass by keeps its place and finds its event, unless that
\* went with its host; while it executes it finds the machine, the service row
\* and the history of its service as well.
Undisturbed(w) ==
    LET s == ServiceOf(w) IN
    /\ pc'[w] = pc[w] /\ held'[w] = held[w] /\ mem'[w] = mem[w]
    /\ held[w] # Null => /\ event'[held[w]] = event[held[w]]
                         /\ stalls'[held[w]] = stalls[held[w]]
                         /\ status'[held[w]] \in {status[held[w]], "deleted"}
                         /\ held[w] \in alerted => held[w] \in alerted'
    /\ pc[w] \in Executing => /\ docker'[s] = docker[s] /\ row'[s] = row[s]
                              /\ history'[s] = history[s] \/ status'[held[w]] = "deleted"

LEMMA OthersUndisturbed ==
    ASSUME IInv, [Next]_vars, NEW v \in Workers
    PROVE  \/ Undisturbed(v)
           \/ pc'[v] = "idle" /\ held'[v] = Null /\ mem'[v] = NoLocals
           \/ \E e \in Events : Take(v, e)
           \/ WorkerStep(v)
<1>0. /\ event \in [Events -> Columns] /\ status \in [Events -> Statuses]
      /\ stalls \in [Events -> 0..MaxStalledCount]
      /\ pc \in [Workers -> WorkerPoints] /\ held \in [Workers -> Events \cup {Null}]
      /\ HeldJobs /\ RowsFollowServices /\ ExecutingInProgress /\ ExclusiveExecution
  BY DEF IInv, TypeOK
<1>a. held[v] # Null => held[v] \in Events /\ status[held[v]] # "none" /\ job[held[v]] = "active"
  BY <1>0 DEF HeldJobs, RowsFollowServices
<1>b. pc[v] \in Executing => held[v] \in Events /\ ServiceOf(v) \in Services
  BY <1>0 DEF HeldJobs, RowsFollowServices, ExecutingInProgress, Executing, Active, ServiceOf, IInv, TypeOK
<1>. DEFINE Goal == \/ Undisturbed(v)
                    \/ pc'[v] = "idle" /\ held'[v] = Null /\ mem'[v] = NoLocals
                    \/ \E e \in Events : Take(v, e)
                    \/ WorkerStep(v)
<1>. HIDE DEF Goal
<1>1. ASSUME UNCHANGED <<pc, held, mem, event, stalls, status, alerted, docker, row, history>>
      PROVE  Goal
  BY <1>1 DEF Goal, Undisturbed
<1>2. ASSUME NEW q \in Requests, RequestNext(q) PROVE Goal
  <2>1. ASSUME NEW e \in Events, InsertEvent(q, e) PROVE Goal
    BY <1>0, <1>a, <2>1 DEF InsertEvent, Goal, Undisturbed, remote, queue, workers
  <2>2. CASE UNCHANGED <<tables, alerted, stalls, remote, workers, crashes>>
    BY <1>1, <2>2 DEF tables, remote, workers
  <2>3. UNCHANGED <<tables, alerted, stalls, remote, workers, crashes>>
            \/ \E e \in Events : InsertEvent(q, e)
    BY <1>2 DEF RequestNext, FindService, FindTarget, FindCurrent, CheckActive, InsertRejected,
                AddJob, AddJobFails, queue
  <2>. QED BY <2>1, <2>2, <2>3
<1>3. ASSUME NEW w \in Workers, NEW e \in Events, Take(w, e) PROVE Goal
  <2>1. CASE w = v
    BY <1>3, <2>1 DEF Goal
  <2>2. CASE w # v
    BY <1>0, <1>3, <2>2 DEF Take, Step, Goal, Undisturbed, tables, remote
  <2>. QED BY <2>1, <2>2
<1>4. ASSUME NEW w \in Workers, WorkerStep(w) PROVE Goal
  <2>1. CASE w = v
    BY <1>4, <2>1 DEF Goal
  <2>2. CASE w # v
    <3>1. Touches(w)
      BY <1>4, WorkerTouches
    <3>2. held[v] # Null => held[v] # held[w]
      BY <1>0, <2>2 DEF HeldJobs
    <3>3. pc[v] \in Executing /\ pc[w] \in Executing => ServiceOf(v) # ServiceOf(w)
      BY <1>0, <2>2 DEF ExclusiveExecution
    <3>4. pc[v] \in Executing => /\ docker'[ServiceOf(v)] = docker[ServiceOf(v)]
                                /\ row'[ServiceOf(v)] = row[ServiceOf(v)]
                                /\ history'[ServiceOf(v)] = history[ServiceOf(v)]
      BY <1>b, <3>1, <3>3 DEF Touches
    <3>. QED BY <1>a, <2>2, <3>1, <3>2, <3>4 DEF Touches, Goal, Undisturbed
  <2>. QED BY <2>1, <2>2
<1>5. ASSUME NEW h \in Hosts, RemoveHost(h) PROVE Goal
  <2>. DEFINE gone == {s \in live : HostOf[s] = h}
  <2>1. /\ history' = [s \in Services |-> IF s \in gone THEN <<>> ELSE history[s]]
        /\ status' = [e \in Events |-> IF event[e].service \in gone THEN "deleted" ELSE status[e]]
        /\ UNCHANGED <<row, event, alerted, stalls, docker, pc, held, mem>>
    BY <1>5 DEF RemoveHost, queue, remote, workers
  <2>2. pc[v] \in Executing
           => history'[ServiceOf(v)] = history[ServiceOf(v)] \/ status'[held[v]] = "deleted"
    BY <1>b, <2>1 DEF ServiceOf
  <2>3. held[v] # Null => status'[held[v]] \in {status[held[v]], "deleted"}
    BY <1>a, <2>1
  <2>. HIDE DEF gone
  <2>. QED BY <2>1, <2>2, <2>3 DEF Goal, Undisturbed
<1>6. CASE Crash
  BY <1>6 DEF Crash, Goal
<1>7. ASSUME NEW e \in Events, StalledCheck(e) PROVE Goal
  <2>1. held[v] # e /\ UNCHANGED <<pc, held, mem, event, status, alerted, docker, row, history>>
    BY <1>7 DEF StalledCheck, tables, remote, workers
  <2>2. held[v] # Null => stalls'[held[v]] = stalls[held[v]]
    BY <1>0, <1>7, <1>a, <2>1 DEF StalledCheck
  <2>. QED BY <2>1, <2>2 DEF Goal, Undisturbed
<1>8. ASSUME UNCHANGED vars PROVE Goal
  BY <1>1, <1>8 DEF vars, tables, queue, remote, workers
<1>. QED BY <1>2, <1>3, <1>4, <1>5, <1>6, <1>7, <1>8 DEF Next, Goal

-----------------------------------------------------------------------------
(* What a slot holds *)

\* Where a slot is, and that it has a job there.
LEMMA SlotFacts ==
    ASSUME IInv, NEW w \in Workers
    PROVE  /\ pc \in [Workers -> WorkerPoints] /\ mem \in [Workers -> Locals]
           /\ held \in [Workers -> Events \cup {Null}] /\ event \in [Events -> Columns]
           /\ mem[w] \in Locals /\ mem[w].log \in Seq(LogSteps)
           /\ pc[w] # "idle" => held[w] \in Events /\ job[held[w]] = "active"
                                /\ event[held[w]] \in Columns
                                /\ status[held[w]] \in {"deleted"} \cup Active \cup Terminal
           /\ pc[w] \in Executing => status[held[w]] \in {"in_progress", "deleted"}
                                     /\ ServiceOf(w) \in Services
           /\ pc[w] = "idle" => held[w] = Null
<1>1. /\ pc \in [Workers -> WorkerPoints] /\ mem \in [Workers -> Locals]
      /\ held \in [Workers -> Events \cup {Null}] /\ event \in [Events -> Columns]
      /\ status \in [Events -> Statuses] /\ live \subseteq Services
  BY DEF IInv, TypeOK
<1>2. mem[w].log \in Seq(LogSteps)
  BY <1>1 DEF Locals
<1>3. pc[w] # "idle" => held[w] \in Events /\ job[held[w]] = "active"
  BY <1>1 DEF IInv, HeldJobs
<1>4. pc[w] # "idle" => status[held[w]] \in {"deleted"} \cup Active \cup Terminal
  BY <1>1, <1>3 DEF IInv, RowsFollowServices, Statuses
<1>5. pc[w] \in Executing => status[held[w]] \in {"in_progress", "deleted"}
  BY DEF IInv, ExecutingInProgress
<1>6. pc[w] \in Executing => pc[w] # "idle"
  BY DEF Executing
<1>7. pc[w] \in Executing => ServiceOf(w) \in Services
  BY <1>1, <1>3, <1>5, <1>6 DEF IInv, RowsFollowServices, Active, ServiceOf
<1>8. pc[w] = "idle" => held[w] = Null
  BY DEF IInv, HeldJobs
<1>. QED BY <1>1, <1>2, <1>3, <1>4, <1>5, <1>6, <1>7, <1>8

\* Appending makes the entry the last one.
LEMMA AppendedLast ==
    ASSUME NEW S, NEW l \in Seq(S), NEW x \in S
    PROVE  Append(l, x) # <<>> /\ Append(l, x)[Len(Append(l, x))] = x
OBVIOUS

\* Appending keeps every entry there was.
LEMMA AppendedKeeps ==
    ASSUME NEW S, NEW l \in Seq(S), NEW x \in S
    PROVE  /\ Len(Append(l, x)) = Len(l) + 1 /\ Append(l, x)[Len(l) + 1] = x
           /\ \A i \in 1..Len(l) : Append(l, x)[i] = l[i]
           /\ SubSeq(Append(l, x), 1, Len(l)) = l
<1>1. SubSeq(Append(l, x), 1, Len(l)) = l
  <2>1. Append(l, x) \in Seq(S) /\ Len(l) \in Nat /\ Len(Append(l, x)) = Len(l) + 1
    OBVIOUS
  <2>2. /\ Len(SubSeq(Append(l, x), 1, Len(l))) = Len(l)
        /\ \A i \in 1..Len(l) : SubSeq(Append(l, x), 1, Len(l))[i] = Append(l, x)[i]
    BY <2>1
  <2>3. SubSeq(Append(l, x), 1, Len(l)) \in Seq(S)
    BY <2>1
  <2>. QED BY <2>1, <2>2, <2>3
<1>. QED BY <1>1

LEMMA CopyStep ==
    ASSUME IInv, [Next]_vars, NEW w \in Workers, CopyIsCurrent(w)
    PROVE  CopyIsCurrent(w)'
<1>. USE DEF CopyIsCurrent, RowGone
<1>0. /\ pc \in [Workers -> WorkerPoints] /\ mem \in [Workers -> Locals]
      /\ event \in [Events -> Columns]
      /\ mem[w] \in Locals /\ mem[w].log \in Seq(LogSteps)
      /\ pc[w] # "idle" => held[w] \in Events /\ event[held[w]] \in Columns
      /\ pc[w] = "idle" => held[w] = Null
  BY SlotFacts
<1>1. CASE Undisturbed(w)
  <2>1. CASE pc[w] \in Executing \cup {"mark"}
    <3>1. held[w] # Null
      BY <1>0, <2>1, ConstantsAssumption DEF Executing
    <3>. QED BY <1>1, <3>1 DEF Undisturbed
  <2>2. CASE pc[w] \notin Executing \cup {"mark"}
    BY <1>1, <2>2 DEF Undisturbed, Executing
  <2>. QED BY <2>1, <2>2
<1>2. CASE pc'[w] \notin Executing \cup {"mark"}
  BY <1>2 DEF Executing
<1>3. CASE WorkerStep(w) /\ pc'[w] \in Executing \cup {"mark"}
  <2>. USE DEF Step
  <2>1. CASE FindEvent(w)
    <3>1. CASE RowGone(held[w])
      BY <1>0, <1>3, <2>1, <3>1 DEF FindEvent, Release, Executing
    <3>2. CASE ~ RowGone(held[w])
      <4>1. pc'[w] = "mark" /\ mem'[w].log = event[held[w]].log /\ UNCHANGED <<held, event>>
        BY <1>0, <2>1, <3>2 DEF FindEvent, tables, Locals
      <4>. QED BY <4>1
    <3>. QED BY <3>1, <3>2
  <2>2. CASE MarkInProgress(w)
    BY <1>0, <2>2 DEF MarkInProgress
  <2>3. CASE FindServiceRow(w) \/ LoadTarget(w) \/ DockerStop(w) \/ DockerRemove(w) \/ DockerRun(w)
             \/ DockerList(w) \/ SshFails(w)
    <3>1. /\ pc[w] \in Executing /\ UNCHANGED <<status, event, held>>
          /\ pc'[w] \in Executing \ {"save_service", "create_snapshot", "save_success", "fail_save"}
      BY <1>0, <2>3 DEF FindServiceRow, LoadTarget, DockerStop, DockerRemove, DockerRun, DockerList,
                  SshFails, tables, Executing
    <3>2. mem'[w].log = mem[w].log
      <4>1. CASE mem' = mem
        BY <4>1
      <4>2. CASE FindServiceRow(w)
        BY <1>0, <4>2 DEF FindServiceRow, Locals
      <4>3. CASE LoadTarget(w)
        BY <1>0, <4>3 DEF LoadTarget, Locals
      <4>4. CASE DockerRun(w)
        BY <1>0, <4>4 DEF DockerRun, Locals
      <4>5. CASE DockerList(w)
        BY <1>0, <4>5 DEF DockerList, Locals
      <4>. QED BY <2>3, <4>1, <4>2, <4>3, <4>4, <4>5 DEF SshFails, DockerStop, DockerRemove
    <3>. QED BY <3>1, <3>2
  <2>4. CASE LogCommand(w)
    <3>1. /\ pc'[w] \in {"log_commands", "log_health", "fail_log"} /\ held' = held
          /\ event' = [event EXCEPT ![held[w]].log = Append(mem[w].log, CommandSteps[mem[w].logged + 1])]
          /\ mem' = [mem EXCEPT ![w].log = Append(mem[w].log, CommandSteps[mem[w].logged + 1]),
                                ![w].logged = mem[w].logged + 1]
          /\ pc[w] = "log_commands"
      BY <1>0, <2>4 DEF LogCommand, AppendLog
    <3>2. event'[held[w]].log = mem'[w].log
      BY <1>0, <3>1 DEF Columns, Locals
    <3>. QED BY <3>1, <3>2
  <2>5. CASE LogHealthCheck(w)
    <3>1. /\ pc'[w] \in {"save_service", "fail_log"} /\ held' = held /\ pc[w] = "log_health"
          /\ event' = [event EXCEPT ![held[w]].log = Append(mem[w].log, HealthStep)]
          /\ mem' = [mem EXCEPT ![w].log = Append(mem[w].log, HealthStep)]
      BY <1>0, <2>5 DEF LogHealthCheck, AppendLog
    <3>2. event'[held[w]].log = mem'[w].log /\ mem'[w].log = Append(mem[w].log, HealthStep)
      BY <1>0, <3>1 DEF Columns, Locals
    <3>3. Append(mem[w].log, HealthStep) # <<>>
            /\ Append(mem[w].log, HealthStep)[Len(Append(mem[w].log, HealthStep))] = HealthStep
      BY <1>0, AppendedLast, LogStepsTyped
    <3>. QED BY <3>1, <3>2, <3>3
  <2>6. CASE SaveService(w) \/ CreateSnapshot(w)
    BY <1>0, <2>6 DEF SaveService, CreateSnapshot, Executing
  <2>7. CASE LogFailure(w)
    <3>1. /\ pc'[w] = "fail_save" /\ held' = held /\ pc[w] = "fail_log"
          /\ event' = [event EXCEPT ![held[w]].log = Append(mem[w].log, "failure")]
          /\ mem' = [mem EXCEPT ![w].log = Append(mem[w].log, "failure")]
      BY <1>0, <2>7 DEF LogFailure, AppendLog
    <3>2. event'[held[w]].log = mem'[w].log /\ mem'[w].log = Append(mem[w].log, "failure")
      BY <1>0, <3>1 DEF Columns, Locals
    <3>3. Append(mem[w].log, "failure") # <<>>
            /\ Append(mem[w].log, "failure")[Len(Append(mem[w].log, "failure"))] = "failure"
      BY <1>0, AppendedLast, LogStepsTyped
    <3>. QED BY <3>1, <3>2, <3>3
  <2>8. CASE \/ DecryptConfigThrows(w) \/ DatabaseThrows(w) \/ Acknowledge(w)
             \/ SaveSuccess(w) \/ SaveFailure(w) \/ EvaluateTransition(w)
    BY <1>0, <1>3, <2>8 DEF DecryptConfigThrows, DatabaseThrows, Acknowledge, Throw, Release,
        SaveSuccess, SaveFailure, EvaluateTransition, Executing
  <2>. QED BY <1>3, <2>1, <2>2, <2>3, <2>4, <2>5, <2>6, <2>7, <2>8 DEF WorkerStep
<1>4. CASE \E e \in Events : Take(w, e)
  BY <1>0, <1>2, <1>4 DEF Take, Step, Executing
<1>5. CASE pc'[w] = "idle"
  BY <1>2, <1>5 DEF Executing
<1>. QED BY <1>1, <1>2, <1>3, <1>4, <1>5, OthersUndisturbed

\* Each assignment of process() to its locals, field by field; every other step
\* leaves them alone, except that a slot that lets go of its job forgets them.
LEMMA LocalsKept ==
    ASSUME IInv, NEW w \in Workers, WorkerStep(w), pc'[w] # "idle"
    PROVE  /\ held'[w] = held[w]
           /\ pc[w] # "find_service" => mem'[w].org = mem[w].org /\ mem'[w].container = mem[w].container
           /\ pc[w] # "load_target" => mem'[w].target = mem[w].target
           /\ pc[w] # "run" => mem'[w].started = mem[w].started
           /\ pc[w] # "list" => mem'[w].found = mem[w].found
<1>0. /\ pc \in [Workers -> WorkerPoints] /\ mem \in [Workers -> Locals] /\ mem[w] \in Locals
  BY SlotFacts
<1>. USE <1>0 DEF Step
<1>1. CASE mem' = mem /\ held' = held
  BY <1>1
<1>2. CASE FindEvent(w)
  BY <1>2 DEF FindEvent, Release, Locals
<1>3. CASE FindServiceRow(w)
  BY <1>3 DEF FindServiceRow, Locals
<1>4. CASE LoadTarget(w)
  BY <1>4 DEF LoadTarget, Locals
<1>5. CASE DockerRun(w)
  BY <1>5 DEF DockerRun, Locals
<1>6. CASE DockerList(w)
  BY <1>6 DEF DockerList, Locals
<1>7. CASE LogCommand(w)
  BY <1>7 DEF LogCommand, Locals
<1>8. CASE LogHealthCheck(w) \/ LogFailure(w)
  BY <1>8 DEF LogHealthCheck, LogFailure, Locals
<1>9. CASE DecryptConfigThrows(w) \/ DatabaseThrows(w) \/ Acknowledge(w)
  BY <1>9 DEF DecryptConfigThrows, DatabaseThrows, Acknowledge, Throw, Release
<1>. QED
  BY <1>1, <1>2, <1>3, <1>4, <1>5, <1>6, <1>7, <1>8, <1>9
  DEF WorkerStep, MarkInProgress, DockerStop, DockerRemove, SshFails, SaveService,
      CreateSnapshot, SaveSuccess, SaveFailure, EvaluateTransition

\* The points process() goes through, and the rows each of them may save.
LEMMA PointsFlow ==
    ASSUME IInv, NEW w \in Workers, WorkerStep(w), pc'[w] # "idle"
    PROVE  \/ FindEvent(w) /\ pc[w] = "find_event" /\ pc'[w] = "mark"
           \/ MarkInProgress(w) /\ pc[w] = "mark" /\ pc'[w] = "find_service"
           \/ FindServiceRow(w) /\ pc[w] = "find_service" /\ pc'[w] \in {"load_target", "fail_log"}
           \/ LoadTarget(w) /\ pc[w] = "load_target" /\ pc'[w] \in {"stop", "fail_log"}
           \/ DockerStop(w) /\ pc[w] = "stop" /\ pc'[w] = "remove"
           \/ DockerRemove(w) /\ pc[w] = "remove" /\ pc'[w] = "run"
           \/ DockerRun(w) /\ pc[w] = "run" /\ pc'[w] = "list"
           \/ DockerList(w) /\ pc[w] = "list" /\ pc'[w] = "log_commands"
           \/ SshFails(w) /\ pc[w] \in {"stop", "remove", "run", "list"} /\ pc'[w] = "fail_log"
           \/ LogCommand(w) /\ pc[w] = "log_commands"
                /\ pc'[w] \in {"log_commands", "fail_log"} \cup
                               (IF mem[w].started THEN {"log_health"} ELSE {})
           \/ LogHealthCheck(w) /\ pc[w] = "log_health" /\ pc'[w] \in {"save_service", "fail_log"}
           \/ SaveService(w) /\ pc[w] = "save_service" /\ pc'[w] = "create_snapshot"
           \/ CreateSnapshot(w) /\ pc[w] = "create_snapshot" /\ pc'[w] = "save_success"
           \/ SaveSuccess(w) /\ pc[w] = "save_success" /\ pc'[w] = "ack"
           \/ LogFailure(w) /\ pc[w] = "fail_log" /\ pc'[w] = "fail_save"
           \/ SaveFailure(w) /\ pc[w] = "fail_save" /\ pc'[w] = "alert"
           \/ EvaluateTransition(w) /\ pc[w] = "alert" /\ pc'[w] = "ack"
<1>0. pc \in [Workers -> WorkerPoints]
  BY SlotFacts
<1>. USE <1>0 DEF Step
<1>1. CASE FindEvent(w)
  BY <1>1 DEF FindEvent, Release
<1>2. CASE FindServiceRow(w)
  BY <1>2 DEF FindServiceRow
<1>3. CASE LoadTarget(w)
  BY <1>3 DEF LoadTarget
<1>4. CASE LogCommand(w)
  BY <1>4 DEF LogCommand
<1>5. CASE LogHealthCheck(w)
  BY <1>5 DEF LogHealthCheck
<1>6. CASE DecryptConfigThrows(w) \/ DatabaseThrows(w) \/ Acknowledge(w)
  BY <1>6 DEF DecryptConfigThrows, DatabaseThrows, Acknowledge, Throw, Release
<1>7. CASE MarkInProgress(w)
  BY <1>7 DEF MarkInProgress
<1>8. CASE DockerStop(w)
  BY <1>8 DEF DockerStop
<1>9. CASE DockerRemove(w)
  BY <1>9 DEF DockerRemove
<1>10. CASE DockerRun(w)
  BY <1>10 DEF DockerRun
<1>11. CASE DockerList(w)
  BY <1>11 DEF DockerList
<1>12. CASE SshFails(w)
  BY <1>12 DEF SshFails
<1>13. CASE SaveService(w)
  BY <1>13 DEF SaveService
<1>14. CASE CreateSnapshot(w)
  BY <1>14 DEF CreateSnapshot
<1>15. CASE SaveSuccess(w)
  BY <1>15 DEF SaveSuccess
<1>16. CASE LogFailure(w)
  BY <1>16 DEF LogFailure
<1>17. CASE SaveFailure(w)
  BY <1>17 DEF SaveFailure
<1>18. CASE EvaluateTransition(w)
  BY <1>18 DEF EvaluateTransition
<1>. QED
  BY <1>1, <1>2, <1>3, <1>4, <1>5, <1>6, <1>7, <1>8, <1>9, <1>10, <1>11, <1>12, <1>13,
     <1>14, <1>15, <1>16, <1>17, <1>18 DEF WorkerStep

LEMMA OrgStep ==
    ASSUME IInv, [Next]_vars, NEW w \in Workers, OrgIsKnown(w)
    PROVE  OrgIsKnown(w)'
<1>. USE DEF OrgIsKnown, RowGone
<1>0. /\ pc \in [Workers -> WorkerPoints] /\ mem \in [Workers -> Locals] /\ mem[w] \in Locals
      /\ pc[w] # "idle" => held[w] \in Events
      /\ pc[w] \in Executing => status[held[w]] \in {"in_progress", "deleted"}
  BY SlotFacts
<1>1. CASE Undisturbed(w)
  <2>1. CASE pc[w] = "idle"
    BY <1>1, <2>1 DEF Undisturbed, Executing
  <2>2. CASE pc[w] # "idle"
    <3>1. held[w] # Null
      BY <1>0, <2>2, ConstantsAssumption
    <3>. QED BY <1>1, <3>1 DEF Undisturbed
  <2>. QED BY <2>1, <2>2
<1>2. CASE pc'[w] \notin Executing \cup {"alert", "ack"}
  BY <1>2
<1>3. CASE WorkerStep(w) /\ pc'[w] \in Executing \cup {"alert", "ack"}
  <2>0. pc'[w] # "idle"
    BY <1>3 DEF Executing
  <2>. /\ held'[w] = held[w]
       /\ pc[w] # "find_service" => mem'[w].org = mem[w].org
    BY <1>3, <2>0, LocalsKept
  <2>1. CASE FindEvent(w) /\ pc[w] = "find_event" /\ pc'[w] = "mark"
    BY <1>3, <2>1 DEF Executing
  <2>2. CASE MarkInProgress(w) /\ pc[w] = "mark" /\ pc'[w] = "find_service"
    BY <2>2
  <2>3. CASE FindServiceRow(w) /\ pc[w] = "find_service"
    <3>1. event[held[w]].service \in live \/ RowGone(held[w])
      BY <1>0, <2>3 DEF IInv, RowsFollowServices, Executing, Active
    <3>2. CASE event[held[w]].service \in live
      BY <1>0, <2>3, <3>2 DEF FindServiceRow, Step, Locals, Executing
    <3>3. CASE event[held[w]].service \notin live
      BY <1>0, <2>3, <3>1, <3>3 DEF FindServiceRow, Step, tables, Executing
    <3>. QED BY <3>2, <3>3
  <2>4. CASE SaveFailure(w) /\ pc[w] = "fail_save" /\ pc'[w] = "alert"
    BY <2>4 DEF SaveFailure, Executing
  <2>5. CASE EvaluateTransition(w) /\ pc[w] = "alert" /\ pc'[w] = "ack"
    <3>1. status' = status /\ alerted' = IF mem[w].org THEN alerted \cup {held[w]} ELSE alerted
      BY <2>5 DEF EvaluateTransition, tables
    <3>. QED BY <2>5, <3>1 DEF Executing
  <2>6. CASE SaveSuccess(w) /\ pc[w] = "save_success" /\ pc'[w] = "ack"
    <3>1. status'[held[w]] = "succeeded"
      BY <1>0, <2>6 DEF SaveSuccess, IInv, TypeOK
    <3>. QED BY <2>6, <3>1 DEF Executing
  <2>7. CASE /\ pc[w] \in Executing \ {"find_service"} /\ pc'[w] \in Executing \ {"find_service"}
             /\ status' = status
    BY <2>7 DEF Executing
  <2>8. CASE \/ LoadTarget(w) /\ pc[w] = "load_target" /\ pc'[w] \in {"stop", "fail_log"}
             \/ DockerStop(w) /\ pc[w] = "stop" /\ pc'[w] = "remove"
             \/ DockerRemove(w) /\ pc[w] = "remove" /\ pc'[w] = "run"
             \/ DockerRun(w) /\ pc[w] = "run" /\ pc'[w] = "list"
             \/ DockerList(w) /\ pc[w] = "list" /\ pc'[w] = "log_commands"
             \/ SshFails(w) /\ pc[w] \in {"stop", "remove", "run", "list"} /\ pc'[w] = "fail_log"
    <3>1. status' = status
      BY <2>8 DEF LoadTarget, DockerStop, DockerRemove, DockerRun, DockerList, SshFails, tables
    <3>. QED BY <2>7, <2>8, <3>1 DEF Executing
  <2>9. CASE \/ LogCommand(w) /\ pc[w] = "log_commands"
             \/ LogHealthCheck(w) /\ pc[w] = "log_health"
             \/ SaveService(w) /\ pc[w] = "save_service"
             \/ CreateSnapshot(w) /\ pc[w] = "create_snapshot"
             \/ LogFailure(w) /\ pc[w] = "fail_log"
    <3>1. status' = status
      BY <2>9 DEF LogCommand, LogHealthCheck, SaveService, CreateSnapshot, LogFailure, AppendLog
    <3>2. pc'[w] \in Executing \ {"find_service"}
      BY <1>0, <2>9 DEF LogCommand, LogHealthCheck, SaveService, CreateSnapshot, LogFailure, Step, Executing
    <3>. QED BY <2>7, <2>9, <3>1, <3>2 DEF Executing
  <2>. QED
    BY <1>3, <2>0, <2>1, <2>2, <2>3, <2>4, <2>5, <2>6, <2>8, <2>9, PointsFlow
<1>4. CASE \E e \in Events : Take(w, e)
  BY <1>0, <1>2, <1>4 DEF Take, Step, Executing
<1>5. CASE pc'[w] = "idle"
  BY <1>2, <1>5 DEF Executing
<1>. QED BY <1>1, <1>2, <1>3, <1>4, <1>5, OthersUndisturbed

\* The service of a job does not change under its slot.
LEMMA SameService ==
    ASSUME IInv, NEW w \in Workers, pc[w] # "idle",
           (WorkerStep(w) /\ pc'[w] # "idle") \/ Undisturbed(w)
    PROVE  /\ held'[w] = held[w] /\ held[w] \in Events
           /\ ServiceOf(w)' = ServiceOf(w) /\ event'[held[w]].to = event[held[w]].to
<1>1. held[w] \in Events
  BY SlotFacts
<1>2. CASE Undisturbed(w)
  BY <1>1, <1>2, ConstantsAssumption DEF Undisturbed, ServiceOf
<1>3. CASE WorkerStep(w) /\ pc'[w] # "idle"
  <2>1. held'[w] = held[w]
    BY <1>3, LocalsKept
  <2>2. Touches(w)
    BY <1>3, WorkerTouches
  <2>. QED BY <1>1, <2>1, <2>2 DEF Touches, ServiceOf
<1>. QED BY <1>1, <1>2, <1>3

LEMMA TargetStep ==
    ASSUME IInv, [Next]_vars, NEW w \in Workers, TargetIsLoaded(w)
    PROVE  TargetIsLoaded(w)'
<1>. DEFINE s == ServiceOf(w)
            Busy == Loaded \cup {"load_target"}
<1>0. /\ pc \in [Workers -> WorkerPoints] /\ mem \in [Workers -> Locals] /\ mem[w] \in Locals
      /\ pc[w] # "idle" => held[w] \in Events
      /\ pc[w] \in Executing => s \in Services /\ status[held[w]] \in {"in_progress", "deleted"}
  BY SlotFacts
<1>l. /\ Busy \subseteq Executing /\ "idle" \notin Executing
      /\ {"load_target", "stop", "remove", "run", "list", "log_commands", "log_health",
          "save_service"} \subseteq Busy
  BY DEF Executing, Loaded
<1>e. pc[w] \in Executing /\ ~ RowGone(held[w])
        => s \in live /\ s \in Services /\ history[s] \in Seq(Snapshots)
           /\ event[held[w]].to \in 1..Len(history[s])
  <2>1. pc[w] \in Executing /\ ~ RowGone(held[w]) => held[w] \in Events /\ s \in live
    BY <1>0, <1>l DEF RowGone, IInv, RowsFollowServices, Active, ServiceOf
  <2>. QED BY <2>1 DEF IInv, TypeOK, TargetsExist, ServiceOf
<1>1. CASE pc'[w] \notin Busy
  BY <1>1, <1>l DEF TargetIsLoaded
<1>2. CASE Undisturbed(w) /\ pc'[w] \in Busy
  <2>1. /\ pc[w] \in Executing /\ pc'[w] = pc[w] /\ mem'[w] = mem[w]
        /\ row'[s] = row[s] /\ (history'[s] = history[s] \/ status'[held[w]] = "deleted")
        /\ status'[held[w]] \in {status[held[w]], "deleted"}
    BY <1>0, <1>2, <1>l, ConstantsAssumption DEF Undisturbed
  <2>2. /\ held'[w] = held[w] /\ ServiceOf(w)' = s
        /\ event'[held[w]].to = event[held[w]].to
    BY <1>2, <1>l, <2>1, SameService
  <2>. QED BY <2>1, <2>2 DEF TargetIsLoaded, RowGone
<1>3. CASE WorkerStep(w) /\ pc'[w] \in Busy
  <2>0. pc'[w] # "idle" /\ pc[w] # "idle"
    BY <1>3, <1>l, PointsFlow
  <2>1. /\ held'[w] = held[w] /\ held[w] \in Events /\ ServiceOf(w)' = s
        /\ event'[held[w]].to = event[held[w]].to
    BY <1>3, <2>0, SameService
  <2>2. /\ pc[w] # "find_service" => mem'[w].container = mem[w].container
        /\ pc[w] # "load_target" => mem'[w].target = mem[w].target
    BY <1>3, <2>0, LocalsKept
  <2>3. CASE FindServiceRow(w)
    <3>1. /\ pc'[w] = "load_target" /\ row' = row
          /\ mem' = [mem EXCEPT ![w].container = row[s].container, ![w].org = TRUE]
      BY <1>0, <1>3, <2>3 DEF FindServiceRow, Step, ServiceOf, Loaded, tables
    <3>2. mem'[w].container = row[s].container
      BY <1>0, <3>1 DEF Locals
    <3>. QED BY <2>1, <3>1, <3>2 DEF TargetIsLoaded, Loaded
  <2>4. CASE LoadTarget(w)
    <3>1. pc'[w] = "stop" /\ pc[w] = "load_target" /\ row' = row /\ history' = history
          /\ mem' = [mem EXCEPT ![w].target = history[s][event[held[w]].to].image]
      BY <1>0, <1>3, <2>4 DEF LoadTarget, Step, ServiceOf, Loaded, tables
    <3>2. mem'[w].target = history[s][event[held[w]].to].image
      BY <1>0, <3>1 DEF Locals
    <3>. QED BY <2>1, <2>2, <3>1, <3>2 DEF TargetIsLoaded
  <2>5. CASE SaveService(w)
    <3>1. pc'[w] = "create_snapshot" /\ pc[w] = "save_service" /\ history' = history /\ status' = status
      BY <1>0, <2>5 DEF SaveService, Step
    <3>. QED BY <2>1, <2>2, <3>1 DEF TargetIsLoaded, Loaded, RowGone
  <2>6. CASE CreateSnapshot(w)
    <3>1. pc'[w] = "save_success" /\ pc[w] = "create_snapshot" /\ status' = status
          /\ history' = [history EXCEPT ![s] = Append(@, [image |-> mem[w].target, by |-> held[w]])]
      BY <1>0, <2>6 DEF CreateSnapshot, Step, ServiceOf
    <3>2. ~ RowGone(held[w]) => history'[s][event[held[w]].to] = history[s][event[held[w]].to]
      <4>1. SUFFICES ASSUME ~ RowGone(held[w])
                     PROVE  history'[s][event[held[w]].to] = history[s][event[held[w]].to]
        OBVIOUS
      <4>2. /\ s \in Services /\ history[s] \in Seq(Snapshots)
            /\ event[held[w]].to \in 1..Len(history[s])
        BY <1>e, <3>1, <4>1 DEF Executing
      <4>3. history'[s] = Append(history[s], [image |-> mem[w].target, by |-> held[w]])
        BY <3>1, <4>2 DEF IInv, TypeOK
      <4>. QED BY <4>2, <4>3
    <3>. QED BY <2>1, <2>2, <3>1, <3>2 DEF TargetIsLoaded, Loaded, RowGone
  <2>7. CASE \/ DockerStop(w) \/ DockerRemove(w) \/ DockerRun(w) \/ DockerList(w)
             \/ LogCommand(w) \/ LogHealthCheck(w)
    <3>1. /\ row' = row /\ history' = history /\ status' = status
      BY <2>7 DEF DockerStop, DockerRemove, DockerRun, DockerList, LogCommand, LogHealthCheck,
             AppendLog, tables
    <3>2. pc[w] \in {"stop", "remove", "run", "list", "log_commands", "log_health"}
      BY <2>7 DEF DockerStop, DockerRemove, DockerRun, DockerList, LogCommand, LogHealthCheck, Step
    <3>. QED BY <2>1, <2>2, <3>1, <3>2 DEF TargetIsLoaded, Loaded, RowGone
  <2>. QED
    <3>1. pc'[w] \notin {"mark", "find_service", "fail_log", "fail_save", "alert", "ack"}
      BY <1>3 DEF Loaded
    <3>. QED BY <1>3, <2>0, <2>3, <2>4, <2>5, <2>6, <2>7, <3>1, PointsFlow
<1>4. CASE \E e \in Events : Take(w, e)
  BY <1>0, <1>1, <1>4 DEF Take, Step, Loaded
<1>5. CASE pc'[w] = "idle"
  BY <1>1, <1>5 DEF Loaded
<1>. QED BY <1>1, <1>2, <1>3, <1>4, <1>5, OthersUndisturbed

\* No container is Null.
LEMMA ContainersAreRows == Null \notin Containers
BY ConstantsAssumption

\* A slot that lets go of its job forgets its locals.
LEMMA ReleaseForgets ==
    ASSUME IInv, NEW w \in Workers, WorkerStep(w), pc'[w] = "idle"
    PROVE  mem'[w] = NoLocals /\ held'[w] = Null
<1>0. /\ pc \in [Workers -> WorkerPoints] /\ mem \in [Workers -> Locals]
      /\ held \in [Workers -> Events \cup {Null}]
  BY SlotFacts
<1>. USE <1>0 DEF Step
<1>1. CASE FindEvent(w)
  BY <1>1 DEF FindEvent, Release
<1>2. CASE DecryptConfigThrows(w) \/ DatabaseThrows(w) \/ Acknowledge(w)
  BY <1>2 DEF DecryptConfigThrows, DatabaseThrows, Acknowledge, Throw, Release
<1>3. CASE FindServiceRow(w) \/ LoadTarget(w) \/ LogCommand(w) \/ LogHealthCheck(w)
  BY <1>3 DEF FindServiceRow, LoadTarget, LogCommand, LogHealthCheck
<1>4. CASE \/ MarkInProgress(w) \/ DockerStop(w) \/ DockerRemove(w) \/ DockerRun(w)
           \/ DockerList(w) \/ SshFails(w)
  BY <1>4 DEF MarkInProgress, DockerStop, DockerRemove, DockerRun, DockerList, SshFails
<1>5. CASE \/ SaveService(w) \/ CreateSnapshot(w) \/ SaveSuccess(w) \/ LogFailure(w)
           \/ SaveFailure(w) \/ EvaluateTransition(w)
  BY <1>5 DEF SaveService, CreateSnapshot, SaveSuccess, LogFailure, SaveFailure,
              EvaluateTransition
<1>. QED BY <1>1, <1>2, <1>3, <1>4, <1>5 DEF WorkerStep

LEMMA RunningStep ==
    ASSUME IInv, [Next]_vars, NEW w \in Workers, ContainerIsRunning(w)
    PROVE  ContainerIsRunning(w)'
<1>. DEFINE s == ServiceOf(w)
            Before == {"find_service", "load_target", "stop", "remove", "run"}
            After == {"list", "log_commands", "log_health", "save_service", "create_snapshot",
                      "save_success"}
<1>0. /\ pc \in [Workers -> WorkerPoints] /\ mem \in [Workers -> Locals] /\ mem[w] \in Locals
      /\ pc[w] = "idle" => held[w] = Null
      /\ pc[w] \in Executing => s \in Services
  BY SlotFacts
<1>t. docker \in [Services -> Containers \cup {Null}] /\ nextId \in Nat
  BY DEF IInv, TypeOK
<1>l. After \subseteq Executing /\ Before \subseteq Executing /\ "idle" \notin Executing
  BY DEF Executing
<1>i. /\ pc[w] \in Before \cup {"idle", "find_event", "mark"} => ~ mem[w].started
      /\ pc[w] \in {"log_health", "save_service", "create_snapshot", "save_success"} => mem[w].started
      /\ pc[w] \in After /\ mem[w].started
            => /\ docker[s] # Null /\ docker[s].image = mem[w].target
               /\ pc[w] # "list" => mem[w].found = docker[s].id
  BY DEF ContainerIsRunning
<1>g. ASSUME pc'[w] \in Before \cup {"idle", "find_event", "mark"} => ~ mem'[w].started,
             pc'[w] \in {"log_health", "save_service", "create_snapshot", "save_success"}
                => mem'[w].started,
             pc'[w] \in After /\ mem'[w].started
                => /\ docker'[ServiceOf(w)'] # Null
                   /\ docker'[ServiceOf(w)'].image = mem'[w].target
                   /\ pc'[w] # "list" => mem'[w].found = docker'[ServiceOf(w)'].id
      PROVE  ContainerIsRunning(w)'
  BY <1>g DEF ContainerIsRunning
<1>1. CASE Undisturbed(w)
  <2>1. CASE pc[w] \in After
    <3>1. pc'[w] = pc[w] /\ mem'[w] = mem[w] /\ docker'[s] = docker[s]
      BY <1>1, <1>l, <2>1 DEF Undisturbed
    <3>2. ServiceOf(w)' = s
      BY <1>1, <1>l, <2>1, SameService
    <3>. QED BY <1>g, <1>i, <3>1, <3>2
  <2>2. CASE pc[w] \notin After
    <3>1. pc'[w] = pc[w] /\ mem'[w] = mem[w]
      BY <1>1 DEF Undisturbed
    <3>. QED BY <1>g, <1>i, <2>2, <3>1
  <2>. QED BY <2>1, <2>2
<1>2. CASE pc'[w] = "idle" /\ mem'[w] = NoLocals
  BY <1>2, <1>g DEF NoLocals
<1>3. CASE WorkerStep(w) /\ pc'[w] # "idle"
  <2>0. pc[w] # "idle"
    BY <1>3, PointsFlow
  <2>1. ServiceOf(w)' = s
    BY <1>3, <2>0, SameService
  <2>2. /\ pc[w] # "load_target" => mem'[w].target = mem[w].target
        /\ pc[w] # "run" => mem'[w].started = mem[w].started
        /\ pc[w] # "list" => mem'[w].found = mem[w].found
    BY <1>3, LocalsKept
  <2>3. CASE DockerRun(w)
    <3>1. pc[w] = "run" /\ pc'[w] = "list" /\ s \in Services
      BY <1>0, <2>3 DEF DockerRun, Step, Executing
    <3>2. CASE UNCHANGED <<remote, mem>>
      BY <1>g, <1>i, <3>1, <3>2
    <3>3. ASSUME NEW up \in BOOLEAN,
                 docker' = [docker EXCEPT ![s] = [id |-> nextId, image |-> mem[w].target, up |-> up]],
                 mem' = [mem EXCEPT ![w].started = up]
          PROVE  ContainerIsRunning(w)'
      <4>1. docker'[s] = [id |-> nextId, image |-> mem[w].target, up |-> up]
        BY <1>t, <3>1, <3>3
      <4>2. docker'[s] # Null
        <5>1. docker'[s].id = nextId
          BY <4>1
        <5>2. [id |-> nextId, image |-> mem[w].target, up |-> up] \in Containers
          BY <1>0, <1>t DEF Containers, Locals
        <5>. QED BY <4>1, <5>2, ContainersAreRows
      <4>3. docker'[s].image = mem'[w].target
        BY <2>2, <3>1, <4>1
      <4>. QED BY <1>g, <2>1, <3>1, <4>2, <4>3
    <3>. QED BY <2>3, <3>2, <3>3 DEF DockerRun, ServiceOf
  <2>4. CASE DockerList(w)
    <3>1. pc[w] = "list" /\ pc'[w] = "log_commands" /\ docker' = docker
      BY <1>0, <2>4 DEF DockerList, Step, remote
    <3>2. docker[s] # Null => mem'[w].found = docker[s].id
      BY <1>0, <2>4 DEF DockerList, ServiceOf, Locals
    <3>. QED BY <1>g, <1>i, <2>1, <2>2, <3>1, <3>2
  <2>5. CASE DockerStop(w) \/ DockerRemove(w)
    <3>1. pc[w] \in Before /\ pc'[w] \in Before /\ mem' = mem
      BY <1>0, <2>5 DEF DockerStop, DockerRemove, Step
    <3>. QED BY <1>g, <1>i, <3>1
  <2>6. CASE docker' = docker /\ pc[w] \notin {"run", "list"}
    <3>1. CASE /\ pc[w] \in {"find_event", "mark", "find_service"}
               /\ pc'[w] \in {"mark", "find_service", "load_target", "fail_log"}
      BY <1>g, <1>i, <2>2, <3>1
    <3>2. CASE pc[w] = "load_target" /\ pc'[w] \in {"stop", "fail_log"}
      BY <1>g, <1>i, <2>2, <3>2
    <3>3. CASE /\ pc[w] \in {"log_commands", "log_health", "save_service", "create_snapshot"}
               /\ pc'[w] \in {"log_commands", "fail_log", "log_health", "save_service",
                              "create_snapshot", "save_success"}
               /\ pc[w] = "log_commands" => pc'[w] \in {"log_commands", "fail_log"} \/ mem[w].started
      BY <1>g, <1>i, <2>1, <2>2, <2>6, <3>3
    <3>4. CASE pc'[w] \in {"fail_log", "fail_save", "alert", "ack"}
      BY <1>g, <3>4
    <3>5. CASE pc[w] \in {"stop", "remove"} /\ pc'[w] \in {"remove", "run"}
      BY <1>g, <1>i, <2>2, <3>5
    <3>6. pc[w] = "log_commands" /\ pc'[w] = "log_health" => mem[w].started
      BY <1>3, PointsFlow
    <3>7. \/ /\ pc[w] \in {"find_event", "mark", "find_service"}
             /\ pc'[w] \in {"mark", "find_service", "load_target", "fail_log"}
          \/ pc[w] = "load_target" /\ pc'[w] \in {"stop", "fail_log"}
          \/ /\ pc[w] \in {"log_commands", "log_health", "save_service", "create_snapshot"}
             /\ pc'[w] \in {"log_commands", "fail_log", "log_health", "save_service",
                             "create_snapshot", "save_success"}
             /\ pc[w] = "log_commands" => pc'[w] \in {"log_commands", "fail_log", "log_health"}
          \/ pc'[w] \in {"fail_log", "fail_save", "alert", "ack"}
          \/ pc[w] \in {"stop", "remove"} /\ pc'[w] \in {"remove", "run"}
      BY <1>3, <2>6, PointsFlow
    <3>. QED BY <3>1, <3>2, <3>3, <3>4, <3>5, <3>6, <3>7
  <2>7. \/ docker' = docker \/ DockerRun(w) \/ DockerStop(w) \/ DockerRemove(w)
    BY <1>3 DEF WorkerStep, remote, FindEvent, MarkInProgress, FindServiceRow, LoadTarget,
           DecryptConfigThrows, Throw, DockerList, SshFails, LogCommand, LogHealthCheck,
           SaveService, CreateSnapshot, SaveSuccess, LogFailure, SaveFailure,
           EvaluateTransition, DatabaseThrows, Acknowledge
  <2>8. CASE SshFails(w)
    BY <1>0, <1>g, <2>8 DEF SshFails
  <2>9. pc[w] \in {"run", "list"} => DockerRun(w) \/ DockerList(w) \/ SshFails(w)
    BY <1>3, PointsFlow
  <2>. QED BY <2>3, <2>4, <2>5, <2>6, <2>7, <2>8, <2>9
<1>4. CASE \E e \in Events : Take(w, e)
  <2>1. pc[w] = "idle" /\ pc'[w] = "find_event" /\ mem' = mem
    BY <1>0, <1>4 DEF Take, Step
  <2>. QED BY <1>g, <1>i, <2>1
<1>5. WorkerStep(w) /\ pc'[w] = "idle" => mem'[w] = NoLocals
  <2>1. SUFFICES ASSUME WorkerStep(w), pc'[w] = "idle" PROVE mem'[w] = NoLocals
    OBVIOUS
  <2>. QED BY <1>0, <2>1, ReleaseForgets
<1>. QED BY <1>1, <1>2, <1>3, <1>4, <1>5, OthersUndisturbed

LEMMA SavesStep ==
    ASSUME IInv, [Next]_vars, NEW w \in Workers, SavesHold(w), TargetIsLoaded(w)
    PROVE  SavesHold(w)'
<1>. DEFINE s == ServiceOf(w)
<1>0. /\ pc \in [Workers -> WorkerPoints] /\ mem \in [Workers -> Locals]
      /\ pc[w] \in Executing => s \in Services /\ held[w] \in Events
      /\ mem[w] \in Locals
  BY SlotFacts DEF Executing
<1>t. row \in [Services -> Rows] /\ history \in [Services -> Seq(Snapshots)]
  BY DEF IInv, TypeOK
<1>1. CASE pc'[w] \notin {"create_snapshot", "save_success"}
  BY <1>1 DEF SavesHold
<1>2. CASE Undisturbed(w) /\ pc'[w] \in {"create_snapshot", "save_success"}
  <2>1. /\ pc[w] \in Executing /\ pc'[w] = pc[w] /\ mem'[w] = mem[w] /\ row'[s] = row[s]
        /\ (history'[s] = history[s] \/ status'[held[w]] = "deleted")
    BY <1>2 DEF Undisturbed, Executing
  <2>2. held'[w] = held[w] /\ ServiceOf(w)' = s /\ held[w] \in Events
    BY <1>2, <2>1, SameService DEF Executing
  <2>3. status'[held[w]] \in {status[held[w]], "deleted"}
    BY <1>2, <2>2, ConstantsAssumption DEF Undisturbed
  <2>. QED BY <2>1, <2>2, <2>3 DEF SavesHold, RowGone
<1>3. CASE WorkerStep(w) /\ pc'[w] \in {"create_snapshot", "save_success"}
  <2>1. /\ pc[w] # "idle" /\ pc'[w] # "idle"
        /\ \/ SaveService(w) /\ pc[w] = "save_service" /\ pc'[w] = "create_snapshot"
           \/ CreateSnapshot(w) /\ pc[w] = "create_snapshot" /\ pc'[w] = "save_success"
    BY <1>3, PointsFlow
  <2>2. held'[w] = held[w] /\ held[w] \in Events /\ ServiceOf(w)' = s
    BY <1>3, <2>1, SameService
  <2>3. mem'[w].found = mem[w].found /\ mem'[w].target = mem[w].target
    BY <1>3, <2>1, LocalsKept
  <2>4. s \in Services
    BY <1>0, <2>1 DEF Executing
  <2>5. CASE SaveService(w) /\ pc'[w] = "create_snapshot"
    <3>1. row'[s] = [container |-> mem[w].found, image |-> mem[w].target]
      BY <1>t, <2>4, <2>5 DEF SaveService, ServiceOf
    <3>. QED BY <2>2, <2>3, <2>5, <3>1 DEF SavesHold
  <2>6. CASE CreateSnapshot(w) /\ pc[w] = "create_snapshot" /\ pc'[w] = "save_success"
    <3>1. /\ row' = row /\ history'[s] = Append(history[s], [image |-> mem[w].target, by |-> held[w]])
      BY <1>t, <2>4, <2>6 DEF CreateSnapshot, ServiceOf
    <3>2. [image |-> mem[w].target, by |-> held[w]] \in Snapshots
      BY <1>0, <2>2 DEF Snapshots, Locals
    <3>3. /\ history'[s] # <<>>
          /\ history'[s][Len(history'[s])] = [image |-> mem[w].target, by |-> held[w]]
      BY <1>t, <2>4, <3>1, <3>2, AppendedLast
    <3>. QED BY <2>2, <2>3, <2>6, <3>1, <3>3 DEF SavesHold
  <2>. QED BY <2>1, <2>5, <2>6
<1>4. CASE \E e \in Events : Take(w, e)
  BY <1>0, <1>1, <1>4 DEF Take, Step
<1>5. CASE pc'[w] = "idle"
  BY <1>1, <1>5
<1>. QED BY <1>1, <1>2, <1>3, <1>4, <1>5, OthersUndisturbed

LEMMA SlotsStep == ASSUME IInv, SlotsInv, [Next]_vars PROVE SlotsInv'
BY CopyStep, OrgStep, TargetStep, RunningStep, SavesStep DEF SlotsInv

-----------------------------------------------------------------------------
(* What one step does to the row and the job of one event *)

\* The handler writes an event by its INSERT alone, and its job by queue.add.
LEMMA HandlerWrites ==
    ASSUME IInv, NEW q \in Requests, RequestNext(q)
    PROVE  /\ UNCHANGED <<live, row, history, alerted, stalls, remote, workers>>
           /\ \/ UNCHANGED <<status, event, job>>
              \/ \E e \in Events : InsertEvent(q, e)
              \/ AddJob(q)
<1>. USE DEF tables, queue
<1>1. CASE \E s \in Services, to \in Targets : FindService(q, s, to)
  BY <1>1 DEF FindService
<1>2. CASE FindTarget(q) \/ FindCurrent(q) \/ CheckActive(q) \/ InsertRejected(q) \/ AddJobFails(q)
  BY <1>2 DEF FindTarget, FindCurrent, CheckActive, InsertRejected, AddJobFails
<1>3. CASE \E e \in Events : InsertEvent(q, e)
  BY <1>3 DEF InsertEvent
<1>4. CASE AddJob(q)
  BY <1>4 DEF AddJob
<1>. QED BY <1>1, <1>2, <1>3, <1>4 DEF RequestNext

\* Only the INSERT, queue.add, BullMQ and the slot that holds its job write the
\* row or the job of an event; the removal of its host takes the row away.
LEMMA RowFlow ==
    ASSUME IInv, [Next]_vars, NEW e \in Events
    PROVE  \/ /\ event'[e] = event[e] /\ status'[e] \in {status[e], "deleted"}
              /\ job'[e] = job[e] /\ stalls'[e] = stalls[e]
              /\ e \in alerted => e \in alerted'
           \/ \E q \in Requests : InsertEvent(q, e)
           \/ \E q \in Requests : AddJob(q) /\ req[q].event = e
           \/ \E w \in Workers : Take(w, e)
           \/ \E w \in Workers : WorkerStep(w) /\ held[w] = e
           \/ StalledCheck(e)
<1>0. /\ event \in [Events -> Columns] /\ status \in [Events -> Statuses]
      /\ job \in [Events -> JobStates] /\ stalls \in [Events -> 0..MaxStalledCount]
  BY DEF IInv, TypeOK
<1>. DEFINE Passed == /\ event'[e] = event[e] /\ status'[e] \in {status[e], "deleted"}
                      /\ job'[e] = job[e] /\ stalls'[e] = stalls[e]
                      /\ e \in alerted => e \in alerted'
<1>1. ASSUME NEW q \in Requests, RequestNext(q)
      PROVE  Passed \/ InsertEvent(q, e) \/ (AddJob(q) /\ req[q].event = e)
  <2>0. stalls' = stalls /\ alerted' = alerted
    BY <1>1, HandlerWrites
  <2>1. ASSUME UNCHANGED <<status, event, job>> PROVE Passed
    BY <2>0, <2>1
  <2>2. ASSUME NEW f \in Events, InsertEvent(q, f) PROVE Passed \/ InsertEvent(q, e)
    <3>1. CASE f = e
      BY <2>2, <3>1
    <3>2. ASSUME f # e PROVE Passed
      BY <1>0, <2>0, <2>2, <3>2 DEF InsertEvent, queue
    <3>. QED BY <3>1, <3>2
  <2>3. ASSUME AddJob(q), req[q].event # e PROVE Passed
    BY <1>0, <2>0, <2>3 DEF AddJob, tables
  <2>. HIDE DEF Passed
  <2>. QED BY <1>1, <2>1, <2>2, <2>3, HandlerWrites
<1>2. ASSUME NEW w \in Workers, NEW f \in Events, Take(w, f) PROVE Passed \/ Take(w, e)
  BY <1>0, <1>2 DEF Take, tables
<1>3. ASSUME NEW w \in Workers, WorkerStep(w) PROVE Passed \/ (WorkerStep(w) /\ held[w] = e)
  <2>1. Touches(w)
    BY <1>3, WorkerTouches
  <2>2. ASSUME held[w] # e PROVE Passed
    BY <2>1, <2>2 DEF Touches
  <2>. HIDE DEF Passed
  <2>. QED BY <1>3, <2>2
<1>4. ASSUME NEW h \in Hosts, RemoveHost(h) PROVE Passed
  BY <1>0, <1>4 DEF RemoveHost, queue
<1>5. ASSUME Crash PROVE Passed
  BY <1>5 DEF Crash, tables, queue
<1>6. ASSUME NEW f \in Events, StalledCheck(f) PROVE Passed \/ StalledCheck(e)
  BY <1>0, <1>6 DEF StalledCheck, tables
<1>7. ASSUME UNCHANGED vars PROVE Passed
  BY <1>7 DEF vars, tables, queue
<1>. HIDE DEF Passed
<1>8. \/ Passed
      \/ \E q \in Requests : InsertEvent(q, e)
      \/ \E q \in Requests : AddJob(q) /\ req[q].event = e
      \/ \E w \in Workers : Take(w, e)
      \/ \E w \in Workers : WorkerStep(w) /\ held[w] = e
      \/ StalledCheck(e)
  BY <1>1, <1>2, <1>3, <1>4, <1>5, <1>6, <1>7 DEF Next
<1>. QED BY <1>8 DEF Passed

\* The saves process() makes of its own event.
LEMMA OwnRow ==
    ASSUME IInv, NEW w \in Workers, WorkerStep(w)
    PROVE  /\ held[w] \in Events /\ job[held[w]] = "active" /\ status[held[w]] # "none"
           /\ \/ UNCHANGED <<status, event>>
              \/ /\ MarkInProgress(w) /\ pc[w] = "mark" /\ ~ RowGone(held[w])
                 /\ event' = event /\ status'[held[w]] = "in_progress"
              \/ /\ LogCommand(w) \/ LogHealthCheck(w) \/ LogFailure(w)
                 /\ pc[w] \in Executing /\ ~ RowGone(held[w]) /\ status' = status
                 /\ \E x \in LogSteps : event'[held[w]].log = Append(mem[w].log, x)
              \/ /\ SaveSuccess(w) /\ pc[w] = "save_success" /\ ~ RowGone(held[w])
                 /\ status'[held[w]] = "succeeded"
                 /\ event'[held[w]].log = event[held[w]].log /\ event'[held[w]].completed
              \/ /\ SaveFailure(w) /\ pc[w] = "fail_save" /\ ~ RowGone(held[w])
                 /\ status'[held[w]] = "failed"
                 /\ event'[held[w]].log = event[held[w]].log /\ event'[held[w]].completed
<1>0. /\ event \in [Events -> Columns] /\ status \in [Events -> Statuses]
      /\ pc \in [Workers -> WorkerPoints] /\ mem \in [Workers -> Locals]
  BY DEF IInv, TypeOK
<1>1. pc[w] # "idle"
  <2>1. CASE FindEvent(w) \/ DecryptConfigThrows(w) \/ DatabaseThrows(w) \/ Acknowledge(w) \/ SshFails(w)
    BY <2>1 DEF FindEvent, DecryptConfigThrows, DatabaseThrows, Acknowledge, SshFails
  <2>3. CASE \/ MarkInProgress(w) \/ LogCommand(w) \/ LogHealthCheck(w)
             \/ SaveService(w) \/ CreateSnapshot(w) \/ SaveSuccess(w) \/ LogFailure(w)
             \/ SaveFailure(w) \/ EvaluateTransition(w)
    BY <2>3 DEF MarkInProgress, LogCommand, LogHealthCheck, SaveService, CreateSnapshot,
                SaveSuccess, LogFailure, SaveFailure, EvaluateTransition, Step
  <2>4. CASE \/ FindServiceRow(w) \/ LoadTarget(w) \/ DockerStop(w) \/ DockerRemove(w)
             \/ DockerRun(w) \/ DockerList(w)
    BY <2>4 DEF FindServiceRow, LoadTarget, DockerStop, DockerRemove, DockerRun, DockerList, Step
  <2>. QED BY <2>1, <2>3, <2>4 DEF WorkerStep
<1>2. held[w] \in Events /\ job[held[w]] = "active" /\ status[held[w]] # "none"
  BY <1>1, SlotFacts DEF Active, Terminal
<1>3. event[held[w]] \in Columns
  BY <1>0, <1>2
<1>4. CASE MarkInProgress(w)
  BY <1>0, <1>2, <1>4 DEF MarkInProgress, Step
<1>5. CASE LogCommand(w)
  <2>1. /\ pc[w] = "log_commands" /\ ~ RowGone(held[w]) /\ status' = status
        /\ event' = [event EXCEPT ![held[w]].log =
                        Append(mem[w].log, CommandSteps[mem[w].logged + 1])]
    BY <1>5 DEF LogCommand, AppendLog, Step
  <2>2. mem[w].logged + 1 \in 1..4
    <3>1. mem[w] \in Locals /\ mem[w].logged < 4
      BY <1>0, <2>1 DEF IInv, LoggingBounded
    <3>. QED BY <3>1 DEF Locals
  <2>3. CommandSteps[mem[w].logged + 1] \in LogSteps
    BY <2>2, LogStepsTyped
  <2>4. event'[held[w]].log = Append(mem[w].log, CommandSteps[mem[w].logged + 1])
    BY <1>0, <1>2, <1>3, <2>1 DEF Columns
  <2>. QED BY <1>2, <1>5, <2>1, <2>3, <2>4 DEF Executing
<1>6. CASE LogHealthCheck(w)
  <2>1. /\ pc[w] = "log_health" /\ ~ RowGone(held[w]) /\ status' = status
        /\ event' = [event EXCEPT ![held[w]].log = Append(mem[w].log, HealthStep)]
    BY <1>6 DEF LogHealthCheck, AppendLog, Step
  <2>2. event'[held[w]].log = Append(mem[w].log, HealthStep)
    BY <1>0, <1>2, <1>3, <2>1 DEF Columns
  <2>. QED BY <1>2, <1>6, <2>1, <2>2, LogStepsTyped DEF Executing
<1>7. CASE LogFailure(w)
  <2>1. /\ pc[w] = "fail_log" /\ ~ RowGone(held[w]) /\ status' = status
        /\ event' = [event EXCEPT ![held[w]].log = Append(mem[w].log, "failure")]
    BY <1>7 DEF LogFailure, AppendLog, Step
  <2>2. event'[held[w]].log = Append(mem[w].log, "failure")
    BY <1>0, <1>2, <1>3, <2>1 DEF Columns
  <2>. QED BY <1>2, <1>7, <2>1, <2>2, LogStepsTyped DEF Executing
<1>8. CASE SaveSuccess(w)
  BY <1>0, <1>2, <1>3, <1>8 DEF SaveSuccess, Step, Columns
<1>9. CASE SaveFailure(w)
  BY <1>0, <1>2, <1>3, <1>9 DEF SaveFailure, Step, Columns
<1>10. CASE \/ FindEvent(w) \/ FindServiceRow(w) \/ LoadTarget(w) \/ DecryptConfigThrows(w)
            \/ DockerStop(w) \/ DockerRemove(w) \/ DockerRun(w) \/ DockerList(w) \/ SshFails(w)
            \/ EvaluateTransition(w) \/ DatabaseThrows(w) \/ Acknowledge(w)
  BY <1>2, <1>10 DEF FindEvent, FindServiceRow, LoadTarget, DecryptConfigThrows, DockerStop,
        DockerRemove, DockerRun, DockerList, SshFails, EvaluateTransition, DatabaseThrows,
        Acknowledge, Throw, tables
<1>11. CASE SaveService(w) \/ CreateSnapshot(w)
  BY <1>2, <1>11 DEF SaveService, CreateSnapshot
<1>. QED BY <1>4, <1>5, <1>6, <1>7, <1>8, <1>9, <1>10, <1>11 DEF WorkerStep

\* An event turns succeeded by the last save of succeed() alone.
LEMMA SuccessSaved ==
    ASSUME IInv, [Next]_vars, NEW e \in Events,
           status[e] # "succeeded", status'[e] = "succeeded"
    PROVE  \E w \in Workers :
              SaveSuccess(w) /\ held[w] = e /\ pc[w] = "save_success" /\ ~ RowGone(e)
<1>1. ASSUME NEW q \in Requests, InsertEvent(q, e) PROVE FALSE
  BY <1>1 DEF InsertEvent, IInv, TypeOK
<1>2. ASSUME NEW q \in Requests, AddJob(q) PROVE status' = status
  BY <1>2 DEF AddJob, tables
<1>3. ASSUME NEW w \in Workers, Take(w, e) PROVE status' = status
  BY <1>3 DEF Take, tables
<1>4. ASSUME StalledCheck(e) PROVE status' = status
  BY <1>4 DEF StalledCheck, tables
<1>5. PICK w \in Workers : WorkerStep(w) /\ held[w] = e
  BY <1>1, <1>2, <1>3, <1>4, RowFlow
<1>6. SaveSuccess(w) /\ pc[w] = "save_success" /\ ~ RowGone(e)
  BY <1>5, OwnRow
<1>. QED BY <1>5, <1>6

\* A slot keeps its job active or finishes it.
LEMMA OwnJob ==
    ASSUME IInv, NEW w \in Workers, WorkerStep(w)
    PROVE  job'[held[w]] \in {"active", "completed", "failed"}
<1>0. job \in [Events -> JobStates] /\ held[w] \in Events /\ job[held[w]] = "active"
  BY OwnRow DEF IInv, TypeOK
<1>1. CASE FindEvent(w)
  BY <1>0, <1>1 DEF FindEvent, Release, queue
<1>2. CASE DecryptConfigThrows(w) \/ DatabaseThrows(w) \/ Acknowledge(w)
  BY <1>0, <1>2 DEF DecryptConfigThrows, DatabaseThrows, Acknowledge, Throw, Release
<1>3. CASE job' = job
  BY <1>0, <1>3
<1>. QED
  BY <1>1, <1>2, <1>3 DEF WorkerStep, MarkInProgress, FindServiceRow, LoadTarget,
     DockerStop, DockerRemove, DockerRun, DockerList, SshFails, LogCommand, LogHealthCheck,
     SaveService, CreateSnapshot, SaveSuccess, LogFailure, SaveFailure, EvaluateTransition, queue

\* A verdict is written by the two saves that end process(), on the row whose
\* log the slot has just extended.
LEMMA VerdictMatchesLogStep ==
    ASSUME IInv, SlotsInv, VerdictMatchesLog, [Next]_vars
    PROVE  VerdictMatchesLog'
<1>. DEFINE Matches(s, c) == /\ c.completed
                             /\ c.log # <<>>
                             /\ c.log[Len(c.log)] = IF s = "succeeded" THEN HealthStep ELSE "failure"
<1>0. \A e \in Events : status[e] \in Terminal => Matches(status[e], event[e])
  BY DEF VerdictMatchesLog
<1>. SUFFICES ASSUME NEW e \in Events, status'[e] \in Terminal
              PROVE  Matches(status'[e], event'[e])
  BY DEF VerdictMatchesLog
<1>. HIDE DEF Matches
<1>1. ASSUME event'[e] = event[e], status'[e] = status[e] PROVE Matches(status'[e], event'[e])
  BY <1>0, <1>1
<1>2. ASSUME event'[e] = event[e], status'[e] \in {status[e], "deleted"}
      PROVE  Matches(status'[e], event'[e])
  BY <1>1, <1>2 DEF Terminal
<1>3. ASSUME NEW q \in Requests, InsertEvent(q, e) PROVE FALSE
  BY <1>3 DEF InsertEvent, Terminal, IInv, TypeOK
<1>4. ASSUME NEW w \in Workers, WorkerStep(w), held[w] = e
      PROVE  Matches(status'[e], event'[e])
  <2>1. CopyIsCurrent(w)
    BY DEF SlotsInv
  <2>2. CASE UNCHANGED <<status, event>>
    BY <1>1, <2>2
  <2>3. CASE status'[e] = "in_progress"
    BY <2>3 DEF Terminal
  <2>4. CASE pc[w] \in Executing /\ ~ RowGone(e) /\ status' = status
    BY <1>4, <2>4, SlotFacts DEF Terminal, RowGone
  <2>5. CASE /\ pc[w] = "save_success" /\ ~ RowGone(e) /\ status'[e] = "succeeded"
             /\ event'[e].log = event[e].log /\ event'[e].completed
    BY <1>4, <2>1, <2>5 DEF CopyIsCurrent, Executing, Matches
  <2>6. CASE /\ pc[w] = "fail_save" /\ ~ RowGone(e) /\ status'[e] = "failed"
             /\ event'[e].log = event[e].log /\ event'[e].completed
    BY <1>4, <2>1, <2>6 DEF CopyIsCurrent, Executing, Matches
  <2>. QED BY <1>4, <2>2, <2>3, <2>4, <2>5, <2>6, OwnRow
<1>5. ASSUME NEW q \in Requests, AddJob(q) PROVE event' = event /\ status' = status
  BY <1>5 DEF AddJob, tables
<1>6. ASSUME NEW w \in Workers, Take(w, e) PROVE event' = event /\ status' = status
  BY <1>6 DEF Take, tables
<1>7. ASSUME StalledCheck(e) PROVE event' = event /\ status' = status
  BY <1>7 DEF StalledCheck, tables
<1>. QED BY <1>1, <1>2, <1>3, <1>4, <1>5, <1>6, <1>7, RowFlow

\* BullMQ completes the job of a failed event only from the end of process(),
\* past the alert.
LEMMA FailureIsAnnouncedStep ==
    ASSUME IInv, SlotsInv, FailureIsAnnounced, [Next]_vars
    PROVE  FailureIsAnnounced'
<1>0. /\ status \in [Events -> Statuses] /\ job \in [Events -> JobStates]
      /\ pc \in [Workers -> WorkerPoints]
  BY DEF IInv, TypeOK
<1>. SUFFICES ASSUME NEW e \in Events, status'[e] = "failed", job'[e] = "completed"
              PROVE  e \in alerted'
  BY DEF FailureIsAnnounced
<1>1. ASSUME status[e] = "failed", job[e] = "completed", e \in alerted => e \in alerted'
      PROVE  e \in alerted'
  BY <1>1 DEF FailureIsAnnounced
<1>2. ASSUME NEW q \in Requests, InsertEvent(q, e) PROVE FALSE
  BY <1>0, <1>2 DEF InsertEvent
<1>3. ASSUME NEW q \in Requests, AddJob(q), req[q].event = e PROVE FALSE
  BY <1>0, <1>3 DEF AddJob
<1>4. ASSUME NEW w \in Workers, Take(w, e) PROVE FALSE
  BY <1>0, <1>4 DEF Take
<1>5. ASSUME StalledCheck(e) PROVE FALSE
  BY <1>0, <1>5 DEF StalledCheck
<1>6. ASSUME NEW w \in Workers, WorkerStep(w), held[w] = e PROVE e \in alerted'
  <2>1. job[e] = "active" /\ status[e] # "none"
    BY <1>6, OwnRow
  <2>2. CASE Acknowledge(w)
    <3>1. pc[w] = "ack" /\ status' = status /\ alerted' = alerted
      BY <2>2 DEF Acknowledge, tables
    <3>. QED BY <1>6, <3>1 DEF SlotsInv, OrgIsKnown
  <2>3. CASE FindEvent(w)
    <3>1. job' = job \/ (RowGone(e) /\ status' = status)
      BY <1>6, <2>3 DEF FindEvent, queue, tables
    <3>. QED BY <2>1, <3>1 DEF RowGone
  <2>4. CASE DecryptConfigThrows(w) \/ DatabaseThrows(w)
    BY <1>0, <1>6, <2>4 DEF DecryptConfigThrows, DatabaseThrows, Throw, Release
  <2>5. ASSUME job' = job PROVE FALSE
    BY <2>1, <2>5
  <2>. QED
    BY <1>6, <2>2, <2>3, <2>4, <2>5 DEF WorkerStep, MarkInProgress, FindServiceRow, LoadTarget,
       DockerStop, DockerRemove, DockerRun, DockerList, SshFails, LogCommand, LogHealthCheck,
       SaveService, CreateSnapshot, SaveSuccess, LogFailure, SaveFailure, EvaluateTransition, queue
<1>7. status'[e] = "failed" /\ status'[e] \in {status[e], "deleted"} => status[e] = "failed"
  OBVIOUS
<1>. QED BY <1>1, <1>2, <1>3, <1>4, <1>5, <1>6, <1>7, RowFlow

\* Only a redelivery brings a job back before process() once it has a verdict.
LEMMA FirstRunStep ==
    ASSUME IInv, FirstRun, [Next]_vars
    PROVE  FirstRun'
<1>0. /\ status \in [Events -> Statuses] /\ job \in [Events -> JobStates]
      /\ stalls \in [Events -> 0..MaxStalledCount] /\ pc \in [Workers -> WorkerPoints]
      /\ held \in [Workers -> Events \cup {Null}]
  BY DEF IInv, TypeOK
<1>1. ASSUME NEW e \in Events, status'[e] \in Terminal, stalls'[e] = 0
      PROVE  job'[e] \notin {"none", "waiting"}
  <2>1. ASSUME status'[e] \in {status[e], "deleted"}, job'[e] = job[e], stalls'[e] = stalls[e]
        PROVE  job'[e] \notin {"none", "waiting"}
    BY <1>1, <2>1 DEF FirstRun, Terminal
  <2>2. ASSUME NEW q \in Requests, InsertEvent(q, e) PROVE FALSE
    BY <1>0, <1>1, <2>2 DEF InsertEvent, Terminal
  <2>3. ASSUME NEW q \in Requests, AddJob(q), req[q].event = e PROVE FALSE
    <3>1. rpc[q] = "enqueue" /\ status' = status /\ stalls' = stalls
      BY <2>3 DEF AddJob, tables
    <3>2. job[e] = "none"
      BY <2>3, <3>1 DEF IInv, UnqueuedEvents
    <3>. QED BY <1>1, <3>1, <3>2 DEF FirstRun
  <2>4. ASSUME NEW w \in Workers, Take(w, e) PROVE job'[e] = "active"
    BY <1>0, <2>4 DEF Take
  <2>5. ASSUME StalledCheck(e) PROVE job'[e] = "failed"
    BY <1>0, <1>1, <2>5 DEF StalledCheck, MaxStalledCount
  <2>6. ASSUME NEW w \in Workers, WorkerStep(w), held[w] = e
        PROVE  job'[e] \notin {"none", "waiting"}
    BY <2>6, OwnJob
  <2>. QED BY <2>1, <2>2, <2>3, <2>4, <2>5, <2>6, RowFlow
<1>2. ASSUME NEW w \in Workers, pc'[w] \in {"find_event", "mark"}, stalls'[held'[w]] = 0
      PROVE  status'[held'[w]] \notin Terminal
  <2>1. CASE Undisturbed(w)
    <3>1. held[w] # Null /\ held[w] \in Events
      BY <1>0, <1>2, <2>1, SlotFacts, ConstantsAssumption DEF Undisturbed
    <3>. QED BY <1>2, <2>1, <3>1 DEF Undisturbed, FirstRun, Terminal
  <2>2. ASSUME NEW e \in Events, Take(w, e) PROVE status'[held'[w]] \notin Terminal
    <3>1. job[e] = "waiting" /\ held'[w] = e /\ status' = status /\ stalls' = stalls
      BY <1>0, <2>2 DEF Take, tables
    <3>. QED BY <1>2, <3>1 DEF FirstRun
  <2>3. CASE WorkerStep(w)
    <3>1. FindEvent(w) /\ pc[w] = "find_event" /\ pc'[w] = "mark"
      BY <1>2, <2>3, PointsFlow
    <3>2. held'[w] = held[w] /\ status' = status /\ stalls' = stalls
      BY <1>0, <1>2, <3>1 DEF FindEvent, Release, queue, tables
    <3>. QED BY <1>2, <3>1, <3>2 DEF FirstRun
  <2>. QED BY <1>2, <2>1, <2>2, <2>3, OthersUndisturbed
<1>. QED BY <1>1, <1>2 DEF FirstRun

\* createSnapshot appends to one history; the removal of a host empties those
\* of its services.
LEMMA HistoryFlow ==
    ASSUME IInv, [Next]_vars
    PROVE  \/ history' = history
           \/ \E w \in Workers : CreateSnapshot(w)
           \/ \E h \in Hosts : RemoveHost(h)
<1>. DEFINE Goal == \/ history' = history
                    \/ \E w \in Workers : CreateSnapshot(w)
                    \/ \E h \in Hosts : RemoveHost(h)
<1>1. ASSUME NEW q \in Requests, RequestNext(q) PROVE Goal
  BY <1>1, HandlerWrites
<1>2. ASSUME NEW w \in Workers, WorkerStep(w) PROVE Goal
  <2>1. CASE CreateSnapshot(w)
    BY <2>1
  <2>2. CASE pc[w] \notin Executing
    BY <1>2, <2>2, WorkerTouches DEF Touches
  <2>3. CASE ~ CreateSnapshot(w)
    BY <1>2, <2>3 DEF WorkerStep, FindEvent, MarkInProgress, FindServiceRow, LoadTarget,
       DecryptConfigThrows, DockerStop, DockerRemove, DockerRun, DockerList, SshFails,
       LogCommand, LogHealthCheck, SaveService, SaveSuccess, LogFailure, SaveFailure,
       EvaluateTransition, DatabaseThrows, Acknowledge, Throw, AppendLog, tables
  <2>. QED BY <2>1, <2>3
<1>3. ASSUME NEW w \in Workers, NEW e \in Events, Take(w, e) PROVE Goal
  BY <1>3 DEF Take, tables
<1>4. ASSUME Crash PROVE Goal
  BY <1>4 DEF Crash, tables
<1>5. ASSUME NEW e \in Events, StalledCheck(e) PROVE Goal
  BY <1>5 DEF StalledCheck, tables
<1>6. ASSUME UNCHANGED vars PROVE Goal
  BY <1>6 DEF vars, tables
<1>7. ASSUME NEW h \in Hosts, RemoveHost(h) PROVE Goal
  BY <1>7
<1>. HIDE DEF Goal
<1>8. Goal
  BY <1>1, <1>2, <1>3, <1>4, <1>5, <1>6, <1>7 DEF Next
<1>. QED BY <1>8 DEF Goal

\* The snapshot createSnapshot appends.
LEMMA SnapshotAppended ==
    ASSUME IInv, NEW w \in Workers, CreateSnapshot(w)
    PROVE  LET s == ServiceOf(w)
               new == [image |-> mem[w].target, by |-> held[w]]
           IN  /\ held[w] \in Events /\ s \in Services /\ new \in Snapshots
               /\ history[s] \in Seq(Snapshots)
               /\ history'[s] = Append(history[s], new)
               /\ \A r \in Services \ {s} : history'[r] = history[r]
               /\ pc[w] = "create_snapshot" /\ pc' = [pc EXCEPT ![w] = "save_success"]
               /\ UNCHANGED <<live, status, event, job, stalls, held>>
<1>1. pc[w] = "create_snapshot" /\ history \in [Services -> Seq(Snapshots)]
  BY DEF CreateSnapshot, Step, IInv, TypeOK
<1>2. held[w] \in Events /\ ServiceOf(w) \in Services /\ mem[w] \in Locals
  BY <1>1, SlotFacts DEF Executing
<1>3. [image |-> mem[w].target, by |-> held[w]] \in Snapshots
  BY <1>2 DEF Snapshots, Locals
<1>. QED BY <1>1, <1>2, <1>3 DEF CreateSnapshot, Step, ServiceOf, queue

LEMMA UnusedEventsStep ==
    ASSUME IInv, UnusedEvents, [Next]_vars
    PROVE  UnusedEvents'
<1>0. /\ status \in [Events -> Statuses] /\ history \in [Services -> Seq(Snapshots)]
      /\ live \subseteq Services
  BY DEF IInv, TypeOK
<1>1. ASSUME NEW e \in Events, status'[e] = "none"
      PROVE  status[e] = "none" /\ event'[e] = event[e]
  <2>1. ASSUME NEW q \in Requests, InsertEvent(q, e) PROVE FALSE
    BY <1>0, <1>1, <2>1 DEF InsertEvent
  <2>2. ASSUME NEW w \in Workers, WorkerStep(w), held[w] = e PROVE FALSE
    BY <1>1, <2>2, OwnRow
  <2>3. ASSUME NEW q \in Requests, AddJob(q) PROVE status' = status /\ event' = event
    BY <2>3 DEF AddJob, tables
  <2>4. ASSUME NEW w \in Workers, Take(w, e) PROVE status' = status /\ event' = event
    BY <2>4 DEF Take, tables
  <2>5. ASSUME StalledCheck(e) PROVE status' = status /\ event' = event
    BY <2>5 DEF StalledCheck, tables
  <2>. QED BY <1>1, <2>1, <2>2, <2>3, <2>4, <2>5, RowFlow
<1>2. ASSUME NEW s \in Services, NEW i \in 1..Len(history'[s]), history'[s][i].by # Null
      PROVE  status'[history'[s][i].by] # "none"
  <2>1. ASSUME i \in 1..Len(history[s]), history'[s][i] = history[s][i]
        PROVE  status'[history'[s][i].by] # "none"
    <3>1. history[s][i] \in Snapshots
      BY <1>0, <2>1
    <3>2. history[s][i].by \in Events
      BY <1>2, <2>1, <3>1 DEF Snapshots
    <3>. QED BY <1>1, <1>2, <2>1, <3>2 DEF UnusedEvents
  <2>2. CASE history' = history
    BY <2>1, <2>2
  <2>3. ASSUME NEW w \in Workers, CreateSnapshot(w)
        PROVE  status'[history'[s][i].by] # "none"
    <3>1. CASE s # ServiceOf(w)
      <4>1. history'[s] = history[s]
        BY <2>3, <3>1, SnapshotAppended
      <4>. QED BY <2>1, <4>1
    <3>2. CASE s = ServiceOf(w) /\ i \in 1..Len(history[s])
      <4>1. history'[s][i] = history[s][i]
        <5>1. /\ history[s] \in Seq(Snapshots)
              /\ [image |-> mem[w].target, by |-> held[w]] \in Snapshots
              /\ history'[s] = Append(history[s], [image |-> mem[w].target, by |-> held[w]])
          BY <2>3, <3>2, SnapshotAppended
        <5>. QED BY <3>2, <5>1, AppendedKeeps
      <4>. QED BY <2>1, <3>2, <4>1
    <3>3. CASE s = ServiceOf(w) /\ i \notin 1..Len(history[s])
      <4>1. history'[s][i] = [image |-> mem[w].target, by |-> held[w]]
        BY <2>3, <3>3, SnapshotAppended
      <4>2. status' = status /\ WorkerStep(w)
        BY <2>3 DEF CreateSnapshot, WorkerStep
      <4>. QED BY <4>1, <4>2, OwnRow
    <3>. QED BY <3>1, <3>2, <3>3
  <2>4. ASSUME NEW h \in Hosts, RemoveHost(h)
        PROVE  status'[history'[s][i].by] # "none"
    <3>1. history'[s] = <<>> \/ history'[s] = history[s]
      BY <2>4 DEF RemoveHost
    <3>. QED BY <2>1, <3>1
  <2>. QED BY <2>2, <2>3, <2>4, HistoryFlow
<1>. QED BY <1>1, <1>2 DEF UnusedEvents

-----------------------------------------------------------------------------
(* The snapshots of an event *)

\* The snapshots of a row are found under its service, and are finitely many.
LEMMA SnapshotsFound ==
    ASSUME IInv, NEW e \in Events, status[e] \in Active \cup Terminal
    PROVE  /\ event[e].service \in live /\ event[e].service \in Services
           /\ history[event[e].service] \in Seq(Snapshots)
           /\ IsFiniteSet(SnapshotsBy(e)) /\ Cardinality(SnapshotsBy(e)) \in Nat
<1>1. event[e].service \in live /\ event[e].service \in Services
  BY DEF IInv, RowsFollowServices, TypeOK
<1>2. history[event[e].service] \in Seq(Snapshots)
  BY <1>1 DEF IInv, TypeOK
<1>3. IsFiniteSet(1..Len(history[event[e].service]))
  BY <1>2, FS_Interval
<1>4. IsFiniteSet(SnapshotsBy(e))
  BY <1>3, FS_Subset DEF SnapshotsBy
<1>. QED BY <1>1, <1>2, <1>4, FS_CardinalityType

\* Only createSnapshot, in the slot that holds its job, adds a snapshot of an
\* event, and it adds one.
LEMMA SnapshotsFlow ==
    ASSUME IInv, [Next]_vars, NEW e \in Events,
           status[e] \in Active \cup Terminal, status'[e] \in Active \cup Terminal
    PROVE  \/ SnapshotsBy(e)' = SnapshotsBy(e)
           \/ /\ \E w \in Workers : CreateSnapshot(w) /\ held[w] = e
              /\ Cardinality(SnapshotsBy(e)') = Cardinality(SnapshotsBy(e)) + 1
<1>. DEFINE s == event[e].service
<1>0. s \in live /\ s \in Services /\ history[s] \in Seq(Snapshots) /\ IsFiniteSet(SnapshotsBy(e))
  BY SnapshotsFound
<1>1. event'[e].service = s
  <2>1. ASSUME NEW q \in Requests, InsertEvent(q, e) PROVE FALSE
    BY <2>1 DEF InsertEvent, Active, Terminal
  <2>2. ASSUME NEW q \in Requests, AddJob(q) PROVE event' = event
    BY <2>2 DEF AddJob, tables
  <2>3. ASSUME NEW w \in Workers, Take(w, e) PROVE event' = event
    BY <2>3 DEF Take, tables
  <2>4. ASSUME NEW w \in Workers, WorkerStep(w) PROVE event'[e].service = s
    BY <2>4, WorkerTouches DEF Touches
  <2>5. ASSUME StalledCheck(e) PROVE event' = event
    BY <2>5 DEF StalledCheck, tables
  <2>. QED BY <2>1, <2>2, <2>3, <2>4, <2>5, RowFlow
<1>2. SnapshotsBy(e)' = {i \in 1..Len(history'[s]) : history'[s][i].by = e}
  BY <1>1 DEF SnapshotsBy
<1>3. ASSUME history'[s] = history[s] PROVE SnapshotsBy(e)' = SnapshotsBy(e)
  BY <1>2, <1>3 DEF SnapshotsBy
<1>4. ASSUME NEW h \in Hosts, RemoveHost(h) PROVE history'[s] = history[s]
  <2>1. s \notin {r \in live : HostOf[r] = h}
    BY <1>4 DEF RemoveHost, Active, Terminal
  <2>. QED BY <1>0, <1>4, <2>1 DEF RemoveHost
<1>5. ASSUME NEW w \in Workers, CreateSnapshot(w)
      PROVE  \/ SnapshotsBy(e)' = SnapshotsBy(e)
             \/ held[w] = e /\ Cardinality(SnapshotsBy(e)') = Cardinality(SnapshotsBy(e)) + 1
  <2>. DEFINE new == [image |-> mem[w].target, by |-> held[w]]
              n == Len(history[s])
  <2>1. CASE ServiceOf(w) # s
    <3>1. history'[s] = history[s]
      BY <1>0, <1>5, <2>1, SnapshotAppended
    <3>. QED BY <1>3, <3>1
  <2>2. CASE ServiceOf(w) = s
    <3>1. history'[s] = Append(history[s], new) /\ new \in Snapshots
      BY <1>5, <2>2, SnapshotAppended
    <3>2. /\ n \in Nat /\ Len(history'[s]) = n + 1 /\ history'[s][n + 1] = new
          /\ \A i \in 1..n : history'[s][i] = history[s][i]
      BY <1>0, <3>1, AppendedKeeps
    <3>3. SnapshotsBy(e)' = SnapshotsBy(e) \cup (IF held[w] = e THEN {n + 1} ELSE {})
      <4>1. 1..(n + 1) = 1..n \cup {n + 1}
        BY <3>2
      <4>2. SnapshotsBy(e) = {i \in 1..n : history[s][i].by = e}
        BY DEF SnapshotsBy
      <4>3. new.by = held[w]
        OBVIOUS
      <4>. HIDE DEF n, new
      <4>. QED BY <1>2, <3>2, <4>1, <4>2, <4>3
    <3>4. n + 1 \notin SnapshotsBy(e)
      BY <3>2 DEF SnapshotsBy
    <3>5. CASE held[w] = e
      <4>1. SnapshotsBy(e)' = SnapshotsBy(e) \cup {n + 1}
        BY <3>3, <3>5
      <4>2. n + 1 \notin SnapshotsBy(e)
        BY <3>4
      <4>. HIDE DEF n
      <4>3. Cardinality(SnapshotsBy(e) \cup {n + 1}) = Cardinality(SnapshotsBy(e)) + 1
        BY <1>0, <4>2, FS_AddElement
      <4>. QED BY <3>5, <4>1, <4>3
    <3>6. CASE held[w] # e
      BY <3>3, <3>6
    <3>. QED BY <3>5, <3>6
  <2>. QED BY <2>1, <2>2
<1>6. history' = history => history'[s] = history[s]
  OBVIOUS
<1>. QED BY <1>3, <1>4, <1>5, <1>6, HistoryFlow

\* The counter of stalled runs never falls, and what a run may add is added
\* before its slot reaches the save of the success.
LEMMA DeploymentsCountedStep ==
    ASSUME IInv, SlotsInv, UnusedEvents, DeploymentsCounted, [Next]_vars
    PROVE  DeploymentsCounted'
<1>0. /\ status \in [Events -> Statuses] /\ job \in [Events -> JobStates]
      /\ stalls \in [Events -> 0..MaxStalledCount] /\ pc \in [Workers -> WorkerPoints]
      /\ held \in [Workers -> Events \cup {Null}] /\ event \in [Events -> Columns]
      /\ history \in [Services -> Seq(Snapshots)] /\ live \subseteq Services
  BY DEF IInv, TypeOK
<1>. SUFFICES ASSUME NEW e \in Events, status'[e] \in Active \cup Terminal
              PROVE  RunsAdd(e)'
  BY DEF DeploymentsCounted
<1>1. ASSUME NEW q \in Requests, InsertEvent(q, e) PROVE RunsAdd(e)'
  <2>1. /\ status[e] = "none" /\ status'[e] = "pending" /\ history' = history /\ job' = job
        /\ stalls' = stalls /\ held' = held /\ pc' = pc
        /\ req[q].service \in Services
        /\ event'[e].service = req[q].service
    BY <1>0, <1>1 DEF InsertEvent, NoEvent, queue, workers
  <2>2. SnapshotsBy(e)' = {}
    <3>1. ASSUME NEW i \in 1..Len(history[req[q].service]), history[req[q].service][i].by = e
          PROVE  FALSE
      BY <2>1, <3>1, ConstantsAssumption DEF UnusedEvents
    <3>. QED BY <2>1, <3>1 DEF SnapshotsBy
  <2>3. Cardinality(SnapshotsBy(e)') = 0
    BY <2>2, FS_EmptySet
  <2>4. stalls'[e] \in Nat
    BY <1>0, <2>1 DEF MaxStalledCount
  <2>. QED BY <2>1, <2>3, <2>4 DEF RunsAdd
<1>2. ASSUME status[e] \in Active \cup Terminal PROVE RunsAdd(e)'
  <2>. DEFINE old == Cardinality(SnapshotsBy(e))
              new == Cardinality(SnapshotsBy(e)')
  <2>1. RunsAdd(e) /\ old \in Nat /\ stalls[e] \in Nat
    BY <1>0, <1>2, SnapshotsFound DEF DeploymentsCounted, MaxStalledCount
  <2>2. \/ SnapshotsBy(e)' = SnapshotsBy(e)
        \/ (\E w \in Workers : CreateSnapshot(w) /\ held[w] = e) /\ new = old + 1
    BY <1>2, SnapshotsFlow
  <2>3. ASSUME NEW w \in Workers, CreateSnapshot(w), held[w] = e, new = old + 1 PROVE RunsAdd(e)'
    <3>1. /\ pc[w] = "create_snapshot" /\ pc'[w] = "save_success"
          /\ held' = held /\ status' = status /\ stalls' = stalls /\ job' = job
      BY <1>0, <2>3 DEF CreateSnapshot, Step, queue
    <3>2. old <= stalls[e]
      BY <2>1, <2>3, <3>1 DEF RunsAdd
    <3>3. job[e] = "active" /\ status[e] # "succeeded"
      BY <2>3, <3>1, SlotFacts DEF Executing
    <3>4. \A v \in Workers : held'[v] = e => pc'[v] = "save_success"
      <4>1. \A v \in Workers : held[v] = e => v = w
        BY <2>3, ConstantsAssumption DEF IInv, HeldJobs
      <4>. QED BY <3>1, <4>1
    <3>5. new <= 1 + stalls'[e]
      BY <2>1, <2>3, <3>1, <3>2
    <3>. HIDE DEF old
    <3>. QED BY <3>1, <3>3, <3>4, <3>5 DEF RunsAdd
  <2>4. ASSUME SnapshotsBy(e)' = SnapshotsBy(e) PROVE RunsAdd(e)'
    <3>1. new = old
      BY <2>4
    <3>2. /\ stalls'[e] \in Nat /\ stalls[e] <= stalls'[e]
          /\ job'[e] \in {"none", "waiting"} => old <= stalls'[e]
      <4>1. ASSUME job'[e] = job[e], stalls'[e] = stalls[e]
            PROVE  /\ stalls'[e] \in Nat /\ stalls[e] <= stalls'[e]
                   /\ job'[e] \in {"none", "waiting"} => old <= stalls'[e]
        BY <2>1, <4>1 DEF RunsAdd
      <4>2. ASSUME NEW q \in Requests, InsertEvent(q, e) PROVE FALSE
        BY <1>2, <4>2 DEF InsertEvent, Active, Terminal
      <4>3. ASSUME NEW q \in Requests, AddJob(q), req[q].event = e
            PROVE  stalls' = stalls /\ old <= stalls[e]
        <5>1. rpc[q] = "enqueue" /\ stalls' = stalls
          BY <4>3 DEF AddJob
        <5>. QED BY <2>1, <4>3, <5>1 DEF IInv, UnqueuedEvents, RunsAdd
      <4>4. ASSUME NEW w \in Workers, Take(w, e) PROVE job'[e] = "active" /\ stalls' = stalls
        BY <1>0, <4>4 DEF Take
      <4>5. ASSUME NEW w \in Workers, WorkerStep(w), held[w] = e
            PROVE  job'[e] \notin {"none", "waiting"} /\ stalls' = stalls
        BY <4>5, OwnJob, WorkerTouches DEF Touches
      <4>6. ASSUME StalledCheck(e)
            PROVE  \/ stalls'[e] = stalls[e] + 1
                   \/ stalls' = stalls /\ job'[e] = "failed"
        BY <1>0, <4>6 DEF StalledCheck
      <4>7. old <= stalls[e] + 1
        BY <2>1 DEF RunsAdd
      <4>. HIDE DEF old
      <4>. QED BY <2>1, <4>1, <4>2, <4>3, <4>4, <4>5, <4>6, <4>7, RowFlow
    <3>3. ASSUME NEW v \in Workers, held'[v] = e, pc'[v] \notin {"save_success", "ack"}
          PROVE  old <= stalls[e]
      <4>1. CASE Undisturbed(v)
        BY <2>1, <3>3, <4>1 DEF Undisturbed, RunsAdd
      <4>2. CASE held'[v] = Null
        BY <3>3, <4>2, ConstantsAssumption
      <4>3. ASSUME NEW f \in Events, Take(v, f) PROVE old <= stalls[e]
        <5>1. f = e /\ job[e] = "waiting"
          BY <1>0, <3>3, <4>3 DEF Take
        <5>. QED BY <2>1, <5>1 DEF RunsAdd
      <4>4. CASE WorkerStep(v)
        <5>1. pc'[v] # "idle"
          BY <3>3, <4>4, ReleaseForgets, ConstantsAssumption
        <5>2. held[v] = e
          BY <3>3, <4>4, <5>1, LocalsKept
        <5>3. pc[v] \notin {"save_success", "ack"}
          BY <3>3, <4>4, <5>1, PointsFlow
        <5>. QED BY <2>1, <5>2, <5>3 DEF RunsAdd
      <4>. QED BY <4>1, <4>2, <4>3, <4>4, OthersUndisturbed
    <3>4. ASSUME status'[e] = "succeeded" PROVE SnapshotsBy(e) # {}
      <4>1. CASE status[e] = "succeeded"
        BY <2>1, <4>1 DEF RunsAdd
      <4>2. ASSUME NEW w \in Workers, SaveSuccess(w), held[w] = e, ~ RowGone(e)
            PROVE  SnapshotsBy(e) # {}
        <5>. DEFINE s == event[e].service
        <5>1. pc[w] = "save_success" /\ ServiceOf(w) = s
          BY <4>2 DEF SaveSuccess, Step, ServiceOf
        <5>. HIDE DEF s
        <5>2. history[s] # <<>> /\ history[s][Len(history[s])].by = e
          <6>1. /\ history[s] # <<>>
                /\ history[s][Len(history[s])] = [image |-> mem[w].target, by |-> e]
            BY <4>2, <5>1 DEF SlotsInv, SavesHold
          <6>. QED BY <6>1
        <5>. USE DEF s
        <5>3. Len(history[s]) \in 1..Len(history[s])
          <6>1. history[s] \in Seq(Snapshots)
            BY <1>2, SnapshotsFound
          <6>. QED BY <5>2, <6>1
        <5>. QED BY <5>2, <5>3 DEF SnapshotsBy
      <4>. QED BY <3>4, <4>1, <4>2, SuccessSaved
    <3>5. new <= 1 + stalls'[e]
      BY <2>1, <3>1, <3>2 DEF RunsAdd
    <3>6. \A v \in Workers : held'[v] = e /\ pc'[v] \notin {"save_success", "ack"}
            => new <= stalls'[e]
      BY <2>1, <3>1, <3>2, <3>3
    <3>7. job'[e] \in {"none", "waiting"} => new <= stalls'[e]
      BY <3>1, <3>2
    <3>. HIDE DEF old
    <3>. QED BY <2>4, <3>4, <3>5, <3>6, <3>7 DEF RunsAdd
  <2>. HIDE DEF old, new
  <2>. QED BY <2>2, <2>3, <2>4
<1>3. status[e] \notin Active \cup Terminal => \E q \in Requests : InsertEvent(q, e)
  <2>1. SUFFICES ASSUME status[e] \in {"none", "deleted"} PROVE \E q \in Requests : InsertEvent(q, e)
    BY <1>0 DEF Statuses
  <2>2. ASSUME status'[e] \in {status[e], "deleted"} PROVE FALSE
    BY <2>1, <2>2 DEF Active, Terminal
  <2>3. ASSUME NEW w \in Workers, WorkerStep(w), held[w] = e PROVE status' = status
    BY <2>1, <2>3, OwnRow DEF RowGone
  <2>4. ASSUME NEW q \in Requests, AddJob(q) PROVE status' = status
    BY <2>4 DEF AddJob, tables
  <2>5. ASSUME NEW w \in Workers, Take(w, e) PROVE status' = status
    BY <2>5 DEF Take, tables
  <2>6. ASSUME StalledCheck(e) PROVE status' = status
    BY <2>6 DEF StalledCheck, tables
  <2>. QED BY <2>2, <2>3, <2>4, <2>5, <2>6, RowFlow
<1>. QED BY <1>1, <1>2, <1>3

-----------------------------------------------------------------------------
(* The invariant *)

LEMMA AuditInit == Init => AuditInv
<1>. SUFFICES ASSUME Init PROVE AuditInv
  OBVIOUS
<1>1. /\ \A w \in Workers : pc[w] = "idle" /\ held[w] = Null /\ mem[w] = NoLocals
      /\ \A e \in Events : status[e] = "none" /\ event[e] = NoEvent
  BY DEF Init
<1>2. SlotsInv
  BY <1>1 DEF SlotsInv, CopyIsCurrent, OrgIsKnown, TargetIsLoaded, ContainerIsRunning, SavesHold,
              NoLocals, Executing, Loaded
<1>3. FirstRun /\ VerdictMatchesLog /\ FailureIsAnnounced
  BY <1>1 DEF FirstRun, VerdictMatchesLog, FailureIsAnnounced, Terminal
<1>4. UnusedEvents
  <2>1. \A s \in Services : \A i \in 1..Len(history[s]) : history[s][i].by = Null
    BY ConstantsAssumption DEF Init
  <2>. QED BY <1>1, <2>1 DEF UnusedEvents, NoEvent
<1>5. DeploymentsCounted
  BY <1>1 DEF DeploymentsCounted, Active, Terminal
<1>. QED BY <1>2, <1>3, <1>4, <1>5 DEF AuditInv

LEMMA AuditStep ==
    ASSUME IInv, AuditInv, [Next]_vars
    PROVE  AuditInv'
BY SlotsStep, VerdictMatchesLogStep, FailureIsAnnouncedStep, FirstRunStep, UnusedEventsStep,
   DeploymentsCountedStep DEF AuditInv

LEMMA AuditHolds == Spec => [](IInv /\ AuditInv)
<1>1. Init => AuditInv
  BY AuditInit
<1>2. IInv /\ AuditInv /\ [Next]_vars => AuditInv'
  BY AuditStep
<1>. QED BY <1>1, <1>2, InvariantHolds, PTL DEF Spec

-----------------------------------------------------------------------------
(* Theorems *)

\* VerdictIsBacked of the run RollbackFaults: the verdict of an event is the
\* last thing its log says, and a failure whose job ran to its end was handed
\* to alerting, although appendLog rewrites the array from the copy of a slot
\* and a redelivered job starts process() again.
THEOREM VerdictBacked == Spec => []VerdictIsBacked
<1>1. AuditInv => VerdictIsBacked
  BY DEF AuditInv, VerdictIsBacked
<1>. QED BY <1>1, AuditHolds, PTL

\* DeploymentRecordedPerExecution: a success has its snapshot, and no more of
\* them than its job was run.
THEOREM DeploymentsRecorded == Spec => []DeploymentRecordedPerExecution
<1>1. AuditInv => DeploymentRecordedPerExecution
  BY DEF AuditInv, DeploymentsCounted, RunsAdd, DeploymentRecordedPerExecution, Terminal
<1>. QED BY <1>1, AuditHolds, PTL

\* LogOnlyGrows: no save of log_output ever loses an entry.
THEOREM LogGrows == Spec => LogOnlyGrows
<1>1. ASSUME IInv, AuditInv, [Next]_vars, NEW e \in Events
      PROVE  SubSeq(event'[e].log, 1, Len(event[e].log)) = event[e].log
  <2>0. event[e].log \in Seq(LogSteps)
    BY <1>1 DEF IInv, TypeOK, Columns
  <2>1. ASSUME event'[e].log = event[e].log
        PROVE  SubSeq(event'[e].log, 1, Len(event[e].log)) = event[e].log
    BY <2>0, <2>1
  <2>2. ASSUME NEW q \in Requests, InsertEvent(q, e)
        PROVE  SubSeq(event'[e].log, 1, Len(event[e].log)) = event[e].log
    <3>1. event[e].log = <<>>
      BY <1>1, <2>2 DEF InsertEvent, AuditInv, UnusedEvents
    <3>2. event'[e].log = <<>>
      BY <1>1, <2>2 DEF InsertEvent, NoEvent, IInv, TypeOK
    <3>. QED BY <3>1, <3>2
  <2>3. ASSUME NEW w \in Workers, WorkerStep(w), held[w] = e
        PROVE  SubSeq(event'[e].log, 1, Len(event[e].log)) = event[e].log
    <3>1. ASSUME NEW x \in LogSteps, event'[e].log = Append(mem[w].log, x),
                 pc[w] \in Executing, ~ RowGone(e)
          PROVE  SubSeq(event'[e].log, 1, Len(event[e].log)) = event[e].log
      <4>1. mem[w].log = event[e].log
        BY <1>1, <2>3, <3>1 DEF AuditInv, SlotsInv, CopyIsCurrent
      <4>. QED BY <2>0, <3>1, <4>1, AppendedKeeps
    <3>2. \/ event'[e].log = event[e].log
          \/ pc[w] \in Executing /\ ~ RowGone(e)
             /\ \E x \in LogSteps : event'[e].log = Append(mem[w].log, x)
      BY <1>1, <2>3, OwnRow
    <3>. QED BY <2>1, <3>1, <3>2
  <2>4. ASSUME NEW q \in Requests, AddJob(q) PROVE event' = event
    BY <2>4 DEF AddJob, tables
  <2>5. ASSUME NEW w \in Workers, Take(w, e) PROVE event' = event
    BY <2>5 DEF Take, tables
  <2>6. ASSUME StalledCheck(e) PROVE event' = event
    BY <2>6 DEF StalledCheck, tables
  <2>. QED BY <1>1, <2>1, <2>2, <2>3, <2>4, <2>5, <2>6, RowFlow
<1>2. IInv /\ AuditInv /\ [Next]_vars
        => [\A e \in Events : SubSeq(event'[e].log, 1, Len(event[e].log)) = event[e].log]_vars
  BY <1>1
<1>. QED BY <1>2, AuditHolds, PTL DEF Spec, LogOnlyGrows

\* SuccessIsConsistent: at the moment an event turns succeeded, docker, the
\* service row and the snapshot history tell the same story.
THEOREM SuccessConsistent == Spec => SuccessIsConsistent
<1>. DEFINE Agree(e) == LET s == event[e].service
                            target == history[s][event[e].to].image
                        IN  /\ docker[s] # Null
                            /\ docker[s].id = row[s].container
                            /\ docker[s].image = target
                            /\ row[s].image = target
                            /\ history[s][Len(history[s])] = [image |-> target, by |-> e]
<1>1. ASSUME IInv, AuditInv, [Next]_vars, NEW e \in Events,
             status[e] # "succeeded", status'[e] = "succeeded"
      PROVE  Agree(e)
  <2>1. PICK w \in Workers : SaveSuccess(w) /\ held[w] = e /\ pc[w] = "save_success" /\ ~ RowGone(e)
    BY <1>1, SuccessSaved
  <2>. DEFINE s == event[e].service
  <2>2. ServiceOf(w) = s
    BY <2>1 DEF ServiceOf
  <2>3. mem[w].target = history[s][event[e].to].image
    BY <1>1, <2>1, <2>2 DEF AuditInv, SlotsInv, TargetIsLoaded, Loaded
  <2>4. /\ docker[s] # Null /\ docker[s].image = mem[w].target
        /\ mem[w].found = docker[s].id
    BY <1>1, <2>1, <2>2 DEF AuditInv, SlotsInv, ContainerIsRunning
  <2>5. /\ row[s] = [container |-> mem[w].found, image |-> mem[w].target]
        /\ history[s][Len(history[s])] = [image |-> mem[w].target, by |-> e]
    BY <1>1, <2>1, <2>2 DEF AuditInv, SlotsInv, SavesHold
  <2>6. row[s].container = mem[w].found /\ row[s].image = mem[w].target
    BY <2>5
  <2>. HIDE DEF s
  <2>7. Agree(e)
    BY <2>3, <2>4, <2>5, <2>6 DEF s
  <2>. QED BY <2>7
<1>. HIDE DEF Agree
<1>2. IInv /\ AuditInv /\ [Next]_vars
        => [\A e \in Events : status[e] # "succeeded" /\ status'[e] = "succeeded" => Agree(e)]_vars
  BY <1>1
<1>. USE DEF Agree
<1>. QED BY <1>2, AuditHolds, PTL DEF Spec, SuccessIsConsistent

\* VerdictIsFinal: without a redelivery, nobody writes the row of an event that
\* has its verdict.
THEOREM VerdictFinal == Spec => VerdictIsFinal
<1>1. ASSUME IInv, AuditInv, [Next]_vars, NEW e \in Events, status[e] \in Terminal, stalls[e] = 0
      PROVE  status'[e] \in {status[e], "deleted"} /\ event'[e] = event[e]
  <2>1. ASSUME NEW q \in Requests, InsertEvent(q, e) PROVE FALSE
    BY <1>1, <2>1 DEF InsertEvent, Terminal
  <2>2. ASSUME NEW q \in Requests, AddJob(q) PROVE event' = event /\ status' = status
    BY <2>2 DEF AddJob, tables
  <2>3. ASSUME NEW w \in Workers, Take(w, e) PROVE event' = event /\ status' = status
    BY <2>3 DEF Take, tables
  <2>4. ASSUME StalledCheck(e) PROVE event' = event /\ status' = status
    BY <2>4 DEF StalledCheck, tables
  <2>5. ASSUME NEW w \in Workers, WorkerStep(w), held[w] = e
        PROVE  event' = event /\ status' = status
    <3>1. pc[w] \notin Executing
      BY <1>1, <2>5, SlotFacts DEF Terminal
    <3>2. pc[w] # "mark"
      BY <1>1, <2>5 DEF AuditInv, FirstRun
    <3>. QED BY <1>1, <2>5, <3>1, <3>2, OwnRow DEF Executing
  <2>. QED BY <1>1, <2>1, <2>2, <2>3, <2>4, <2>5, RowFlow
<1>2. IInv /\ AuditInv /\ [Next]_vars
        => [\A e \in Events : status[e] \in Terminal /\ stalls[e] = 0 =>
              status'[e] \in {status[e], "deleted"} /\ event'[e] = event[e]]_vars
  BY <1>1
<1>. QED BY <1>2, AuditHolds, PTL DEF Spec, VerdictIsFinal

\* A container the row does not point to is out of reach of stop and rm, and its
\* name keeps docker run from starting another.
LEMMA StrandedStep ==
    ASSUME IInv, AuditInv, [Next]_vars, NEW s \in Services, Stranded(s)
    PROVE  Stranded(s)'
<1>. DEFINE Own == {"list", "log_commands", "log_health", "save_service"}
<1>0. /\ docker \in [Services -> Containers \cup {Null}] /\ row \in [Services -> Rows]
      /\ pc \in [Workers -> WorkerPoints] /\ mem \in [Workers -> Locals]
      /\ held \in [Workers -> Events \cup {Null}]
  BY DEF IInv, TypeOK
<1>1. /\ docker[s] # Null /\ docker[s].id # row[s].container
      /\ \A w \in Workers : held[w] # Null /\ ServiceOf(w) = s /\ mem[w].started => pc[w] \notin Own
  BY DEF Stranded
<1>i. \A w \in Workers : TargetIsLoaded(w) /\ ContainerIsRunning(w)
  BY DEF AuditInv, SlotsInv
<1>2. /\ docker'[s] # Null /\ docker'[s].id = docker[s].id
      /\ row'[s] = row[s]
  <2>1. ASSUME docker' = docker, row' = row
        PROVE  docker'[s] # Null /\ docker'[s].id = docker[s].id /\ row'[s] = row[s]
    BY <1>1, <2>1
  <2>2. ASSUME NEW w \in Workers, WorkerStep(w)
        PROVE  docker'[s] # Null /\ docker'[s].id = docker[s].id /\ row'[s] = row[s]
    <3>1. CASE ServiceOf(w) # s
      BY <1>1, <2>2, <3>1, WorkerTouches DEF Touches
    <3>2. CASE DockerStop(w)
      <4>1. row' = row /\ (docker'[s] = docker[s] \/ docker'[s] = [docker[s] EXCEPT !.up = FALSE])
        BY <1>0, <3>2 DEF DockerStop, tables
      <4>2. docker[s] \in Containers
        BY <1>0, <1>1
      <4>3. docker'[s] = [docker[s] EXCEPT !.up = FALSE]
              => docker'[s] \in Containers /\ docker'[s].id = docker[s].id
        BY <4>2 DEF Containers
      <4>. QED BY <1>1, <4>1, <4>3, ContainersAreRows
    <3>3. CASE DockerRemove(w) /\ ServiceOf(w) = s
      <4>1. pc[w] = "remove" /\ row' = row
        BY <3>3 DEF DockerRemove, Step, tables
      <4>2. mem[w].container = row[s].container
        BY <1>i, <3>3, <4>1 DEF TargetIsLoaded
      <4>3. ~ Reaches(w, s)
        BY <1>1, <4>2 DEF Reaches
      <4>. QED BY <1>1, <3>3, <4>1, <4>3 DEF DockerRemove, ServiceOf
    <3>4. CASE DockerRun(w) /\ ServiceOf(w) = s
      BY <1>1, <3>4 DEF DockerRun, ServiceOf, remote, tables
    <3>5. CASE SaveService(w) /\ ServiceOf(w) = s
      <4>1. pc[w] = "save_service" /\ held[w] # Null
        BY <3>5, SlotFacts, ConstantsAssumption DEF SaveService, Step
      <4>2. mem[w].started
        BY <1>i, <4>1 DEF ContainerIsRunning
      <4>. QED BY <1>1, <3>5, <4>1, <4>2
    <3>6. CASE docker' = docker /\ row' = row
      BY <2>1, <3>6
    <3>. QED
      BY <2>2, <3>1, <3>2, <3>3, <3>4, <3>5, <3>6 DEF WorkerStep, FindEvent, MarkInProgress,
         FindServiceRow, LoadTarget, DecryptConfigThrows, Throw, DockerList, SshFails, LogCommand,
         LogHealthCheck, CreateSnapshot, SaveSuccess, LogFailure, SaveFailure,
         EvaluateTransition, DatabaseThrows, Acknowledge, AppendLog, tables, remote
  <2>3. ASSUME NEW q \in Requests, RequestNext(q) PROVE docker' = docker /\ row' = row
    BY <2>3, HandlerWrites DEF remote
  <2>4. ASSUME NEW w \in Workers, NEW e \in Events, Take(w, e) PROVE docker' = docker /\ row' = row
    BY <2>4 DEF Take, tables, remote
  <2>5. ASSUME NEW h \in Hosts, RemoveHost(h) PROVE docker' = docker /\ row' = row
    BY <2>5 DEF RemoveHost, remote
  <2>6. ASSUME Crash PROVE docker' = docker /\ row' = row
    BY <2>6 DEF Crash, tables, remote
  <2>7. ASSUME NEW e \in Events, StalledCheck(e) PROVE docker' = docker /\ row' = row
    BY <2>7 DEF StalledCheck, tables, remote
  <2>8. ASSUME UNCHANGED vars PROVE docker' = docker /\ row' = row
    BY <2>8 DEF vars, tables, remote
  <2>. QED BY <2>1, <2>2, <2>3, <2>4, <2>5, <2>6, <2>7, <2>8 DEF Next
<1>3. ASSUME NEW w \in Workers, held'[w] # Null, ServiceOf(w)' = s, mem'[w].started
      PROVE  pc'[w] \notin Own
  <2>1. CASE Undisturbed(w)
    <3>1. CASE pc[w] = "idle"
      BY <2>1, <3>1 DEF Undisturbed
    <3>2. CASE pc[w] # "idle"
      BY <1>1, <1>3, <2>1, <3>2, SameService DEF Undisturbed
    <3>. QED BY <3>1, <3>2
  <2>2. CASE \E e \in Events : Take(w, e)
    BY <1>0, <2>2 DEF Take, Step
  <2>3. CASE WorkerStep(w)
    <3>. SUFFICES ASSUME pc'[w] \in Own PROVE FALSE
      OBVIOUS
    <3>0. pc'[w] # "idle" /\ pc[w] # "idle"
      BY <2>3, PointsFlow
    <3>1. held[w] = held'[w] /\ held[w] \in Events /\ ServiceOf(w) = s
      BY <1>3, <2>3, <3>0, SameService
    <3>2. \/ DockerRun(w) /\ pc[w] = "run"
          \/ pc[w] \in {"list", "log_commands", "log_health"}
      BY <2>3, <3>0, PointsFlow
    <3>3. CASE DockerRun(w) /\ pc[w] = "run"
      <4>1. mem' = mem
        BY <1>1, <3>1, <3>3 DEF DockerRun, ServiceOf
      <4>2. ~ mem[w].started
        BY <1>i, <3>3 DEF ContainerIsRunning
      <4>. QED BY <1>3, <4>1, <4>2
    <3>4. CASE pc[w] \in {"list", "log_commands", "log_health"}
      <4>1. mem'[w].started = mem[w].started
        BY <2>3, <3>0, <3>4, LocalsKept
      <4>. QED BY <1>1, <1>3, <3>1, <3>4, <4>1
    <3>. QED BY <3>2, <3>3, <3>4
  <2>. QED BY <1>3, <2>1, <2>2, <2>3, OthersUndisturbed
<1>. QED BY <1>1, <1>2, <1>3 DEF Stranded

\* StrandedForGood: a stranded container stays stranded, and no rollback of its
\* service succeeds any more.
THEOREM StrandedIsForGood == Spec => StrandedForGood
<1>1. ASSUME IInv, AuditInv, [Next]_vars, NEW s \in Services, Stranded(s),
             NEW e \in Events, event[e].service = s, status'[e] = "succeeded"
      PROVE  status[e] = "succeeded"
  <2>. SUFFICES ASSUME status[e] # "succeeded" PROVE FALSE
    OBVIOUS
  <2>1. PICK w \in Workers : held[w] = e /\ pc[w] = "save_success"
    BY <1>1, SuccessSaved
  <2>2. ServiceOf(w) = s
    BY <1>1, <2>1 DEF ServiceOf
  <2>3. docker[s] # Null /\ mem[w].found = docker[s].id
    BY <1>1, <2>1, <2>2 DEF AuditInv, SlotsInv, ContainerIsRunning
  <2>4. row[s] = [container |-> mem[w].found, image |-> mem[w].target]
    BY <1>1, <2>1, <2>2 DEF AuditInv, SlotsInv, SavesHold
  <2>5. row[s].container = mem[w].found
    BY <2>4
  <2>. QED BY <1>1, <2>3, <2>5 DEF Stranded
<1>2. IInv /\ AuditInv /\ [Next]_vars
        => [\A s \in Services : Stranded(s) =>
              /\ Stranded(s)'
              /\ \A e \in Events : event[e].service = s /\ status'[e] = "succeeded"
                      => status[e] = "succeeded"]_vars
  BY <1>1, StrandedStep
<1>. QED BY <1>2, AuditHolds, PTL DEF Spec, StrandedForGood
=============================================================================
