---------------------------- MODULE HealthCheck ----------------------------
(***************************************************************************)
(* Hosts and their health checks: hosts.service.ts registers and removes   *)
(* hosts and enqueues checks, the scheduler's tick fans out one job per    *)
(* host, and HealthCheckProcessor.checkHost connects, logs, saves the      *)
(* status and announces the transition.  HEALTH_CHECK_CONCURRENCY checks   *)
(* run at once and nothing stops two of them from being of the same host.  *)
(* A database call is one step; the service sync that ends a check is the  *)
(* subject of module Deployments.                                          *)
(***************************************************************************)
EXTENDS Naturals, FiniteSets

CONSTANTS
    Hosts,          \* host ids
    Workers,        \* worker slots of the health-check queue
    MaxQueued,      \* bound: waiting jobs of one host
    MaxChanges,     \* bound: changes of the machines' behaviour, and faults
    Null

ASSUME ConstantsAssumption ==
    /\ MaxQueued \in Nat \ {0} /\ MaxChanges \in Nat
    /\ Null \notin Hosts

VARIABLES
    row,        \* hosts table: status and setup_verified_at of each row, or Null
    removed,    \* hosts a DELETE was answered for
    logged,     \* statuses health_check_logs holds for each host
    told,       \* hosts: the last transition handed to evaluateTransition
    queued,     \* waiting check-host jobs of each host
    tick,       \* is a tick job waiting
    pc, on, mem,    \* each slot: next step, host of its job, its copy of the row
    machine,    \* what an SSH connection to the host meets
    changes     \* how often a machine changed or a fault struck

tables == <<row, removed, logged, told>>
slots == <<pc, on, mem>>
vars == <<tables, queued, tick, slots, machine, changes>>

HostStatus == {"healthy", "degraded", "unreachable", "pending_setup"}
Rows == [status : HostStatus, verified : BOOLEAN]
Machines == {"down", "rejecting", "up"}
NoLocals == [status |-> "pending_setup", verified |-> FALSE, outcome |-> Null]
NoTransition == [from |-> "pending_setup", to |-> "pending_setup"]

-----------------------------------------------------------------------------
(* The outcome of a check *)

\* Variant: a rejected key is not told apart by setupVerifiedAt.
SshFailureUnverified(level, verified) ==
    IF level = "client-authentication" THEN "pending_setup" ELSE "unreachable"

\* mapSshFailureToOutcome: a key that was never accepted is still to be installed
SshFailureOutcome(level, verified) ==
    IF level = "client-authentication" /\ ~ verified THEN "pending_setup" ELSE "unreachable"

\* mapCommandResultsToOutcome: no docker is no failure, a failing one is
CommandOutcome(uptime, docker) ==
    IF uptime # "ok" \/ docker = "failed" THEN "degraded" ELSE "healthy"

\* SUCCESSFUL_CONNECTION_STATUSES
Successful == {"healthy", "degraded"}

\* runCheck: the statuses a check can come to
RunCheck(h, verified) ==
    CASE machine[h] = "down" -> {SshFailureOutcome("network", verified)}
      [] machine[h] = "rejecting" -> {SshFailureOutcome("client-authentication", verified)}
      [] machine[h] = "up" ->
            {CommandOutcome(u, d) : u \in {"ok", "failed"}, d \in {"ok", "missing", "failed"}}

-----------------------------------------------------------------------------
(* Operations of the hosts API *)

Init ==
    /\ row = [h \in Hosts |-> Null] /\ removed = {}
    /\ logged = [h \in Hosts |-> {}]
    /\ told = [h \in Hosts |-> NoTransition]
    /\ queued = [h \in Hosts |-> 0] /\ tick = FALSE
    /\ pc = [w \in Workers |-> "idle"]
    /\ on = [w \in Workers |-> Null]
    /\ mem = [w \in Workers |-> NoLocals]
    /\ machine = [h \in Hosts |-> "rejecting"] /\ changes = 0

\* Machines change, and faults strike, now and then: MaxChanges times.
Change == changes < MaxChanges /\ changes' = changes + 1

\* HostsService.create: pending_setup, never checked, never verified
CreateHost(h) ==
    /\ row[h] = Null /\ h \notin removed
    /\ row' = [row EXCEPT ![h] = [status |-> "pending_setup", verified |-> FALSE]]
    /\ UNCHANGED <<removed, logged, told, queued, tick, slots, machine, changes>>

\* HostsService.remove; the logs have no foreign key and stay
RemoveHost(h) ==
    /\ row[h] # Null /\ h \notin removed
    /\ row' = [row EXCEPT ![h] = Null]
    /\ removed' = removed \cup {h}
    /\ UNCHANGED <<logged, told, queued, tick, slots, machine, changes>>

\* enqueueCheck ("check now" of a host or of one of its services): no rate
\* limit and no job id, a second call is a second job
EnqueueCheck(h) ==
    /\ row[h] # Null /\ queued[h] < MaxQueued
    /\ queued' = [queued EXCEPT ![h] = @ + 1]
    /\ UNCHANGED <<tables, tick, slots, machine, changes>>

\* The job scheduler of onModuleInit adds a tick.
Schedule ==
    /\ ~ tick /\ tick' = TRUE
    /\ UNCHANGED <<tables, queued, slots, machine, changes>>

\* Variant: only hosts that finished setup are fanned out.
FanOutVerified(w) ==
    /\ tick /\ pc[w] = "idle" /\ tick' = FALSE
    /\ queued' = [h \in Hosts |-> IF row[h] # Null /\ row[h].verified THEN 1 ELSE queued[h]]
    /\ UNCHANGED <<tables, slots, machine, changes>>

\* enqueuePerEntityJobs (no more waiting jobs than the bound)
OneMoreFor(hs) == [h \in Hosts |-> IF h \in hs /\ queued[h] < MaxQueued
                                   THEN queued[h] + 1 ELSE queued[h]]

\* enqueueCheckForAllHosts: one job per host of the table, verified or not
FanOut(w) ==
    /\ tick /\ pc[w] = "idle" /\ tick' = FALSE
    /\ queued' = OneMoreFor({h \in Hosts : row[h] # Null})
    /\ UNCHANGED <<tables, slots, machine, changes>>

-----------------------------------------------------------------------------
(* checkHost, one step per await *)

Finish(w) ==
    /\ pc' = [pc EXCEPT ![w] = "idle"]
    /\ on' = [on EXCEPT ![w] = Null]
    /\ mem' = [mem EXCEPT ![w] = NoLocals]

Step(w, from, to) ==
    /\ pc[w] = from
    /\ pc' = [pc EXCEPT ![w] = to]
    /\ UNCHANGED <<on, queued, tick, machine, changes>>

\* the row is read once; a host that is gone is skipped
Take(w, h) ==
    /\ pc[w] = "idle" /\ queued[h] > 0
    /\ queued' = [queued EXCEPT ![h] = @ - 1]
    /\ IF row[h] = Null
       THEN UNCHANGED slots
       ELSE /\ pc' = [pc EXCEPT ![w] = "ssh"]
            /\ on' = [on EXCEPT ![w] = h]
            /\ mem' = [mem EXCEPT ![w] = [status |-> row[h].status,
                                          verified |-> row[h].verified, outcome |-> Null]]
    /\ UNCHANGED <<tables, tick, machine, changes>>

\* runCheck: decrypt, connect, two commands (that a command returns is
\* assumed: only the connection has a timeout)
Connect(w) ==
    /\ Step(w, "ssh", "log")
    /\ \E o \in RunCheck(on[w], mem[w].verified) : mem' = [mem EXCEPT ![w].outcome = o]
    /\ UNCHANGED tables

\* The stored key cannot be decrypted: reported as a failed connection.
DecryptThrows(w) ==
    /\ Change
    /\ pc[w] = "ssh" /\ pc' = [pc EXCEPT ![w] = "log"]
    /\ mem' = [mem EXCEPT ![w].outcome = SshFailureOutcome("decrypt", mem[w].verified)]
    /\ UNCHANGED <<tables, on, queued, tick, machine>>

\* Variant: the entry is written after the status.
LogLater(w) ==
    /\ Step(w, "log", "save")
    /\ UNCHANGED <<tables, mem>>

\* healthCheckLogService.write, before the status is saved
WriteLog(w) ==
    /\ Step(w, "log", "save")
    /\ logged' = [logged EXCEPT ![on[w]] = @ \cup {mem[w].outcome}]
    /\ UNCHANGED <<row, removed, told, mem>>

\* hostRepository.save(host): every column takes the value of the copy, and a
\* row that is gone is inserted again
SaveHost(w) ==
    /\ Step(w, "save", "alert")
    /\ row' = [row EXCEPT ![on[w]] = [status |-> mem[w].outcome,
                    verified |-> mem[w].verified \/ mem[w].outcome \in Successful]]
    /\ UNCHANGED <<removed, logged, told, mem>>

\* evaluateTransition(previousStatus, newStatus): equal ones are a no-op
Announce(w) ==
    /\ Step(w, "alert", IF mem[w].outcome \in Successful THEN "sync" ELSE "done")
    /\ told' = IF mem[w].status = mem[w].outcome THEN told
               ELSE [told EXCEPT ![on[w]] = [from |-> mem[w].status, to |-> mem[w].outcome]]
    /\ UNCHANGED <<row, removed, logged, mem>>

\* servicesSyncService.sync, or nothing to sync; the job completes
Complete(w) ==
    /\ pc[w] \in {"sync", "done"} /\ Finish(w)
    /\ UNCHANGED <<tables, queued, tick, machine, changes>>

\* A database call of the check rejects: the job fails and is not retried.
DatabaseThrows(w) ==
    /\ Change
    /\ pc[w] \in {"log", "save", "sync"} /\ Finish(w)
    /\ UNCHANGED <<tables, queued, tick, machine>>

\* The process dies: running jobs are redelivered when they stall.
Crash ==
    /\ Change /\ \E w \in Workers : pc[w] # "idle"
    /\ pc' = [w \in Workers |-> "idle"] /\ on' = [w \in Workers |-> Null]
    /\ mem' = [w \in Workers |-> NoLocals]
    /\ queued' = OneMoreFor({on[w] : w \in Workers})
    /\ UNCHANGED <<tables, tick, machine>>

\* The bootstrap command is run, the key is removed, the network fails, ...
ChangeMachine(h) ==
    /\ Change
    /\ \E m \in Machines \ {machine[h]} : machine' = [machine EXCEPT ![h] = m]
    /\ UNCHANGED <<tables, queued, tick, slots>>

WorkerStep(w) ==
    \/ FanOut(w)
    \/ \E h \in Hosts : Take(w, h)
    \/ Connect(w) \/ DecryptThrows(w) \/ WriteLog(w) \/ SaveHost(w) \/ Announce(w)
    \/ Complete(w) \/ DatabaseThrows(w)

\* HostsController: what administrators ask for
Request(h) == CreateHost(h) \/ RemoveHost(h) \/ EnqueueCheck(h)

Next ==
    \/ \E h \in Hosts : Request(h) \/ ChangeMachine(h)
    \/ \E w \in Workers : WorkerStep(w)
    \/ Schedule
    \/ Crash

Spec == Init /\ [][Next]_vars

\* The scheduler keeps ticking, the queue is served in order, so every waiting
\* job is taken in the end, and a slot keeps working as long as something
\* answers it; users, machines and faults are under no obligation.
Fairness ==
    /\ WF_vars(Schedule)
    /\ SF_vars(\E w \in Workers : FanOut(w))
    /\ \A w \in Workers :
          WF_vars(Connect(w) \/ WriteLog(w) \/ SaveHost(w) \/ Announce(w) \/ Complete(w))
    /\ \A h \in Hosts : SF_vars(\E w \in Workers : Take(w, h))

FairSpec == Spec /\ Fairness

-----------------------------------------------------------------------------
(* Properties *)

\* Types of every variable.
TypeOK ==
    /\ row \in [Hosts -> Rows \cup {Null}]
    /\ removed \subseteq Hosts
    /\ logged \in [Hosts -> SUBSET HostStatus]
    /\ told \in [Hosts -> [from : HostStatus, to : HostStatus]]
    /\ queued \in [Hosts -> 0..MaxQueued] /\ tick \in BOOLEAN
    /\ pc \in [Workers -> {"idle", "ssh", "log", "save", "alert", "sync", "done"}]
    /\ on \in [Workers -> Hosts \cup {Null}]
    /\ mem \in [Workers -> [status : HostStatus, verified : BOOLEAN,
                            outcome : HostStatus \cup {Null}]]
    /\ machine \in [Hosts -> Machines] /\ changes \in 0..MaxChanges

\* The audit trail explains the table and the alerts: a status other than the
\* initial one was logged before it was saved, and both ends of the transition
\* announced last were, however checks of one host overlap (checkHost reads
\* previousStatus, connects, writes the log, saves and announces in that order).
StatusWasLogged ==
    \A h \in Hosts :
        /\ row[h] # Null => row[h].status \in logged[h] \cup {"pending_setup"}
        /\ {told[h].from, told[h].to} \subseteq logged[h] \cup {"pending_setup"}

\* setup_verified_at is only ever set by a connection that was accepted, and
\* survives in a row inserted again (SUCCESSFUL_CONNECTION_STATUSES).
VerifiedWasReached ==
    \A h \in Hosts : row[h] # Null /\ row[h].verified
                        => logged[h] \cap {"healthy", "degraded"} # {}

\* A host that is shown the setup instructions has never been verified, also
\* after two overlapping checks have overwritten each other (mapSshFailureToOutcome).
PendingMeansUnverified ==
    \A h \in Hosts : row[h] # Null /\ row[h].status = "pending_setup" => ~ row[h].verified

\* Once a machine accepts the key and answers for good, its host is verified
\* and stays so, whatever happened before (tick, fan-out and checkHost).
SetupCompletes ==
    \A h \in Hosts :
        <>[](row[h] # Null /\ machine[h] = "up") => <>[](row[h] # Null /\ row[h].verified)

\* setup_verified_at and pending_setup tell the truth about the setup of a host,
\* although overlapping checks each write their own copy of both.
SetupIsSound == TypeOK /\ VerifiedWasReached /\ PendingMeansUnverified
=============================================================================
