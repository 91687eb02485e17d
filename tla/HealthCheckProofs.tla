-------------------------- MODULE HealthCheckProofs --------------------------
(***************************************************************************)
(* Proofs about HealthCheck, for every set of hosts and of worker slots,   *)
(* every length of the queue and every number of faults.                   *)
(***************************************************************************)
EXTENDS HealthCheck, TLAPS

\* A slot that has read the row of a host.
Busy(w) == pc[w] # "idle"

\* What a slot holds of its host.  The copy it made of the row is as well
\* explained by the log as the row was, and stays so because the log only
\* grows; once the entry is written the outcome is explained as well.
CopyIsLogged(w) ==
    Busy(w) => /\ on[w] \in Hosts
               /\ mem[w].status \in logged[on[w]] \cup {"pending_setup"}
               /\ mem[w].verified => logged[on[w]] \cap Successful # {}

\* From its connection on, a slot has an outcome, and "pending_setup" is one
\* only when the copy of the row was not verified.
OutcomeFits(w) ==
    pc[w] \notin {"idle", "ssh"}
        => /\ mem[w].outcome \in HostStatus
           /\ mem[w].outcome = "pending_setup" => ~ mem[w].verified

OutcomeIsLogged(w) ==
    pc[w] \notin {"idle", "ssh", "log"} => mem[w].outcome \in logged[on[w]]

\* The inductive invariant: the properties speak of the tables alone, and what
\* a slot is about to write into them must be explained before it is written.
HealthInv ==
    /\ TypeOK /\ VerifiedWasReached /\ PendingMeansUnverified /\ StatusWasLogged
    /\ \A w \in Workers : CopyIsLogged(w) /\ OutcomeFits(w) /\ OutcomeIsLogged(w)

\* mapSshFailureToOutcome and mapCommandResultsToOutcome give a status, and
\* never send a verified host back to its setup.
LEMMA OutcomesAreStatuses ==
    ASSUME NEW h \in Hosts, machine[h] \in Machines, NEW verified \in BOOLEAN,
           NEW o \in RunCheck(h, verified)
    PROVE  o \in HostStatus /\ (o = "pending_setup" => ~ verified)
<1>1. CASE machine[h] = "down"
  BY <1>1 DEF RunCheck, HostStatus, SshFailureOutcome
<1>2. CASE machine[h] = "rejecting"
  BY <1>2 DEF RunCheck, HostStatus, SshFailureOutcome
<1>3. CASE machine[h] = "up"
  <2>1. o \in {CommandOutcome(u, d) : u \in {"ok", "failed"}, d \in {"ok", "missing", "failed"}}
    BY <1>3 DEF RunCheck
  <2>. QED BY <2>1 DEF HostStatus, CommandOutcome
<1>. QED BY <1>1, <1>2, <1>3 DEF Machines

LEMMA InitHealth == Init => HealthInv
<1>. SUFFICES ASSUME Init PROVE HealthInv
  OBVIOUS
<1>1. TypeOK
  <2>1. NoTransition \in [from : HostStatus, to : HostStatus]
    BY DEF NoTransition, HostStatus
  <2>2. NoLocals \in [status : HostStatus, verified : BOOLEAN, outcome : HostStatus \cup {Null}]
    BY DEF NoLocals, HostStatus
  <2>3. row \in [Hosts -> Rows \cup {Null}] /\ logged \in [Hosts -> SUBSET HostStatus]
    BY DEF Init
  <2>4. told \in [Hosts -> [from : HostStatus, to : HostStatus]]
    BY <2>1 DEF Init
  <2>5. mem \in [Workers -> [status : HostStatus, verified : BOOLEAN,
                             outcome : HostStatus \cup {Null}]]
    BY <2>2 DEF Init
  <2>6. queued \in [Hosts -> 0..MaxQueued] /\ machine \in [Hosts -> Machines]
    BY ConstantsAssumption DEF Init, Machines
  <2>7. /\ pc \in [Workers -> {"idle", "ssh", "log", "save", "alert", "sync", "done"}]
        /\ on \in [Workers -> Hosts \cup {Null}]
    BY DEF Init
  <2>8. tick \in BOOLEAN
    BY Zenon DEF Init
  <2>9. removed \subseteq Hosts /\ changes \in 0..MaxChanges
    BY ConstantsAssumption DEF Init
  <2>. QED BY <2>3, <2>4, <2>5, <2>6, <2>7, <2>8, <2>9 DEF TypeOK
<1>2. VerifiedWasReached /\ PendingMeansUnverified /\ StatusWasLogged
  BY DEF Init, VerifiedWasReached, PendingMeansUnverified, StatusWasLogged, NoTransition
<1>3. \A w \in Workers : CopyIsLogged(w) /\ OutcomeFits(w) /\ OutcomeIsLogged(w)
  BY DEF Init, CopyIsLogged, OutcomeFits, OutcomeIsLogged, Busy
<1>. QED BY <1>1, <1>2, <1>3 DEF HealthInv

-----------------------------------------------------------------------------
(* Types *)

LEMMA TypesStep ==
    ASSUME HealthInv, [Next]_vars
    PROVE  TypeOK'
<1>. USE ConstantsAssumption DEF TypeOK, tables, slots
<1>. TypeOK
  BY DEF HealthInv
<1>0. NoLocals \in [status : HostStatus, verified : BOOLEAN, outcome : HostStatus \cup {Null}]
  BY DEF NoLocals, HostStatus
<1>00. ASSUME NEW hs PROVE OneMoreFor(hs) \in [Hosts -> 0..MaxQueued]
  BY DEF OneMoreFor
<1>1. ASSUME NEW h \in Hosts, Request(h) PROVE TypeOK'
  <2>1. CASE CreateHost(h)
    BY <2>1 DEF CreateHost, Rows, HostStatus
  <2>2. CASE RemoveHost(h)
    BY <2>2 DEF RemoveHost
  <2>3. CASE EnqueueCheck(h)
    BY <2>3 DEF EnqueueCheck
  <2>. QED BY <1>1, <2>1, <2>2, <2>3 DEF Request
<1>2. ASSUME NEW h \in Hosts, ChangeMachine(h) PROVE TypeOK'
  BY <1>2 DEF ChangeMachine, Change
<1>3. ASSUME NEW w \in Workers, WorkerStep(w) PROVE TypeOK'
  <2>1. CASE FanOut(w)
    BY <1>00, <2>1 DEF FanOut
  <2>2. ASSUME NEW h \in Hosts, Take(w, h) PROVE TypeOK'
    <3>1. queued' \in [Hosts -> 0..MaxQueued]
      BY <2>2 DEF Take
    <3>2. CASE row[h] = Null
      BY <2>2, <3>1, <3>2 DEF Take
    <3>3. CASE row[h] # Null
      <4>1. row[h].status \in HostStatus /\ row[h].verified \in BOOLEAN
        BY <3>3 DEF Rows
      <4>2. mem' \in [Workers -> [status : HostStatus, verified : BOOLEAN,
                                 outcome : HostStatus \cup {Null}]]
        BY <2>2, <3>3, <4>1 DEF Take
      <4>3. pc' = [pc EXCEPT ![w] = "ssh"] /\ on' = [on EXCEPT ![w] = h]
        BY <2>2, <3>3 DEF Take
      <4>4. UNCHANGED <<row, removed, logged, told, tick, machine, changes>>
        BY <2>2 DEF Take
      <4>. QED BY <3>1, <4>2, <4>3, <4>4
    <3>. QED BY <3>2, <3>3
  <2>3. CASE Connect(w)
    <3>1. CopyIsLogged(w) /\ pc[w] = "ssh"
      BY <2>3 DEF HealthInv, Connect, Step
    <3>2. PICK o \in RunCheck(on[w], mem[w].verified) : mem' = [mem EXCEPT ![w].outcome = o]
      BY <2>3 DEF Connect
    <3>3. o \in HostStatus
      BY <3>1, <3>2, OutcomesAreStatuses DEF CopyIsLogged, Busy
    <3>. QED BY <2>3, <3>2, <3>3 DEF Connect, Step
  <2>4. CASE DecryptThrows(w)
    BY <2>4 DEF DecryptThrows, Change, SshFailureOutcome, HostStatus
  <2>5. CASE WriteLog(w)
    BY <2>5 DEF WriteLog, Step, HealthInv, OutcomeFits, CopyIsLogged, Busy
  <2>6. CASE SaveHost(w)
    BY <2>6 DEF SaveHost, Step, HealthInv, OutcomeFits, CopyIsLogged, Busy, Rows
  <2>7. CASE Announce(w)
    BY <2>7 DEF Announce, Step, HealthInv, OutcomeFits, CopyIsLogged, Busy
  <2>8. CASE Complete(w)
    BY <1>0, <2>8 DEF Complete, Finish
  <2>9. CASE DatabaseThrows(w)
    BY <1>0, <2>9 DEF DatabaseThrows, Finish, Change
  <2>. QED BY <1>3, <2>1, <2>2, <2>3, <2>4, <2>5, <2>6, <2>7, <2>8, <2>9 DEF WorkerStep
<1>4. CASE Schedule
  BY <1>4 DEF Schedule
<1>5. CASE Crash
  BY <1>0, <1>00, <1>5 DEF Crash, Change
<1>6. CASE UNCHANGED vars
  BY <1>6 DEF vars
<1>. QED BY <1>1, <1>2, <1>3, <1>4, <1>5, <1>6 DEF Next

-----------------------------------------------------------------------------
(* The log *)

\* Health check logs are only ever added: removing a host keeps its entries.
LEMMA LogGrows ==
    ASSUME HealthInv, [Next]_vars, NEW h \in Hosts
    PROVE  logged[h] \subseteq logged'[h]
<1>1. CASE \E w \in Workers : WriteLog(w)
  BY <1>1 DEF WriteLog, HealthInv, TypeOK
<1>2. CASE UNCHANGED logged
  BY <1>2
<1>. QED
  BY <1>1, <1>2
  DEF Next, vars, tables, Request, CreateHost, RemoveHost, EnqueueCheck, ChangeMachine, Schedule,
      Crash, WorkerStep, FanOut, Take, Connect, DecryptThrows, SaveHost, Announce, Complete,
      DatabaseThrows

\* What a step leaves of a slot's knowledge when it is none of the slot's own.
LEMMA SlotKept ==
    ASSUME HealthInv, [Next]_vars, NEW w \in Workers,
           pc'[w] = pc[w], on'[w] = on[w], mem'[w] = mem[w]
    PROVE  (CopyIsLogged(w) /\ OutcomeFits(w) /\ OutcomeIsLogged(w))'
<1>1. CopyIsLogged(w) /\ OutcomeFits(w) /\ OutcomeIsLogged(w)
  BY DEF HealthInv
<1>2. Busy(w) => logged[on[w]] \subseteq logged'[on[w]]
  BY <1>1, LogGrows DEF CopyIsLogged
<1>. QED BY <1>1, <1>2 DEF CopyIsLogged, OutcomeFits, OutcomeIsLogged, Busy, Successful

\* A slot that ended its job knows nothing.
LEMMA IdleSlot ==
    ASSUME NEW w \in Workers, pc'[w] = "idle"
    PROVE  (CopyIsLogged(w) /\ OutcomeFits(w) /\ OutcomeIsLogged(w))'
  BY DEF CopyIsLogged, OutcomeFits, OutcomeIsLogged, Busy

\* A slot's own step: each step of checkHost leaves the slot with what the
\* next one relies on.
LEMMA OwnStep ==
    ASSUME HealthInv, [Next]_vars, NEW w \in Workers, WorkerStep(w)
    PROVE  (CopyIsLogged(w) /\ OutcomeFits(w) /\ OutcomeIsLogged(w))'
<1>. USE DEF HealthInv, TypeOK
<1>1. CopyIsLogged(w) /\ OutcomeFits(w) /\ OutcomeIsLogged(w)
  OBVIOUS
<1>2. Busy(w) => logged[on[w]] \subseteq logged'[on[w]]
  BY <1>1, LogGrows DEF CopyIsLogged
<1>3. CASE FanOut(w)
  BY <1>3, SlotKept DEF FanOut, slots
<1>4. ASSUME NEW h \in Hosts, Take(w, h)
      PROVE  (CopyIsLogged(w) /\ OutcomeFits(w) /\ OutcomeIsLogged(w))'
  <2>1. CASE row[h] = Null
    BY <1>4, <2>1, SlotKept DEF Take, slots
  <2>2. CASE row[h] # Null
    BY <1>4, <2>2, ConstantsAssumption
    DEF Take, tables, Rows, CopyIsLogged, OutcomeFits, OutcomeIsLogged, Busy, StatusWasLogged,
        VerifiedWasReached, Successful
  <2>. QED BY <2>1, <2>2
<1>5. CASE Connect(w)
  <2>1. PICK o \in RunCheck(on[w], mem[w].verified) : mem' = [mem EXCEPT ![w].outcome = o]
    BY <1>5 DEF Connect
  <2>2. o \in HostStatus /\ (o = "pending_setup" => ~ mem[w].verified)
    BY <1>1, <1>5, OutcomesAreStatuses DEF CopyIsLogged, Busy, Connect, Step
  <2>. QED
    BY <1>1, <1>5, <2>1, <2>2
    DEF Connect, Step, tables, CopyIsLogged, OutcomeFits, OutcomeIsLogged, Busy
<1>6. CASE DecryptThrows(w)
  BY <1>1, <1>6
  DEF DecryptThrows, tables, SshFailureOutcome, HostStatus, CopyIsLogged, OutcomeFits,
      OutcomeIsLogged, Busy
<1>7. CASE WriteLog(w)
  BY <1>1, <1>2, <1>7
  DEF WriteLog, Step, CopyIsLogged, OutcomeFits, OutcomeIsLogged, Busy, Successful
<1>8. CASE SaveHost(w) \/ Announce(w)
  BY <1>1, <1>8
  DEF SaveHost, Announce, Step, CopyIsLogged, OutcomeFits, OutcomeIsLogged, Busy
<1>9. CASE Complete(w) \/ DatabaseThrows(w)
  BY <1>9, IdleSlot DEF Complete, DatabaseThrows, Finish
<1>. QED BY <1>3, <1>4, <1>5, <1>6, <1>7, <1>8, <1>9, WorkerStep(w) DEF WorkerStep

LEMMA SlotsStep ==
    ASSUME HealthInv, [Next]_vars, NEW v \in Workers
    PROVE  (CopyIsLogged(v) /\ OutcomeFits(v) /\ OutcomeIsLogged(v))'
<1>1. CASE UNCHANGED slots
  BY <1>1, SlotKept DEF slots
<1>2. CASE Crash
  BY <1>2, IdleSlot DEF Crash
<1>3. ASSUME NEW w \in Workers, WorkerStep(w), w # v
      PROVE  (CopyIsLogged(v) /\ OutcomeFits(v) /\ OutcomeIsLogged(v))'
  <2>1. pc'[v] = pc[v] /\ on'[v] = on[v] /\ mem'[v] = mem[v]
    BY <1>3
    DEF HealthInv, TypeOK, WorkerStep, FanOut, Take, Connect, DecryptThrows, WriteLog, SaveHost,
        Announce, Complete, DatabaseThrows, Step, Finish, slots
  <2>. QED BY <2>1, SlotKept
<1>. QED
  BY <1>1, <1>2, <1>3, OwnStep
  DEF Next, vars, slots, Request, CreateHost, RemoveHost, EnqueueCheck, ChangeMachine, Schedule

-----------------------------------------------------------------------------
(* The tables *)

\* A row is created in its setup, removed, or written by SaveHost.
LEMMA RowsStep ==
    ASSUME HealthInv, [Next]_vars
    PROVE  VerifiedWasReached' /\ PendingMeansUnverified'
           /\ \A h \in Hosts : row'[h] # Null
                    => row'[h].status \in logged'[h] \cup {"pending_setup"}
<1>. DEFINE Good(h) ==
        row[h] # Null => /\ row[h].status \in logged[h] \cup {"pending_setup"}
                         /\ row[h].verified => logged[h] \cap {"healthy", "degraded"} # {}
                         /\ row[h].status = "pending_setup" => ~ row[h].verified
<1>1. \A h \in Hosts : Good(h)
  BY DEF HealthInv, StatusWasLogged, VerifiedWasReached, PendingMeansUnverified
<1>2. ASSUME NEW h \in Hosts PROVE Good(h)'
  <2>. USE DEF HealthInv, TypeOK
  <2>1. logged[h] \subseteq logged'[h]
    BY LogGrows
  <2>2. CASE row'[h] = row[h] \/ row'[h] = Null
    BY <1>1, <2>1, <2>2
  <2>3. ASSUME NEW g \in Hosts, CreateHost(g) PROVE Good(h)'
    BY <1>1, <2>1, <2>3, <2>2 DEF CreateHost
  <2>4. ASSUME NEW g \in Hosts, RemoveHost(g) PROVE Good(h)'
    BY <2>2, <2>4 DEF RemoveHost
  <2>5. ASSUME NEW w \in Workers, SaveHost(w) PROVE Good(h)'
    <3>1. CopyIsLogged(w) /\ OutcomeFits(w) /\ OutcomeIsLogged(w) /\ pc[w] = "save"
      BY <2>5 DEF SaveHost, Step
    <3>2. CASE on[w] = h
      BY <2>1, <2>5, <3>1, <3>2
      DEF SaveHost, CopyIsLogged, OutcomeFits, OutcomeIsLogged, Busy, Successful, HostStatus
    <3>3. CASE on[w] # h
      BY <2>2, <2>5, <3>3 DEF SaveHost
    <3>. QED BY <3>2, <3>3
  <2>. QED
    BY <2>2, <2>3, <2>4, <2>5
    DEF Next, vars, tables, Request, EnqueueCheck, ChangeMachine, Schedule, Crash, WorkerStep,
        FanOut, Take, Connect, DecryptThrows, WriteLog, Announce, Complete, DatabaseThrows
<1>. QED BY <1>2 DEF VerifiedWasReached, PendingMeansUnverified

\* Only Announce tells the alerting of a transition, and both of its ends are
\* what the slot holds.
LEMMA ToldStep ==
    ASSUME HealthInv, [Next]_vars, NEW h \in Hosts
    PROVE  {told'[h].from, told'[h].to} \subseteq logged'[h] \cup {"pending_setup"}
<1>1. logged[h] \subseteq logged'[h]
  BY LogGrows
<1>2. {told[h].from, told[h].to} \subseteq logged[h] \cup {"pending_setup"}
  BY DEF HealthInv, StatusWasLogged
<1>3. CASE told'[h] = told[h]
  BY <1>1, <1>2, <1>3
<1>4. ASSUME NEW w \in Workers, Announce(w), told'[h] # told[h]
      PROVE  {told'[h].from, told'[h].to} \subseteq logged'[h] \cup {"pending_setup"}
  <2>1. CopyIsLogged(w) /\ OutcomeIsLogged(w) /\ pc[w] = "alert"
    BY <1>4 DEF Announce, Step, HealthInv
  <2>2. on[w] = h /\ told'[h] = [from |-> mem[w].status, to |-> mem[w].outcome]
    BY <1>4 DEF Announce, HealthInv, TypeOK
  <2>. QED BY <1>1, <2>1, <2>2 DEF CopyIsLogged, OutcomeIsLogged, Busy
<1>. QED
  BY <1>3, <1>4
  DEF Next, vars, tables, Request, CreateHost, RemoveHost, EnqueueCheck, ChangeMachine, Schedule,
      Crash, WorkerStep, FanOut, Take, Connect, DecryptThrows, WriteLog, SaveHost, Complete,
      DatabaseThrows

LEMMA HealthStep == HealthInv /\ [Next]_vars => HealthInv'
<1>. SUFFICES ASSUME HealthInv, [Next]_vars PROVE HealthInv'
  OBVIOUS
<1>1. StatusWasLogged'
  BY RowsStep, ToldStep DEF StatusWasLogged
<1>. QED BY <1>1, TypesStep, RowsStep, SlotsStep DEF HealthInv

LEMMA HealthHolds == Spec => []HealthInv
  BY InitHealth, HealthStep, PTL DEF Spec

-----------------------------------------------------------------------------
(* Theorems *)

\* Whatever checks of one host overlap, machines do and faults strike, a
\* verified host was reached once and one that shows the setup instructions
\* never was (hosts.setup_verified_at, checkHost).
THEOREM SetupSound == Spec => []SetupIsSound
<1>1. HealthInv => SetupIsSound
  BY DEF HealthInv, SetupIsSound
<1>. QED BY <1>1, HealthHolds, PTL

\* checkHost logs before it saves and announces, so that the audit trail
\* explains every status and every announced transition.
THEOREM StatusesLogged == Spec => []StatusWasLogged
<1>1. HealthInv => StatusWasLogged
  BY DEF HealthInv
<1>. QED BY <1>1, HealthHolds, PTL
=============================================================================
