---------------------------- MODULE DomainCheck ----------------------------
(***************************************************************************)
(* Domains and their checks: domains.service.ts registers a domain with    *)
(* its certificate row and first check, and limits "check now" to one per  *)
(* window; DomainCheckProcessor.checkDomain asks DNS and WHOIS, saves the  *)
(* domain, then looks at the certificate, saves it and announces a changed *)
(* status.  A call of the database, of Redis or of the network is one step *)
(* (with the log entry that follows it).                                   *)
(***************************************************************************)
EXTENDS Integers, FiniteSets

CONSTANTS
    Domains,        \* ids of domain rows; an id is used once
    Hostnames, HostnameOf,      \* the hostname of each id
    MaxRequests,    \* bound: requests that run at the same time
    Workers,        \* worker slots of the domain-check queue
    SSL_EXPIRY_WARNING_DAYS,
    MaxQueued,      \* bound: waiting jobs of one domain
    MaxChanges,     \* bound: changes of the network, days that pass, removals and
                    \* failures, for each number of requests that run at the same time
    Null

\* the request handlers of the API
Handlers == 1..MaxRequests

DomainDnsStatus == {"unknown", "resolving", "not_resolving"}
SslCertificateStatus == {"unknown", "valid", "expiring_soon", "expired", "invalid"}
DomainRows == [dns : DomainDnsStatus, host : BOOLEAN]

ASSUME ConstantsAssumption ==
    /\ HostnameOf \in [Domains -> Hostnames] /\ MaxChanges \in [Handlers -> Nat]
    /\ SSL_EXPIRY_WARNING_DAYS \in Nat /\ MaxQueued \in Nat \ {0}
    /\ MaxRequests \in Nat
    /\ Null \notin Domains \cup DomainRows \cup SslCertificateStatus

VARIABLES
    domain, cert,   \* the rows of each id, or Null
    hosted,         \* does the host that domains may belong to still exist
    removed,        \* domains whose DELETE was answered
    armed,          \* domains whose cooldown key is set in Redis
    manual,         \* checks "check now" enqueued in the current window, up to 2
    told,           \* the status of the certificate as last announced
    queued, tick,   \* waiting check-domain jobs, and whether a tick job waits
    hpc, hon, hmem, \* each handler: step, domain, does the new domain name the host
    pc, on, mem,    \* each slot: step, domain, its copies and results
    resolves, peer, \* per hostname: has it an address, what does port 443 present
    overlap,        \* requests that run at the same time (fixed)
    changes

tables == <<domain, cert, hosted, removed>>
requests == <<hpc, hon, hmem>>
slots == <<pc, on, mem>>
net == <<resolves, peer, overlap, changes>>
vars == <<tables, armed, manual, told, queued, tick, requests, slots, net>>

NewDomain(host) == [dns |-> "unknown", host |-> host]
NoLocals == [row |-> NewDomain(FALSE), dns |-> "unknown", ssl |-> "unknown",
             dated |-> TRUE, previous |-> "unknown"]

\* A certificate with days left, one whose date cannot be read or is absent, or
\* no handshake.  More days than the last one that warns count as one more.
DaysLeft == -1 .. (SSL_EXPIRY_WARNING_DAYS + 1)
Peers == [kind : {"dated"}, days : DaysLeft]
            \cup [kind : {"unreadable", "undated", "refused"}, days : {0}]

-----------------------------------------------------------------------------
(* Pure results *)

\* Variant: the comparison with now is not strict.
ExpiredToday(days) ==
    IF days <= 0 THEN "expired"
    ELSE IF days <= SSL_EXPIRY_WARNING_DAYS THEN "expiring_soon" ELSE "valid"

\* computeSslStatusFromValidTo
SslStatusFromValidTo(days) ==
    IF days < 0 THEN "expired"
    ELSE IF days <= SSL_EXPIRY_WARNING_DAYS THEN "expiring_soon" ELSE "valid"

\* performTlsCheck: a date that cannot be read is NaN, which no comparison holds of
TlsStatus(p) ==
    CASE p.kind = "dated" -> SslStatusFromValidTo(p.days)
      [] p.kind = "unreadable" -> "valid"
      [] OTHER -> "invalid"

-----------------------------------------------------------------------------
(* Requests *)

Init ==
    /\ domain = [d \in Domains |-> Null] /\ cert = [d \in Domains |-> Null]
    /\ hosted = TRUE /\ removed = {} /\ armed = {}
    /\ manual = [d \in Domains |-> 0] /\ told = [d \in Domains |-> "unknown"]
    /\ queued = [d \in Domains |-> 0] /\ tick = FALSE
    /\ hpc = [h \in Handlers |-> "idle"] /\ hon = [h \in Handlers |-> Null]
    /\ hmem = [h \in Handlers |-> FALSE]
    /\ pc = [w \in Workers |-> "idle"] /\ on = [w \in Workers |-> Null]
    /\ mem = [w \in Workers |-> NoLocals]
    /\ resolves = [n \in Hostnames |-> TRUE]
    /\ overlap \in Handlers /\ changes = 0
    /\ peer = [n \in Hostnames |-> [kind |-> "dated", days |-> SSL_EXPIRY_WARNING_DAYS + 1]]

\* The network changes, rows are removed, and calls fail, now and then.
Change == changes < MaxChanges[overlap] /\ changes' = changes + 1

HGoto(h, step) == hpc' = [hpc EXCEPT ![h] = step] /\ UNCHANGED <<hon, hmem>>
Answer(h) == /\ hpc' = [hpc EXCEPT ![h] = "idle"] /\ hon' = [hon EXCEPT ![h] = Null]
             /\ hmem' = [hmem EXCEPT ![h] = FALSE]
Begin(h, d, step, m) == /\ h <= overlap /\ hpc[h] = "idle" /\ hpc' = [hpc EXCEPT ![h] = step]
                        /\ hon' = [hon EXCEPT ![h] = d] /\ hmem' = [hmem EXCEPT ![h] = m]
Unused == {d \in Domains : domain[d] = Null /\ d \notin removed /\ \A h \in Handlers : hon[h] # d}
NewDomainId == CHOOSE d \in Unused : TRUE
SameName(d) == {e \in Domains \ {d} : domain[e] # Null /\ HostnameOf[e] = HostnameOf[d]}

\* create: the host and the hostname are looked up first
StartCreate(h, d) ==
    /\ Unused # {} /\ d = NewDomainId /\ SameName(d) = {}
    /\ \E withHost \in {FALSE, hosted} : Begin(h, d, "domain", withHost)
    /\ UNCHANGED <<tables, armed, manual, told, queued, tick, slots, net>>

\* Variant: without the unique index on organization and hostname.
NameTaken0(d) == {}

\* IDX_domains_org_id_hostname
NameTaken(d) == SameName(d)

\* an insert that a constraint rejects is a 500, and nothing was written
InsertDomain(h) ==
    /\ hpc[h] = "domain"
    /\ IF NameTaken(hon[h]) # {} \/ (hmem[h] /\ ~ hosted)
       THEN Answer(h) /\ UNCHANGED domain
       ELSE HGoto(h, "cert") /\ domain' = [domain EXCEPT ![hon[h]] = NewDomain(hmem[h])]
    /\ UNCHANGED <<cert, hosted, removed, armed, manual, told, queued, tick, slots, net>>

InsertCert(h) ==
    /\ hpc[h] = "cert"
    /\ IF domain[hon[h]] = Null THEN Answer(h) /\ UNCHANGED cert
       ELSE HGoto(h, "enqueue") /\ cert' = [cert EXCEPT ![hon[h]] = "unknown"]
    /\ UNCHANGED <<domain, hosted, removed, armed, manual, told, queued, tick, slots, net>>

\* Variant: SET without NX.
AcquireAnyway(d) == TRUE

\* RateLimiterService.tryAcquire: SET key 1 EX window NX
TryAcquire(d) == d \notin armed

\* enqueueCheck: the domain is looked up, then the cooldown is acquired
StartCheck(h, d) ==
    /\ domain[d] # Null /\ Begin(h, d, "acquire", FALSE)
    /\ UNCHANGED <<tables, armed, manual, told, queued, tick, slots, net>>

Acquire(h) ==
    /\ hpc[h] = "acquire" /\ armed' = armed \cup {hon[h]}
    /\ IF TryAcquire(hon[h]) THEN HGoto(h, "enqueue_check") ELSE Answer(h)
    /\ UNCHANGED <<tables, manual, told, queued, tick, slots, net>>

\* enqueueJob, of both requests
Enqueue(h) ==
    /\ hpc[h] \in {"enqueue", "enqueue_check"} /\ queued[hon[h]] < MaxQueued /\ Answer(h)
    /\ queued' = [queued EXCEPT ![hon[h]] = @ + 1]
    /\ manual' = IF hpc[h] = "enqueue" \/ manual[hon[h]] = 2 THEN manual
                 ELSE [manual EXCEPT ![hon[h]] = @ + 1]
    /\ UNCHANGED <<tables, armed, told, tick, slots, net>>

\* A call of the database or of Redis rejects: a 500, and no later step is run.
RequestThrows(h) ==
    /\ hpc[h] # "idle" /\ Change /\ Answer(h)
    /\ UNCHANGED <<tables, armed, manual, told, queued, tick, slots, resolves, peer, overlap>>

\* The key expires; a request adds its job well within the window.
WindowEnds(d) ==
    /\ d \in armed /\ \A h \in Handlers : ~ (hon[h] = d /\ hpc[h] = "enqueue_check")
    /\ armed' = armed \ {d} /\ manual' = [manual EXCEPT ![d] = 0]
    /\ UNCHANGED <<tables, told, queued, tick, requests, slots, net>>

\* remove; the certificate row goes with it
RemoveDomain(d) ==
    /\ Change /\ domain[d] # Null /\ d \notin removed
    /\ domain' = [domain EXCEPT ![d] = Null] /\ cert' = [cert EXCEPT ![d] = Null]
    /\ removed' = removed \cup {d}
    /\ UNCHANGED <<hosted, armed, manual, told, queued, tick, requests, slots, resolves, peer, overlap>>

\* The host is removed: its domains stay without one (ON DELETE SET NULL).
RemoveHost ==
    /\ Change /\ hosted /\ hosted' = FALSE
    /\ domain' = [d \in Domains |-> IF domain[d] = Null THEN Null
                                    ELSE [domain[d] EXCEPT !.host = FALSE]]
    /\ UNCHANGED <<cert, removed, armed, manual, told, queued, tick, requests, slots, resolves, peer, overlap>>

-----------------------------------------------------------------------------
(* The queue and checkDomain *)

Schedule ==
    /\ ~ tick /\ tick' = TRUE
    /\ UNCHANGED <<tables, armed, manual, told, queued, requests, slots, net>>

\* enqueueCheckForAllDomains
FanOut(w) ==
    /\ tick /\ pc[w] = "idle" /\ tick' = FALSE
    /\ queued' = [d \in Domains |-> IF domain[d] # Null /\ queued[d] < MaxQueued
                                    THEN queued[d] + 1 ELSE queued[d]]
    /\ UNCHANGED <<tables, armed, manual, told, requests, slots, net>>

Passed(w, from, to) == /\ pc[w] = from /\ pc' = [pc EXCEPT ![w] = to]
                       /\ UNCHANGED <<armed, manual, queued, tick, requests, on, resolves, peer, overlap>>
Step(w, from, to) == Passed(w, from, to) /\ UNCHANGED changes

Finish(w) == /\ pc' = [pc EXCEPT ![w] = "idle"] /\ on' = [on EXCEPT ![w] = Null]
             /\ mem' = [mem EXCEPT ![w] = NoLocals]

End(w, from) == /\ pc[w] \in from /\ Finish(w)
                /\ UNCHANGED <<armed, manual, queued, tick, requests, resolves, peer, overlap>>

Take(w, d) ==
    /\ pc[w] = "idle" /\ queued[d] > 0 /\ queued' = [queued EXCEPT ![d] = @ - 1]
    /\ IF domain[d] = Null THEN UNCHANGED slots
       ELSE /\ pc' = [pc EXCEPT ![w] = "dns"] /\ on' = [on EXCEPT ![w] = d]
            /\ mem' = [mem EXCEPT ![w] = [NoLocals EXCEPT !.row = domain[d]]]
    /\ UNCHANGED <<tables, armed, manual, told, tick, requests, net>>

NameOn(w) == HostnameOf[on[w]]
\* an answer that comes late is a failure
Answered(late) == IF late THEN Change ELSE UNCHANGED changes

\* performDnsCheck: no answer in time is no address
Dns(w) ==
    /\ Passed(w, "dns", "whois") /\ UNCHANGED <<tables, told>>
    /\ \E late \in BOOLEAN : Answered(late) /\ mem' = [mem EXCEPT ![w].dns =
            IF resolves[NameOn(w)] /\ ~ late THEN "resolving" ELSE "not_resolving"]

\* performWhoisLookup, with a timeout: it only fills registrar and expiry date
Whois(w) == Step(w, "whois", "save") /\ UNCHANGED <<tables, told, mem>>

Rejected(w) == (mem[w].row.host /\ ~ hosted) \/ (domain[on[w]] = Null /\ NameTaken(on[w]) # {})

\* domainRepository.save(domain): the whole copy, inserted again if it is gone
SaveDomain(w) ==
    /\ Step(w, "save", IF mem[w].dns = "resolving" THEN "tls" ELSE "skip") /\ ~ Rejected(w)
    /\ domain' = [domain EXCEPT ![on[w]] = [mem[w].row EXCEPT !.dns = mem[w].dns]]
    /\ UNCHANGED <<cert, hosted, removed, told, mem>>

\* the host the copy names, or the hostname, violates a constraint: job fails
SaveDomainRejected(w) == End(w, {"save"}) /\ Rejected(w) /\ UNCHANGED <<tables, told, changes>>

\* performTlsCheck, with a timeout
Tls(w) ==
    /\ Passed(w, "tls", "cert") /\ UNCHANGED <<tables, told>>
    /\ \E late \in BOOLEAN : Answered(late) /\ mem' =
          [mem EXCEPT ![w].ssl = IF late THEN "invalid" ELSE TlsStatus(peer[NameOn(w)]),
                      ![w].dated = peer[NameOn(w)].kind # "unreadable"]

\* the log entry is written, then the row is read
FindCert(w) ==
    /\ Step(w, "cert", "save_cert") /\ cert[on[w]] # Null
    /\ mem' = [mem EXCEPT ![w].previous = cert[on[w]]]
    /\ UNCHANGED <<tables, told>>

\* no row: the result is dropped; DNS without an address: only "skipped" is logged
NothingToSave(w) ==
    /\ pc[w] = "skip" \/ (pc[w] = "cert" /\ cert[on[w]] = Null)
    /\ End(w, {"skip", "cert"}) /\ UNCHANGED <<tables, told, changes>>

\* a date that cannot be read is no valid column value, and neither is a
\* certificate without a domain: the save rejects, the job fails
SaveCertRejected(w) ==
    /\ End(w, {"save_cert"}) /\ UNCHANGED <<tables, told, changes>>
    /\ ~ mem[w].dated \/ domain[on[w]] = Null

SaveCert(w) ==
    /\ Step(w, "save_cert", "alert") /\ mem[w].dated /\ domain[on[w]] # Null
    /\ cert' = [cert EXCEPT ![on[w]] = mem[w].ssl]
    /\ UNCHANGED <<domain, hosted, removed, told, mem>>

\* Variant: alerts are sent for bad news only.
AnnounceProblems(w) ==
    /\ End(w, {"alert"}) /\ UNCHANGED <<tables, changes>>
    /\ told' = IF mem[w].ssl = "valid" THEN told ELSE [told EXCEPT ![on[w]] = mem[w].ssl]

\* evaluateTransition, a no-op for an unchanged status
Announce(w) ==
    /\ End(w, {"alert"}) /\ UNCHANGED <<tables, changes>>
    /\ told' = IF mem[w].previous = mem[w].ssl THEN told
               ELSE [told EXCEPT ![on[w]] = mem[w].ssl]

\* A log entry or a row cannot be written: the job fails and is not retried.
DatabaseThrows(w) ==
    /\ Change /\ End(w, {"dns", "whois", "save", "cert", "skip", "save_cert"})
    /\ UNCHANGED <<tables, told>>

\* Names come and go, certificates are renewed, broken or run out.
ChangeNet(n) ==
    /\ Change
    /\ \/ resolves' = [resolves EXCEPT ![n] = ~ @] /\ UNCHANGED peer
       \/ /\ \E p \in Peers : p # peer[n] /\ peer' = [peer EXCEPT ![n] = p]
          /\ UNCHANGED resolves
    /\ UNCHANGED <<tables, armed, manual, told, queued, tick, requests, slots, overlap>>

-----------------------------------------------------------------------------
RequestStep(h) == InsertDomain(h) \/ InsertCert(h) \/ Acquire(h) \/ Enqueue(h)

\* DomainsController
Ask == \/ \E h \in Handlers, d \in Domains : StartCreate(h, d) \/ StartCheck(h, d)
       \/ \E d \in Domains : RemoveDomain(d)

CheckStep(w) ==
    \/ Dns(w) \/ Whois(w) \/ SaveDomain(w) \/ SaveDomainRejected(w) \/ NothingToSave(w)
    \/ Tls(w) \/ FindCert(w) \/ SaveCert(w) \/ SaveCertRejected(w) \/ Announce(w)

Next ==
    \/ Ask \/ RemoveHost \/ Schedule
    \/ \E h \in Handlers : RequestStep(h) \/ RequestThrows(h)
    \/ \E w \in Workers : FanOut(w) \/ CheckStep(w) \/ DatabaseThrows(w)
                            \/ \E d \in Domains : Take(w, d)
    \/ \E d \in Domains : WindowEnds(d)
    \/ \E n \in Hostnames : ChangeNet(n)

Spec == Init /\ [][Next]_vars

\* Ticks keep coming, waiting jobs are taken in the end and a check goes on by
\* itself: each of its outbound calls has a timeout.
Fairness ==
    /\ WF_vars(Schedule) /\ SF_vars(\E w \in Workers : FanOut(w))
    /\ \A w \in Workers : WF_vars(CheckStep(w))
    /\ \A d \in Domains : SF_vars(\E w \in Workers : Take(w, d))

FairSpec == Spec /\ Fairness

-----------------------------------------------------------------------------
(* Properties *)

\* Types of every variable.
TypeOK ==
    /\ domain \in [Domains -> DomainRows \cup {Null}]
    /\ cert \in [Domains -> SslCertificateStatus \cup {Null}]
    /\ hosted \in BOOLEAN /\ removed \subseteq Domains /\ armed \subseteq Domains
    /\ manual \in [Domains -> 0..2] /\ told \in [Domains -> SslCertificateStatus]
    /\ queued \in [Domains -> 0..MaxQueued] /\ tick \in BOOLEAN
    /\ hpc \in [Handlers -> {"idle", "domain", "cert", "enqueue", "acquire", "enqueue_check"}]
    /\ hon \in [Handlers -> Domains \cup {Null}] /\ hmem \in [Handlers -> BOOLEAN]
    /\ pc \in [Workers -> {"idle", "dns", "whois", "save", "skip", "tls", "cert",
                           "save_cert", "alert"}]
    /\ on \in [Workers -> Domains \cup {Null}]
    /\ mem \in [Workers -> [row : DomainRows, dns : DomainDnsStatus, ssl : SslCertificateStatus,
                            dated : BOOLEAN, previous : SslCertificateStatus]]
    /\ resolves \in [Hostnames -> BOOLEAN] /\ peer \in [Hostnames -> Peers]
    /\ overlap \in Handlers /\ changes \in 0..MaxChanges[overlap]

\* A hostname has one row, however requests overlap and whatever a check
\* inserts again (create looks the name up before the insert).
OneRowPerHostname == \A d \in Domains : domain[d] # Null => SameName(d) = {}

\* "one-to-one": as long as no call fails and nothing is removed, a domain whose
\* registration is over has its certificate row, without which its page is a
\* 404 (create writes the two one after the other).
EveryDomainHasCert ==
    changes = 0 => \A d \in Domains : domain[d] # Null /\ cert[d] = Null
                        => \E h \in Handlers : hon[h] = d /\ hpc[h] = "cert"

\* "max once/minute": a window holds one triggered check (tryAcquire).
OneManualCheckPerWindow == \A d \in Domains : manual[d] <= 1

\* No two slots check one domain.  The queue does not see to it: with several
\* slots a check that lasts into the next tick, or is asked for, overlaps.
ChecksApart == \A v, w \in Workers : on[v] # Null /\ on[v] = on[w] => v = w

\* Between checks the table says what was last announced: no certificate
\* changes its status in silence (checkTls saves, then evaluates), for as long
\* as the checks of a domain do not overlap.  Of two that do, either may have
\* the last word.
AnnouncedIsCurrent ==
    []ChecksApart =>
        []((\A w \in Workers : pc[w] = "idle") => \A d \in Domains : cert[d] # Null => told[d] = cert[d])

\* When nobody removes anything and the network holds still, rows come to say
\* what it presents: a certificate that runs out is reported without a request.
\* Expiry is strict: a certificate has not expired on its last day.
ChecksConverge ==
    \A d \in Domains :
        (/\ <>[](domain[d] # Null /\ cert[d] # Null /\ peer[HostnameOf[d]].kind # "unreadable")
         /\ <>[](resolves[HostnameOf[d]]))
            => <>[](/\ domain[d] # Null /\ domain[d].dns = "resolving"
                    /\ LET p == peer[HostnameOf[d]]
                       IN cert[d] = "expired" <=> p.kind = "dated" /\ p.days < 0)

\* A hostname has one row and, as long as nothing fails, one certificate row.
RowsAreSound == TypeOK /\ OneRowPerHostname /\ EveryDomainHasCert
=============================================================================
