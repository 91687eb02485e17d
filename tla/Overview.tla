------------------------------ MODULE Overview ------------------------------
(***************************************************************************)
(* The dashboard: what GET /overview counts, and the overview page, which  *)
(* polls that and the lists of hosts, domains and (host by host) services. *)
(* Every query is answered from tables that checks, registrations and      *)
(* removals change meanwhile; a query of two SELECTs sees two states.  A   *)
(* failed poll leaves an error in place of the list until one succeeds.    *)
(***************************************************************************)
EXTENDS Naturals, FiniteSets, FiniteSetsExt

CONSTANTS
    Hosts, Domains,
    HostStatuses, ServiceStatuses, DnsStatuses, CertStatuses,  \* the values that occur
    MaxChanges,     \* bound: changes of the tables and failed polls
    Missing

HostStatus == {"healthy", "degraded", "unreachable", "unknown", "pending_setup"}
ServiceStatus == {"running", "unhealthy", "stopped", "crash_loop", "unknown"}
DomainDnsStatus == {"resolving", "not_resolving", "unknown"}
SslCertificateStatus == {"valid", "expiring_soon", "expired", "invalid", "unknown"}

ASSUME OverviewAssumption ==
    /\ HostStatuses \subseteq HostStatus /\ ServiceStatuses \subseteq ServiceStatus
    /\ DnsStatuses \subseteq DomainDnsStatus /\ CertStatuses \subseteq SslCertificateStatus
    /\ Missing \notin Hosts \cup Domains \cup HostStatus \cup ServiceStatus
    /\ Missing \notin DomainDnsStatus \cup SslCertificateStatus
    /\ IsFiniteSet(Hosts) /\ IsFiniteSet(Domains) /\ MaxChanges \in Nat

VARIABLES
    host,           \* status of each host, Missing before it is added, "gone" after
    service,        \* status of the host's container, Missing for none
    dns, cert,      \* status of each domain, and of its certificate row or Missing
    changes,
    parts,          \* the four counts of GET /overview, Missing while they are read
    listing,        \* GET /domains after its first SELECT: the domains, or Missing
    overview,       \* what the page last got: the counts,
    listed,         \*   the hosts with their status,
    serviceRows,           \*   the services of each host, "error" if its query failed,
    domains         \*   the domains with both statuses

tables == <<host, service, dns, cert>>
handlers == <<parts, listing>>
page == <<overview, listed, serviceRows, domains>>
overviewVars == <<tables, changes, handlers, page>>

Present(table) == {x \in DOMAIN table : table[x] \notin {Missing, "gone"}}
Pending == [part \in {"hosts", "services", "domains", "certs"} |-> Missing]
NoRows == [h \in Hosts |-> Missing]

OverviewInit ==
    /\ host = [h \in Hosts |-> Missing] /\ service = [h \in Hosts |-> Missing]
    /\ dns = [d \in Domains |-> Missing] /\ cert = [d \in Domains |-> Missing] /\ changes = 0
    /\ parts = Pending /\ listing = Missing
    /\ overview = Missing /\ listed = Missing /\ serviceRows = NoRows /\ domains = Missing

-----------------------------------------------------------------------------
(* What the other components do to the tables *)

Change == changes < MaxChanges /\ changes' = changes + 1 /\ UNCHANGED <<handlers, page>>

SaveHost(h, status) ==
    /\ Change /\ host[h] \notin {status, "gone"}
    /\ host' = [host EXCEPT ![h] = status] /\ UNCHANGED <<service, dns, cert>>

\* The services go with their host; its domains stay.
RemoveHost(h) ==
    /\ Change /\ h \in Present(host)
    /\ host' = [host EXCEPT ![h] = "gone"] /\ service' = [service EXCEPT ![h] = Missing]
    /\ UNCHANGED <<dns, cert>>

SaveService(h, status) ==
    /\ Change /\ h \in Present(host) /\ service[h] # status
    /\ service' = [service EXCEPT ![h] = status] /\ UNCHANGED <<host, dns, cert>>

SaveDomain(d, status) ==
    /\ Change /\ dns[d] \notin {status, "gone"}
    /\ dns' = [dns EXCEPT ![d] = status] /\ UNCHANGED <<host, service, cert>>

SaveCertificate(d, status) ==
    /\ Change /\ d \in Present(dns) /\ cert[d] # status
    /\ cert' = [cert EXCEPT ![d] = status] /\ UNCHANGED <<host, service, dns>>

\* The certificate goes with its domain.
RemoveDomain(d) ==
    /\ Change /\ d \in Present(dns)
    /\ dns' = [dns EXCEPT ![d] = "gone"] /\ cert' = [cert EXCEPT ![d] = Missing]
    /\ UNCHANGED <<host, service>>

TableStep ==
    \/ \E h \in Hosts : \/ \E status \in HostStatuses : SaveHost(h, status)
                        \/ \E status \in ServiceStatuses : SaveService(h, status)
                        \/ RemoveHost(h)
    \/ \E d \in Domains : \/ \E status \in DnsStatuses : SaveDomain(d, status)
                          \/ \E status \in CertStatuses : SaveCertificate(d, status)
                          \/ RemoveDomain(d)

-----------------------------------------------------------------------------
(* GET /overview *)

\* How many rows have each status.
Count(table, statuses) ==
    [status \in statuses |-> Cardinality({x \in DOMAIN table : table[x] = status})]

HostCounts == [total |-> Cardinality(Present(host)), by |-> Count(host, HostStatus)]
ServiceCounts == [total |-> Cardinality(Present(service)), by |-> Count(service, ServiceStatus)]

\* Promise.all starts the four; any of them may read first.
ReadPart(part, value) ==
    /\ parts[part] = Missing /\ parts' = [parts EXCEPT ![part] = value]
    /\ UNCHANGED <<tables, changes, listing, page>>

\* The domains are read first, and then the certificates of these.
CountedDomains ==
    [ids |-> Present(dns), unresolved |-> Cardinality({d \in Domains : dns[d] = "not_resolving"})]

\* Variant: the certificates of all domains there are by then.
CertsOfAll(ids) == Count(cert, SslCertificateStatus)

CertsOf(ids) == Count([d \in ids |-> cert[d]], SslCertificateStatus)

OverviewReads ==
    \/ ReadPart("hosts", HostCounts) \/ ReadPart("services", ServiceCounts)
    \/ ReadPart("domains", CountedDomains)
    \/ parts["domains"] # Missing /\ ReadPart("certs", CertsOf(parts["domains"].ids))

Answer ==
    [hosts |-> parts["hosts"], services |-> parts["services"], certs |-> parts["certs"],
     total |-> Cardinality(parts["domains"].ids), unresolved |-> parts["domains"].unresolved]

OverviewAnswered ==
    /\ \A part \in DOMAIN parts : parts[part] # Missing
    /\ overview' = Answer /\ parts' = Pending
    /\ UNCHANGED <<tables, changes, listing, listed, serviceRows, domains>>

-----------------------------------------------------------------------------
(* The lists *)

ListHosts ==
    /\ listed' = [h \in Present(host) |-> host[h]]
    /\ UNCHANGED <<tables, changes, handlers, overview, serviceRows, domains>>

\* useAllServices: one query for each host of the list; 404 for one that is gone.
HostServices(h) == IF h \in Present(host) THEN service[h] ELSE "error"

\* Variant: a query that failed is not made again.
ListServicesOnce(h) ==
    /\ listed # Missing /\ h \in DOMAIN listed /\ serviceRows[h] # "error"
    /\ serviceRows' = [serviceRows EXCEPT ![h] = HostServices(h)]
    /\ UNCHANGED <<tables, changes, handlers, overview, listed, domains>>

ListServices(h) ==
    /\ listed # Missing /\ h \in DOMAIN listed
    /\ serviceRows' = [serviceRows EXCEPT ![h] = HostServices(h)]
    /\ UNCHANGED <<tables, changes, handlers, overview, listed, domains>>

FindDomains ==
    /\ listing = Missing /\ listing' = [d \in Present(dns) |-> dns[d]]
    /\ UNCHANGED <<tables, changes, parts, page>>

SslStatus(d) == IF cert[d] = Missing THEN "unknown" ELSE cert[d]

DomainsAnswered ==
    /\ listing # Missing /\ listing' = Missing
    /\ domains' = [d \in DOMAIN listing |-> [dns |-> listing[d], ssl |-> SslStatus(d)]]
    /\ UNCHANGED <<tables, changes, parts, overview, listed, serviceRows>>

\* A call fails although its host is there.
PollFails(h) ==
    /\ changes < MaxChanges /\ changes' = changes + 1
    /\ listed # Missing /\ h \in DOMAIN listed /\ serviceRows' = [serviceRows EXCEPT ![h] = "error"]
    /\ UNCHANGED <<tables, handlers, overview, listed, domains>>

-----------------------------------------------------------------------------
OverviewNext ==
    \/ TableStep
    \/ OverviewReads \/ OverviewAnswered
    \/ ListHosts \/ FindDomains \/ DomainsAnswered
    \/ \E h \in Hosts : ListServices(h) \/ PollFails(h)

OverviewSpec == OverviewInit /\ [][OverviewNext]_overviewVars

\* Every query of the page is repeated each 30 s.
OverviewFairSpec ==
    /\ OverviewSpec /\ WF_overviewVars(OverviewReads) /\ WF_overviewVars(OverviewAnswered)
    /\ WF_overviewVars(ListHosts)
    /\ WF_overviewVars(FindDomains) /\ WF_overviewVars(DomainsAnswered)
    /\ \A h \in Hosts : WF_overviewVars(ListServices(h))

-----------------------------------------------------------------------------
(* OverviewPage *)

Total(counts) == MapThenSumSet(LAMBDA status : counts[status], DOMAIN counts)

HostSegments == overview.hosts.by
ServiceSegments == overview.services.by

\* The certificates that are neither of the four known kinds, never below 0.
UnknownCertificates ==
    LET known == Total([status \in SslCertificateStatus \ {"unknown"} |-> overview.certs[status]])
    IN IF known > overview.total THEN 0 ELSE overview.total - known

SslSegments == [overview.certs EXCEPT !["unknown"] = UnknownCertificates]

AttentionIsBounded ==
    /\ overview.hosts.by["degraded"] + overview.hosts.by["unreachable"] =< overview.hosts.total
    /\ overview.services.by["unhealthy"] + overview.services.by["crash_loop"] =< overview.services.total
    /\ overview.certs["expired"] + overview.certs["invalid"] =< overview.total
    /\ overview.unresolved =< overview.total

-----------------------------------------------------------------------------
(* Properties *)

RowValues(statuses) == statuses \cup {Missing, "gone"}

\* Types of the tables and of what the page shows.
OverviewTypeOK ==
    /\ host \in [Hosts -> RowValues(HostStatuses)]
    /\ service \in [Hosts -> ServiceStatuses \cup {Missing}]
    /\ dns \in [Domains -> RowValues(DnsStatuses)]
    /\ cert \in [Domains -> CertStatuses \cup {Missing}]
    /\ serviceRows \in [Hosts -> ServiceStatuses \cup {Missing, "error"}]
    /\ changes \in 0..MaxChanges
    /\ listed # Missing => DOMAIN listed \subseteq Hosts
    /\ domains # Missing => \A d \in DOMAIN domains : domains[d].ssl \in SslCertificateStatus

\* The three donuts of the page and the numbers above them belong together:
\* the segments of each add up to its card, and no more need attention than
\* there are.  For the certificates the two come from different SELECTs, and
\* domains may be added, checked and removed between them.
SegmentsAddUp ==
    overview # Missing =>
        /\ Total(HostSegments) = overview.hosts.total
        /\ Total(ServiceSegments) = overview.services.total
        /\ Total(SslSegments) = overview.total
        /\ AttentionIsBounded

\* A page that shows the tables as they are, with no error left of a host that
\* was removed while its services were fetched.
UpToDate ==
    /\ overview # Missing /\ overview.hosts = HostCounts /\ overview.services = ServiceCounts
    /\ overview.total = Cardinality(Present(dns)) /\ overview.unresolved = CountedDomains.unresolved
    /\ overview.certs = CertsOf(Present(dns))
    /\ listed = [h \in Present(host) |-> host[h]]
    /\ \A h \in DOMAIN listed : serviceRows[h] = service[h]
    /\ domains = [d \in Present(dns) |->
            [dns |-> dns[d], ssl |-> IF cert[d] = Missing THEN "unknown" ELSE cert[d]]]

\* When the fleet rests and calls succeed, the page comes to show it and stays
\* that way, whatever the polls in flight had read.
PageConverges == <>[]UpToDate

\* The numbers and donuts of the page are those of tables that existed.
CountsAreSound == OverviewTypeOK /\ SegmentsAddUp
=============================================================================
