SPECIFICATION OverviewFairSpec
CONSTANTS
    h1 = h1  d1 = d1  d2 = d2
    Missing = Missing
    Hosts = {h1}
    Domains = {d1, d2}
    HostStatuses = {"pending_setup", "degraded"}
    ServiceStatuses = {"crash_loop"}
    DnsStatuses = {"not_resolving"}
    CertStatuses = {"expired", "unknown"}
    MaxChanges = 3
INVARIANTS
    CountsAreSound
PROPERTIES
    PageConverges
