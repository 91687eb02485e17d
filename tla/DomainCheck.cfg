SPECIFICATION FairSpec
CONSTANTS
    d1 = d1  d2 = d2  n1 = n1  w1 = w1
    Null = Null
    Domains = {d1, d2}
    Hostnames = {n1}
    HostnameOf <- OneName
    MaxRequests = 2
    Workers = {w1}
    SSL_EXPIRY_WARNING_DAYS = 0
    MaxQueued = 1
    MaxChanges <- Changes
INVARIANTS
    RowsAreSound
    OneManualCheckPerWindow
PROPERTIES
    
    ChecksConverge
