SPECIFICATION FairSpec
CONSTANTS
    h1 = h1  h2 = h2  d1 = d1
    Null = Null
    Hosts = {h1, h2}
    Domains = {d1}
    MaxChanges = 4
    MaxFaults = 1
INVARIANTS
    ReportsAreSound
PROPERTIES
    FlagsConverge
