SPECIFICATION FairSpec
CONSTANTS
    h1 = h1  w1 = w1  w2 = w2
    Null = Null
    Hosts = {h1}
    Workers = {w1, w2}
    MaxQueued = 1
    MaxChanges = 2
INVARIANTS
    
    StatusWasLogged
PROPERTIES
    SetupCompletes
