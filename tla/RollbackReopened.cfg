SPECIFICATION Spec
CONSTANTS
    Null = Null
    h1 = h1
    s1 = s1
    v1 = v1
    v2 = v2
    e1 = e1
    e2 = e2
    q1 = q1
    q2 = q2
    w1 = w1
    w2 = w2
    Hosts = {h1}
    Services = {s1}
    HostOf <- OneHostOf
    Images = {v1, v2}
    InitialHistory <- OneHistory
    Events = {e1, e2}
    Targets = {1}
    Requests = {q1}
    Workers = {w1, w2}
    MaxCrashes = 1
    Faults = {}
CHECK_DEADLOCK FALSE
PROPERTIES
    CompletedNeverUpdated
