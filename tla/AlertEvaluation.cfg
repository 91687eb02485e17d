SPECIFICATION FairSpec
CONSTANTS
    r1 = r1  r2 = r2  n1 = n1  v1 = v1  v2 = v2
    Null = Null
    Rules = {r1, r2}
    Entities = {n1}
    Evaluators = {v1, v2}
    Events <- Degraded
    Drafts <- RuleDrafts
    MaxChanges = 2
INVARIANTS
    
    EveryAttemptIsLogged
PROPERTIES
    EventsReachSlack
