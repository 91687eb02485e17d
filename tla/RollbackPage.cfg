SPECIFICATION FairSpec
CONSTANTS
    e1 = e1  e2 = e2
    Null = Null  Service = "service"
    Events = {e1, e2}
    HOLD = 2
    MaxPosts = 2
    MaxRows = 3
INVARIANTS
    
    BarMatchesTimer
    TargetIsPrevious
PROPERTIES
    ConfirmIsHeld
    
CHECK_DEADLOCK FALSE
