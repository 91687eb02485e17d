SPECIFICATION SessionFairSpec
CONSTANTS
    u1 = u1  u2 = u2  r1 = r1  r2 = r2
    None = None
    Users = {u1, u2}
    Requests = {r1, r2}
    MaxVisits = 4
INVARIANTS
    SessionIsSound
    LoginSurvivesReload
    OneRefreshCall
PROPERTIES
    CallsEnd
CHECK_DEADLOCK FALSE
