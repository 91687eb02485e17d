SPECIFICATION FairSpec
CONSTANTS
    Null = Null
    Untagged = Untagged
    n1 = n1
    v1 = v1
    r1 = r1
    r2 = r2
    r3 = r3
    r4 = r4
    k1 = k1
    Names = {n1}
    Images = {v1, Untagged}
    Rows = {r1, r2, r3, r4}
    Slots = 2
    Rollbacks = {k1}
    MaxChanges <- Changes

    
PROPERTIES
    KeepsDeploymentHistory
    RowsConverge
