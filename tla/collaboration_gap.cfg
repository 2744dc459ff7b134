SPECIFICATION FairSpec
CONSTANTS
    o1 = o1
    o2 = o2
    c1 = c1
    c2 = c2
    i1 = i1
    i2 = i2
    Op = {o1, o2}
    Past <- MCPast
    Clients = {c1}
    Author <- AllOfC1
    Deletable = {o1}
    Instances = {i1}
    MaxConnections <- Once
    ServedBy <- AllAtI1
    MaxFailures = 2
    MaxRestarts = 0
    MaxLosses = 0
PROPERTIES
    SyncBringsAll
    
CHECK_DEADLOCK FALSE
