SPECIFICATION Spec
CONSTANTS
    o1 = o1
    o2 = o2
    c1 = c1
    c2 = c2
    i1 = i1
    i2 = i2
    Op = {o1, o2}
    Past <- MCPast
    Clients = {c1, c2}
    Author <- AllOfC1
    Deletable = {}
    Instances = {i1, i2}
    MaxConnections <- Once
    ServedBy <- MCServedBy
    MaxFailures = 0
    MaxRestarts = 0
    MaxLosses = 0
INVARIANT Synchronized
CHECK_DEADLOCK FALSE
