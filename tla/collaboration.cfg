SPECIFICATION Spec
CONSTANTS
    o1 = o1
    o2 = o2
    c1 = c1
    c2 = c2
    i1 = i1
    i2 = i2
    Op = {o1}
    Past <- JustOne
    Clients = {c1, c2}
    Author <- AllOfC1
    Deletable = {}
    Instances = {i1, i2}
    MaxConnections <- FirstTwice
    ServedBy <- MCServedBy
    MaxFailures = 0
    MaxRestarts = 1
    MaxLosses = 1
INVARIANTS
    TypeOK
    ServerHasAll
    NothingLost
PROPERTY SharedSpec
CHECK_DEADLOCK FALSE
