SPECIFICATION Spec
CONSTANTS
    o1 = o1
    o2 = o2
    Op = {o1, o2}
    Past <- MCPast
    Users = {u1, u2}
    Updates <- MCTwoUpdates
INVARIANTS
    TypeOK
    AppliedStored
    AppliedLogged
    MemoryCoversStore
PROPERTY DurableSpec
