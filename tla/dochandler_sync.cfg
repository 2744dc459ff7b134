SPECIFICATION Spec
CONSTANTS
    o1 = o1
    o2 = o2
    Op = {o1, o2}
    Past <- MCPast
    Users = {u1}
    Updates <- MCUpdates
INVARIANT SyncedStored
