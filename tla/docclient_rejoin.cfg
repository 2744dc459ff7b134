SPECIFICATION Spec
CONSTANTS
    d1 = d1
    d2 = d2
    d3 = d3
    t1 = t1
    t2 = t2
    Docs = {d1, d2, d3}
    Tokens = {t1, t2}
    ConfigToken = t1
    Rights <- MCRights
    MaxRetries = 1
    MaxSockets = 2
    MaxGetDocs = 2
    MaxExtras = 1
INVARIANTS
    SyncedAfterJoin
CHECK_DEADLOCK FALSE
