SPECIFICATION Spec
CONSTANTS
    a = a
    b = b
    c = c
    Tokens = {a, b, c}
    Requests <- MCRequests
    Updaters = {u1, u2}
    MaxUpdates = 3
    MaxCreates = 2
INVARIANTS
    TypeOK
    RevokedRefused
    PublishedAccepted
CHECK_DEADLOCK FALSE
