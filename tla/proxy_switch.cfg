SPECIFICATION Spec
CONSTANTS
    t1 = t1
    t2 = t2
    d1 = d1
    d2 = d2
    d3 = d3
    Connections = {c1, c2}
    Docs = {d1, d2, d3}
    Documents = {d1, d2, d3}
    MaxGenerations = 1
    NoManager = NoManager
    Tokens = {t1, t2}
    Listed <- ListedDropped
    Rights <- MCRights
    PublicDocs = {d3}
    ConnectTokens = {t1}
    SwitchTokens = {t2}
    SwitchesEarly = FALSE
    TokenUpdates = {}
    MaxCalls = 2
    MaxListLength = 2
    NoToken = NoToken
    NoAccess = NoAccess
INVARIANTS
    TypeOK
    MembersMayRead
    OpenConnectionsListed
    ClosedNotMember
CHECK_DEADLOCK FALSE
SYMMETRY Symmetry
