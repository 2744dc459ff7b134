SPECIFICATION Spec
CONSTANTS
    t1 = t1
    t2 = t2
    d1 = d1
    d2 = d2
    d3 = d3
    Connections = {c1, c2}
    Docs = {d1, d2}
    Documents = {d1, d2}
    MaxGenerations = 1
    NoManager = NoManager
    Tokens = {t1, t2}
    Listed <- ListedDropped
    Rights <- MCRights
    PublicDocs = {}
    ConnectTokens = {t1}
    SwitchTokens = {}
    SwitchesEarly = FALSE
    TokenUpdates <- FirstToSecond
    MaxCalls = 2
    MaxListLength = 2
    NoToken = NoToken
    NoAccess = NoAccess
INVARIANT MembersMayRead
CHECK_DEADLOCK FALSE
SYMMETRY Symmetry
