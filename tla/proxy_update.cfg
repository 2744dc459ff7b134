SPECIFICATION FairSpec
CONSTANTS
    t1 = t1
    t2 = t2
    d1 = d1
    d2 = d2
    d3 = d3
    Connections = {c1, c2}
    Docs = {d1, d2, d3}
    Documents = {d1, d2, d3}
    MaxGenerations = 2
    NoManager = NoManager
    Tokens = {t1, t2}
    Listed <- ListedAll
    Rights <- UpdatedRights
    PublicDocs = {}
    ConnectTokens = {t1, t2}
    SwitchTokens = {}
    SwitchesEarly = FALSE
    TokenUpdates <- FirstToSecond
    MaxCalls = 1
    MaxListLength = 2
    NoToken = NoToken
    NoAccess = NoAccess
INVARIANTS
    ListsHoldTheirToken
    MembersMayRead
PROPERTIES
    IndexLostByDetach
    ListLostByOverwrite
    ClosedForgotten
    ExpiredCloses
    OnlyExpiredClosed
CHECK_DEADLOCK FALSE
