SPECIFICATION Spec
CONSTANTS
    Connections = {c1, c2}
    Docs = {d1, d2}
    MaxGenerations = 2
    NoManager = NoManager
    DetachableDocs = {d1, d2}
INVARIANTS
    TypeOK
    NoEmptyManager
    IndexComplete
    NoOrphanedManager
PROPERTY MembershipSpec
