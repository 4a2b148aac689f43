SPECIFICATION Spec
CONSTANTS
    o1 = o1
    o2 = o2
    h1 = h1
    h2 = h2
    Op = {o1, o2}
    History = {h1, h2}
    NoOp = NoOp
    NoHistory = NoHistory
    Kinds <- AllKinds
    ThreadKinds <- Threads
SYMMETRY Symmetry
INVARIANTS
    OwnerIsLive
    OneLiveOperation
PROPERTIES
    ContentOnlyDeletedOnRequest
