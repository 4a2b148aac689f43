SPECIFICATION FairSpec
CONSTANTS
    o1 = o1
    o2 = o2
    h1 = h1
    Op = {o1, o2}
    History = {h1}
    NoOp = NoOp
    NoHistory = NoHistory
    Kinds <- LoopKinds
    ThreadKinds <- Threads
PROPERTIES
    LeaseLostOnlyPastDeadline
    ImplementsLease
    FencedWrites
    LiveOperationEnds
