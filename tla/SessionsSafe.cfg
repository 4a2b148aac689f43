SPECIFICATION LoginFairSpec
CONSTANTS
    Session = {"s1", "s2", "s3"}
    Flow = {"f1", "f2"}
    Request = {"r1", "r2"}
    Guest = TRUE
    Strategy = "evict_oldest"
    MaxSessions = 2
    MicrosoftMaxSessions = 1
    SessionTTL = 2
    FlowTTL = 2
    TicketTTL = 1
    Horizon = 2
    NoFlow = "none"
INVARIANTS
    LimitHolds
    OneSessionPerLogin
PROPERTIES
    EvictsLeastRecentlySeen
    NothingSpentInVain
    EveryRequestEnds
