SPECIFICATION PartSpec
CONSTANTS
    IdleSeconds = 7
    MaxRuntimeSeconds = 16
    TicksPerSecond = 2
    Horizon <- PastTheCap
    Second = 2
    Minute = 6
    Hour = 18
    MinuteLimit = 2
    HourLimit = 4
    MaxTime = 30
    MaxCount = 9
    Users = {u1}
    Requests = {r1, r2}
    Operators = {o1, o2}
    Commands = {"set-cap", "reset-cap", "disable-cap"}
    NewCaps = {0}
    DefaultCap = 1
    Unit = 2
    MaxCost = 1
    MaxLedger = 7
    NoCap = NoCap
    Unread = Unread
    NoHistory = NoHistory
    History = {h1, h2, h3}
    Thread = {t1, t2}
    MaxPlace = 4
INVARIANTS
    DeadlineFollowsChunks
    AtMostTwice
    CountsUntilLastSecond
    OvershootIsBounded
    ForgivesOnlyTheSpent
PROPERTIES
    HeardTurnKeepsLease
    
SYMMETRY Symmetry
CHECK_DEADLOCK FALSE
