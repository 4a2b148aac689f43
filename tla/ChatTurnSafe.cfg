SPECIFICATION FairSpec
CONSTANTS
    s1 = s1
    s2 = s2
    r1 = r1
    h1 = h1
    Op = {s1, s2, r1}
    Sends = {s1, s2}
    Renames = {r1}
    History = {h1}
    NoOp = NoOp
    NoHistory = NoHistory
INVARIANTS
    OutcomeMatchesMessage
    ClientSeesOutcome
PROPERTIES
    ContextIsComplete
    FailedTurnsStayOut
    StreamingRowsClose
    LoopStreamsEnd
