SPECIFICATION FairSpec
CONSTANTS
    s1 = s1
    r1 = r1
    h1 = h1
    Op = {s1, r1}
    Sends = {s1}
    Renames = {r1}
    History = {h1}
    NoOp = NoOp
    NoHistory = NoHistory
PROPERTIES
    StreamsEnd
