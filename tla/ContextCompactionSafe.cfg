SPECIFICATION CompactionSpec
CONSTANTS
    s1 = s1
    s2 = s2
    s3 = s3
    h1 = h1
    Op = {s1, s2, s3}
    Sends = {s1, s2, s3}
    Renames = {}
    History = {h1}
    NoOp = NoOp
    NoHistory = NoHistory
    NoSource = NoSource
SYMMETRY Symmetry
INVARIANTS
    AnswersAreRemembered
PROPERTIES
    CheckpointNeverFallsBack
