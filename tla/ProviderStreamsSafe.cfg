SPECIFICATION Spec
CONSTANTS
    NoBlock = NoBlock
    Block <- AllBlocks
    MaxParts = 3
    Reasoning = {"thinks"}
    Tool = {"searches"}
    Preamble = {"announces"}
    FinalAnswer = {"answers"}
    Summary = {"first", "second"}
    MaxIndex = 3
    Use = {"use1", "use2"}
    MaxChunks = 3
    MaxChunkParts = 2
INVARIANTS
    RowsAreWhatWasShown
    NothingBreaks
    OutcomeIsWhatWasSaid
CHECK_DEADLOCK FALSE
