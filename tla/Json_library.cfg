SPECIFICATION Spec
CONSTANTS
    Handlers <- MCHandlers
    Keep <- MCKeep
    Tokens <- MCTokens
    Openings <- MCOpenings
    MaxTokens = 6
    Inputs <- MCInputs
    Documents <- MCDocuments
    Values <- MCValues
    MemberNames <- MCNames
    Pointers <- MCPointers
    Decimals <- MCDecimals
    MaxEdits = 2
    MaxSize = 5
    MaxCut = 8
INVARIANTS ParserAgrees TextRoundTrip BinaryRoundTrip FlattenRestores OrderIsTotal
PROPERTIES PatchOfDiff FailureLosesNothing
CHECK_DEADLOCK FALSE
