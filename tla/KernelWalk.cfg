CONSTANTS
    a = a
    b = b
    c = c
    Channels = {a, b, c}
    Graphs <- WalkGraphs
    Requests <- MCRequests
    Faults <- AllFaults
    MaxCalls = 2
    MaxNodes = 2
SPECIFICATION Spec
CHECK_DEADLOCK FALSE
INVARIANTS
    TypeOK
    NoIllTypedSeedConsumed
    CopyFailureNeverHidesBadSeed
    ReturnedRunReadNoBadSeed
    ChannelsAreLeftFolds
    ReadersSeeUpstreamFold
    NoEngineBug
    BlameMatchesRecord
    RecordWellFormed
    OnlyHooksLackExit
    SinkWall
    ExpiryStopsAtNextBoundary
PROPERTIES
    FirstErrorStands
    StartedRunReportsItsEnd
    ContractSpec
