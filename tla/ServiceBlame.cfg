CONSTANTS
    a = a
    b = b
    c = c
    Channels = {a, b, c}
    Graphs <- MCGraphs
    Requests <- MCRequests
    Faults <- AllFaults
    MaxCalls = 2
    MaxNodes = 1
SPECIFICATION Spec
CHECK_DEADLOCK FALSE
INVARIANT
    ServiceBlameMeansBackendFailed
