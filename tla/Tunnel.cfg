SPECIFICATION Spec
CONSTANTS
    MaxChunk = 2
    MaxNonce = 3
    MaxRecord = 3
    ReadNet = 2
    HeadMax = 4
    Scenarios <- MCScenarios
INVARIANTS LayersStayInStep OnlyTheServer
PROPERTIES IsPipe AllArrives
CHECK_DEADLOCK FALSE
