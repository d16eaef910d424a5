SPECIFICATION Spec
CONSTANTS
    MaxDatagram = 1
    MaxFragments = 2
    MaxReasm = 1
    ReplayWindow = 2
    Flows <- MCFlows
    MaxId = 2
    AnswerQueue = 1
    Kinds = {"trojan", "vless"}
    Keys = {"a", "b"}
    Cases <- MCCases
    FlowQueue = 1
    MaxArrivals = 2
    MaxFaults = 1
    MaxDials = 1
INVARIANT EveryReplyIsGenuine
CHECK_DEADLOCK FALSE
