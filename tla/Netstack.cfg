SPECIFICATION Spec
CONSTANTS
    Loads <- MCLoads
    Slots = {0, 1}
    MaxRx = 2
    Meta = 1
    Tasks = {1, 2}
INVARIANTS SocketsAreAccountedFor ApplicationsAreTold NoLostWakeUp
PROPERTIES HalfEndedFlowEnds AbandonedAreRemoved
CHECK_DEADLOCK FALSE
