SPECIFICATION Spec
CONSTANTS
    RecordCount = 3
    MaxRecord = 4
    WireCaps = {3, 10}
    WriteMax = 2
    ReadBuf = 2
    MaxContent = 1
    Dialogues <- MCDialogues
    Layers <- MCLayers
INVARIANT StreamsAreSound
PROPERTIES IsPipe AllArrives
CHECK_DEADLOCK FALSE
