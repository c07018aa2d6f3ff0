SPECIFICATION Spec
CONSTANTS
    Libs = {1}
    MaxSlot = 4
    Chunks <- MCChunks
    Logs <- MCLogs
    Readings = {"q"}
    Deltas = {3}
    Masks <- MCMasks
    Word = 8
    PronWrap = 3
    UnigramFactor = 3
    Interleaved = FALSE
    MaxOps = 2
INVARIANTS
    RemovedExactly
    AddedExactly
PROPERTIES
    SavedItemsComeBack
    MaskRestores
    FacadeTotalExact
CHECK_DEADLOCK FALSE
