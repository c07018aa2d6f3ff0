\* The bound on writes stops every behaviour.
CHECK_DEADLOCK FALSE
SPECIFICATION Spec
CONSTANTS
    Word = 16
    Tokens = {1, 2, 3}
    Prevs = {1, 2}
    Profiles <- MCProfiles
    SystemGrams <- MCSystemGrams
    InitialSeed = 1
    ExpandFactor = 2
    CeilingSeed = 4
    MaxSteps = 2
    MaxWrites = 3
INVARIANTS
    OwnGramsLeaveNoResidue
    GateSound
    MergedReadsExact
PROPERTIES
    CheckedStepsCommit
    MaskLeavesNoTrace
