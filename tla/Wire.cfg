SPECIFICATION FairSpec
CONSTANTS
    Chains <- MCChains
    Tails <- MCTails
    Room = 12
    Failures = {"reset"}
    MallocFails = TRUE
    MaxFrames = 2
    MaxTlvs = 4
INVARIANTS TypeOK WholeFrames
PROPERTIES ReadsEnd FramesArrive
CHECK_DEADLOCK FALSE
