SPECIFICATION LoopSpec
CONSTANTS
    Conns = {c1, c2}
    SeqnumMod = 3
    Modes = {"queued", "immediate"}
    SwitchesBusy = TRUE
    NonBlocking = TRUE
    MallocFails = FALSE
    Interrupts = FALSE
    MaxFrames = 2
    MaxGen = 1
PROPERTIES FramesLeave DeadReaped
CHECK_DEADLOCK FALSE
