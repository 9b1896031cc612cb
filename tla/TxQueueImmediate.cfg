SPECIFICATION Spec
CONSTANTS
    Conns = {c1, c2}
    SeqnumMod = 3
    Modes = {"queued", "immediate"}
    SwitchesBusy = FALSE
    NonBlocking = FALSE
    MallocFails = FALSE
    Interrupts = TRUE
    MaxFrames = 4
    MaxGen = 2
INVARIANTS SentInOrder
