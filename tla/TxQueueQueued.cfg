SPECIFICATION Spec
CONSTANTS
    Conns = {c1, c2}
    SeqnumMod = 3
    Modes = {"queued"}
    SwitchesBusy = TRUE
    NonBlocking = TRUE
    MallocFails = FALSE
    Interrupts = FALSE
    MaxFrames = 4
    MaxGen = 2
INVARIANTS TypeOK NoDanglingFrame FlapOrder
