SPECIFICATION Spec
CONSTANTS
    Conns = {c1, c2}
    Returns = {0, 1}
    KillReturns = {1}
    EntryKills = FALSE
    MaxFrames = 2
    MaxGen = 2
    MaxLog = 3
INVARIANTS TypeOK NoDanglingDispatch NoFrameLost SnacsOnceInOrder
