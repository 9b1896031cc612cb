SPECIFICATION Spec
CONSTANTS
    HashSize = 2
    IdMod = 3
    Ages <- MCAges
    MaxReqs = 6
    MaxTime = 1
INVARIANTS TypeOK
PROPERTIES ImplementsMap 
