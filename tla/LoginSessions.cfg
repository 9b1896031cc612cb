SPECIFICATION FairSpec
CONSTANTS
    Accounts = {"aim", "icq"}
    Services = {"chatnav"}
    Rooms = {"r1", "r2"}
    Slow = FALSE
    MaxConns = 3
    MaxIds = 2
CHECK_DEADLOCK FALSE
INVARIANTS TypeOK LoginKind HandshakeInOrder ListsComplete RoomNamed ScreenNameKept
PROPERTY SetUpEnds
