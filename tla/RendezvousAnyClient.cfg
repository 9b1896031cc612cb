SPECIFICATION Spec
CONSTANTS
    Cks = {"a", "b"}
    Subtypes = {"directim", "sendfile"}
    Habits = {"gives up", "own priv", "chats"}
    Faults = {"other family", "no memory"}
    MaxAllocs = 7
CHECK_DEADLOCK FALSE
INVARIANTS TypeOK UniqueCookies InternalOwned
