SPECIFICATION Spec
CONSTANTS
    Cks = {"a", "b"}
    Subtypes = {"directim"}
    Habits = {"chats"}
    Faults = {}
    MaxAllocs = 6
CHECK_DEADLOCK FALSE
INVARIANTS NoBadAccess
