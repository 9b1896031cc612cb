SPECIFICATION Spec
CONSTANTS
    Cks = {"a", "b"}
    Subtypes = {"directim"}
    Habits = {}
    Faults = {}
    MaxAllocs = 12
CHECK_DEADLOCK FALSE
INVARIANTS NoBadAccess CookiesRemoved NothingLeaks
