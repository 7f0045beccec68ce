CONSTANTS
    a = a
    b = b
    None = None
    Calls = {a, b}
    Sessions = {1, 2}
    MaxInterim = 1
SPECIFICATION Spec
INVARIANTS
    SessionsAreShared
PROPERTIES
    ImplementsDialer
    LostSessionsAreGivenUp
    DialsReturn
CHECK_DEADLOCK FALSE
