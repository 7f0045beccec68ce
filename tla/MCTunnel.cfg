CONSTANTS
    Kinds <- AllKinds
    Buffer = 1
    Idle = 1
SPECIFICATION Spec
INVARIANTS
    HalfCloseIsComplete
    ResponseIsComplete
PROPERTIES
    EOFReachesUpstream
    IdleEndsUnlessBlocked
    NothingLeftBehind
CHECK_DEADLOCK FALSE
