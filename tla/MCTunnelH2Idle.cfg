CONSTANTS
    Kinds <- H2Kinds
    Buffer = 1
    Idle = 1
SPECIFICATION Spec
PROPERTIES
    IdleTunnelsEnd
CHECK_DEADLOCK FALSE
