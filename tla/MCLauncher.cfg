CONSTANTS
    Orphans = {o1, o2}
    Statuses <- MCStatuses
    SigBuffer = 2
    MaxTerms = 2
SPECIFICATION LaunchSpec
INVARIANTS
    AgentIsConfined
    EndsWithAgentsStatus
PROPERTIES
    PendingSignalSuffices
CHECK_DEADLOCK FALSE
