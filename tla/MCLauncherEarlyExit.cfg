CONSTANTS
    Orphans = {o1, o2}
    Statuses <- MCStatuses
    SigBuffer = 16
    MaxTerms = 2
SPECIFICATION LaunchSpec
PROPERTIES
    EndsAfterAgent
CHECK_DEADLOCK FALSE
