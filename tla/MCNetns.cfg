CONSTANTS
    v4 = v4
    v6 = v6
    web = web
    quic = quic
    lookup = lookup
    None = None
    Families <- MCFamilies
    Conns = {web}
    Keys = {quic, lookup}
    FamilyOf <- MCFamilyOf
    IsDNS = {lookup}
    EnableUDP = TRUE
    MaxConnections = 2
    QueueSize = 1
    FlowIds = {1, 2}
    MaxPackets = 3
SPECIFICATION Spec
INVARIANTS
    SlotsAreExact
    TableIsExact
    RunLeavesNothing
    NamespaceIsRestored
PROPERTIES
    RunReturnsAfterClose
    SilentFlowsEnd
CHECK_DEADLOCK FALSE
