CONSTANTS
    web = web
    quic = quic
    lookup = lookup
    Flows = {web, quic, lookup}
    Proto <- MCProto
    MaxConnections = 2
    EnableUDP = TRUE
SPECIFICATION AdapterSpec
INVARIANTS
    CountsAreExact
    StackOutlivesUsers
    NothingLeftOpen
    CompletedOnce
PROPERTIES
    AdapterReturns
    SessionsProceed
CHECK_DEADLOCK FALSE
