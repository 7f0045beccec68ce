CONSTANTS
    pub = pub
    priv = priv
    link = link
    Addresses = {pub, priv, link}
    Special = {priv, link}
    Absent = Absent
    MaxPort = 2
    MaxDepth = 2
    Conns = {c1, c2}
    Streams = {1, 2}
    FirstStream = 1
    MaxConnections = 1
    Wires = {"h1", "h2"}
    UseTLS = TRUE
    Descriptors <- MCDescriptors
    Requests <- MCRequests
    Answers <- MCAnswers
SPECIFICATION Spec
SYMMETRY ConnSymmetry
INVARIANTS
    SlotsCountConnections
    RecordsAreTrue
    SpecialDialsAreListed
CHECK_DEADLOCK FALSE
