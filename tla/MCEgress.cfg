CONSTANTS
    v4 = v4
    pub = pub
    priv = priv
    n1 = n1
    n2 = n2
    n3 = n3
    Absent = Absent
    Addresses <- MCAddresses
    Special <- MCSpecial
    MaxPort = 2
    MaxDepth = 2
    Families = {v4}
    Names = {n1, n2, n3}
    Root = Root
    PoolSize <- MCPoolSize
    Reserved <- MCReserved
    MaxNames = 1
    Unescaped <- MCUnescaped
    LoopbackTexts = {}
    PinnedPorts = {}
    Descriptor <- MCDescriptor
    Literals = {pub, priv}
    Ports = {0, 2}
    Answers <- MCAnswers
SPECIFICATION Spec
INVARIANTS
    NeverAnotherName
    StaleIsDenied
    OnlyListedNames
