CONSTANTS
    pub = pub
    priv = priv
    syn = syn
    loop = loop
    Addresses = {pub, priv, syn, loop}
    Special = {priv, syn, loop}
    Absent = Absent
    MaxPort = 4
    MaxDepth = 2
    MaxRules = 2
    MaxExceptions = 1
    RuleEntries <- MCRuleEntries
    ExceptionEntries <- MCExceptionEntries
    HeadRequests <- MCHeadRequests
    LoopbackTexts <- MCLoopbackTexts
    PinnedPorts = {2}
SPECIFICATION CheckSpec
INVARIANTS
    HeadsAreChecked
    AllowedByARule
    RefusedAsSpecified
    AllowedWhenAllAdmit
CHECK_DEADLOCK FALSE
