CONSTANTS
    v4 = v4
    v6 = v6
    Families = {v4, v6}
    Names = {n1, n2, n3}
    Root = Root
    Nil = Nil
    PoolSize <- MCPoolSize
    Reserved <- MCReserved
    MaxNames = 2
SPECIFICATION Spec
SYMMETRY NameSymmetry
INVARIANTS
    IndicesAgree
    StaleFailsClosed
    ReservedNeverIssued
    LeastRecentForgotten
PROPERTIES
    NeverReissued
    BindingsStable
