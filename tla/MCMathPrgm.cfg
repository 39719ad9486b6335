SPECIFICATION Spec
CONSTANTS
    e1 = e1
    e2 = e2
    e3 = e3
    e4 = e4
    v1 = v1
    v2 = v2
    m1 = m1
    m2 = m2
    Vars = {v1, v2}
    Equs = {e1, e2, e3, e4}
    Mps = {m1, m2}
    Kinds <- MCKinds
    StartEqu <- MCStartEqu
    StartColumn <- MCStartColumn
    Modified = {m2}
    FirstHasVF = TRUE
    MaxCalls = 5
    MaxFailures = 2
    NA = NA
CHECK_DEADLOCK FALSE
INVARIANTS ListsExact ObjectiveInPlace PairsMatch
PROPERTY NothingLost
SYMMETRY Symm
