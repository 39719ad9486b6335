SPECIFICATION Spec
CONSTANTS
    Equs = {e1, e2, e3}
    Vars = {v1, v2}
    PerpVars = {v1}
    Objects = {"Mapping"}
    MaxElts = 4
    Nil = Nil
SYMMETRY Symm
CHECK_DEADLOCK FALSE
INVARIANTS ListsExact ContentsMatch
PROPERTY LeavesWithLast
