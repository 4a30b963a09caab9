SPECIFICATION Spec
CONSTANTS
    Part = {p1, p2}
    Key = {k1, k2}
    QueryParts <- OneTable
    Repeats = FALSE
    MaxChanges = 3
    MaxQueries = 3
    MaxTicks = 0
SYMMETRY PartSymmetry
INVARIANTS
    NothingForgotten
