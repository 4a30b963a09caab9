SPECIFICATION Spec
CONSTANTS
    Part = {p1, p2}
    Key = {k1, k2}
    QueryParts <- AllParts
    Repeats = FALSE
    MaxChanges = 4
    MaxQueries = 3
    MaxTicks = 1
SYMMETRY PartSymmetry
INVARIANTS
    TypeOK
    NewestFirst
    NothingForgotten
    QuerySeesOneSnapshot
    AtMostTwoDeltas
