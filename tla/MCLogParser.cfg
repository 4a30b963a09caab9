SPECIFICATION Spec
CONSTANTS
    Table = {t1, t2}
    OtherTable = {u1}
    NoTable = NoTable
    Size <- EventSize
    Magic = 1
    MaxRows = 2
    MaxEvents = 8
    MaxFiles = 2
    MaxCalls = 4
SYMMETRY TableSymmetry
INVARIANTS
    TypeOK
    OnceInOrder
    RightTable
    NothingLost
