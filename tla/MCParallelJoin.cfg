SPECIFICATION Spec
CONSTANTS
    Key = {1, 2}
    Plans <- SoundPlans
    MaxRows <- RowBounds
    MaxBatch = 2
    BufferSize = 2
    Null = Null
INVARIANTS
    TypeOK
    JoinIsExact
    FailsOnlyUnsplit
