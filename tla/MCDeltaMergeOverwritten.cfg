SPECIFICATION Spec
CONSTANTS
    ChunkSize = 2
    None = None
    Families <- OnlyOverwritten
    Input <- InputOf
INVARIANTS
    NeverCrashes
