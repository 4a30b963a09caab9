SPECIFICATION Spec
CONSTANTS
    ChunkSize = 2
    None = None
    Families <- Both
    Input <- InputOf
INVARIANTS
    BatchesMergedOnce
    ResultIsLatest
    CacheStandsForResult
    ChunksAreFull
