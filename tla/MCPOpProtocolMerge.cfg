SPECIFICATION FairSpec
CONSTANTS
    s3Get = s3Get
    cacheHandler = cacheHandler
    deltaMerge = deltaMerge
    collate = collate
    Root = Root
    Op <- MergeOp
    Consumers <- MergeConsumers
    Kind <- MergeKind
    MaxBatches = 2
INVARIANTS
    TypeOK
    CompleteAfterDrain
    JoinLosesNothing
    OnlyScansReportErrors
PROPERTIES
    ImplementsLifecycle
    ExecuteEnds
