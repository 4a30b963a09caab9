SPECIFICATION Spec
CONSTANTS
    Plan <- MCPlan
    Zone <- MCZone
    Row <- MCRow
    ZoneColumn <- MCZoneColumn
    Modes = {"PULL_UP", "PUSHDOWN_ONLY", "CACHING_ONLY", "HYBRID"}
    Instances = {1, 2}
INVARIANTS TypeOK PlanIsClosed ResultsReachCollate PlanCompletes PruningIsExact
