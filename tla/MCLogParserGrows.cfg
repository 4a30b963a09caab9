SPECIFICATION Spec
CONSTANTS
    Table = {t1}
    OtherTable = {}
    NoTable = NoTable
    Size <- EventSize
    Magic = 1
    MaxRows = 1
    MaxEvents = 10
    MaxFiles = 1
    MaxCalls = 3
INVARIANTS
    AllEventInfo
