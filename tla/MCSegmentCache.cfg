SPECIFICATION Spec
CONSTANTS
  p1 = p1  p2 = p2  a = a  b = b
  Partition = {p1, p2}
  Column = {a, b}
  Scan = {1, 2}
  Plans <- MCPlans
  Configs <- MCConfigs
  Size <- MCSize
  Weight <- MCWeight
  MaxSize = 3
  Enough = 1
  SizeT = 100
  MaxQueries = 3
INVARIANTS TypeOK CacheMatchesPolicy SizesAddUp OnlyLoadedKeys StoredOnce EachColumnOnce
PROPERTY ImplementsBoundedCache
CHECK_DEADLOCK FALSE
