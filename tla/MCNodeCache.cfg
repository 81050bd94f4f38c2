\* The cache and its hash table, as long as RemoveKey is used where it is safe.
SPECIFICATION SafeSpec
CONSTANTS
  Ids = {0, 1, 3, 6}
  Nodes = {100, 200}
  MaxLUNCacheSize = 2
  InitSize = 2
  SizeLimit = 16
  Failures = {"array", "node"}
INVARIANTS
  TypeOK
  RehashFits
  DivisorFits
  WellPlaced
  FindsWhatWasAdded
  FlushesOldest
PROPERTY
  ImplementsMap
