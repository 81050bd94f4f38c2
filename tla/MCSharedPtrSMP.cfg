\* One thread on several processors: the increment is a load and a store.
SPECIFICATION SafeSpec
CONSTANTS
  Threads = {t1}
  Ids = {i1, i2, i3, i4}
  Global = Global
  NoId = NoId
  SMP = TRUE
INVARIANTS
  FreedWithLastHandle
