\* Several threads on one processor.
SPECIFICATION SafeSpec
CONSTANTS
  Threads = {t1, t2, t3}
  Ids = {i1, i2, i3, i4}
  Global = Global
  NoId = NoId
  SMP = FALSE
SYMMETRY Symmetry
INVARIANTS
  TypeOK
  NoUseAfterFree
  FreedWithLastHandle
  CountExact
