\* Two threads on two processors copy the same pointer.
SPECIFICATION SafeSpec
CONSTANTS
  Threads = {t1, t2}
  Ids = {i1}
  Global = Global
  NoId = NoId
  SMP = TRUE
INVARIANTS
  NoUseAfterFree
