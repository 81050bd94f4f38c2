\* Insertion, Commit, a process that stops anywhere, and reopening.
SPECIFICATION SafeSpec
CONSTANTS
  Keys = {1, 2, 3, 4}
  Values = {100, 101}
  Slots = {1, 2, 3, 4}
  MaxElements = 3
  MaxKeyNum = 5
INVARIANTS
  StoreTypeOK
  FileReadable
  BlocksUsedOnce
PROPERTY
  ImplementsDurable
