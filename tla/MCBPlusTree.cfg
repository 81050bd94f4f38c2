\* Few keys in every order, more keys in nearly ascending or descending order.
SPECIFICATION MCSpec
CONSTANTS
  Keys <- MCKeys
  Values <- MCValues
  Slots <- MCSlots
  MaxElements = 3
  MaxKeyNum = 11
INVARIANTS
  TypeOK
  KeyCounts
  SearchTree
  SplitterIsNew
  ChainComplete
  DumpInOrder
PROPERTY
  ImplementsStore
