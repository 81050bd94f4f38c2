\* A node of one to four keys; memcmp answers with a sign.
SPECIFICATION Spec
CONSTANTS
  Keys <- MCKeys
  Values = {7, 8}
  Slots = {1, 2, 3, 4, 5, 6}
  MaxElements = 3
  ByteDifference = FALSE
INVARIANTS
  TypeOK
  KeysAscending
  FindsStored
PROPERTIES
  DescentEnds
  ImplementsNode
