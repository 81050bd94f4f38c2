\* Insertion into a reopened tree whose bitmap does not know every block.
SPECIFICATION AnySpec
CONSTANTS
  Keys = {1, 2, 3, 4}
  Values = {100}
  Slots = {1, 2, 3, 4}
  MaxElements = 3
  MaxKeyNum = 5
PROPERTY
  NewBlockUnused
