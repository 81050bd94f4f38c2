\* Reads, seeks and writes that keep to the order the B+ tree uses.
SPECIFICATION SafeSpec
CONSTANTS
  Chars <- MCChars
  MaxLength = 4
  BufferSize = 2
  Counts = {0, 1, 3}
  Positions = {0, 1, 5}
  Texts <- MCTexts
INVARIANTS
  TypeOK
  AheadIsInFile
PROPERTIES
  ImplementsPlainFile
  ReadsReturn
