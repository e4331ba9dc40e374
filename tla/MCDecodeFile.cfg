SPECIFICATION FairSpec
CONSTANTS
  ByteBits = 2
  InsnWidth = 6
  Pattern <- MCPattern
  Def <- MCDef
  Words <- MCWords
  MaxLines = 4
CHECK_DEADLOCK FALSE
INVARIANT DecodeFileInv
INVARIANT FileAccepted
INVARIANT LoadExact
INVARIANT FieldsInOrder
PROPERTY Ends
