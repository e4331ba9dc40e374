SPECIFICATION Spec
CONSTANTS
  Instruction <- MCInstruction
  Input <- MCInput
  Size = 6
  Xlen = 4
  MinC = 2
CHECK_DEADLOCK FALSE
INVARIANT TypeOK
INVARIANT CodecInv
INVARIANT OperandsArrive
INVARIANT TestsArrive
INVARIANT SignLost
