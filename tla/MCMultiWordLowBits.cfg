\* Is the number of words taken from the low bits of rs2?
CONSTANTS
  Size = 6
  NR = 4
  Imm = {1}
  InitGpr <- MCInitGpr
  InitMem <- MCInitMem
  InitMapped <- MCInitMapped
SPECIFICATION Spec
INVARIANT
  WordsFromLowBits
CHECK_DEADLOCK FALSE
