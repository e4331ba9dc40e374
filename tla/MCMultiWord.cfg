\* Four registers and six words: all instructions.
CONSTANTS
  Size = 6
  NR = 4
  Imm = {1}
  InitGpr <- MCInitGpr
  InitMem <- MCInitMem
  InitMapped <- MCInitMapped
SPECIFICATION Spec
INVARIANTS
  TypeOK
  RestartInv
  Partial
  RetiredExact
  RefusedAfterEffect
PROPERTY
  Completes
CHECK_DEADLOCK FALSE
