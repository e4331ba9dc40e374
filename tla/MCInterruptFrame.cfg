\* Two levels of interrupts, three saved registers.
CONSTANTS
  x1 = x1
  x5 = x5
  Saved = {x1, x5}
  Fp = x8
  RetPc = RetPc
  Cause = Cause
  Zero = Zero
  Slots = 6
  Layout <- MCLayout
  Frame = 7
  Top = 16
  MieBit = 8
  CauseCode = {3}
  FaultCode = 5
  Junk = {4}
  InitReg <- MCInitReg
  InitSp = 16
  InitMapped <- MCInitMapped
  MaxLevel = 2
SPECIFICATION Spec
INVARIANTS
  TypeOK
  FrameInv
  FramesIntact
  EnterRestartable
PROPERTIES
  LeaveRestores
  HelperEnds
CHECK_DEADLOCK FALSE
