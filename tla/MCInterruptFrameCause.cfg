\* Does a frame hold qc.mcause?
CONSTANTS
  x1 = x1
  x5 = x5
  Saved = {x1, x5}
  Fp = x8
  RetPc = RetPc
  Cause = Cause
  Zero = Zero
  Slots = 6
  Layout <- MCLayout
  Frame = 7
  Top = 16
  MieBit = 8
  CauseCode = {3}
  FaultCode = 5
  Junk = {4}
  InitReg <- MCInitReg
  InitSp = 16
  InitMapped <- MCInitMapped
  MaxLevel = 2
SPECIFICATION Spec
INVARIANT
  FramesHoldQcMcause
CHECK_DEADLOCK FALSE
