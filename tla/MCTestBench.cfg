SPECIFICATION FairSpec
CONSTANTS
  Instruction <- MCInstruction
  Input <- MCInput
  Immediate <- MCImmediate
  Lo = 4
  Hi = 4
  Byte = 4
  WordBytes = 2
  Base = 8
  Top = 12
  Pattern = 9
CHECK_DEADLOCK FALSE
INVARIANT TypeOK
INVARIANT InputsReady
INVARIANT CorrectPasses
INVARIANT PassMeansChecked
PROPERTY Ends
