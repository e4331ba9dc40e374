\* Does the removal of the overlapping instructions always succeed?
CONSTANTS
  Bit = {0, 1}
  N = 4
SPECIFICATION Spec
INVARIANT
  OverlapsRemovable
CHECK_DEADLOCK FALSE
