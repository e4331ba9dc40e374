\* Two plain patterns over three bits, every combination of encodings, and a group.
CONSTANTS
  p1 = p1
  p2 = p2
  p3 = p3
  p4 = p4
  Bit = {0, 1, 2}
  Pattern = {p1, p2, p3, p4}
  Item = {1, 2, 3}
  Members <- PlainsAndGroup
SPECIFICATION GroupSpec
INVARIANTS
  TypeOK
  TreeInv
  TreeDecides
  AcceptedDisjoint
PROPERTY
  Termination
CHECK_DEADLOCK FALSE
