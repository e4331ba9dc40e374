\* Four instructions over two bits, every combination of match strings.
CONSTANTS
  Bit = {0, 1}
  N = 4
SPECIFICATION Spec
INVARIANTS
  TypeOK
  GroupInv
  WrittenOnce
  EntriesDisjoint
CHECK_DEADLOCK FALSE
