\* Is "overlapping patterns" only printed for patterns that overlap?
CONSTANTS
  p1 = p1
  p2 = p2
  p3 = p3
  p4 = p4
  Bit = {0, 1, 2}
  Pattern = {p1, p2, p3}
  Item = {1, 2, 3}
  Members <- ThreePlain
SPECIFICATION TreeSpec
INVARIANT
  ErrorMeansOverlap
CHECK_DEADLOCK FALSE
