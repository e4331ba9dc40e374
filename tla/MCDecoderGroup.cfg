\* Two plain patterns and a braced group of two, over two bits.
CONSTANTS
  p1 = p1
  p2 = p2
  p3 = p3
  p4 = p4
  Bit = {0, 1}
  Pattern = {p1, p2, p3, p4}
  Item = {1, 2, 3}
  Members <- PlainsAndGroup
  Format = {f1, f2}
  None = None
  Illegal = Illegal
SPECIFICATION Spec
INVARIANTS
  RunTypeOK
  DecoderInv
  ArgumentsFresh
PROPERTY
  ImplementsDecodeSpec
CHECK_DEADLOCK FALSE
