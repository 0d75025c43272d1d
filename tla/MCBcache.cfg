SPECIFICATION Spec
CONSTANTS
  Proc = {p1, p2, p3}
  Buf = {b1, b2}
  Block = {k1, k2, k3}
  Value = {v0, v1}
  Null = Null
  NUM = 7
  MaxPins = 1
INVARIANTS Accounted NoPanic NoLostWakeup
PROPERTIES StoreRefined
SYMMETRY Symmetry
