SPECIFICATION Spec
CONSTANTS
  Caller = {p1, p2, p3}
  Blockno = {b1, b2, b3}
  Content = {v1}
  NoValue = NoValue
  Nobody = Nobody
  MAXOPBLOCKS = 1
  LOGSIZE = 3
  nlog = 3
SYMMETRY Symmetry
INVARIANT NoPanic
