SPECIFICATION Spec
CONSTANTS
  Writers = {w1, w2}
  Readers = {r1}
  Nonces = {n1, n2}
  None = none
  Operators = {}
  MaxFailures = 0
SYMMETRY Symmetry
INVARIANT ReaderSeesWhole
CHECK_DEADLOCK FALSE
