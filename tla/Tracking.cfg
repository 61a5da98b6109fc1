SPECIFICATION FairSpec
CONSTANTS
  Writers = {w1, w2, w3}
  Readers = {r1}
  Nonces = {n1, n2, n3}
  None = none
  Operators = {w3}
  MaxFailures = 1
INVARIANT MetadataNamesWriter
INVARIANT TombstoneCarriesWrites
INVARIANT NoCollisionLeft
PROPERTY ReadersReturn
CHECK_DEADLOCK FALSE
