SPECIFICATION Spec
CONSTANTS
  s1 = s1
  N = 2
  Sessions <- OneSession
  MaxConns = 2
  MaxBuffer = 2
  MaxTime = 1
INVARIANT TypeOK
PROPERTY GlobalMinGrows
PROPERTY ClientMinIsCurrent
PROPERTY ClockCatchesUp
