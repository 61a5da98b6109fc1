SPECIFICATION Spec
CONSTANTS
  Nodes = {n1, n2, n3, n4}
  Pushers = {t1, t2}
  Consumer = c
  Null = null
  Users = {t1}
  Managers = {"general", "returning"}
INVARIANT NoDanglingNode
INVARIANT NothingLeaks
INVARIANT ExclusiveUse
INVARIANT NobodyForgets
PROPERTY FirstInFirstOut
PROPERTY HiddenElementsAppear
PROPERTY ReturnedGoesBack
CHECK_DEADLOCK FALSE
