SPECIFICATION Spec
CONSTANTS
  Case = {c1}
  Post = {p1}
  None = none
  Agent = {a1}
  Evaluator = {e1}
  CoolingAfter = 1
  DormantAfter = 2
  MaxTime = 4
  MaxVerdicts = 2
  MaxCrashes = 0
PROPERTIES
  FindingsKeepOutOfCooling
CHECK_DEADLOCK FALSE
