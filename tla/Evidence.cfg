SPECIFICATION FairSpec
CONSTANTS
  Case = {c1, c2}
  Post = {p1}
  None = none
  Agent = {a1, a2}
  Evaluator = {e1}
  CoolingAfter = 1
  DormantAfter = 2
  MaxTime = 4
  MaxVerdicts = 2
  MaxCrashes = 1
INVARIANTS
  TypeOK
  ActivityCoversPostFindings
PROPERTIES
  OneStepDownward
  NoCoolingAgainstPostFindings
  QuietCaseGoesDormant
CHECK_DEADLOCK FALSE
