SPECIFICATION FairSpec
CONSTANTS
  Row = {1, 2}
  SupportedKind = {gap}
  OtherKind = {verdict}
  ValidatedKind = {gap}
  Flusher = {f1, f2}
  Nobody = nobody
  Limit = 2
  MaxAttempts = 2
  MaxCrashes = 1
INVARIANTS
  TypeOK
  RecordedAtMostOnce
  SentMeansProcessed
  BudgetOverrunIsBounded
PROPERTIES
  ImplementsDelivery
  FlushEnds
  Settles
CHECK_DEADLOCK FALSE
