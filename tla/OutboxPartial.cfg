SPECIFICATION Spec
CONSTANTS
  Row = {1, 2}
  SupportedKind = {scanlog, gap}
  OtherKind = {verdict}
  ValidatedKind = {gap}
  Flusher = {f1}
  Nobody = nobody
  Limit = 2
  MaxAttempts = 2
  MaxCrashes = 1
INVARIANTS
  RejectedItemsAreActedOn
CHECK_DEADLOCK FALSE
