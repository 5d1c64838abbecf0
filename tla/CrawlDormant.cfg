SPECIFICATION Spec
CONSTANTS
  p1 = p1
  p2 = p2
  busy = busy
  Hours <- FullDay
  MIN_SAMPLE = 6
  ACTIVE_HOURS = 6
  MIN_HOUR_PERCENT = 5
  BASELINE_EVERY = 5
  Case = {busy}
  Page = {p1}
  CaseOf <- OneCase
  Routine <- CaseOnly
  Considered <- Evenings
  Crawler = {k1}
  Stance = {"watch"}
  Reviewed = {}
  MaxCrashes = 0
  None = none
PROPERTIES
  DormantCasesRest
CHECK_DEADLOCK FALSE
