SPECIFICATION FairSpec
CONSTANTS
  p1 = p1
  p2 = p2
  busy = busy
  Hours <- ShortDay
  MIN_SAMPLE = 8
  ACTIVE_HOURS = 3
  MIN_HOUR_PERCENT = 20
  BASELINE_EVERY = 3
  Case = {busy}
  Page = {p1, p2}
  CaseOf <- InAndOut
  Routine <- Everything
  Considered <- Boundaries
  Crawler = {k1, k2}
  Stance = {"watch", "muted"}
  Reviewed = {p1}
  MaxCrashes = 1
  None = none
INVARIANTS
  TypeOK
  WindowIsSound
  BaselineComesRound
PROPERTIES
  PagesTakeTurns
CHECK_DEADLOCK FALSE
