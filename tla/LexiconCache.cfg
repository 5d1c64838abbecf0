SPECIFICATION FairSpec
CONSTANTS
  Caller = {c1, c2}
  None = none
  MaxStale = 1
  RequestTimeout = 1
  BodyTimeout = 1
  MaxTime = 5
  MaxVersions = 2
INVARIANTS
  TypeOK
  AgeIsHonest
  NoSilentStaleness
  OnePull
PROPERTIES
  NeverBackwards
  CallsReturn
CHECK_DEADLOCK FALSE
