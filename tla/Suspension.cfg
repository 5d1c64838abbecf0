SPECIFICATION FairSpec
CONSTANTS
  Work = {w1, w2}
  Asker = {a1}
  Successor = {x1}
  None = none
  Ticket = {t1, t2}
  Drains = {t1}
  MaxRestarts = 1
  MaxCalls = 3
  MaxFaults = 1
INVARIANTS
  TypeOK
  HandlesAreCounted
  PreparedIsQuiet
  SchedulerFollowsFence
  CoordinatorAgrees
PROPERTIES
  HeldUntilExpiry
  EveryWaiterIsAnswered
CHECK_DEADLOCK FALSE
