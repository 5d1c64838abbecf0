SPECIFICATION MixSpec
CONSTANTS
  c1 = c1
  c2 = c2
  n1 = n1
  n2 = n2
  p1 = p1
  p2 = p2
  h1 = h1
  h2 = h2
  s1 = s1
  s2 = s2
  m1 = m1
  m2 = m2
  m3 = m3
  X = x
  None = none
  Task = {c1, c2, n1, n2, p1, p2, h1, h2, s1, s2, m1, m2, m3}
  Session = {x}
  Requested <- RequestedLane
  Parent <- ParentTask
  Priority <- RunPriority
  Timed = {n1, p1, h1, m1}
  Stuck = {x}
  CRON = 2
  MainWidth = {1, 2}
INVARIANTS
  TypeOK
  LimitsHold
  WorkConserving
  SlotsAreLive
PROPERTIES
  LastSlotIsForHooks
  NoOvertaking
  EveryTaskIsAnswered
CHECK_DEADLOCK FALSE
