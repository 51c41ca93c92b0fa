SPECIFICATION FairSpec
CONSTANTS
  d1 = d1
  d2 = d2
  s1 = s1
  p1 = p1
  p2 = p2
  r1 = r1
  r2 = r2
  None = None
  Deliveries = {d1, d2}
  Signins = {s1}
  RetryDays = 1
  TombstoneDays = 1
  LastDay = 2
  MaxFaults = 1
  Requests = {p1, p2}
  Replicas = {r1, r2}
  TokenCap = 1
  MaxId = 3
INVARIANTS
  OneLocalUser
  AnsweredExists
  TokenQuota
  AckedMeansSynced
  RefusedOnlyDeleted
PROPERTIES
  NoComeback
  EventsApplied
CHECK_DEADLOCK FALSE
