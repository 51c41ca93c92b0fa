SPECIFICATION MCSpec
CONSTANTS
  q1 = q1
  q2 = q2
  q3 = q3
  k1 = k1
  k2 = k2
  None = None
  Bogus = Bogus
  Requests = {q1, q2, q3}
  Kids = {k1, k2}
  Ttl = 4
  MissRefresh = 2
  FailureCooldown = 2
  FetchTime = 1
  Keys = {k1, k2}
  Gaps = {0, 1, 2, 3}
  MaxCalls = 5
  Rate = 1
  Burst = 2
  Window = 2
  PruneInterval = 3
SYMMETRY Symmetric
INVARIANTS
  PromptAnswer
  NewKeyLearned
  OldKeyForgotten
  BucketHolds
  CooldownHolds
 
