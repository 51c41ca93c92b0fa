SPECIFICATION FairSpec
CONSTANTS
  f1 = f1  f2 = f2
  w1 = w1  w2 = w2
  t1 = t1  t2 = t2
  None = None
  Feeds = {f1, f2}
  Workers = {w1, w2}
  Batch = 1
  Lease = 2
  Drain = 2
  Floor = 1
  Ceil = 2
  Base = 1
  Cap = 2
  MaxShift = 3
  Doublings <- PowersOfTwo
  RetryAfters = {2}
  Refreshed = {f2}
  Traces = {}
  Window = 1
  Late = 2
  MaxErrors = 2
  MaxFaults = 1
  DefaultInterval = 1
CHECK_DEADLOCK FALSE
INVARIANT IInv
PROPERTIES BackoffFollowsCount DueFeedsPolled
