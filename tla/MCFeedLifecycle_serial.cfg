SPECIFICATION FairSpec
CONSTANTS
  u1 = u1  u2 = u2  x = x  y = y
  r1 = r1  r2 = r2  w1 = w1  g1 = g1
  None = None
  Users = {u1, u2}
  Urls = {x}
  MaxFeeds = 3
  Quota = 2
  Requests = {r1}
  Pollers = {}
  Sweepers = {g1}
  Ops = {"subscribe", "import", "unsubscribe", "set_state", "delete_user"}
CHECK_DEADLOCK FALSE
INVARIANT StampedIffOrphaned
PROPERTY OrphansCollected
