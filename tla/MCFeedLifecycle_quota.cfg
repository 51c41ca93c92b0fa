SPECIFICATION Spec
CONSTANTS
  u1 = u1  u2 = u2  x = x  y = y
  r1 = r1  r2 = r2  w1 = w1  g1 = g1
  None = None
  Users = {u1}
  Urls = {x, y}
  MaxFeeds = 2
  Quota = 1
  Requests = {r1, r2}
  Pollers = {w1}
  Sweepers = {}
  Ops = {"subscribe", "import", "unsubscribe"}
SYMMETRY Symmetry
CHECK_DEADLOCK FALSE
INVARIANT QuotaRespected
