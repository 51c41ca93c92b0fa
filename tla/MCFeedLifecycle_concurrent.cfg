SPECIFICATION Spec
CONSTANTS
  u1 = u1  u2 = u2  x = x  y = y
  r1 = r1  r2 = r2  w1 = w1  g1 = g1
  None = None
  Users = {u1, u2}
  Urls = {x}
  MaxFeeds = 3
  Quota = 2
  Requests = {r1, r2}
  Pollers = {}
  Sweepers = {g1}
  Ops = {"subscribe", "unsubscribe", "set_state", "delete_user"}
SYMMETRY Symmetry
CHECK_DEADLOCK FALSE
INVARIANTS References IInv
PROPERTY CatalogSpec
