SPECIFICATION FairSpec
CONSTANTS
  f1 = f1  f2 = f2  f3 = f3  f4 = f4
  slow = slow  quick = quick  other = other
  Feeds = {f1, f2, f3, f4}
  Hosts = {slow, quick, other}
  Host <- HostOf
  PerHost = 1
  MaxConcurrency = 2
  Delay = 2
  PruneInterval = 1
  Batch = 4
  Backlog = 1
  Slow = {slow}
CHECK_DEADLOCK FALSE
INVARIANT PermitsConserved
PROPERTIES PolitenessSpec OthersFetched Drained
