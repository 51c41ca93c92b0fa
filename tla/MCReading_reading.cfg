SPECIFICATION MCSpec
CONSTANTS
  u1 = u1  u2 = u2
  a = a  b = b
  x = x  y = y
  g = g
  None = None
  Users = {u1, u2}
  Feeds = {a}
  Folders = {g}
  Items = {x, y}
  FeedOf <- MCFeedOf
  OwnerOf <- MCOwnerOf
  Published <- MCPublished
  MaxId = 2
  PageSize = 1
  Paged <- MCPaged
  Missing = Missing
  FeedItems <- MCFeedItems
  MaxItems = 2
  Times = {0, 1, 2}
  MaxFuture = 2
  MaxEntries = 1
  MaxContent = 16
  Slack = 1
  Passes = 3
  Lengths = {16, 17, 18, 22, 40}
  Overheads <- MCOverheads
SYMMETRY Alike
INVARIANTS CountsAgree  WalkComplete ItemsStored 
PROPERTIES NewIsUnread 
