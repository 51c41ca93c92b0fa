SPECIFICATION Spec
CONSTANTS
  home = home
  moved = moved
  far = far
  None = None
  Urls = {home, moved, far}
  Home = home
  Taken = {far}
  v1 = v1
  v2 = v2
  Versions = {v1, v2}
  Answers <- MCAnswers
  MaxRedirects = 2
  MaxChanges = 2
  MaxFaults = 1
PROPERTY RepointedToFeed
