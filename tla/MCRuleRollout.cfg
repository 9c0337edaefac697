CONSTANTS
  h1 = h1
  h2 = h2
  p1 = p1
  p2 = p2
  Nothing = Nothing
  Handlers = {h1, h2}
  Processes = {p1}
  ProcessOf <- MCProcessOf
  MaxVersions = 3
  MaxOverlaps = 1
SPECIFICATION FairSpec
INVARIANTS
  ActiveWithinOverlaps
  StaleOnlyIfMissed
PROPERTIES
  EventuallyFresh
CHECK_DEADLOCK FALSE
