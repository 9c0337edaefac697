CONSTANTS
  x1 = x1
  r1 = r1
  q1 = q1
  q2 = q2
  Txs <- MCTxs
  Reports <- MCReports
  Requests <- MCRequests
  Rectifications <- MCRectifications
  MaxRuns = 2
  MaxGrants = 2
  InfoEnabled = FALSE
SPECIFICATION Spec
INVARIANTS
  ErasureIsComplete
  ConsentsDoNotAddUp
PROPERTIES
  DeletionRespectsHolds
CHECK_DEADLOCK FALSE
