CONSTANTS
  c1 = c1
  c2 = c2
  d1 = d1
  d2 = d2
  Transactions <- MCTransactions
  Risks = {2, 90}
  Callers <- MCCallers
  Deliveries <- MCDeliveries
  CacheTTL = 2
  ScoreIdParses = TRUE
  InfoEnabled = FALSE
SPECIFICATION Spec
INVARIANT AnnouncedIsReadable
CHECK_DEADLOCK FALSE
