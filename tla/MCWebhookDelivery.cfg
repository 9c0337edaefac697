CONSTANTS
  Events = {e1}
  Workers = {w1, w2}
  Countdowns <- MCCountdowns
  VisibilityTimeout = 3600
  MaxRedeliveries = 1
  NoMsg = NoMsg
SPECIFICATION FairSpec
INVARIANTS
  AttemptBudget
  OutcomesAgree
PROPERTIES
  PendingIsSettled
CHECK_DEADLOCK FALSE
