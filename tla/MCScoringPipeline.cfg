CONSTANTS
  r1 = r1
  r2 = r2
  x1 = x1
  Nothing = Nothing
  Requests <- MCRequests
  Txs = {x1}
  TxOf <- MCTxOf
  FailureThreshold = 2
  EnvSwitches = {"L2_MODEL"}
  HasWebhooks = TRUE
SPECIFICATION FairSpec
INVARIANTS
  FollowUpsAtMostOnce
  KillSwitchObeyed
  BreakerMatchesFailures
PROPERTIES
  ImplementsScoredOnce
  EveryRequestEnds
CHECK_DEADLOCK FALSE
