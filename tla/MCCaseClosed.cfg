CONSTANTS
  k1 = k1
  k2 = k2
  s1 = s1
  s2 = s2
  g1 = g1
  g2 = g2
  x1 = x1
  None = None
  Cases <- MCCases
  Slots <- MCSlots
  Tasks <- MCTasks
  Txs = {x1}
  TxOf <- MCTxOf
  ScoreIdParses = {g1}
  InfoEnabled = FALSE
  MaxEvents = 5
SPECIFICATION Spec
INVARIANTS
  ClosedIsTerminal
CHECK_DEADLOCK FALSE
