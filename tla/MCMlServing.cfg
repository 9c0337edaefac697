CONSTANTS
  r1 = r1
  r2 = r2
  Requests <- MCRequests
  Modalities = {"structured", "text"}
  Loaded = {"structured", "text"}
  Threads = 1
  KeepScores = 1
  Threshold = 1
  Cap = 2
  Horizon = 0
  Scores = {0, 20}
  Default = 10
  Top = 20
  Earlier <- MCEarlier
SPECIFICATION ServingSpec
INVARIANTS
  HistoryIsNewest
  TriggerAgrees
PROPERTY
  Answered
CHECK_DEADLOCK FALSE
