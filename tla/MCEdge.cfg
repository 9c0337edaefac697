CONSTANTS
  r1 = r1
  r2 = r2
  Requests <- MCRequests
  PositiveTTL = 2
  NegativeTTL = 1
  Window = 3
  Limit = 2
  MaxDelay = 1
  MaxHits = 3
  u1 = u1
  u2 = u2
  NoUrl = NoUrl
  Urls <- MCUrls
  Transactions <- MCTransactions
  Risks = {2, 90}
  ShapTTL = 2
  ScoreIdParses = TRUE
  AccessTTL = 2
  RefreshTTL = 3
  TicketTTL = 1
  Tasks = {"t1"}
  Deliveries = 2
  OwnerTTL = 2
  InfoEnabled = FALSE
  Tenants = {"t1", "t2"}
  Connections = {"c1", "c2"}
  Scopes = {"read", "write"}
  Fields = {"x", "y"}
  Numbers = {0, 1}
  Atoms = {"p", "q"}
  Comparisons <- MCComparisons
  MaxTokens = 7
  MaxRules = 3
  MaxDepth = 1
  Percents = {0, 50, 100}
  CompiledRules <- MCRules
SPECIFICATION EdgeSpec
INVARIANTS
  StaleAnswersAreBounded
  AdmittedWithinLimit
  EnabledMeansApproved
  WorkerTellsOfItsOwn
  DisabledLosesAccess
  DecisionIffCompleted
  OwnRowsOnly
  HandledIffEntitled
  ParserIsGrammar
  VerdictIsStrictest
SYMMETRY Symmetry
CHECK_DEADLOCK FALSE
