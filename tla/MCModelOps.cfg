CONSTANTS
  m1 = m1
  m2 = m2
  h1 = h1
  h2 = h2
  Models <- MCModels
  Served = m1
  Handlers <- MCHandlers
  MaxExposed = 4
  InfoEnabled = FALSE
  NoHandler = NoHandler
SPECIFICATION Spec
INVARIANTS
  ExposureIsBounded
PROPERTIES
  PromotionLeavesOne
SYMMETRY Symmetry
CHECK_DEADLOCK FALSE
