SPECIFICATION Spec
CONSTANTS
  Empty = 7
  And <- MCAnd
  NumVars = 4
  BasePage = 2
  NewValues <- MCNewValues
  MaxFailures = 2
INVARIANTS SavedAcrossPowerCycles NothingLeftOver
PROPERTIES ImplementsVarStore
CHECK_DEADLOCK FALSE
