SPECIFICATION Spec
CONSTANTS
  Calls = {c1, c2, c3}
  MaxSessions = 2
  MaxResultsPerSession = 1
INVARIANTS
  StoreIsConsistent
  EveryCreateHasItsOwn
PROPERTIES
  ClosedIsFinal
  EveryWaitEnds
CHECK_DEADLOCK FALSE
