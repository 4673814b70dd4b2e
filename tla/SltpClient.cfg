SPECIFICATION FairSpec
CONSTANTS
  Sends = {r1, r2, r3}
INVARIANTS
  InFlightAgrees
  CloseMeansClosed
PROPERTY
  EveryRequestSettles
CHECK_DEADLOCK FALSE
