SPECIFICATION Spec
CONSTANTS
  Sends = {r1, r2, r3}
PROPERTY
  TimeoutKeepsConnection
CHECK_DEADLOCK FALSE
