SPECIFICATION ServerSpec
CONSTANTS
  Calls = {r1}
  Conns = {k1, k2}
  MaxSessions = 1
  MaxResultsPerSession = 1
  MaxConnections = 1
  GraceExpires = TRUE
PROPERTY EverythingSettles
CHECK_DEADLOCK FALSE
