SPECIFICATION ServerSpec
CONSTANTS
  Calls = {r1, r2}
  Conns = {k1, k2}
  MaxSessions = 1
  MaxResultsPerSession = 1
  MaxConnections = 1
  GraceExpires = TRUE
SYMMETRY ServerSymmetry
INVARIANT CountsAreExact
PROPERTIES
  CloseIsDeferred
  SocketsOutliveSessions
CHECK_DEADLOCK FALSE
