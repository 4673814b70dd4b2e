SPECIFICATION FairSpec
CONSTANTS
  ReplayLimit = 1
  TimelineLimit = 2
  MaxEvents = 3
  MaxStreams = 2
  MaxOps = 3
  MaxSessions = 2
  MaxRules = 2
  MaxLosses = 1
INVARIANTS
  StreamIsSound
  ViewIsTrue
  StatusIsCurrent
PROPERTY
  TabComesBack
CONSTRAINT Apart
CHECK_DEADLOCK FALSE
