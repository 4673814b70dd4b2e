SPECIFICATION FairSpec
CONSTANTS
  c1 = c1
  c2 = c2
  c3 = c3
  Calls <- MCCalls
  MaxLinks = 2
  Shapes <- MCShapes
INVARIANTS
  ConnectionsAreSound
  ViewsAreSound
  TabsAreToldTheTruth
PROPERTIES
  RawIsKeptApart
  EverythingEnds
CHECK_DEADLOCK FALSE
