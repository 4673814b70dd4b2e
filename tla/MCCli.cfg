SPECIFICATION FairSpec
CONSTANTS
  a = a
  b = b
  here = here
  there = there
  Procs = {a, b}
  Prompts = {b}
  Servers = {here, there}
  Ids = {1, 2}
  RuleNames = {1, 2, 3}
  Twins <- MCTwins
  Lines <- MCLines
  MaxSessions = 2
  MaxRules = 2
  MaxResults = 1
  MaxLines = 2
  MaxFaults = 1
CONSTRAINT Near
INVARIANTS
  MemoryIsTrue
  CodesAreHonest
PROPERTIES
  RunsWithItsRules
  EveryProcessEnds
CHECK_DEADLOCK FALSE
