CONSTANTS
  tested = tested
  other = other
  none = none
  Conns = {tested, other}
  Runner = tested
  NoRule = none
  Edits <- MCEdits
  MaxItems <- MCMaxItems
  Transmissions <- MCTransmissions
  Expectations <- MCExpectations
SPECIFICATION FairSpec
INVARIANTS
  AnswersAreSound
  PassesAreEarned
  WritesThePayload
PROPERTIES
  ResultIsFinal
  EveryExchangeEnds
CHECK_DEADLOCK FALSE
