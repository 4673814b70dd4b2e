SPECIFICATION Spec
CONSTANTS
  BodyMatches <- MCBodyMatches
  NoBody = NoBody
  Absent = Absent
  Unset = Unset
  AddInputs <- MCAddInputs
  Patches <- MCPatches
  RuleIds <- MCRuleIds
  Names = {"p", "q", "r"}
  Matches <- MCMatches
  Requests <- MCRequests
  MaxRulesPerSession = 2
  MaxSequence = 3
  MaxRuleNumber = 2
  MaxHits = 1
INVARIANTS
  RulesAreSound
  NoEquivalentRules
PROPERTY OrderIsStable
