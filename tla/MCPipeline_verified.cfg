SPECIFICATION Spec
CONSTANTS
  None = None
  council = council
  sales = sales
  Concepts <- AllConcepts
  Definitions <- NumberedDefinitions
  Anchor = 2
  Lenient = 1
  Results <- SmallResults
  RuleSets <- SmallRuleSets
  Owners = {council, sales}
  Council = council
  HighCount = 1
  HighValue = 3
INVARIANTS
  TypeOK
  SavedIsTrue
  SavedDecisionStands
  SavedIsReturned
  ModesAgree
  OneLossIsRepaired
CHECK_DEADLOCK FALSE
