SPECIFICATION OperationsSpec

CONSTANTS
  MaxResources = 4
  MaxAttempts = 3
  Polls = 2
  MayBeFar = {"workspace"}
  TableCount = 2
  MaxRuns = 4
  Waits = 2
  Launchers = {t1, t2}
  MaxProcesses = 4

CONSTRAINTS
  OverlapBound
  FarBound
  LeftBound
  LastLoads

INVARIANTS
  OperationsTypeOK
  DuplicateIsExplained
  ResultIsCoherent
  ScriptsDoWhatTheyReport
  OrphansAreExplained
  ChildrenAreEquipped

\* The bounds on commands, scripts and processes end every behaviour.
CHECK_DEADLOCK FALSE
