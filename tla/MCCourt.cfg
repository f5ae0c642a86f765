SPECIFICATION MCCourtSpec

CONSTANTS
  Cases <- MCCases
  MaxBindings = 3
  MaxOdd = 1

INVARIANTS
  CourtAndRecordTypeOK
  HeardInFull
  ReplayKeepsTheRecord
  CaptureCleansUp

\* A hearing and a capture end.
CHECK_DEADLOCK FALSE
