SPECIFICATION LiveSpec
CHECK_DEADLOCK FALSE
CONSTANTS
  Programs <- MCPrograms
INVARIANTS
  TypeOK
  SuccessJustified
  FaultIsReported
  CorrectRunPasses
PROPERTIES
  PassEndsRun
