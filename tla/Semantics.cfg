SPECIFICATION Spec
CHECK_DEADLOCK FALSE
CONSTANTS
  Programs <- AllPrograms
  MaxCalls = 2
INVARIANTS
  AcceptedProgramsRun
  UnknownNamesReported
