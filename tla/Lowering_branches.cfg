SPECIFICATION Spec
CHECK_DEADLOCK FALSE
CONSTANTS
  Variables = {"x", "y"}
  Globals = {"f"}
  Profiles <- ControlProfiles
  MaxParams = 0
  MaxStack = 1
  MaxNesting = 1
  MaxArity = 0
INVARIANTS
  BranchesVerify
