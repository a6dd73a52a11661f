SPECIFICATION Spec
CHECK_DEADLOCK FALSE
CONSTANTS
  Variables = {"x", "y"}
  Globals = {"f"}
  Profiles <- MCProfiles
  MaxParams = 1
  MaxStack = 2
  MaxNesting = 2
  MaxArity = 1
INVARIANTS
  ValuesStayInBlock ValuesAreFramePositions BlocksAreClosed StraightLineVerifies
