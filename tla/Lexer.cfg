SPECIFICATION Spec
CHECK_DEADLOCK FALSE
CONSTANT
  Sources <- MCSources
INVARIANT
  LexesLongest
