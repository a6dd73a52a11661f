SPECIFICATION Spec
CONSTANTS
  a = a
  b = b
  c = c
  mistyped = mistyped
  unverifiable = unverifiable
  panicking = panicking
  Sources <- MCSources
  Preparation <- MCPreparation
  Capacity = 2
  MaxCalls = 9
INVARIANTS OrderAndEntriesAgree OnlyVerifiedResident EvictsOldestFirst CountersAccountForCalls
PROPERTIES FailureEvictsNothing
CHECK_DEADLOCK FALSE
