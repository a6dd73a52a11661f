SPECIFICATION FairSpec
CHECK_DEADLOCK FALSE
CONSTANT
  Profiles <- MCProfiles
INVARIANTS
  PrecedenceRespected AcceptsTheLanguage SpansNest
PROPERTY
  ParseEnds
