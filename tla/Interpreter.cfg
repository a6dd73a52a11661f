SPECIFICATION Spec
CHECK_DEADLOCK FALSE
CONSTANTS
  Modules <- MCModules
  Texts <- MCTexts
  Spelling <- MCSpelling
  CutAnywhere <- Written
  HostFunctions = {"host"}
  Exported = {"f"}
  MaxDepth = 3
  MaxValues = 6
  MaxObjects = 4
INVARIANTS
  VerifiedNeverMissing FramesCoverBlocks HandlesResolve
  EncodingRoundTrips
