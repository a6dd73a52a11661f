SPECIFICATION Spec
CHECK_DEADLOCK FALSE
CONSTANTS
  none = none
  Sources <- MCSources
  Preparation <- MCPreparation
  Pages <- MCPages
  Inlines <- MCInlines
  DocumentPath <- MCDocumentPath
  Bundles <- MCBundles
  NoBundle = none
  Garbled = "garbled"
  Program <- MCProgram
  Origin <- MCOrigin
  Fetchable <- MCFetchable
  Nodes <- MCNodes
  Capacity = 2
  MaxPages = 4
INVARIANTS
  PageAsIfAlone BlockedLeavesNoTrace BodiesEndAtClose FetchesOwnOrigin
