SPECIFICATION FairSpec
CONSTANTS
  GenerationModulus = 4
  MaxObjects = 4
  MaxRefs = 1
INVARIANTS TypeOK FreeListExact LiveLenExact FailClosedWithinWindow MarksAreReachable
PROPERTIES CollectExact ImplementsObjectStore CollectTerminates
