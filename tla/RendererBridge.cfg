SPECIFICATION Spec
SYMMETRY Symmetry
CONSTANTS
  Sources <- MCSources
  Preparation <- MCPreparation
  Execution <- MCExecution
  Objects = {o1, o2}
  Addresses = {a1, a2, a3, a4}
  Null = Null
  Absent = Absent
  NotUtf8 = NotUtf8
  Garbage = Garbage
  Capacities = {0, 1}
  MaxLookups = 3
INVARIANTS
  BlocksOwnedOnce RepliesAreOwn CacheTransparent CountersAreOwn
