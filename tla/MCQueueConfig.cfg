CONSTANTS
  MaxQueueSize = 2
  HalfMod = 64
  Memory <- OneRegion
  SizeValues = {0, 1, 2, 3, 4}
  Lows = {0, 2, 44, 48}
  Highs = {0, 1, 63}
  Indices = {0, 1}
SPECIFICATION Spec
INVARIANTS
  WellFormed
  ValidQueueInMemory
  Restorable
