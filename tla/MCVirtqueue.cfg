CONSTANTS
  Threads = {t1, t2}
  QSize = 2
  IdxMod = 4
  MaxBatch = 1
  MaxBack = 0
SPECIFICATION Spec
SYMMETRY ThreadSymmetry
INVARIANTS
  HeadsConserved
  NoLostKick
  NoLostInterrupt
PROPERTIES
  UsedEntriesStable
  ImplementsHandOff
