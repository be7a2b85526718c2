CONSTANTS
  Threads = {t1, t2}
  QSize = 1
  IdxMod = 4
  MaxBatch = 1
  MaxBack = 1
SPECIFICATION FairSpec
INVARIANTS
  IInv
PROPERTIES
  OffersTaken
  UsedTaken
