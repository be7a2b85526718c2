SPECIFICATION Spec
CONSTANTS
  SectorUnits = 2
  FileLen = 5
  SegUnits = 2
  IdLen = 2
  MaxU32 = 3
  MaxData = 2
  FeatureSets <- MCFeatureSets
  Sectors <- MCSectors
  Buffers <- MCBuffers
  Segments <- MCSegments
  Data <- MCData
INVARIANTS
  TypeOK
  AlwaysAnswered
  OkMeansDone
  UsedLengthIsWritten
  RemainderInvisible
PROPERTY
  OnlyNamedChange
