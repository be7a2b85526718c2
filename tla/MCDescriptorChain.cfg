CONSTANTS
  QSize = 2
  MaxTable = 2
  ByteMod = 6
  DataLens = {0, 3}
  TableLens = {0, 8, 16, 32, 48}
SPECIFICATION Spec
INVARIANTS TypeOK ChainBounded LinksFollowed StopsOnlyForFault
PROPERTY NoneIsFinal
