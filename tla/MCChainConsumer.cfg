CONSTANTS
  MaxDescs = 3
  MaxLen = 2
  MaxCount = 5
  MaxConsumers = 3
  MaxUsize = 5
SPECIFICATION ConsumerSpec
INVARIANTS BytesPartitioned AvailableExact
PROPERTIES ConsumesAll SplitExact
