CONSTANTS
  Capacity = 3
  MaxBytes = 5
  MaxOutput = 3
  MaxLen = 2
  Producers = {t1}
SPECIFICATION ConsoleSpec
INVARIANTS BytesInOrder CapacityPromise ReportedDelivered TransmitInOrder
