CONSTANTS
  Features <- MCFeatures
  Page <- MCPage
  EventIdx = "event_idx"
  DeviceFeatures <- MCDeviceFeatures
  NumQueues = 2
  QueueValues = {0, 1}
  InitialQueue = 0
  InterruptBits = {"used"}
  Bytes = {0, 1}
  ConfigLen = 1
SPECIFICATION Spec
INVARIANTS TypeOK NegotiationSound ActivatedOnce LiveQueuesFrozen EventsNotLost
PROPERTY FailedIsFinal
