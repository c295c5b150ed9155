SPECIFICATION Spec
CONSTANTS
  w1 = w1
  w2 = w2
  Payloads = {"a1", "a2"}
  Key <- MCKey
  Outcomes <- MayRecover
  ShardOf <- MCShardOf
  Workers = {w1}
  Shards = 2
  QueueSize = 1
  MaxDeliver = 2
  MaxSeq = 2
  MaxCrashes = 0
  MaxStops = 1
  MaxDlqFaults = 1
  MaxRescueFaults = 1
  MaxAckLoss = 0
INVARIANTS
  TypeOK
  HandledInDeliveryOrder
CHECK_DEADLOCK FALSE
