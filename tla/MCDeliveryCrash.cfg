SPECIFICATION FairSpec
CONSTANTS
  w1 = w1
  w2 = w2
  Payloads = {"a1", "a2"}
  Key <- MCKey
  Outcomes <- OneFails
  ShardOf <- MCShardOf
  Workers = {w1, w2}
  Shards = 1
  QueueSize = 1
  MaxDeliver = 2
  MaxSeq = 2
  MaxCrashes = 1
  MaxStops = 0
  MaxDlqFaults = 1
  MaxRescueFaults = 0
  MaxAckLoss = 1
INVARIANT
  NothingDisappears
PROPERTY
  EveryMessageIsSettled
CHECK_DEADLOCK FALSE
