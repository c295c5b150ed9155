SPECIFICATION Spec
CONSTANTS
  DeviceList <- MCList
  Enabled = {"d1", "d2"}
  Interval <- MCInterval
  Offset <- MCOffset
  Workers = {"w1", "w2"}
  MaxLag = 2
  Oldest = 5
INVARIANTS
  PublishedInOrder
PROPERTIES
  EveryDeviceIsPolledAgain
  ShutdownCompletes
CHECK_DEADLOCK FALSE
