SPECIFICATION FairSpec
CONSTANTS
  r1 = r1
  r2 = r2
  Events = {"opens", "note"}
  Alerting = {"opens"}
  Relays = {r1, r2}
  BatchSize = 2
  MaxRows = 4
  MaxFaults = 2
  LosePublish = TRUE
INVARIANTS
  PublishedIsStored
  AnnouncedIsRecorded
  ResentOnlyAfterFault

  
CHECK_DEADLOCK FALSE
