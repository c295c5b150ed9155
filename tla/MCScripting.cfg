SPECIFICATION Spec
CONSTANTS
  Scripts = {"s1"}
  Good = {"v1", "v2"}
  Broken = {"broken"}
  Throws = {"throws"}
  BadMeta = {"badmeta"}
  SwitchedOff = {}
  Workers = {"w1"}
  Callers = {"c1", "c2"}
  QueueSize = 1
  Threshold = 2
  MaxEdits = 2
  MaxToggles = 1
INVARIANTS
  TypeOK
  LoadedMatchesGeneration
  FailuresQuarantine
  EditsAreServed
PROPERTIES
  QuarantineIsEarnedAndKept
CHECK_DEADLOCK FALSE
