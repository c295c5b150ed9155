SPECIFICATION Spec
CONSTANTS
  sw1 = sw1
  port1 = port1
  none = none
  Defs <- MixedDefs
  Rules <- MixedRules
  Devices = {sw1}
  Enabled = {sw1}
  Applies <- AllButOther
  Labels = {none, port1}
  NoLabel = none
  Readings <- Booleans
  Processors = {}
  StaleAfter = 1
  SweepInterval = 1
  StartTime = 1
  MaxTime = 3
INVARIANTS
  TypeOK
  AlertMatchesState
  EventsAlternate
  AuditIsAPath
  EveryEventIsNotified
PROPERTY
  ImplementsAlertLifecycle
