SPECIFICATION Spec
CONSTANTS
  sw1 = sw1
  port1 = port1
  none = none
  Defs <- SweptDefs
  Rules <- NoRules
  Devices = {sw1}
  Enabled = {sw1}
  Applies <- AllButOther
  Labels = {none}
  NoLabel = none
  Readings <- Booleans
  Processors = {p1, p2}
  StaleAfter = 2
  SweepInterval = 3
  StartTime = 3
  MaxTime = 6
PROPERTY
  SilenceAlertNeedsSilence
