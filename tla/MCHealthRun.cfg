SPECIFICATION Spec
CONSTANTS
  Definitions <- MCDefinitions
  Readings <- MCReadings
  MaxTime = 6
INVARIANTS
  StateMatchesHistory
  AppliedInOrder
PROPERTY
  EventsOnOutageEdgesOnly
