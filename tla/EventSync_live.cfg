SPECIFICATION FairSpec
CONSTANTS
  e1 = e1
  h1 = h1
  h2 = h2
  Job = Job
  NONE = NONE
  Events <- OneEvent
  Handlers <- TwoHandlers
  MaxTaps = 1
  MaxFaults = 1
CHECK_DEADLOCK FALSE
PROPERTIES
  ConfirmedIsResolved
  RowsAreReleased
