SPECIFICATION Spec
CONSTANTS
  e1 = e1
  h1 = h1
  h2 = h2
  Job = Job
  NONE = NONE
  Events <- OneEvent
  Handlers <- TwoHandlers
  MaxTaps = 2
  MaxFaults = 1
CHECK_DEADLOCK FALSE
SYMMETRY HandlerSymmetry
INVARIANTS
  TypeOK
  IInv
  SyncedIsInCalendar
  NoEventWithoutConfirmation
  FailureIsCounted
PROPERTIES
  ConfirmIsSavedBeforeAck
  ExternalIdKept
  PromiseKept
