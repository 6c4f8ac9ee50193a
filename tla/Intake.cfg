SPECIFICATION FairSpec
CONSTANTS
  c1 = c1
  u1 = u1
  u2 = u2
  r1 = r1
  r2 = r2
  NONE = NONE
  NoEvent = NoEvent
  Users <- OneUser
  Updates <- TwoUpdates
  Requests <- TwoRequests
  MaySay <- TwoMessages
  Sender <- FromOne
  Limit = 2
  Window = 2
  MaxTime = 2
  Day = 3
  DefaultHour = 1
  MaxFaults = 1
CHECK_DEADLOCK FALSE
INVARIANTS
  IInv
  TypeOK
  OneUserPerChat
  AtMostLimit
  DuplicatesNeedAFault
  UnderstoodAsMeant
  MisreadByTheClock
PROPERTIES
  TimezoneOnlyByCommand
  AcknowledgedIsDone
  RejectedOnlyWhenFull
  PromiseKept
  MessagesAreAnswered
