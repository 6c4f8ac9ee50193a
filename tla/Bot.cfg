SPECIFICATION FairBot
CONSTANTS
  e1 = e1
  h1 = h1
  h2 = h2
  u1 = u1
  Job = Job
  RefreshJob = RefreshJob
  NONE = NONE
  Events <- OneEvent
  Handlers <- TwoHandlers
  Owner <- OneOwner
  MaxTaps = 1
  MaxFaults = 1
  PoolSize = 2
CHECK_DEADLOCK FALSE
INVARIANTS
  BotInv
  LocksHaveSessions
  WaitsEnd
  FullPoolMoves
PROPERTIES
  CredentialsKept
  RefusalFailsTheEvent
  JobEnds
