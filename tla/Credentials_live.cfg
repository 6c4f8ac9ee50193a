SPECIFICATION FairSpec
CONSTANTS
  u1 = u1
  u2 = u2
  r1 = r1
  r2 = r2
  RetryJob = RetryJob
  RefreshJob = RefreshJob
  NONE = NONE
  Users <- TwoUsers
  Requests <- Nobody
  Troubled <- Second
  MaxFaults = 1
CHECK_DEADLOCK FALSE
PROPERTIES
  ExpiredIsRefreshed
  RefusedAreDeleted
