SPECIFICATION Spec
CONSTANTS
  u1 = u1
  u2 = u2
  r1 = r1
  r2 = r2
  RetryJob = RetryJob
  RefreshJob = RefreshJob
  NONE = NONE
  Users <- OneUser
  Requests <- TwoRequests
  Troubled <- Nobody
  MaxFaults = 1
CHECK_DEADLOCK FALSE
SYMMETRY RequestSymmetry
INVARIANTS
  TypeOK
  IInv
PROPERTIES
  CredentialsGoForACause
  NoResurrection
  PromiseKept
