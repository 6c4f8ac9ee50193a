SPECIFICATION FairSpec
CONSTANTS
  c1 = c1
  c2 = c2
  k1 = k1
  Calls <- TwoCalls
  Keys <- OneKey
  KeyOf <- RaceForOne
  Attempts = 3
CHECK_DEADLOCK FALSE
INVARIANTS
  TypeOK
  OneEventPerRow
PROPERTIES
  CallsEnd
  InsertPromiseKept
