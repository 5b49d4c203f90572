SPECIFICATION FairSpec
CONSTANTS
  Missing = Missing  Torn = Torn
  Pid = {"a", "b", "c"}
  MaxPuts = 3
  MaxAttempts = 2
  Locks = TRUE
  Crashes = TRUE
INVARIANTS
  TypeOK
  AckedIsStored
PROPERTIES
  TornByFallbackOnly
  SaveReturns
CHECK_DEADLOCK FALSE
