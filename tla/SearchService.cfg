SPECIFICATION FairSpec
CONSTANTS
  c1 = c1
  c2 = c2
  c3 = c3
  p1 = p1
  p2 = p2
  k1 = k1
  k2 = k2
  None = None
  Left = Left
  Callers = {c1, c2, c3}
  Providers = {p1, p2}
  Keys = {k1, k2}
  ChainOf <- Chains
  Pinned = {k2}
  Registered = {p1, p2}
  Requests <- Mixed
  Guards <- Settings
  Capacity <- OneEach
  MaxItems = 1
  FreshTTL = 0
  StaleTTL = 1
  MaxTime = 1
  Impatient = {c1}
CHECK_DEADLOCK FALSE
INVARIANTS TypeOK SlotsExact OnlyAnswersAreStored ChainInOrder ExpiryHasACause
PROPERTIES CacheMovesForward ImplementsFlight ComesToRest
