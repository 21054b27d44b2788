SPECIFICATION Spec
CONSTANTS
  s1 = s1
  s2 = s2
  f1 = f1
  f2 = f2
  g1 = g1
  None = None
  Searches = {s1, s2}
  Providers = {1, 2}
  Profiles = {f1, g1}
  ProviderOf <- OneEach
  MaxProviderAttempts = 1
  MaxAgentAttempts = 1
  AutoQueueMax = 1
  Shifting = {f1, g1}
  TracingFails = TRUE
CHECK_DEADLOCK FALSE
INVARIANTS TypeOK QueueAccounting OneOwner WinnersLeaveNothing
