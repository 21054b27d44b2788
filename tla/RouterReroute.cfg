SPECIFICATION FairSpec
CONSTANTS
  s1 = s1
  s2 = s2
  f1 = f1
  f2 = f2
  g1 = g1
  None = None
  Searches = {s1}
  Providers = {1, 2}
  Profiles = {f1, f2, g1}
  ProviderOf <- TwoPools
  MaxProviderAttempts = 3
  MaxAgentAttempts = 2
  AutoQueueMax = 1
  Shifting = {f1, g1}
  TracingFails = TRUE
CHECK_DEADLOCK FALSE
INVARIANTS AttemptsBounded
PROPERTIES SearchReturns WorkersEnd
