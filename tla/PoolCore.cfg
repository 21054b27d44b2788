SPECIFICATION Spec
CONSTANTS
  e1 = e1 e2 = e2 a1 = a1 a2 = a2
  NoProfile = NoProfile
  Profiles = {1}
  Explicit = {e1, e2}
  Automatic = {a1}
  Capacity <- MixedCapacity
  MinSamples = 2
  MaxConsecutiveFailures = 2
  MaxRecoveryAttempts = 2
  QuarantineCooldown = 2
  DegradedCooldown = 1
  Recreatable = TRUE
  Persistent = FALSE
  SavesCanFail = FALSE
  MaxGeneration = 3
  MaxRestarts = 0
INVARIANTS TypeOK LeaseAccounting LeasedProfileIntact DrainHasHolder AutoWaitersExact ExplicitBurstBounded
PROPERTY ImplementsLeasePool
SYMMETRY SameKind
