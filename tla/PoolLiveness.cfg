SPECIFICATION FairSpec
CONSTANTS
  e1 = e1 e2 = e2 a1 = a1 a2 = a2
  NoProfile = NoProfile
  Profiles = {1, 2}
  Explicit = {}
  Automatic = {a1}
  Capacity <- Single
  MinSamples = 1
  MaxConsecutiveFailures = 1
  MaxRecoveryAttempts = 1
  QuarantineCooldown = 1
  DegradedCooldown = 1
  Recreatable = TRUE
  Persistent = FALSE
  SavesCanFail = FALSE
  MaxGeneration = 3
  MaxRestarts = 0
INVARIANT SnapshotStillRetired
PROPERTIES AcquireReturns RetiredIsReplaced
