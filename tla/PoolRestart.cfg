SPECIFICATION Spec
CONSTANTS
  e1 = e1 e2 = e2 a1 = a1 a2 = a2
  NoProfile = NoProfile
  Profiles = {1}
  Explicit = {e1}
  Automatic = {a1}
  Capacity <- MixedCapacity
  MinSamples = 2
  MaxConsecutiveFailures = 1
  MaxRecoveryAttempts = 2
  QuarantineCooldown = 1
  DegradedCooldown = 1
  Recreatable = TRUE
  Persistent = TRUE
  SavesCanFail = TRUE
  MaxGeneration = 2
  MaxRestarts = 2
INVARIANTS HealthyMeansSaved CrashForgivesOneAttempt
