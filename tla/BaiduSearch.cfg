SPECIFICATION FairSpec
CONSTANTS
  s1 = s1
  s2 = s2
  None = None
  Searches = {s1, s2}
  Steps <- WithoutMobile
  Asks <- FirstAndAny
  Pages <- SomePages
  MinInterval = 1
  MaxJitter = 0
  RequestTimeout = 1
  FallbackReserve = 0
  CaptchaCooldown = 2
  RateLimitCooldown = 1
  CaptchaTrip = 2
  RateLimitTrip = 1
  MaxTabs = 1
  Budgets = {4}
  Impatient = {s2}
  Latest = 1
  MaxTime = 5
CHECK_DEADLOCK FALSE
INVARIANTS TypeOK SessionPaced QuietAfterRisk RiskIsReported NothingLeftBehind
PROPERTIES EverySearchEnds
