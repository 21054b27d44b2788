SPECIFICATION Spec
CONSTANTS
  c1 = c1
  c2 = c2
  u1 = u1
  u2 = u2
  internal = internal
  None = None
  Left = Left
  Callers = {c1, c2}
  URLs <- TheURLs
  Approved <- OnlyPublic
  Requests <- FewRequests
  Pages <- SomePages
  BrowserEnabled = TRUE
  MaxRedirects = 1
  OperationTimeout = 2
  MaxItems = 1
  FreshTTL = 1
  StaleTTL = 2
  MaxTime = 3
  Impatient = {c1}
CHECK_DEADLOCK FALSE
INVARIANTS TypeOK OnlyArticlesAreKept
PROPERTIES LeavingChangesNothing ImplementsFlight
