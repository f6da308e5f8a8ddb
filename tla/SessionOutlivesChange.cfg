SPECIFICATION Spec
CONSTANTS
  None = None
  Users = {a, b}
  Seeds = {a, b}
  Threads = {t1, t2}
  Updates <- SomeUpdates
  CodeSteps = {1}
  MaxFailures = 1
  Permits = 1
  MaxTokens = 1
  MaxSessions = 3
  MaxFresh = 3
  MaxRequests = 3
  MaxTroubles = 0
INVARIANT SessionsCurrent
CHECK_DEADLOCK FALSE
