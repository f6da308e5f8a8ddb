SPECIFICATION Spec
CONSTANTS
  None = None
  Users = {a, b}
  Seeds = {a, b}
  Threads = {t1, t2, t3}
  Updates <- SomeUpdates
  CodeSteps = {1}
  MaxFailures = 1
  Permits = 2
  MaxTokens = 1
  MaxSessions = 3
  MaxFresh = 3
  MaxRequests = 3
  MaxTroubles = 1
SYMMETRY Symmetry
INVARIANT AdminRemains
INVARIANT RevocationHolds
INVARIANT CodesOnce
INVARIANT LimitsHold
CHECK_DEADLOCK FALSE
