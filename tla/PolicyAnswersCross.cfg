SPECIFICATION RcSpec
CONSTANTS
  RcBuilds <- TwoLists
  RcFirst <- BaseBuild
  RcNames = {"site"}
  RcClients = {"kid", "adult", "guest"}
  RcTtl = 2
  RcMaxTracked = 3
  RcMaxTime = 5
  RcMaxRebuilds = 1
  RcMaxLookups = 3
INVARIANT AnswersStayInScope
CHECK_DEADLOCK FALSE
