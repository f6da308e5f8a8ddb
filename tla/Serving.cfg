SPECIFICATION ServingSpec
CONSTANTS
  Clients <- MCClients
  V4Clients <- MCV4
  Requests <- MCRequests
  InitialSettings <- MCSettings
  PolicyChanges <- MCPolicies
  PluginChanges <- MCPlugins
  GroupChanges <- MCGroups
  RpzChanges <- MCRpz
  ResolverChanges <- MCResolvers
  ConfigChanges <- MCConfigs
  Outcomes <- MCOutcomes
  Zones <- MCZones
  MaxQueries = 1
  MaxChanges = 2
  Editable = {"server", "certificate", "recursive", "policy", "runtime", "web", "reports"}
  FileEdits = {"server", "certificate"}
  CpMaxChanges = 2
  CpMaxFaults = 1
  CpMaxRestarts = 1
  QueueBound = 1
  CsIds = {1,2}
  CsClients = {"p", "q", "lb"}
  CsPrivate = {"lb"}
  CsBalancer = "lb"
  CsMax = 2
  CsClientFloor = 1
  CsInFlight = 2
  CsQueue = 2
  CsStreams = 2
  CsMaxRebuilds = 1
  ThClients = {"a", "local"}
  ThNetwork <- Nets
  ThExempt = {"local"}
  ThNames = {"x", "y"}
  ThQueries <- AskedQueries
  ThChoices <- Knobs
  ThParent <- Parents
  ThLimit = 1
  ThWindow = 2
  ThDomainLimit = 2
  ThDomainWindow = 2
  ThAllowance = 2
  ThBuckets = 1
  ThSweepAt = 3
  ThSweepEvery = 3
  ThRate = 1
  ThRrlWindow = 1
  ThSlip = 2
  ThAccounts = 1
  ThRrlSweep = 2
  ThCookieAge = 2
  ThCookieAhead = 1
  ThMaxTime = 3
  ThMaxQueries = 4
  ThMaxChanges = 1
  AiNames = {"bad", "own"}
  AiAsked = {"www"}
  AiTouched = {"www"}
  AiSuffixes <- Above
  AiHosted = {"own"}
  AiVerdicts <- Backends
  AiTtl <- FreshFor
  AiSettings <- ScannerSaves
  AiFirst <- Enforcing
  AiClients <- ScannerClients
  AiBatch = 4
  AiMaxTime = 1
  AiMaxCycles = 2
  AiMaxEdits = 1
  AiMaxQueries = 1
  AiMaxFaults = 1
INVARIANTS
  OneSnapshot GroupsHold TrustedUntouched NotOpenResolver LoggedOnce ExplainAgrees
  AcceptedKept SettingsInForce
  SessionsHold ThrottlesHold OperatorDecides
CHECK_DEADLOCK FALSE
