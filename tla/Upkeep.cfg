SPECIFICATION UpkeepSpec
CONSTANTS
  RcBuilds <- OneList
  RcFirst <- BaseBuild
  RcNames = {"site"}
  RcClients = {"kid", "guest"}
  RcTtl = 2
  RcMaxTracked = 1
  RcMaxTime = 5
  RcMaxRebuilds = 1
  RcMaxLookups = 3
  DkRolloverAfter = 3
  DkOverlap = 2
  DkRetire = 2
  DkValidity = 4
  DkCached = 1
  DkMaxTime = 12
  DkMaxKeys = 3
  DkMaxFaults = 1
  CmNames = {"a", "b"}
  CmMaxSerial = 2
  CmMaxTouches = 2
  CmMaxFaults = 2
  HfRecords = {1, 2}
  HfDownAfter = 2
  HfUpAfter = 2
  HfMaxTicks = 4
  HfMaxEdits = 1
  HfMaxFlips = 1
  HfMaxFaults = 1
  BfLists <- FeedLists
  BfBodies <- FeedBodies
  BfMaxSaves = 2
  BfMaxFetches = 1
  BfMaxForced = 1
  SuHosts <- Hosts
  SuMaxRuns = 2
  SuMaxDays = 2
  SuMaxFaults = 1
  AcCerts = {"web", "dot"}
  AcChallenge <- CertChallenges
  AcDomains <- CertNames
  AcMaxTasks = 2
  AcMaxFaults = 1
  AcMaxEdits = 1
  QlMaxQueries = 5
  QlThreads = {1, 2}
  QlMaxDays = 3
  QlRetention = 1
  QlQueue = 2
  QlBatch = 2
  QlMaxRows = 2
  QlAttempts = 2
  QlMaxFaults = 2
  RzCopies <- RootVersions
  RzAnchor = "ksk"
  RzSources <- RootServers
  RzQuestions <- RootQuestions
  RzExpire = 2
  RzMaxTime = 3
  RzMaxChanges = 2
  RzMaxFaults = 1
  RzMaxRounds = 2
  Half = 4
  PzLists <- PolicyLists
  PzBodies <- PolicyBodies
  PzMaxSaves = 3
  PzMaxRounds = 2
  PzMaxChanges = 1
  PzMaxFaults = 1
  SbVersions <- ThreatVersions
  SbNames <- ThreatHashes
  SbPrefix <- ThreatPrefixes
  SbKeys = {"", "k1"}
  SbTtl = 1
  SbNegativeTtl = 1
  SbMaxTime = 1
  SbMaxEdits = 2
  SbMaxUpdates = 3
  SbMaxFaults = 1
  BrForeign <- NoBackup
  BrMaxSaves = 1
  BrMaxBackups = 1
  BrMaxStops = 1
  BrMaxFaults = 1
INVARIANTS
  AnswersStayInScope StaleWithinWindow SignedAnswersVerify CatalogInStep NoDeadAnswers FeedsInStep UpdatesEndWell ChallengesInStep
  LogsAccounted AnswersFromProvenRoot PolicyZonesInStep ThreatListsInStep RestoresHold
CHECK_DEADLOCK FALSE
