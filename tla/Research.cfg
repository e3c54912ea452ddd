SPECIFICATION Spec
CONSTANTS
  Parts = {"store", "gateway", "ledger", "continuation", "chain", "paper", "profile", "repair", "restored"}
  Names = {"discovery", "log"}
  LogNames = {"log"}
  Contents = {"c1", "c2"}
  Missing = "missing"
  Writers = {"worker"}
  PathSuffixes = {1, 2}
  Plain = 0
  Backend = "local"
  MaxEntries = 3
  Providers = {"local", "gemini", "none"}
  Configs = 3
  InfraRetries = 1
  MaxRepairs = 1
  Questions = 3
  Catches = {2}
  InitialLimit = 3
  Limits = {2, 5, 6}
  ClaimIds = {"c1", "c2"}
  New <- SomeClaims
  Updates <- SomeUpdates
  StopsOnError = TRUE
  MaxDecisions = 2
  MaxLeft = 1
  Resolvers = {"survey", "sensor"}
  MaxExecutions = 2
  MaxChainRepairs = 1
  MaxCrashes = 1
  First = 0
  MaxVersion = 2
  MaxContent = 2
  MaxNodes = 2
  Versioned = {0, 1}
  Procs = {"p1"}
  Crashes = TRUE
  ModelConfigs = {1, 2}
  Removable = {1}
  Tasks = {"metadata"}
  Trials = 1
  MaxConfigs = 1
  Node <- PlanningNodes
  Deps <- PlanningDeps
  Rank <- PlanningRank
  LeaseTTL = 1
  MaxOpen = 2
  Commands = {"repair-evidence-relevance"}
  MaxUpgrades = 1
  MaxFresh = 1
INVARIANTS
  ComponentsTypeOK
  RecordedIsStored
  SpendIsBounded
  BlockedNodeIsOutOfBudget
  LedgerIsSound
  AnswersAreRecoverable
  StoredIsOneExecution
  PackageIsEarned
  PaperIsSound
  QuestionsAreAsked
  RepairConverges
  RestoredNodesAreRepairable
PROPERTIES
  ImmutableIsKept
  EntriesAreKept
  PaperWriterChangesNoStatus
  AnswersAreFinal
  ProfileIsMeasured
  LoopsEnd
CHECK_DEADLOCK FALSE
