SPECIFICATION Spec
CONSTANTS
  N = 4
  Models <- FiniteModels
  Parts = {"models", "tools", "controller", "search", "session", "once", "basis"}
  Tasks = 2
  MaxActions = 5
  PlateauMin = 2
  PlateauWindow = 2
  InfraLimit = 1
  HasTransport = TRUE
  GoalOrder <- FiveGoals
  RootGoal = "two"
  Portfolio <- TwoTactics
  Proposed = {"have"}
  MaxProposals = 1
  FiniteGoal = TRUE
  HasModel = FALSE
  MaxNodes = 3
  MaxDepth = 2
  Kinds = {"finite", "boolean", "adapter"}
  HandoffPrefix = 1
  MinVerified = 1
  Restarts = TRUE
  Interrupts = TRUE
  TornWrites = TRUE
  Statements = {"a", "b", "c"}
  Provable = {"a", "b"}
  Scouted <- ScoutedStatements
  MaxLemmas = 3
  MaxLemmasOnce = 4
  None = None
  Torn = Torn
  MaxElement = 4
INVARIANTS
  BenchTypeOK
  ToolsAreSound
  SearchIsSound
  SessionIsSound
  FactsAreEntailed
  ResidualIsEquivalent
  FiniteModelsAreExact
PROPERTIES
  RemoteRepairIsEarned
  CheckpointsResume
  LoopsEnd
CHECK_DEADLOCK FALSE
