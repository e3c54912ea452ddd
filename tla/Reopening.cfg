CONSTANTS
  Node <- LongNodes
  Deps <- LongDeps
  LeaseTTL = 1
  MaxOpen = 2
  Proc = {p1}
  Commands <- ReopeningCommands
  Causes <- Cause
  Stops = {"FAILED", "BLOCKED_OTHER"}
SPECIFICATION Spec
INVARIANTS
  TypeOK
  CompletionRespectsDependencies
  WaitingRunHasOpenDecision
  VerifiedRunIsEarned
