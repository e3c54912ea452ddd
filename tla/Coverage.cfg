CONSTANTS
  Node <- CoreNodes
  Deps <- CoreDeps
  LeaseTTL = 1
  MaxOpen = 2
  Proc = {p1}
  Commands <- LifecycleCommands
  Causes <- CompletingCauses
  Stops = {"FAILED"}
SPECIFICATION Spec
INVARIANTS
  OpenDecisionHoldsItsNode
  WaitingModelNodeHasOpenDecision
  CompletedExecutionHasReport
PROPERTIES
  ImplementsDagProgress
