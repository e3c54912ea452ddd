CONSTANTS
  Node <- ShortNodes
  Deps <- ShortDeps
  LeaseTTL = 1
  MaxOpen = 1
  Proc = {p1}
  Commands <- LifecycleCommands
  Causes = {"ATOMIC"}
  Stops = {}
SPECIFICATION Spec
INVARIANTS
  CompletionRespectsDependencies
