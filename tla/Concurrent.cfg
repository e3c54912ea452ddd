CONSTANTS
  Node <- PairNodes
  Deps <- PairDeps
  LeaseTTL = 2
  MaxOpen = 1
  Proc = {p1, p2}
  Commands = {"answer", "decide", "repair-evidence-relevance"}
  Causes = {"EXHAUSTED"}
  Stops = {"FAILED"}
SPECIFICATION Spec
SYMMETRY Programs
INVARIANTS
  InductiveInvariant
  CompletedExecutionHasReport
