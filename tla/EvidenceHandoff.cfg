CONSTANTS
  Node <- PairNodes
  Deps <- PairDeps
  LeaseTTL = 1
  MaxOpen = 1
  Proc = {p1}
  Commands = {"answer"}
  Causes = {"EXHAUSTED"}
  Stops = {}
SPECIFICATION Spec
INVARIANTS
  WaitingNodeHasOpenDecision
