CONSTANTS
  Node <- PairNodes
  Deps <- PairDeps
  LeaseTTL = 1
  MaxOpen = 1
  Proc = {p1}
  Commands = {}
  Causes = {}
  Stops = {}
SPECIFICATION Spec
INVARIANTS
  StoredReportIsNotAFailure
