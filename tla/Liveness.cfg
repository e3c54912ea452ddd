CONSTANTS
  Node <- PairNodes
  Deps <- PairDeps
  LeaseTTL = 1
  MaxOpen = 1
  Proc = {p1, p2}
  Commands = {"repair-evidence-relevance"}
  Causes = {}
  Stops = {"FAILED"}
SPECIFICATION FairSpec
PROPERTIES
  SupervisorStops
  LeaseIsRecovered
