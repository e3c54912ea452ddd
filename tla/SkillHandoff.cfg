CONSTANTS
  Node <- SkillNodes
  Deps <- SkillDeps
  LeaseTTL = 1
  MaxOpen = 1
  Proc = {p1}
  Commands = {"decide"}
  Causes = {"SKILL"}
  Stops = {}
SPECIFICATION Spec
INVARIANTS
  WaitingNodeHasOpenDecision
