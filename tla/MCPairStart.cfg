CONSTANTS
  NodeA = NodeA
  NodeB = NodeB
  Link = {primary, secondary}
  TicksPerMs = 1
  Skew <- SameClocks
  Elapsed <- EveryTick
  Budgets <- Nothing
  MaxTime = 5
SPECIFICATION FairSpec
INVARIANTS FlappingIsBounded
PROPERTIES Converges
