CONSTANTS
  NodeA = NodeA
  NodeB = NodeB
  Link = {primary}
  TicksPerMs = 1
  Skew <- SameClocks
  Elapsed <- EveryTick
  Budgets <- AnyOne
  MaxTime = 16
SPECIFICATION FairSpec
INVARIANTS FlappingIsBounded
PROPERTIES Converges Failover
