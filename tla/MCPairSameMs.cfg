CONSTANTS
  NodeA = NodeA
  NodeB = NodeB
  Link = {primary, secondary}
  TicksPerMs = 3
  Skew <- SameClocks
  Elapsed <- EveryTick
  Budgets <- Nothing
  MaxTime = 6
SPECIFICATION Spec
INVARIANTS FirstStartedLeads
