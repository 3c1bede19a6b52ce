CONSTANTS
  NodeA = NodeA
  NodeB = NodeB
  Link = {primary, secondary}
  TicksPerMs = 1
  Skew <- SameClocks
  Elapsed <- EveryTick
  Budgets <- SwitchOrCrash
  MaxTime = 5
SPECIFICATION Spec
INVARIANTS TypeOK OneIsAllowed DualActiveNeedsDisturbance
PROPERTIES SettledIsStable ImplementsActiveStandby
SYMMETRY Symmetry
