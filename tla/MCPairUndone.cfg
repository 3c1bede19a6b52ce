CONSTANTS
  NodeA = NodeA
  NodeB = NodeB
  Link = {primary, secondary}
  TicksPerMs = 1
  Skew <- SameClocks
  Elapsed <- EveryTick
  Budgets <- OneSwitch
  MaxTime = 6
SPECIFICATION Spec
INVARIANTS SwitchHandsOver
