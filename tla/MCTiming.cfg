SPECIFICATION Spec
CONSTANTS
  Node = {a, b}
  Steady = {a}
  Heartbeat = 1
  NetworkTimeout = 4
  SwitchTimeout = 15
  CheckPeriod = 1
  RoundTrip = 1
  CallbackTime = 1
  Delay = 3
INVARIANTS  TakeoverInTime
