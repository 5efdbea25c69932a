SPECIFICATION Spec
CONSTANTS
  b1 = b1
  b2 = b2
  nudge = nudge
  timed = timed
  halt = halt
  Bridge = {b1, b2}
  Command = {nudge, timed, halt}
  StopCommand = {halt}
  PlanOf <- MCPlanOf
  StartOnline <- AllUp
  StartBoot <- OneBoot
  Guard = 1
  StateCap = 1
  MinBridges = 2
  MaxHold = 2
  StartTTL = 2
  MaxTime = 4
  MaxUpsets = 1
SYMMETRY BridgeSymmetry
CHECK_DEADLOCK FALSE
INVARIANTS
  TypeOK NoCollision NoLostWakeup OwedIsTracked StopWindowsKept HoldBounded EarliestIsLeast
