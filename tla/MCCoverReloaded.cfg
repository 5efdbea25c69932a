SPECIFICATION Spec
CONSTANTS
  Part = Part
  Up = Up
  Down = Down
  Stop = Stop
  AllDown = AllDown
  AllStop = AllStop
  AllPart = AllPart
  one = one
  two = two
  all = all
  Op <- MCOp
  Kind <- MCKind
  On <- MCOn
  Cover <- MCCover
  Channel = {1, 2, 3, 4}
  Chan <- MCChan
  Casts <- ReloadedCasts
INVARIANTS ReloadsAreAccounted
CHECK_DEADLOCK FALSE
