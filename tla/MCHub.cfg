SPECIFICATION FairSpec
CONSTANTS
  up1 = up1
  up2 = up2
  more1 = more1
  part = part
  wave = wave
  halt1 = halt1
  Channel = {1, 2}
  Command = {up1, up2, more1, part, wave, halt1}
  Chan <- MCChan
  Kind <- MCKind
  Key <- MCKey
  Measured <- MCMeasured
  Owner <- MCOwner
  Casts <- MCCasts
CHECK_DEADLOCK FALSE
INVARIANTS
  TypeOK RequestOrder StopRetiresMoves MeasuredIsFresh AnswersAreTrue LedgerSettled
  OutstandingCapped
PROPERTIES
  FramesAreFresh NothingAfterClose EveryCallerAnswered
