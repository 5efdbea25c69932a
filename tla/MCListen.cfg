SPECIFICATION Spec
CONSTANTS
  b1 = b1
  b2 = b2
  w1 = w1
  w2 = w2
  Bridge = {b1, b2}
  Prompt = {b1}
  Flow = {w1, w2}
  MaxSessions = 3
  Uptime <- MCUptime
  Casts <- MCCasts
  Modulus = 16
  PerSecond = 2
  BurstWindow = 1
  MinMeasured = 1
  MaxTravel = 3
  HeardCap = 2
  Settle = 1
  CandidateCap = 4
CHECK_DEADLOCK FALSE
INVARIANTS
  TypeOK MeasuresARun AdoptedIsUnrivalled
PROPERTIES
  ClaimsEnd
