CONSTANTS
  Workers = {w1, w2}
  w1 = w1
  w2 = w2
  Ids = {s1}
  s1 = s1
  NULL = NULL
  Timeouts = {TRUE}
  SerialMod = 2
  MaxFlight = 1
SPECIFICATION SessionFairSpec
PROPERTY
  StartReturns
