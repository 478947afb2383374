CONSTANTS
  Workers = {w1}
  w1 = w1
  Ids = {s1, s2}
  s1 = s1
  s2 = s2
  NULL = NULL
  Timeouts = {TRUE}
  SerialMod = 4
  MaxFlight = 2
SPECIFICATION SessionSpec
INVARIANT NeverRefused
