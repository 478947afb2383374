CONSTANTS
  Clients = {a, b}
  Ids = {i1}
  Conns = {c1}
  Keys = {k1}
  a = a
  b = b
  c1 = c1
  i1 = i1
  k1 = k1
  NULL = NULL
  DetectStale = {TRUE}
  Locking = TRUE
  TimeoutFires = TRUE
  Sharing = TRUE
  Reconstruct = FALSE
  MaxSerial = 4
  MaxFlight = 1
SPECIFICATION Spec
PROPERTY OthersKeepLocks
