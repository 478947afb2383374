CONSTANTS
  Clients = {a}
  Ids = {i1}
  Conns = {c1}
  Keys = {k1}
  a = a
  c1 = c1
  i1 = i1
  k1 = k1
  NULL = NULL
  DetectStale = {TRUE}
  Locking = TRUE
  TimeoutFires = TRUE
  Sharing = FALSE
  Reconstruct = TRUE
  MaxSerial = 4
  MaxFlight = 1
SPECIFICATION Spec
INVARIANT RefcountExact
