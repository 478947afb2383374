CONSTANTS
  Clients = {a, b}
  Ids = {i1}
  Conns = {c1, c2}
  Keys = {k1}
  a = a
  b = b
  c1 = c1
  c2 = c2
  i1 = i1
  k1 = k1
  NULL = NULL
  DetectStale = {TRUE, FALSE}
  Locking = TRUE
  TimeoutFires = TRUE
  Sharing = FALSE
  Reconstruct = TRUE
  MaxSerial = 3
  MaxFlight = 1
SPECIFICATION Php5Spec
SYMMETRY Symmetry
INVARIANTS
  RefcountExact
  OwnTraffic
