CONSTANTS
  Workers = {w1, w2}
  w1 = w1
  w2 = w2
  Ids = {s1}
  s1 = s1
  NULL = NULL
  Timeouts = {TRUE, FALSE}
  SerialMod = 4
  MaxFlight = 2
SPECIFICATION SessionSpec
VIEW View
SYMMETRY Symmetry
INVARIANTS
  SessionTypeOK
  OwnerHolds
  TouchAnswered
PROPERTY
  ReplacesWhatWasRead
