CONSTANTS
  Threads = {t1, t2}
  t1 = t1
  t2 = t2
  NULL = NULL
  Lengths = {1, 3}
  Window = 3
  HasTimeout = TRUE
  MaxSerial = 3
SPECIFICATION SenderFairSpec
INVARIANTS
  SenderTypeOK
  Contiguous
  OkIsWhole
PROPERTIES
  ImplementsLog
  LockComesBack
CHECK_DEADLOCK FALSE
