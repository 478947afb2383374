CONSTANTS
  a = a
  b = b
  Users = {a, b}
  NULL = NULL
  MaxName = 3
  RecvSize = 12
  Stats <- MCStats
  Sessions <- MCSessions
SPECIFICATION CounterFairSpec
INVARIANTS
  CntTypeOK
  AnswerPrinted
  WellFormedAccepted
PROPERTY
  CommandEnds
CHECK_DEADLOCK FALSE
