CONSTANTS
  Header = 2
  RecvSize = 3
  MaxBody = 5
  InitialCapacity = 3
  Bodies = {0, 1, 5, 10}
  MaxResponses = 3
SPECIFICATION ReceiverSpec
INVARIANTS
  ReceiverTypeOK
  AtBoundary
  ExactlyOnce
  BufferSafe
PROPERTY
  ReadFits
CHECK_DEADLOCK FALSE
