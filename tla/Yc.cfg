CONSTANTS
  a = a
  b = b
  Users = {a, b}
  NULL = NULL
  Byte = 4
  U32 = 256
  U64 = 65536
  MaxKey = 3
  MaxData = 100
  ML_MASK = 1
  RUN_MASK = 1
  MINMATCH = 2
  COPYLENGTH = 3
  LASTLITERALS = 2
  LZ4_MAX_INPUT_SIZE = 36
  SKIP = 2
  HASHES = {0, 1, 2}
  HashOf <- MCHash
  Beyond = 3
  Pack <- MCPack
  Unpack <- MCUnpack
  Sessions <- MCSessions
SPECIFICATION YcFairSpec
INVARIANTS
  YcTypeOK
  NothingLeaks
  ZeroMeansDone
  PrintsStored
  PromptHasLock
PROPERTY
  InvocationEnds
CHECK_DEADLOCK FALSE
