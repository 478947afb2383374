SPECIFICATION ProgramFairSpec
CONSTANTS
  a = a
  b = b
  Clients <- MCClients
  NULL = NULL
  Prefix <- MCPrefix
  Ext <- MCExt
  Keys <- MCKeys
  Calls <- MCCalls
  SerialMod = 3
  Byte = 2
  U32 = 16
  U64 = 32
  MaxKey = 4
  MaxData = 2
  Pack <- MCPack
CHECK_DEADLOCK FALSE
INVARIANTS
  SameRequest
  AnswerMatches
  Barrier
  MultiGetExact
  TenantsApart
PROPERTIES
  WaitEnds
