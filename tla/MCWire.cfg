SPECIFICATION FairSpec
CONSTANTS
  Terms = {1, 9}
  Extra <- OneByte
  MaxConns = 2
  MaxEvents = 3
INVARIANTS
  TypeOK
  InStep
  ReadsFields
  OrderKnown
PROPERTIES
  ReaderReturns
  SendMutexFreed
CHECK_DEADLOCK FALSE
