SPECIFICATION Spec
CONSTANTS
  NULL = NULL
  RxReadFails = FALSE
  TxFails = FALSE
  MaxClients = 1
  MaxRequests = 3
  CtxQueueSize = 1
  RxQueueSize = 1
  TxQueueSize = 1
  MaxSoftBits = 1
  Kinds = {"start", "rxParams"}
INVARIANTS
  DemodBufferAlive
