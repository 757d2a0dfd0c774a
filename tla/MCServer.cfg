SPECIFICATION Spec
CONSTANTS
  NULL = NULL
  RxReadFails = TRUE
  TxFails = TRUE
  MaxClients = 2
  MaxRequests = 2
  CtxQueueSize = 1
  RxQueueSize = 2
  TxQueueSize = 1
  MaxSoftBits = 1
  Kinds = {"start", "stop", "rxParams"}
INVARIANTS
  SdrGoesOff
  NoCallbackAfterDestroy
  NothingAfterStop
\* A receiver that failed reads no more commands; once their queue is full the acceptor
\* waits for ever (what this means for clients is the question of MCServerRxFails).
CHECK_DEADLOCK FALSE
