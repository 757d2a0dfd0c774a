SPECIFICATION FairSpec
CONSTANTS
  NULL = NULL
  RxReadFails = FALSE
  TxFails = TRUE
  MaxClients = 1
  MaxRequests = 2
  CtxQueueSize = 1
  RxQueueSize = 1
  TxQueueSize = 1
  MaxSoftBits = 1
  Kinds = {"badParams", "tooLong", "payloadLost", "rxParams", "txParams", "frame", "start", "stop", "ping", "shutdown"}
INVARIANTS
  AnswersInOrder
  LostTailIsReported
PROPERTIES
  SdrStopsWithoutClient
  ShutdownCompletes
  EveryRequestAnswered
