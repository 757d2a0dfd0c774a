SPECIFICATION FairSpec
CONSTANTS
  NULL = NULL
  RxReadFails = TRUE
  TxFails = FALSE
  MaxClients = 1
  MaxRequests = 1
  CtxQueueSize = 1
  RxQueueSize = 1
  TxQueueSize = 1
  MaxSoftBits = 0
  Kinds = {"start"}
PROPERTIES
  SdrStopsWithoutClient
