SPECIFICATION DeviceSpec
CONSTANTS
  Threads = {"rx"}
  Rates <- MCRates
  SdrBufferLen = 4
  Frames <- MCFrames
  StagingSize = 3
  Transfers <- MCTransfers
  TunerRates <- MCTunerRates
  MaxReceived = 12
  ChunkSize = 2
  FileSizes <- MCFileSizes
  TxLengths <- MCTxLengths
INVARIANT
  FilterDisabledIfNotNeeded
CHECK_DEADLOCK FALSE
