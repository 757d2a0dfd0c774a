SPECIFICATION DeviceSpec
CONSTANTS
  Threads = {"rx", "tx"}
  Rates <- MCRates
  SdrBufferLen = 4
  Frames <- MCFrames
  StagingSize = 3
  Transfers <- MCTransfers
  TunerRates <- MCTunerRates
  MaxReceived = 12
  ChunkSize = 2
  FileSizes <- MCFileSizes
  TxLengths <- MCTxLengths
INVARIANTS
  ConfiguredAsReported
  BuffersOwned
  TransmitsPowered
  StagingConserves
  WholeFileRead
PROPERTIES
  ProcessTxReturns
\* After it was destroyed a device does nothing more.
CHECK_DEADLOCK FALSE
