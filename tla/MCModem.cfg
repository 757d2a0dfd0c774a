SPECIFICATION ModemSpec
CONSTANTS
  Sps = 2
  SyncwordBits = 2
  PeakSearchSymbols = 2
  BurstSymbols = 4
  Strengths = {0, 1, 2}
  MaxTotal = 18
  BufferSize = 5
  Creations <- MCCreations
  Now = {1, 4, 5}
  TxFlushLen = 3
  ResamplerMargin = 16
  HalfbandTail = 3
  MaxCalls = 3
INVARIANTS
  ReadsInBounds
  SampledOnce
  OnlyStrongerRetimes
  CutsInvisible
  OutputFits
  SamplesConserved
  DecimationHarmConfined
  OffsetInInterval
  NothingRefused
  FlushEndsTransmission
CHECK_DEADLOCK FALSE
