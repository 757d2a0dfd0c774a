SPECIFICATION FairSpec
CONSTANTS
  HeaderSize = 3
  Starts <- MixedStarts
  BadVersion <- OtherVersion
  Shutdown <- ShutdownRequests
  BufferLength = 2
  MaxStalled = 3
INVARIANTS
  InStepUnlessAbandoned
  DroppedForAReason
PROPERTIES
  StalledClientIsDropped
