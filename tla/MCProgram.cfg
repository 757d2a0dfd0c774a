SPECIFICATION FairSpec
CONSTANTS
  ByteBase = 8
  Uint32 = 1048576
  Files <- MCFiles
  CommandLines <- MCCommandLines
  Wanted <- MCWanted
  Announced <- MCAnnounced
  MaxFrames = 2
  MaxSignals = 2
INVARIANTS
  
  ParametersAsSent
  NoCallbackAfterStop
  SuccessMeansTransmitted
PROPERTIES
  StopEndsProcess
\* The process ends, a server waits for a client, and with a device that does not start the cli
\* waits for a signal.
CHECK_DEADLOCK FALSE
