SPECIFICATION Spec
CONSTANTS
  ByteBase = 8
  Uint32 = 1048576
  Files <- MCFiles
  CommandLines <- MCConfigLast
  Wanted <- MCWanted
  Announced <- MCAnnounced
  MaxFrames = 2
  MaxSignals = 2
INVARIANTS
  FileIsRead
CHECK_DEADLOCK FALSE
