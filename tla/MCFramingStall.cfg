SPECIFICATION Spec
CONSTANTS
  HeaderSize = 3
  Starts <- OneWithPayload
  BadVersion <- None
  Shutdown <- None
  BufferLength = 2
  MaxStalled = 3
INVARIANTS
  HeaderAtBoundary
