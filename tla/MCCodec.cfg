SPECIFICATION Spec
CONSTANTS
  Names <- MCNames
  Paths <- MCPaths
  MaxPayload = 19
INVARIANTS
  TypeOK
  KernelFrees
  BufferLives
  ViewerFrees
  RoundTrip
  WildOnlyTooLong
