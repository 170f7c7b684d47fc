\* A send fails within a chunked response.
SPECIFICATION Spec
CONSTANTS
  NRoutes = 1
  SendFaults = {"reset"}
  Tls = FALSE
  SendLen = 2
  DeclaredLen = 1
  BufSize = 5
  Streams <- GetStream
  Handlers <- ChunkHandler
  CatchAll = FALSE
  SizeRange = 65536
  Pipelining = FALSE
  AllocFails = FALSE
INVARIANTS
  SendReturns
