\* A request with Content-Length: 0.
SPECIFICATION FairSpec
CONSTANTS
  NRoutes = 1
  SendFaults = {}
  Tls = FALSE
  SendLen = 2
  DeclaredLen = 1
  BufSize = 5
  Streams <- EmptyStream
  Handlers <- ChunkHandler
  CatchAll = FALSE
  SizeRange = 65536
  Pipelining = FALSE
  AllocFails = FALSE
PROPERTIES
  Served
