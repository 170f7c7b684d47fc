\* A request with a body that no route accepts.
SPECIFICATION FairSpec
CONSTANTS
  NRoutes = 0
  SendFaults = {}
  Tls = FALSE
  SendLen = 2
  DeclaredLen = 1
  BufSize = 5
  Streams <- PostStream
  Handlers <- NoHandlers
  CatchAll = FALSE
  SizeRange = 65536
  Pipelining = FALSE
  AllocFails = FALSE
PROPERTIES
  Served
