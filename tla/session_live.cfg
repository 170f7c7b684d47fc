\* TLS; handlers that finish, a peer that waits, requests that are refused, HTTP/0.9.
SPECIFICATION FairSpec
CONSTANTS
  NRoutes = 2
  SendFaults = {}
  Tls = TRUE
  SendLen = 2
  DeclaredLen = 1
  BufSize = 5
  Streams <- LiveStreams
  Handlers <- LiveHandlers
  CatchAll = TRUE
  SizeRange = 65536
  Pipelining = FALSE
  AllocFails = FALSE
INVARIANTS
  WindowInBuffer
  InStep
PROPERTIES
  Served
  CallbackEnds
