\* A handler that answers DONE in REQUEST_BODY.
SPECIFICATION Spec
CONSTANTS
  NRoutes = 1
  SendFaults = {}
  Tls = FALSE
  SendLen = 2
  DeclaredLen = 1
  BufSize = 5
  Streams <- PostStream
  Handlers <- DoneInBody
  CatchAll = FALSE
  SizeRange = 65536
  Pipelining = FALSE
  AllocFails = FALSE
INVARIANTS
  NoFault
