\* A socket whose sends fail now and then, and a heap that is full.
SPECIFICATION Spec
CONSTANTS
  NRoutes = 2
  SendFaults = {"again", "reset"}
  Tls = FALSE
  SendLen = 2
  DeclaredLen = 1
  BufSize = 5
  Streams <- FaultStreams
  Handlers <- FaultHandlers
  CatchAll = FALSE
  SizeRange = 65536
  Pipelining = FALSE
  AllocFails = TRUE
INVARIANTS
  NoFault
  NothingOutlives
  LossCloses
PROPERTIES
  DialogueSpec
