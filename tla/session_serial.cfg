\* A peer that waits for each answer; the socket never fails to send.
SPECIFICATION Spec
CONSTANTS
  NRoutes = 2
  SendFaults = {}
  Tls = FALSE
  SendLen = 2
  DeclaredLen = 1
  BufSize = 5
  Streams <- SerialStreams
  Handlers <- SerialHandlers
  CatchAll = FALSE
  SizeRange = 65536
  Pipelining = FALSE
  AllocFails = FALSE
INVARIANTS
  TypeOK
  WindowInBuffer
  OwnerIsRoute
  InStep
  ReadWhole
  WireWellFormed
PROPERTIES
  DialogueSpec
