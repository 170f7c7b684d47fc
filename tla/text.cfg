\* One call of find, findp, fnmatch or parse_path on every argument of a few characters.
SPECIFICATION Spec
CONSTANTS
  Byte      <- MCByte
  Buffers   <- MCBuffers
  Needles   <- MCNeedles
  Char      <- MCChar
  Patterns  <- MCPatterns
  Paths     <- MCPaths
  Targets   <- MCTargets
  Leftovers <- MCLeftovers
INVARIANTS
  FirstFound
  ReadsInside
  OnlyGlobs
  PlainGlobs
  UnreadIntact
  SameSegments
PROPERTIES
  Returns
CHECK_DEADLOCK FALSE
