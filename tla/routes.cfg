\* Four routes, two sessions; the application's thread and the handlers append and clear
\* in turn, whatever requests are under way.
SPECIFICATION Spec
CONSTANTS
  Nodes = 4
  Sessions = {s1, s2}
  Shared = FALSE
INVARIANTS
  TypeOK
  ListIsTable
  OnlyHalfFilled
PROPERTIES
  FreedUnderIt
  TableSpec
