\* Two servers, one after the other, on both ports; the system may refuse any call.
SPECIFICATION Spec
CONSTANTS
  Platforms = {"linux", "freertos"}
  Starts = 2
  Blocks = {b1, b2}
INVARIANTS
  TypeOK
  TimerToDelete
  NoTimerLeft
