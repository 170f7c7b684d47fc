\* A server is started and stopped.
SPECIFICATION Spec
CONSTANTS
  Platforms = {"linux", "freertos"}
  Starts = 1
  Blocks = {b1}
INVARIANT StopCleansUp
