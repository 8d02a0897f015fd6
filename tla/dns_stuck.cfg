SPECIFICATION Spec
CONSTANTS
  Fd = {1, 2, 3, 4, 5}
  MaxAddr = 1
  MaxData = 1
  CleanupEnabled = FALSE
INVARIANT StillAsking
