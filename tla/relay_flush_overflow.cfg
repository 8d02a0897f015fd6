SPECIFICATION Spec
CONSTANTS
  BufSize = 2
  SockCap = 1
  MaxBytes = 3
  MaxClientBytes = 3
  CleanupEnabled = TRUE
INVARIANT FlushEndsDrained
