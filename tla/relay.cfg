SPECIFICATION FairSpec
CONSTANTS
  BufSize = 2
  SockCap = 1
  MaxBytes = 3
  MaxClientBytes = 2
  CleanupEnabled = TRUE
INVARIANTS
  TypeOK
  InterestMatchesWork
  ClosingHasBytes
  FullOnlyAfterEof
  BytesConserved
PROPERTIES
  Refinement
  HalfCloseRelayed
  IdleSessionEnds
