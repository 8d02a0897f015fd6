SPECIFICATION AnsweringSpec
CONSTANTS
  Fd = {1, 2, 3, 4}
  MaxAddr = 2
  MaxData = 1
  CleanupEnabled = TRUE
INVARIANTS
  TypeOK
  DescriptorsOwned
  OneReply
PROPERTIES
  OthersUntouched
  AllTried
  ResolutionEnds
