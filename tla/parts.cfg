SPECIFICATION PartsSpec
CONSTANTS
  N = 4
  Byte = {0, 1, 2}
  Zero = 0
  FdLimit = 5
  SetSize = 4
  InitialElements = 4
  Listeners = 1
  Proxies = {p1, p2}
  Admins = {a1}
  MaxRemotes = 1
  None = None
  Answers <- MCAnswers
  CountMod = 4
  MaxReceive = 2
  MaxShown = 3
  Talks <- MCTalks
SYMMETRY Interchangeable
INVARIANTS
  BufTypeOK
  DrainedIsRewound
  SelTypeOK
  TableSound
  NoBadDescriptor
  OwnedUnlessTooBig
  DohTypeOK
  AnswerExact
  LoggedExact
PROPERTIES
  Fifo
  CalledForHolder
  Refinement
