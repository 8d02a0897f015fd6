SPECIFICATION Spec
CONSTANTS
  InSize = 5
  OutSize = 10
  Scripts <- MCScripts
  Users <- MCUsers
  Anonymous <- anonymous
  MaxMessages = 4
  MaxWindow = 3
INVARIANT
  RepliesDocumented
