SPECIFICATION Spec
CONSTANTS
  InSize = 3
  OutSize = 6
  Logins <- MCLogins
  Requests <- MCRequests
  InitUsers <- MCUsers
  Anonymous <- anonymous
  Visitor <- guest
  MaxUsers = 3
  Statistic = {258}
  Junk = 99
  MaxMessages = 3
  MaxWindow = 2
INVARIANTS
  TypeOK
  RepliesExact
  ListsFreed
  ServedByAdmin
PROPERTIES
  EveryRequestAnswered
