SPECIFICATION Spec
CONSTANTS
  InSize = 2
  OutSize = 8
  Logins <- MCLogins
  Requests <- Disputes
  InitUsers <- MCUsers
  Anonymous <- anonymous
  Visitor <- guest
  MaxUsers = 3
  Statistic = {258}
  Junk = 99
  MaxMessages = 3
  MaxWindow = 2
INVARIANT
  AnswersDocumented
