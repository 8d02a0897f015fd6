SPECIFICATION Spec
CONSTANTS
  InSize = 8
  OutSize = 6
  Logins <- MCLogins
  Requests <- FewRequests
  InitUsers <- MCUsers
  Anonymous <- anonymous
  Visitor <- guest
  MaxUsers = 3
  Statistic = {258}
  Junk = 99
  MaxMessages = 3
  MaxWindow = 2
PROPERTY
  PipelinedAnswered
