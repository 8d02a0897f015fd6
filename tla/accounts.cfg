SPECIFICATION Spec
CONSTANTS
  Session = {s1, s2}
  Admin = {a1, a2}
  User = {anonymous, alice, bob}
  Anonymous = anonymous
  NoUser = NoUser
  MaxUsers = 3
  CountMod = 3
  ConnMax = 8
  UserCountMax = 3
  MaxEarly = 1
SYMMETRY Interchangeable
VIEW Live
CONSTRAINT FewEarly
INVARIANTS
  TypeOK
  NoDanglingUser
  CountersFollow
PROPERTY
  RemoverAnswers
