--------------------------- MODULE AccountsProofs ---------------------------
(***************************************************************************)
(* For any sessions, administration sessions and users: no session of      *)
(* either kind ever holds a freed user, the anonymous user is never        *)
(* removed, nobody is served without a user, the session that removes a    *)
(* user survives to answer, and the counters are those of the sessions     *)
(* that are open.                                                          *)
(***************************************************************************)
EXTENDS Accounts, ByteLemmas, FiniteSetTheorems, TLAPS

SessionType == [state : States, method : Methods, user : User \cup {NoUser},
                server : BOOLEAN]
AdminType   == [state : AdminStates, user : User \cup {NoUser}]

TablesOK ==
  /\ sess \in [Session -> SessionType]
  /\ adm \in [Admin -> AdminType]
  /\ users \in SUBSET User
  /\ admins \in SUBSET users

CountersOK ==
  /\ count \in [User -> 0 .. CountMod - 1]
  /\ userCount \in 0 .. UserCountMax
  /\ connections \in 0 .. ConnMax
  /\ early \in [User -> 0 .. CountMod - 1]
  /\ drifted \in BOOLEAN

LEMMA TypeParts == TypeOK <=> TablesOK /\ CountersOK
  BY DEF TypeOK, TablesOK, CountersOK, SessionType, AdminType

Tables == TablesOK /\ NoDanglingUser /\ AnonymousPresent /\ AuthenticatedHasUser
IInv   == Tables /\ CountersOK
-----------------------------------------------------------------------------
(* Counters.                                                               *)

LEMMA ModType == ASSUME NEW x \in Int PROVE x % CountMod \in 0 .. CountMod - 1
  BY AccountsAssumption

LEMMA CardinalityNat ==
  ASSUME NEW C, C \subseteq Session
  PROVE  IsFiniteSet(C) /\ Cardinality(C) \in Nat
  BY AccountsAssumption, FS_Subset, FS_CardinalityType

LEMMA FdsNat ==
  ASSUME NEW C, C \subseteq Session
  PROVE  Fds(C) \in Nat
<1>1. {s \in C : sess[s].server} \subseteq Session
  OBVIOUS
<1> QED BY <1>1, CardinalityNat DEF Fds

LEMMA UncountType ==
  ASSUME CountersOK, NEW u \in User, NEW n \in Nat, UncountUser(u, n)
  PROVE  count' \in [User -> 0 .. CountMod - 1] /\ userCount' \in 0 .. UserCountMax
<1> DEFINE Z == {i \in 1 .. n : (count[u] - i) % CountMod = 0}
           zeros == Cardinality(Z)
<1>1. zeros \in Nat
  <2>1. Z \subseteq 1 .. n /\ IsFiniteSet(1 .. n)
    BY FS_Interval
  <2> QED BY <2>1, FS_Subset, FS_CardinalityType
<1>2. userCount' = IF zeros <= userCount THEN userCount - zeros ELSE 0
  BY DEF UncountUser
<1>3. userCount \in 0 .. UserCountMax /\ UserCountMax \in Nat
  BY AccountsAssumption DEF CountersOK
<1>4. userCount' \in 0 .. UserCountMax
  <2> HIDE DEF zeros
  <2> QED BY ONLY <1>1, <1>2, <1>3
<1>5. count' = [count EXCEPT ![u] = (@ - n) % CountMod]
  BY DEF UncountUser
<1>6. count[u] - n \in Int
  BY AccountsAssumption DEF CountersOK
<1>7. (count[u] - n) % CountMod \in 0 .. CountMod - 1
  BY <1>6, ModType
<1> QED BY <1>4, <1>5, <1>7 DEF CountersOK

LEMMA CountType ==
  ASSUME CountersOK, NEW u \in User, CountUser(u)
  PROVE  count' \in [User -> 0 .. CountMod - 1] /\ userCount' \in 0 .. UserCountMax
<1>1. count[u] + 1 \in Int
  BY AccountsAssumption DEF CountersOK
<1>2. (count[u] + 1) % CountMod \in 0 .. CountMod - 1
  BY <1>1, ModType
<1>3. count' \in [User -> 0 .. CountMod - 1]
  BY <1>2 DEF CountUser, CountersOK
<1>4. userCount \in 0 .. UserCountMax /\ UserCountMax \in Nat
  BY AccountsAssumption DEF CountersOK
<1>5. userCount' = Least(userCount + 1, UserCountMax) \/ userCount' = userCount
  BY DEF CountUser
<1>6. userCount' \in 0 .. UserCountMax
  BY ONLY <1>4, <1>5 DEF Least
<1> QED BY <1>3, <1>6

LEMMA IncType ==
  ASSUME CountersOK, IncConnections PROVE connections' \in 0 .. ConnMax
<1>1. connections \in 0 .. ConnMax /\ ConnMax \in Nat
  BY AccountsAssumption DEF CountersOK
<1>2. connections' = Least(connections + 1, ConnMax)
  BY DEF IncConnections
<1> QED BY ONLY <1>1, <1>2 DEF Least

LEMMA DecType ==
  ASSUME CountersOK, NEW n \in Nat, DecConnections(n) PROVE connections' \in 0 .. ConnMax
<1>1. connections \in 0 .. ConnMax /\ ConnMax \in Nat
  BY AccountsAssumption DEF CountersOK
<1>2. connections' = IF n <= connections THEN connections - n ELSE 0
  BY DEF DecConnections
<1> QED BY ONLY <1>1, <1>2, n \in Nat

\* Closing sessions of one user keeps the counters in range.
LEMMA CloseType ==
  ASSUME CountersOK, NEW C, C \subseteq Session, NEW u \in User \cup {NoUser},
         CloseSessions(C, u)
  PROVE  CountersOK'
<1>1. Cardinality(C) \in Nat /\ Fds(C) \in Nat
  BY CardinalityNat, FdsNat
<1>2. connections' \in 0 .. ConnMax
  BY <1>1, DecType DEF CloseSessions
<1>3. CASE u = NoUser
  BY <1>2, <1>3 DEF CloseSessions, counts, history, CountersOK
<1>4. CASE u # NoUser
  <2>1. u \in User /\ UncountUser(u, Cardinality(C)) /\ NoteEarly(C, u)
    BY <1>4 DEF CloseSessions
  <2>2. count' \in [User -> 0 .. CountMod - 1] /\ userCount' \in 0 .. UserCountMax
    BY <1>1, <2>1, UncountType
  <2> DEFINE E == {s \in C : sess[s].state = "AUTH_SUCCESSFUL"}
             n == Cardinality(E)
  <2>3. early' = [early EXCEPT ![u] = (@ + n) % CountMod] /\ drifted' = (drifted \/ E # {})
    BY <2>1 DEF NoteEarly
  <2>4. n \in Nat
    BY CardinalityNat, E \subseteq Session
  <2> HIDE DEF n, E
  <2>5. early[u] + n \in Int
    BY <2>1, <2>4, AccountsAssumption DEF CountersOK
  <2>6. (early[u] + n) % CountMod \in 0 .. CountMod - 1
    BY <2>5, ModType
  <2>7. early' \in [User -> 0 .. CountMod - 1]
    BY <2>3, <2>6 DEF CountersOK
  <2>8. drifted' \in BOOLEAN
    BY <2>3
  <2> QED BY <1>2, <2>2, <2>7, <2>8 DEF CountersOK
<1> QED BY <1>3, <1>4
-----------------------------------------------------------------------------
LEMMA InitIInv == Init => IInv
<1> SUFFICES ASSUME Init PROVE IInv
  OBVIOUS
<1> USE AccountsAssumption
<1>1. TablesOK
  <2>1. NoSession \in SessionType
    BY DEF NoSession, SessionType, States, Methods
  <2>2. NoAdmin \in AdminType
    BY DEF NoAdmin, AdminType, AdminStates
  <2>3. users \in SUBSET User /\ admins \in SUBSET users
    BY DEF Init
  <2> QED BY <2>1, <2>2, <2>3 DEF Init, TablesOK
<1>2. NoDanglingUser
  BY DEF Init, NoDanglingUser, NoSession, NoAdmin
<1>3. AnonymousPresent
  BY DEF Init, AnonymousPresent
<1>4. AuthenticatedHasUser
  BY DEF Init, AuthenticatedHasUser, NoSession, NoAdmin
<1>5. CountersOK
  <2>1. 0 \in 0 .. CountMod - 1 /\ 0 \in 0 .. UserCountMax /\ 0 \in 0 .. ConnMax
    OBVIOUS
  <2> QED BY <2>1 DEF Init, CountersOK
<1> QED BY <1>1, <1>2, <1>3, <1>4, <1>5 DEF IInv, Tables
-----------------------------------------------------------------------------
(* One session goes to another state, maybe with another user.             *)

Authenticated == {"AUTH_SUCCESSFUL", "REQUEST", "REQUEST_ERROR", "IP_CONNECT",
                  "REQUEST_SUCCESSFUL", "FORWARDING"}
Commanding    == {"AUTH_ACK", "METHOD", "METHOD_RESPONSE"}

LEMMA SessionUpdate ==
  ASSUME Tables, NEW s \in Session, NEW r \in SessionType,
         r.user # NoUser => r.user \in users,
         r.state \in Authenticated => r.user # NoUser,
         sess' = [sess EXCEPT ![s] = r], UNCHANGED tables
  PROVE  Tables'
<1>1. TablesOK'
  BY DEF Tables, TablesOK, tables
<1>2. \A x \in Session : sess'[x] = IF x = s THEN r ELSE sess[x]
  BY DEF Tables, TablesOK
<1>3. NoDanglingUser'
  BY <1>2 DEF Tables, NoDanglingUser, tables
<1>4. AnonymousPresent'
  BY DEF Tables, AnonymousPresent, tables
<1>5. AuthenticatedHasUser'
  BY <1>2 DEF Tables, AuthenticatedHasUser, Authenticated, tables
<1> QED BY <1>1, <1>3, <1>4, <1>5 DEF Tables

LEMMA AdminUpdate ==
  ASSUME Tables, NEW a \in Admin, NEW r \in AdminType,
         r.user # NoUser => r.user \in users,
         r.state \in Commanding => r.user \in admins,
         adm' = [adm EXCEPT ![a] = r], UNCHANGED <<sess, users, admins>>
  PROVE  Tables'
<1>1. TablesOK'
  BY DEF Tables, TablesOK
<1>2. \A x \in Admin : adm'[x] = IF x = a THEN r ELSE adm[x]
  BY DEF Tables, TablesOK
<1>3. NoDanglingUser'
  BY <1>2 DEF Tables, NoDanglingUser
<1>4. AnonymousPresent'
  BY DEF Tables, AnonymousPresent
<1>5. AuthenticatedHasUser'
  BY <1>2 DEF Tables, AuthenticatedHasUser, Commanding
<1> QED BY <1>1, <1>3, <1>4, <1>5 DEF Tables

\* A session in r's place whose user does not change.
LEMMA SessionGoto ==
  ASSUME Tables, NEW s \in Session, NEW state \in States,
         state \in Authenticated => sess[s].user # NoUser,
         Goto(s, state), UNCHANGED tables
  PROVE  Tables'
<1> DEFINE r == [sess[s] EXCEPT !.state = state]
<1>1. sess[s] \in SessionType
  BY DEF Tables, TablesOK
<1>2. r \in SessionType /\ r.user = sess[s].user /\ r.state = state
  BY <1>1 DEF SessionType
<1>3. sess' = [sess EXCEPT ![s] = r]
  BY DEF Goto, Tables, TablesOK
<1>4. r.user # NoUser => r.user \in users
  BY <1>2 DEF Tables, NoDanglingUser
<1> HIDE DEF r
<1> QED BY <1>2, <1>3, <1>4, SessionUpdate

LEMMA AdminGotoKeeps ==
  ASSUME Tables, NEW a \in Admin, NEW state \in AdminStates,
         state \in Commanding => adm[a].user \in admins,
         AdminGoto(a, state), UNCHANGED <<sess, users, admins>>
  PROVE  Tables'
<1> DEFINE r == [adm[a] EXCEPT !.state = state]
<1>1. adm[a] \in AdminType
  BY DEF Tables, TablesOK
<1>2. r \in AdminType /\ r.user = adm[a].user /\ r.state = state
  BY <1>1 DEF AdminType
<1>3. adm' = [adm EXCEPT ![a] = r]
  BY DEF AdminGoto, Tables, TablesOK
<1>4. r.user # NoUser => r.user \in users
  BY <1>2 DEF Tables, NoDanglingUser
<1> HIDE DEF r
<1> QED BY <1>2, <1>3, <1>4, AdminUpdate
-----------------------------------------------------------------------------
(* Every step of a SOCKS5 session.                                         *)

LEMMA SessionStepKeeps ==
  ASSUME IInv, NEW s \in Session, SessionStep(s)
  PROVE  IInv'
<1>1. Tables /\ CountersOK /\ sess[s] \in SessionType
  BY DEF IInv, Tables, TablesOK
<1>2. sess[s].state \in Authenticated => sess[s].user # NoUser
  BY <1>1 DEF Tables, AuthenticatedHasUser, Authenticated
<1> USE DEF IInv
<1>3. CASE Accept(s)
  <2>1. Tables'
    BY <1>1, <1>3, SessionGoto DEF Accept, Authenticated, States
  <2>2. CountersOK'
    BY <1>1, <1>3, IncType DEF Accept, CountersOK, counts, history
  <2> QED BY <2>1, <2>2
<1>4. CASE Hello(s)
  <2>1. PICK offered \in SUBSET Methods, wellFormed \in BOOLEAN :
          sess' = [sess EXCEPT ![s].method = Preferred(offered),
                               ![s].state =
                     IF wellFormed /\ Preferred(offered) # "NO_ACCEPTABLE_METHODS"
                     THEN "AUTH_METHOD_ANNOUNCEMENT" ELSE "HELLO_ERROR"]
    BY <1>4 DEF Hello
  <2> DEFINE st == IF wellFormed /\ Preferred(offered) # "NO_ACCEPTABLE_METHODS"
                   THEN "AUTH_METHOD_ANNOUNCEMENT" ELSE "HELLO_ERROR"
             r == [[sess[s] EXCEPT !.method = Preferred(offered)] EXCEPT !.state = st]
  <2>2. st \in States \ Authenticated
    BY DEF States, Errors, Authenticated
  <2>3. Preferred(offered) \in Methods
    BY DEF Preferred, Methods
  <2>4. sess' = [sess EXCEPT ![s] = r]
    BY <1>1, <2>1 DEF Tables, TablesOK
  <2> HIDE DEF st
  <2>5. r \in SessionType /\ r.user = sess[s].user /\ r.state = st
    BY <1>1, <2>2, <2>3 DEF SessionType
  <2>6. r.user # NoUser => r.user \in users
    BY <1>1, <2>5 DEF Tables, NoDanglingUser
  <2> HIDE DEF r
  <2>7. Tables'
    <3>1. UNCHANGED tables
      BY <1>4 DEF Hello
    <3> QED BY <1>1, <2>2, <2>4, <2>5, <2>6, <3>1, SessionUpdate
  <2>8. CountersOK'
    BY <1>1, <1>4 DEF Hello, CountersOK, counts, history
  <2> QED BY <2>7, <2>8
<1>5. CASE MethodAnnounced(s)
  <2>1. UNCHANGED tables /\ UNCHANGED connections
    BY <1>5 DEF MethodAnnounced
  <2>2. CASE /\ Anonymous \in users
             /\ sess' = [sess EXCEPT ![s].user = Anonymous, ![s].state = "REQUEST"]
             /\ CountUser(Anonymous)
             /\ UNCHANGED history
    <3> DEFINE r == [[sess[s] EXCEPT !.user = Anonymous] EXCEPT !.state = "REQUEST"]
    <3>1. Anonymous \in User /\ Anonymous # NoUser
      BY AccountsAssumption
    <3>2. r \in SessionType /\ r.user = Anonymous /\ r.state = "REQUEST"
      <4>1. "REQUEST" \in States
        BY DEF States
      <4> QED BY <1>1, <3>1, <4>1 DEF SessionType
    <3>3. sess' = [sess EXCEPT ![s] = r]
      BY <1>1, <2>2 DEF Tables, TablesOK
    <3> HIDE DEF r
    <3>4. Tables'
      BY <1>1, <2>1, <2>2, <3>1, <3>2, <3>3, SessionUpdate
    <3>5. CountersOK'
      BY <1>1, <2>1, <2>2, <3>1, CountType DEF CountersOK, history
    <3> QED BY <3>4, <3>5
  <2>3. CASE Goto(s, "AUTH_REQUEST") /\ UNCHANGED counts
    <3>1. Tables'
      BY <1>1, <2>1, <2>3, SessionGoto DEF States, Authenticated
    <3>2. CountersOK'
      BY <1>1, <2>1, <2>3 DEF CountersOK, counts, history
    <3> QED BY <3>1, <3>2
  <2>4. Anonymous \in users
    BY <1>1 DEF Tables, AnonymousPresent
  <2> QED BY <1>5, <2>2, <2>3, <2>4 DEF MethodAnnounced
<1>6. CASE AuthRequest(s)
  <2>1. UNCHANGED tables /\ CountersOK'
    BY <1>1, <1>6 DEF AuthRequest, CountersOK, counts, history
  <2>2. CASE Goto(s, "AUTH_ERROR")
    BY <1>1, <2>1, <2>2, SessionGoto DEF States, Errors, Authenticated
  <2>3. ASSUME NEW u \in users,
               sess' = [sess EXCEPT ![s].user = u, ![s].state = "AUTH_SUCCESSFUL"]
        PROVE  Tables'
    <3> DEFINE r == [[sess[s] EXCEPT !.user = u] EXCEPT !.state = "AUTH_SUCCESSFUL"]
    <3>1. u \in User /\ u # NoUser
      BY <1>1, AccountsAssumption DEF Tables, TablesOK
    <3>2. r \in SessionType /\ r.user = u
      <4>1. "AUTH_SUCCESSFUL" \in States
        BY DEF States
      <4> QED BY <1>1, <3>1, <4>1 DEF SessionType
    <3>3. sess' = [sess EXCEPT ![s] = r]
      BY <1>1, <2>3 DEF Tables, TablesOK
    <3> HIDE DEF r
    <3> QED BY <1>1, <2>1, <3>1, <3>2, <3>3, SessionUpdate
  <2> QED BY <1>6, <2>1, <2>2, <2>3 DEF AuthRequest
<1>7. CASE AuthSuccessful(s)
  <2>1. sess[s].user # NoUser /\ sess[s].user \in User
    BY <1>1, <1>2, <1>7 DEF AuthSuccessful, Authenticated, SessionType
  <2>2. Tables'
    BY <1>1, <1>7, <2>1, SessionGoto DEF AuthSuccessful, States
  <2>3. CountersOK'
    BY <1>1, <1>7, <2>1, CountType DEF AuthSuccessful, CountersOK, history
  <2> QED BY <2>2, <2>3
<1>8. CASE Request(s)
  <2>1. sess[s].user # NoUser /\ UNCHANGED tables
    BY <1>2, <1>8 DEF Request, Authenticated
  <2>2. CountersOK'
    BY <1>1, <1>8, IncType DEF Request, CountersOK, counts, history
  <2>3. CASE Goto(s, "REQUEST_ERROR")
    BY <1>1, <2>1, <2>2, <2>3, SessionGoto DEF States, Errors
  <2>4. CASE sess' = [sess EXCEPT ![s].state = "IP_CONNECT", ![s].server = TRUE]
    <3> DEFINE r == [[sess[s] EXCEPT !.state = "IP_CONNECT"] EXCEPT !.server = TRUE]
    <3>1. r \in SessionType /\ r.user = sess[s].user
      <4>1. "IP_CONNECT" \in States
        BY DEF States
      <4> QED BY <1>1, <4>1 DEF SessionType
    <3>2. sess' = [sess EXCEPT ![s] = r]
      BY <1>1, <2>4 DEF Tables, TablesOK
    <3>3. r.user \in users
      BY <1>1, <2>1, <3>1 DEF Tables, NoDanglingUser
    <3> HIDE DEF r
    <3> QED BY <1>1, <2>1, <2>2, <3>1, <3>2, <3>3, SessionUpdate
  <2> QED BY <1>8, <2>3, <2>4 DEF Request
<1>9. CASE IpConnect(s)
  <2>1. sess[s].user # NoUser /\ UNCHANGED tables
    BY <1>2, <1>9 DEF IpConnect, Authenticated
  <2>2. CountersOK'
    BY <1>1, <1>9, DecType DEF IpConnect, CountersOK, counts, history
  <2>3. CASE Goto(s, "REQUEST_SUCCESSFUL")
    BY <1>1, <2>1, <2>2, <2>3, SessionGoto DEF States
  <2>4. CASE sess' = [sess EXCEPT ![s].state = "REQUEST_ERROR", ![s].server = FALSE]
    <3> DEFINE r == [[sess[s] EXCEPT !.state = "REQUEST_ERROR"] EXCEPT !.server = FALSE]
    <3>1. r \in SessionType /\ r.user = sess[s].user
      <4>1. "REQUEST_ERROR" \in States
        BY DEF States, Errors
      <4> QED BY <1>1, <4>1 DEF SessionType
    <3>2. sess' = [sess EXCEPT ![s] = r]
      BY <1>1, <2>4 DEF Tables, TablesOK
    <3>3. r.user \in users
      BY <1>1, <2>1, <3>1 DEF Tables, NoDanglingUser
    <3> HIDE DEF r
    <3> QED BY <1>1, <2>1, <2>2, <3>1, <3>2, <3>3, SessionUpdate
  <2> QED BY <1>9, <2>3, <2>4 DEF IpConnect
<1>10. CASE RequestSuccessful(s)
  <2>1. sess[s].user # NoUser
    BY <1>2, <1>10 DEF RequestSuccessful, Authenticated
  <2>2. Tables'
    BY <1>1, <1>10, <2>1, SessionGoto DEF RequestSuccessful, States
  <2>3. CountersOK'
    BY <1>1, <1>10 DEF RequestSuccessful, CountersOK, counts, history
  <2> QED BY <2>2, <2>3
<1>11. CASE Close(s)
  <2>1. CloseSessions({s}, sess[s].user) /\ UNCHANGED tables
    BY <1>11 DEF Close, CloseOne
  <2>2. sess[s].user \in User \cup {NoUser}
    BY <1>1 DEF SessionType
  <2>3. CountersOK'
    BY <1>1, <2>1, <2>2, CloseType
  <2>4. NoSession \in SessionType /\ NoSession.user = NoUser /\ NoSession.state = "NONE"
    BY DEF NoSession, SessionType, States, Methods
  <2>5. sess' = [sess EXCEPT ![s] = NoSession]
    BY <1>1, <2>1 DEF CloseSessions, Tables, TablesOK
  <2>6. Tables'
    BY <1>1, <2>1, <2>4, <2>5, SessionUpdate DEF Authenticated
  <2> QED BY <2>3, <2>6
<1> QED
  BY <1>3, <1>4, <1>5, <1>6, <1>7, <1>8, <1>9, <1>10, <1>11 DEF SessionStep
-----------------------------------------------------------------------------
(* Every step of an administration session.                                *)

LEMMA NoAdminType ==
  NoAdmin \in AdminType /\ NoAdmin.user = NoUser /\ NoAdmin.state = "NONE"
  BY DEF NoAdmin, AdminType, AdminStates

\* The heart of user_handler_delete_user: the sessions of u are gone before u.
LEMMA RemoveKeeps ==
  ASSUME IInv, NEW a \in Admin, NEW u \in User, RemoveUser(a, u)
  PROVE  IInv'
<1> DEFINE C == {s \in Session : sess[s].user = u}
           next(x) == IF x \in AdminsOf(u) THEN NoAdmin
                      ELSE IF x = a THEN [adm[a] EXCEPT !.state = "METHOD_RESPONSE"]
                      ELSE adm[x]
<1>1. Tables /\ CountersOK
  BY DEF IInv
<1>2. /\ adm[a].state = "METHOD" /\ u # Anonymous
      /\ CloseSessions(C, u)
      /\ adm' = [x \in Admin |-> next(x)]
      /\ users' = users \ {u} /\ admins' = admins \ {u}
  BY DEF RemoveUser, MayRemove
<1>3. CountersOK'
  BY <1>1, <1>2, CloseType, C \subseteq Session
<1>4. \A s \in Session : sess'[s] = IF sess[s].user = u THEN NoSession ELSE sess[s]
  BY <1>2 DEF CloseSessions
<1>5. NoSession \in SessionType /\ NoSession.user = NoUser /\ NoSession.state = "NONE"
  BY DEF NoSession, SessionType, States, Methods
<1>6. sess' \in [Session -> SessionType]
  BY <1>1, <1>2, <1>5 DEF CloseSessions, Tables, TablesOK
<1>7. \A x \in Admin : adm'[x] = next(x)
  BY <1>2
<1>8. [adm[a] EXCEPT !.state = "METHOD_RESPONSE"] \in AdminType
      /\ [adm[a] EXCEPT !.state = "METHOD_RESPONSE"].user = adm[a].user
  BY <1>1 DEF Tables, TablesOK, AdminType, AdminStates
<1>9. \A x \in Admin :
        /\ adm'[x] \in AdminType
        /\ adm'[x] = NoAdmin \/ (adm'[x].user = adm[x].user /\ adm[x].user # u)
        /\ adm'[x].state \in Commanding => adm[x].state \in Commanding
  <2> TAKE x \in Admin
  <2>1. CASE adm[x].user = u
    BY <1>7, <2>1, NoAdminType DEF AdminsOf, Commanding
  <2>2. CASE adm[x].user # u /\ x = a
    <3>1. adm'[x] = [adm[a] EXCEPT !.state = "METHOD_RESPONSE"]
      BY <1>7, <2>2 DEF AdminsOf
    <3> QED BY <1>2, <1>8, <2>2, <3>1 DEF Commanding
  <2>3. CASE adm[x].user # u /\ x # a
    <3>1. adm'[x] = adm[x]
      BY <1>7, <2>3 DEF AdminsOf
    <3> QED BY <1>1, <2>3, <3>1 DEF Tables, TablesOK
  <2> QED BY <2>1, <2>2, <2>3
<1>10. TablesOK'
  <2>1. adm' \in [Admin -> AdminType]
    BY <1>2, <1>9
  <2> QED BY <1>1, <1>2, <1>6, <2>1 DEF Tables, TablesOK
<1>11. NoDanglingUser'
  <2>1. ASSUME NEW s \in Session, sess'[s].user # NoUser PROVE sess'[s].user \in users'
    <3>1. sess'[s] = sess[s] /\ sess[s].user # u
      BY <1>4, <1>5, <2>1
    <3>2. sess[s].user \in users
      BY <1>1, <2>1, <3>1 DEF Tables, NoDanglingUser
    <3> QED BY <1>2, <3>1, <3>2
  <2>2. ASSUME NEW x \in Admin, adm'[x].user # NoUser PROVE adm'[x].user \in users'
    <3>1. adm'[x].user = adm[x].user /\ adm[x].user # u
      BY <1>9, <2>2, NoAdminType
    <3>2. adm[x].user \in users
      BY <1>1, <2>2, <3>1 DEF Tables, NoDanglingUser
    <3> QED BY <1>2, <3>1, <3>2
  <2> QED BY <2>1, <2>2 DEF NoDanglingUser
<1>12. AnonymousPresent'
  BY <1>1, <1>2 DEF Tables, AnonymousPresent
<1>13. AuthenticatedHasUser'
  <2>1. \A s \in Session : sess'[s].state \in Authenticated => sess'[s].user # NoUser
    BY <1>1, <1>4, <1>5 DEF Tables, AuthenticatedHasUser, Authenticated
  <2>2. \A x \in Admin : adm'[x].state \in Commanding => adm'[x].user \in admins'
    <3> SUFFICES ASSUME NEW x \in Admin, adm'[x].state \in Commanding
                 PROVE  adm'[x].user \in admins'
      OBVIOUS
    <3>1. adm'[x].user = adm[x].user /\ adm[x].user # u /\ adm[x].state \in Commanding
      <4>1. "NONE" \notin Commanding
        BY DEF Commanding
      <4> QED BY <1>9, <4>1, NoAdminType
    <3>2. adm[x].user \in admins
      BY <1>1, <3>1 DEF Tables, AuthenticatedHasUser, Commanding
    <3> QED BY <1>2, <3>1, <3>2
  <2> QED BY <2>1, <2>2 DEF AuthenticatedHasUser, Authenticated, Commanding
<1> QED BY <1>3, <1>10, <1>11, <1>12, <1>13 DEF IInv, Tables

LEMMA AdminStepKeeps ==
  ASSUME IInv, NEW a \in Admin, AdminStep(a)
  PROVE  IInv'
<1>1. Tables /\ CountersOK /\ adm[a] \in AdminType
  BY DEF IInv, Tables, TablesOK
<1>2. adm[a].state \in Commanding => adm[a].user \in admins
  BY <1>1 DEF Tables, AuthenticatedHasUser, Commanding
<1>3. ASSUME Tables', UNCHANGED socks PROVE IInv'
  BY <1>1, <1>3 DEF IInv, CountersOK, socks, counts, history
<1>4. CASE AdminAccept(a)
  <2>1. UNCHANGED socks /\ UNCHANGED <<sess, users, admins>>
    BY <1>4 DEF AdminAccept, socks
  <2> QED BY <1>1, <1>3, <1>4, <2>1, AdminGotoKeeps DEF AdminAccept, AdminStates, Commanding
<1>5. CASE AdminAuth(a)
  <2>1. UNCHANGED socks /\ UNCHANGED <<sess, users, admins>>
    BY <1>5 DEF AdminAuth, socks
  <2>2. CASE AdminGoto(a, "AUTH_ERROR")
    BY <1>1, <1>3, <2>1, <2>2, AdminGotoKeeps DEF AdminStates, Commanding
  <2>3. ASSUME NEW u \in users, NEW st \in {"AUTH_ERROR", "AUTH_ACK"},
               st = "AUTH_ACK" => u \in admins,
               adm' = [adm EXCEPT ![a] = [state |-> st, user |-> u]]
        PROVE  IInv'
    <3> DEFINE r == [state |-> st, user |-> u]
    <3>1. r \in AdminType /\ r.user = u /\ r.state = st
      BY <1>1 DEF AdminType, AdminStates, Tables, TablesOK
    <3>2. r.state \in Commanding => r.user \in admins
      BY <2>3, <3>1 DEF Commanding
    <3> HIDE DEF r
    <3>3. adm' = [adm EXCEPT ![a] = r]
      BY <2>3 DEF r
    <3> QED BY <1>1, <1>3, <2>1, <3>1, <3>2, <3>3, AdminUpdate
  <2> QED BY <1>5, <2>2, <2>3 DEF AdminAuth, AdminLetIn
<1>6. CASE AdminReply(a)
  <2>1. UNCHANGED socks /\ UNCHANGED <<sess, users, admins>>
    BY <1>6 DEF AdminReply, socks
  <2>2. CASE adm[a].state \in {"AUTH_ACK", "METHOD_RESPONSE"} /\ AdminGoto(a, "METHOD")
    BY <1>1, <1>2, <1>3, <2>1, <2>2, AdminGotoKeeps DEF AdminStates, Commanding
  <2>3. CASE adm' = [adm EXCEPT ![a] = NoAdmin]
    BY <1>1, <1>3, <2>1, <2>3, NoAdminType, AdminUpdate DEF Commanding
  <2> QED BY <1>6, <2>2, <2>3 DEF AdminReply
<1>7. CASE AdminQuery(a)
  <2>1. UNCHANGED socks /\ UNCHANGED <<sess, users, admins>>
    BY <1>7 DEF AdminQuery, socks
  <2> QED BY <1>1, <1>2, <1>3, <1>7, <2>1, AdminGotoKeeps
          DEF AdminQuery, AdminStates, Commanding
<1>8. CASE AdminClose(a)
  <2>1. UNCHANGED socks /\ UNCHANGED <<sess, users, admins>>
    BY <1>8 DEF AdminClose, socks
  <2> QED BY <1>1, <1>3, <1>8, <2>1, NoAdminType, AdminUpdate DEF AdminClose, Commanding
<1>9. ASSUME NEW u \in User, NEW isAdmin \in BOOLEAN, AddUser(a, u, isAdmin)
      PROVE  IInv'
  <2> DEFINE r == [adm[a] EXCEPT !.state = "METHOD_RESPONSE"]
  <2>1. /\ adm[a].state = "METHOD" /\ u \notin users
        /\ users' = users \cup {u} /\ admins \subseteq admins' /\ admins' \subseteq admins \cup {u}
        /\ count' = [count EXCEPT ![u] = 0] /\ early' = [early EXCEPT ![u] = 0]
        /\ AdminGoto(a, "METHOD_RESPONSE")
        /\ UNCHANGED <<sess, userCount, connections, drifted>>
    BY <1>9 DEF AddUser
  <2>2. r \in AdminType /\ r.user = adm[a].user /\ r.state = "METHOD_RESPONSE"
    BY <1>1 DEF AdminType, AdminStates
  <2>3. adm' = [adm EXCEPT ![a] = r]
    BY <1>1, <2>1 DEF AdminGoto, Tables, TablesOK
  <2> HIDE DEF r
  <2>4. \A x \in Admin : adm'[x] = IF x = a THEN r ELSE adm[x]
    BY <1>1, <2>3 DEF Tables, TablesOK
  <2>5. \A x \in Admin : /\ adm'[x].user = adm[x].user
                         /\ adm'[x].state \in Commanding => adm[x].state \in Commanding
    BY <2>1, <2>2, <2>4 DEF Commanding
  <2>6. TablesOK'
    <3>1. adm' \in [Admin -> AdminType]
      BY <1>1, <2>2, <2>3 DEF Tables, TablesOK
    <3>2. users' \in SUBSET User /\ admins' \in SUBSET users'
      BY <1>1, <2>1 DEF Tables, TablesOK
    <3> QED BY <1>1, <2>1, <3>1, <3>2 DEF Tables, TablesOK
  <2>7. NoDanglingUser'
    BY <1>1, <2>1, <2>5 DEF Tables, NoDanglingUser
  <2>8. AnonymousPresent'
    BY <1>1, <2>1 DEF Tables, AnonymousPresent
  <2>9. AuthenticatedHasUser'
    <3>1. \A x \in Admin : adm'[x].state \in Commanding => adm'[x].user \in admins'
      BY <1>1, <2>1, <2>5 DEF Tables, AuthenticatedHasUser, Commanding
    <3>2. \A s \in Session : sess'[s].state \in Authenticated => sess'[s].user # NoUser
      BY <1>1, <2>1 DEF Tables, AuthenticatedHasUser, Authenticated
    <3> QED BY <3>1, <3>2 DEF AuthenticatedHasUser, Commanding, Authenticated
  <2>10. CountersOK'
    <3>1. 0 \in 0 .. CountMod - 1
      BY AccountsAssumption
    <3> QED BY <1>1, <2>1, <3>1 DEF CountersOK
  <2> QED BY <2>6, <2>7, <2>8, <2>9, <2>10 DEF IInv, Tables
<1>10. ASSUME NEW u \in User, RemoveUser(a, u) PROVE IInv'
  BY <1>10, RemoveKeeps
<1> QED BY <1>4, <1>5, <1>6, <1>7, <1>8, <1>9, <1>10 DEF AdminStep

LEMMA StutterKeeps == IInv /\ UNCHANGED vars => IInv'
  BY DEF IInv, Tables, TablesOK, CountersOK, NoDanglingUser, AnonymousPresent,
         AuthenticatedHasUser, vars
-----------------------------------------------------------------------------
\* The invariant that the others follow from.
THEOREM Invariance == Spec => []IInv
<1>1. IInv /\ [Next]_vars => IInv'
  BY SessionStepKeeps, AdminStepKeeps, StutterKeeps DEF Next
<1> QED BY <1>1, InitIInv, PTL DEF Spec

\* Every variable stays in its type, the counters in their widths.
THEOREM TypeCorrect == Spec => []TypeOK
<1>1. IInv => TypeOK
  BY TypeParts DEF IInv, Tables
<1> QED BY <1>1, Invariance, PTL

\* user_handler_delete_user never leaves a session with a freed user.
THEOREM NoneDangles == Spec => []NoDanglingUser
<1>1. IInv => NoDanglingUser
  BY DEF IInv, Tables
<1> QED BY <1>1, Invariance, PTL

\* The abort() of authMethodAnnouncement.c is never reached.
THEOREM AnonymousStays == Spec => []AnonymousPresent
<1>1. IInv => AnonymousPresent
  BY DEF IInv, Tables
<1> QED BY <1>1, Invariance, PTL

\* Nobody is served without a user, nobody commands without the admin flag.
THEOREM ServedHasUser == Spec => []AuthenticatedHasUser
<1>1. IInv => AuthenticatedHasUser
  BY DEF IInv, Tables
<1> QED BY <1>1, Invariance, PTL

\* The administration session that removes a user is not closed by it.
THEOREM RemoverSurvives == Spec => RemoverAnswers
<1> DEFINE Answers == ~(users \subseteq users') =>
                        \E a \in Admin : adm[a].state = "METHOD" /\ adm'[a].state = "METHOD_RESPONSE"
<1>1. IInv /\ [Next]_vars => [Answers]_vars
  <2> SUFFICES ASSUME IInv, Next, ~(users \subseteq users')
               PROVE  \E a \in Admin : adm[a].state = "METHOD" /\ adm'[a].state = "METHOD_RESPONSE"
    BY DEF vars
  <2>1. PICK a \in Admin, u \in User : RemoveUser(a, u)
    <3>1. ASSUME NEW s \in Session, SessionStep(s) PROVE users' = users
      BY <3>1 DEF SessionStep, Accept, Hello, MethodAnnounced, AuthRequest, AuthSuccessful,
                  Request, IpConnect, RequestSuccessful, Close, tables
    <3>2. ASSUME NEW a \in Admin, AdminStep(a), ~\E u \in User : RemoveUser(a, u)
          PROVE  users \subseteq users'
      BY <3>2 DEF AdminStep, AdminAccept, AdminAuth, AdminReply, AdminQuery, AdminClose, AddUser
    <3> QED BY <3>1, <3>2 DEF Next
  <2>2. a \notin AdminsOf(u) /\ adm[a].state = "METHOD"
    BY <2>1 DEF RemoveUser, MayRemove, AdminsOf
  <2>3. adm'[a] = [adm[a] EXCEPT !.state = "METHOD_RESPONSE"]
    BY <2>1, <2>2 DEF RemoveUser
  <2>4. adm[a] \in AdminType
    BY DEF IInv, Tables, TablesOK
  <2>5. adm'[a].state = "METHOD_RESPONSE"
    BY <2>3, <2>4 DEF AdminType
  <2> QED BY <2>2, <2>5
<1> QED BY <1>1, Invariance, PTL DEF Spec, RemoverAnswers
-----------------------------------------------------------------------------
(* The counters.  Sockets: what an open session holds.                     *)

Unserved  == {"NONE", "HELLO", "AUTH_METHOD_ANNOUNCEMENT", "AUTH_REQUEST",
              "HELLO_ERROR", "AUTH_ERROR"}
Connected == {"IP_CONNECT", "REQUEST_SUCCESSFUL", "FORWARDING"}
Alive      == {s \in Session : sess[s].state # "NONE"}
WithServer == {s \in Session : sess[s].server}

\* A session has a user from its authentication on, and a server socket while
\* it connects and after.
Phases ==
  \A s \in Session : /\ sess[s].state \in Unserved <=> sess[s].user = NoUser
                     /\ sess[s].server <=> sess[s].state \in Connected

UsersFit  == Cardinality(users) <= MaxUsers
Undrifted == ~drifted => \A u \in User : early[u] = 0
Ledger    == Phases /\ UsersFit /\ Undrifted /\ ConnectionsExact /\ OnlyEarlyEndsMiscount

LEMMA SubsetRemoved ==
  ASSUME NEW S, IsFiniteSet(S), NEW C \in SUBSET S
  PROVE  /\ Cardinality(S \ C) = Cardinality(S) - Cardinality(C)
         /\ Cardinality(C) \in Nat /\ Cardinality(C) <= Cardinality(S)
<1>1. IsFiniteSet(C) /\ Cardinality(C) <= Cardinality(S)
  BY FS_Subset
<1>2. Cardinality(C) \in Nat
  BY <1>1, FS_CardinalityType
<1>3. Cardinality(S \ C) = Cardinality(S) - Cardinality(S \cap C) /\ S \cap C = C
  BY FS_Difference
<1> QED
  BY <1>1, <1>2, <1>3

LEMMA SocketBound ==
  ASSUME NEW A \in SUBSET Session, NEW W \in SUBSET A
  PROVE  /\ IsFiniteSet(A) /\ IsFiniteSet(W)
         /\ Cardinality(A) \in Nat /\ Cardinality(W) \in Nat
         /\ Cardinality(A) + Cardinality(W) <= ConnMax
<1>1. /\ IsFiniteSet(A) /\ IsFiniteSet(W)
      /\ Cardinality(A) \in Nat /\ Cardinality(W) \in Nat /\ Cardinality(Session) \in Nat
  BY CardinalityNat
<1>2. Cardinality(A) <= Cardinality(Session) /\ Cardinality(W) <= Cardinality(Session)
  <2>1. W \in SUBSET Session
    OBVIOUS
  <2> QED
    BY <2>1, AccountsAssumption, FS_Subset
<1>3. 2 * Cardinality(Session) <= ConnMax /\ ConnMax \in Nat
  BY AccountsAssumption, CountersAssumption
<1> QED
  BY <1>1, <1>2, <1>3

\* connections in terms of the two sets, before and after a step
LEMMA SocketCount ==
  ASSUME Phases, Phases'
  PROVE  /\ Alive \subseteq Session /\ WithServer \subseteq Alive
         /\ ConnectionsExact <=> connections = Cardinality(Alive) + Cardinality(WithServer)
         /\ Alive' \subseteq Session /\ WithServer' \subseteq Alive'
         /\ ConnectionsExact' <=> connections' = Cardinality(Alive') + Cardinality(WithServer')
<1>1. WithServer \subseteq Alive /\ Alive \subseteq Session
  BY DEF Phases, WithServer, Alive, Connected
<1>2. WithServer' \subseteq Alive' /\ Alive' \subseteq Session
  BY DEF Phases, WithServer, Alive, Connected
<1>3. {s \in Alive : sess[s].server} = WithServer
  BY <1>1 DEF WithServer
<1>4. {s \in Alive' : sess'[s].server} = WithServer'
  BY <1>2 DEF WithServer
<1> QED
  BY <1>1, <1>2, <1>3, <1>4 DEF ConnectionsExact, Fds, Alive

\* A socket more: the counter does not saturate.
LEMMA SocketAdded ==
  ASSUME Phases, Phases', ConnectionsExact, NEW s \in Session, IncConnections,
         \/ s \notin Alive /\ Alive' = Alive \cup {s} /\ WithServer' = WithServer
         \/ s \notin WithServer /\ Alive' = Alive /\ WithServer' = WithServer \cup {s}
  PROVE  ConnectionsExact'
<1>1. /\ IsFiniteSet(Alive) /\ IsFiniteSet(WithServer)
      /\ Cardinality(Alive) \in Nat /\ Cardinality(WithServer) \in Nat
  BY SocketCount, SocketBound
<1>2. Cardinality(Alive') + Cardinality(WithServer') <= ConnMax
  BY SocketCount, SocketBound
<1>3. Cardinality(Alive') + Cardinality(WithServer')
        = Cardinality(Alive) + Cardinality(WithServer) + 1
  <2>1. CASE s \notin Alive /\ Alive' = Alive \cup {s} /\ WithServer' = WithServer
    <3>1. Cardinality(Alive \cup {s}) = Cardinality(Alive) + 1
      BY <1>1, <2>1, FS_AddElement
    <3> QED
      BY <1>1, <2>1, <3>1
  <2>2. CASE s \notin WithServer /\ Alive' = Alive /\ WithServer' = WithServer \cup {s}
    <3>1. Cardinality(WithServer \cup {s}) = Cardinality(WithServer) + 1
      BY <1>1, <2>2, FS_AddElement
    <3> QED
      BY <1>1, <2>2, <3>1
  <2> QED
    BY <2>1, <2>2
<1>4. connections = Cardinality(Alive) + Cardinality(WithServer)
      /\ connections' = Least(connections + 1, ConnMax) /\ ConnMax \in Nat
  BY SocketCount, AccountsAssumption DEF IncConnections
<1>5. connections' = Cardinality(Alive') + Cardinality(WithServer')
  BY <1>1, <1>2, <1>3, <1>4 DEF Least
<1> QED
  BY <1>5, SocketCount

\* Closing sessions gives back their sockets.
LEMMA SocketsClosed ==
  ASSUME Phases, Phases', ConnectionsExact,
         NEW C \in SUBSET Alive, NEW u, CloseSessions(C, u)
  PROVE  ConnectionsExact'
<1> DEFINE D == {s \in C : sess[s].server}
<1>1. /\ IsFiniteSet(Alive) /\ IsFiniteSet(WithServer)
      /\ Cardinality(Alive) \in Nat /\ Cardinality(WithServer) \in Nat
      /\ Alive \subseteq Session /\ D = C \cap WithServer
  <2>1. Alive \in SUBSET Session /\ WithServer \in SUBSET Alive
    BY SocketCount
  <2>2. D = C \cap WithServer
    BY DEF Alive, WithServer
  <2> QED
    BY <2>1, <2>2, SocketBound
<1>2. Alive' = Alive \ C /\ WithServer' = WithServer \ D
  <2>1. \A s \in Session : sess'[s] = IF s \in C THEN NoSession ELSE sess[s]
    BY DEF CloseSessions
  <2>2. Alive' = Alive \ C
    BY <2>1 DEF Alive, NoSession
  <2>3. WithServer' = WithServer \ C
    BY <2>1 DEF WithServer, NoSession
  <2> QED
    BY <1>1, <2>2, <2>3
<1>3. Cardinality(Alive \ C) = Cardinality(Alive) - Cardinality(C)
      /\ Cardinality(C) \in Nat /\ Cardinality(C) <= Cardinality(Alive)
  BY <1>1, SubsetRemoved
<1>4. Cardinality(WithServer \ D) = Cardinality(WithServer) - Cardinality(D)
      /\ Cardinality(D) \in Nat /\ Cardinality(D) <= Cardinality(WithServer)
  BY <1>1, SubsetRemoved, D \in SUBSET WithServer
<1>5. Fds(C) = Cardinality(C) + Cardinality(D)
  BY DEF Fds
<1>6. connections = Cardinality(Alive) + Cardinality(WithServer)
      /\ connections' = IF Fds(C) <= connections THEN connections - Fds(C) ELSE 0
  BY SocketCount DEF CloseSessions, DecConnections
<1> HIDE DEF D
<1>7. connections' = Cardinality(Alive') + Cardinality(WithServer')
  BY <1>1, <1>2, <1>3, <1>4, <1>5, <1>6
<1> QED
  BY <1>7, SocketCount
-----------------------------------------------------------------------------
(* The counters of users.                                                  *)

Busy == {u \in User : Counted(u) # {}}

LEMMA CountedFits ==
  ASSUME NEW C \in SUBSET Session
  PROVE  /\ IsFiniteSet(C) /\ Cardinality(C) \in 0 .. CountMod - 1
         /\ Cardinality(C) = 0 <=> C = {}
<1>1. IsFiniteSet(C) /\ Cardinality(C) \in Nat /\ Cardinality(Session) \in Nat
  BY CardinalityNat
<1>2. Cardinality(C) <= Cardinality(Session)
  BY AccountsAssumption, FS_Subset
<1>3. Cardinality(C) = 0 <=> C = {}
  BY <1>1, FS_EmptySet
<1> QED
  BY <1>1, <1>2, <1>3, AccountsAssumption, CountersAssumption

\* Users with a counted session are registered: currentUserCount never saturates.
LEMMA BusyFits ==
  ASSUME NEW U \in SUBSET User, Cardinality(U) <= MaxUsers, NEW B \in SUBSET U
  PROVE  IsFiniteSet(B) /\ Cardinality(B) \in 0 .. UserCountMax
<1>1. IsFiniteSet(U) /\ IsFiniteSet(B) /\ Cardinality(B) <= Cardinality(U)
  BY CountersAssumption, FS_Subset
<1>2. Cardinality(B) \in Nat /\ Cardinality(U) \in Nat
  BY <1>1, FS_CardinalityType
<1> QED
  BY <1>1, <1>2, AccountsAssumption, CountersAssumption

LEMMA BusyRegistered ==
  ASSUME IInv, IInv'
  PROVE  Busy \subseteq users /\ Busy' \subseteq users'
         /\ users \subseteq User /\ users' \subseteq User
<1>1. NoDanglingUser /\ NoDanglingUser' /\ NoUser \notin User
  BY AccountsAssumption DEF IInv, Tables
<1>2. Busy \subseteq users
  BY <1>1 DEF Busy, Counted, NoDanglingUser
<1>3. Busy' \subseteq users'
  BY <1>1 DEF Busy, Counted, NoDanglingUser
<1> QED
  BY <1>2, <1>3 DEF IInv, Tables, TablesOK

\* Without drift the count of a user is the number of its sessions.
LEMMA CountIsSessions ==
  ASSUME IInv, Ledger, ~drifted, NEW u \in users
  PROVE  early[u] = 0 /\ count[u] = Cardinality(Counted(u))
<1>1. u \in User /\ early[u] = 0
  BY DEF IInv, Tables, TablesOK, Ledger, Undrifted
<1>2. Cardinality(Counted(u)) \in 0 .. CountMod - 1
  BY CountedFits DEF Counted
<1>3. count[u] = (Cardinality(Counted(u)) - 0) % CountMod
  BY <1>1 DEF Ledger, OnlyEarlyEndsMiscount, CountBalance
<1>4. Cardinality(Counted(u)) % CountMod = Cardinality(Counted(u))
  BY <1>2, AccountsAssumption, SmallMod
<1> QED
  BY <1>1, <1>2, <1>3, <1>4

LEMMA Numbers ==
  ASSUME IInv, NEW u \in User
  PROVE  count[u] \in Int /\ early[u] \in Int /\ CountMod \in Nat \ {0}
BY AccountsAssumption DEF IInv, CountersOK

\* request_on_arrival
LEMMA UserCounted ==
  ASSUME IInv, IInv', Ledger, UsersFit', NEW u \in users, NEW s \in Session,
         s \notin Counted(u), CountUser(u), UNCHANGED <<history, users>>,
         \A w \in User : Counted(w)' = IF w = u THEN Counted(w) \cup {s} ELSE Counted(w)
  PROVE  CountBalance' /\ UserCountExact'
<1> DEFINE a == Cardinality(Counted(u))
<1>1. u \in User /\ Counted(u) \in SUBSET Session
  BY DEF IInv, Tables, TablesOK, Counted
<1>2. IsFiniteSet(Counted(u)) /\ a \in 0 .. CountMod - 1 /\ (a = 0 <=> Counted(u) = {})
  BY <1>1, CountedFits
<1>3. Cardinality(Counted(u)') = a + 1
  BY <1>1, <1>2, FS_AddElement
<1>4. CountBalance'
  <2> SUFFICES ASSUME NEW w \in users'
               PROVE  count'[w] = (Cardinality(Counted(w)') - early'[w]) % CountMod
    BY DEF CountBalance
  <2>1. w \in users /\ w \in User /\ early' = early
    BY DEF history, IInv, Tables, TablesOK
  <2>2. count[w] = (Cardinality(Counted(w)) - early[w]) % CountMod
    BY <2>1 DEF Ledger, OnlyEarlyEndsMiscount, CountBalance
  <2>3. CASE w # u
    <3>1. count'[w] = count[w] /\ Counted(w)' = Counted(w)
      BY <2>1, <2>3 DEF CountUser, IInv, CountersOK
    <3> QED
      BY <2>1, <2>2, <3>1
  <2>4. CASE w = u
    <3>1. count'[u] = (count[u] + 1) % CountMod
      BY <1>1 DEF CountUser, IInv, CountersOK
    <3>2. early[u] \in Int /\ a - early[u] \in Int /\ CountMod \in Nat \ {0}
      BY <1>1, <1>2, Numbers
    <3> HIDE DEF a
    <3>3. (((a - early[u]) % CountMod) + 1) % CountMod = ((a - early[u]) + 1) % CountMod
      BY <3>2, ModShift
    <3>4. (a - early[u]) + 1 = (a + 1) - early[u]
      BY <1>2, <3>2
    <3> QED
      BY <1>3, <2>1, <2>2, <2>4, <3>1, <3>3, <3>4 DEF a
  <2> QED
    BY <2>3, <2>4
<1>5. UserCountExact'
  <2> SUFFICES ASSUME ~drifted'
               PROVE  userCount' = Cardinality(Busy')
    BY DEF UserCountExact, Busy
  <2>1. ~drifted /\ userCount = Cardinality(Busy)
    BY DEF history, Ledger, OnlyEarlyEndsMiscount, UserCountExact, Busy
  <2>2. count[u] = a
    BY <2>1, CountIsSessions
  <2>3. Busy' = Busy \cup {u} /\ (u \in Busy <=> a # 0)
    BY <1>1, <1>2 DEF Busy
  <2>4. IsFiniteSet(Busy) /\ Cardinality(Busy) \in 0 .. UserCountMax
    BY BusyRegistered, BusyFits DEF Ledger, UsersFit
  <2>5. Cardinality(Busy') \in 0 .. UserCountMax
    BY BusyRegistered, BusyFits DEF UsersFit
  <2>6. Cardinality(Busy') = IF a # 0 THEN Cardinality(Busy) ELSE Cardinality(Busy) + 1
    BY <2>3, <2>4, FS_AddElement
  <2>7. userCount' = IF a = 0 THEN Least(userCount + 1, UserCountMax) ELSE userCount
    BY <2>2 DEF CountUser
  <2> HIDE DEF a
  <2> QED
    BY <2>1, <2>4, <2>5, <2>6, <2>7, AccountsAssumption DEF Least
<1> QED
  BY <1>4, <1>5

\* u stops being counted when its last session is given back, and only then.
LEMMA ZeroOnce ==
  ASSUME NEW c \in 0 .. CountMod - 1, NEW n \in 0 .. c
  PROVE  Cardinality({i \in 1 .. n : (c - i) % CountMod = 0}) = IF n = c /\ c # 0 THEN 1 ELSE 0
<1> DEFINE Z == {i \in 1 .. n : (c - i) % CountMod = 0}
<1>1. \A i \in 1 .. n : (c - i) % CountMod = c - i
  BY AccountsAssumption, SmallMod
<1>2. CASE n = c /\ c # 0
  <2>1. Z = {c}
    BY <1>1, <1>2
  <2> QED
    BY <1>2, <2>1, FS_Singleton
<1>3. CASE ~(n = c /\ c # 0)
  <2>1. Z = {}
    BY <1>1, <1>3
  <2> QED
    BY <1>3, <2>1, FS_EmptySet
<1> QED
  BY <1>2, <1>3

\* socks5_client_close, of all sessions in C: each gives back a count, the
\* ones that ended in AUTH_SUCCESSFUL without having taken it.
LEMMA UserUncounted ==
  ASSUME IInv, IInv', Ledger, UsersFit', NEW u \in users, NEW C \in SUBSET Holding(u),
         UncountUser(u, Cardinality(C)), NoteEarly(C, u), users' \subseteq users,
         \A w \in User : Counted(w)' = IF w = u THEN Counted(w) \ C ELSE Counted(w)
  PROVE  CountBalance' /\ UserCountExact'
<1> DEFINE a == Cardinality(Counted(u))
           D == C \cap Counted(u)
           E == {s \in C : sess[s].state = "AUTH_SUCCESSFUL"}
           n == Cardinality(C)
           d == Cardinality(D)
           k == Cardinality(E)
<1>1. /\ u \in User /\ Counted(u) \in SUBSET Session /\ C \in SUBSET Session
      /\ D = C \ E /\ E \in SUBSET C /\ D \in SUBSET Counted(u)
      /\ Counted(u) \ C = Counted(u) \ D
  BY DEF IInv, Tables, TablesOK, Counted, Holding
<1>2. /\ IsFiniteSet(Counted(u)) /\ a \in 0 .. CountMod - 1 /\ (a = 0 <=> Counted(u) = {})
      /\ IsFiniteSet(C) /\ n \in Nat
  <2>1. CountMod \in Nat
    BY AccountsAssumption
  <2> QED
    BY <1>1, <2>1, CountedFits
<1>3. d = n - k /\ k \in Nat /\ k <= n
  BY <1>1, <1>2, SubsetRemoved
<1>4. Cardinality(Counted(u) \ C) = a - d /\ d \in Nat /\ d <= a
  BY <1>1, <1>2, SubsetRemoved
<1>5. /\ count' = [count EXCEPT ![u] = (@ - n) % CountMod]
      /\ early' = [early EXCEPT ![u] = (@ + k) % CountMod]
      /\ drifted' = (drifted \/ E # {})
  BY DEF UncountUser, NoteEarly
<1>6. CountBalance'
  <2> SUFFICES ASSUME NEW w \in users'
               PROVE  count'[w] = (Cardinality(Counted(w)') - early'[w]) % CountMod
    BY DEF CountBalance
  <2>1. w \in users /\ w \in User
    BY DEF IInv, Tables, TablesOK
  <2>2. count[w] = (Cardinality(Counted(w)) - early[w]) % CountMod
    BY <2>1 DEF Ledger, OnlyEarlyEndsMiscount, CountBalance
  <2>3. CASE w # u
    <3>1. count'[w] = count[w] /\ early'[w] = early[w] /\ Counted(w)' = Counted(w)
      BY <1>5, <2>1, <2>3 DEF IInv, CountersOK
    <3> QED
      BY <2>2, <3>1
  <2>4. CASE w = u
    <3> DEFINE e == early[u]
    <3>1. count'[u] = (count[u] - n) % CountMod /\ early'[u] = (e + k) % CountMod
      BY <1>1, <1>5 DEF IInv, CountersOK
    <3>2. Cardinality(Counted(w)') = a - d
      BY <1>4, <2>1, <2>4
    <3>3. e \in Int /\ CountMod \in Nat \ {0}
      BY <1>1, Numbers
    <3> HIDE DEF a, d, k, n, e
    <3>4. (((a - e) % CountMod) + (0 - n)) % CountMod = ((a - e) + (0 - n)) % CountMod
      <4>1. a - e \in Int /\ 0 - n \in Int
        BY <1>2, <3>3
      <4> QED
        BY <3>3, <4>1, ModShift
    <3>5. PICK q \in Int : e + k = q * CountMod + ((e + k) % CountMod)
      <4>1. e + k \in Int
        BY <1>3, <3>3
      <4> QED
        BY <3>3, <4>1, ModParts
    <3>6. PICK r \in Int : r = (e + k) % CountMod
      BY <1>1, <3>1, Numbers DEF IInv, CountersOK
    <3>7. PICK x \in Int : x = a - e - n
      BY <1>2, <3>3
    <3>8. (a - d) - r = x + q * CountMod
      <4>1. q * CountMod \in Int
        BY <3>3
      <4> QED
        BY <1>2, <1>3, <3>3, <3>5, <3>6, <3>7, <4>1
    <3>9. (x + q * CountMod) % CountMod = x % CountMod
      BY <3>3, SameMod
    <3>10. (a - e) + (0 - n) = x /\ ((a - e) % CountMod) + (0 - n) = ((a - e) % CountMod) - n
      <4>1. (a - e) % CountMod \in Int
        BY <1>2, <3>3
      <4> QED
        BY <1>2, <3>3, <3>7, <4>1
    <3> QED
      BY <2>2, <2>4, <3>1, <3>2, <3>4, <3>6, <3>8, <3>9, <3>10 DEF e, a
  <2> QED
    BY <2>3, <2>4
<1>7. UserCountExact'
  <2> SUFFICES ASSUME ~drifted'
               PROVE  userCount' = Cardinality(Busy')
    BY DEF UserCountExact, Busy
  <2>1. ~drifted /\ E = {} /\ userCount = Cardinality(Busy)
    BY <1>5 DEF Ledger, OnlyEarlyEndsMiscount, UserCountExact, Busy
  <2>2. count[u] = a /\ d = n
    <3>1. k = 0
      BY <2>1, FS_EmptySet
    <3> HIDE DEF k, d, n
    <3> QED
      BY <1>2, <1>3, <2>1, <3>1, CountIsSessions
  <2>3. Busy' = IF n = a THEN Busy \ {u} ELSE Busy
    <3>1. Counted(u)' = {} <=> n = a
      <4>1. Counted(u)' = Counted(u) \ C
        BY <1>1
      <4>2. IsFiniteSet(Counted(u) \ C)
        BY <1>2, FS_Difference
      <4>3. Counted(u)' = {} <=> a - d = 0
        BY <1>4, <4>1, <4>2, FS_EmptySet
      <4> HIDE DEF a, d, n
      <4> QED
        BY <1>2, <1>4, <2>2, <4>3
    <3>2. n # a => Counted(u) # {}
      <4> HIDE DEF a, d, n
      <4> QED
        BY <1>2, <1>4, <2>2
    <3> HIDE DEF a, n
    <3> QED
      BY <1>1, <3>1, <3>2 DEF Busy
  <2>4. IsFiniteSet(Busy) /\ Cardinality(Busy) \in 0 .. UserCountMax
    BY BusyRegistered, BusyFits DEF Ledger, UsersFit
  <2>5. Cardinality(Busy \ {u}) = IF a # 0 THEN Cardinality(Busy) - 1 ELSE Cardinality(Busy)
    <3>1. u \in Busy <=> a # 0
      BY <1>1, <1>2 DEF Busy
    <3> QED
      BY <2>4, <3>1, FS_RemoveElement
  <2>6. a # 0 => Cardinality(Busy) # 0
    BY <1>1, <1>2, <2>4, FS_EmptySet DEF Busy
  <2> DEFINE zeros == Cardinality({i \in 1 .. n : (count[u] - i) % CountMod = 0})
  <2>7. zeros = IF n = a /\ a # 0 THEN 1 ELSE 0
    <3>1. n \in 0 .. a
      <4> HIDE DEF a, d, n
      <4> QED
        BY <1>2, <1>4, <2>2
    <3> HIDE DEF a, n
    <3> QED
      BY <1>2, <2>2, <3>1, ZeroOnce
  <2>8. userCount' = IF zeros <= userCount THEN userCount - zeros ELSE 0
    BY DEF UncountUser
  <2> HIDE DEF a, n, zeros
  <2> QED
    BY <1>2, <2>1, <2>3, <2>4, <2>5, <2>6, <2>7, <2>8
<1> QED
  BY <1>6, <1>7
-----------------------------------------------------------------------------
(* Every step keeps the ledger.                                            *)

\* What one session's new state does to the sets that are counted.
LEMMA Update ==
  ASSUME IInv, Phases, NEW s \in Session, NEW r \in SessionType,
         r.state \in Unserved <=> r.user = NoUser,
         r.server <=> r.state \in Connected,
         sess' = [sess EXCEPT ![s] = r]
  PROVE  /\ Phases'
         /\ Alive' = IF r.state # "NONE" THEN Alive \cup {s} ELSE Alive \ {s}
         /\ WithServer' = IF r.server THEN WithServer \cup {s} ELSE WithServer \ {s}
         /\ \A u \in User :
              Counted(u)' = IF r.user = u /\ r.state # "AUTH_SUCCESSFUL"
                            THEN Counted(u) \cup {s} ELSE Counted(u) \ {s}
<1>1. \A x \in Session : sess'[x] = IF x = s THEN r ELSE sess[x]
  BY DEF IInv, Tables, TablesOK
<1>2. Phases'
  BY <1>1 DEF Phases
<1>3. Alive' = IF r.state # "NONE" THEN Alive \cup {s} ELSE Alive \ {s}
  BY <1>1 DEF Alive
<1>4. WithServer' = IF r.server THEN WithServer \cup {s} ELSE WithServer \ {s}
  BY <1>1 DEF WithServer
<1>5. ASSUME NEW u \in User
      PROVE  Counted(u)' = IF r.user = u /\ r.state # "AUTH_SUCCESSFUL"
                           THEN Counted(u) \cup {s} ELSE Counted(u) \ {s}
  BY <1>1 DEF Counted
<1> QED
  BY <1>2, <1>3, <1>4, <1>5

LEMMA CountsKept ==
  ASSUME IInv, IInv', Ledger, UNCHANGED <<counts, users>>,
         \A u \in User : Counted(u)' = Counted(u)
  PROVE  CountBalance' /\ UserCountExact' /\ Undrifted' /\ UsersFit'
<1>1. users \subseteq User /\ UNCHANGED <<count, userCount, early, drifted>>
  BY DEF IInv, Tables, TablesOK, counts, history
<1>2. CountBalance'
  BY <1>1 DEF Ledger, OnlyEarlyEndsMiscount, CountBalance
<1>3. UserCountExact'
  <2>1. {u \in User : Counted(u)' # {}} = {u \in User : Counted(u) # {}}
    OBVIOUS
  <2> QED
    BY <1>1, <2>1 DEF Ledger, OnlyEarlyEndsMiscount, UserCountExact
<1> QED
  BY <1>1, <1>2, <1>3 DEF Ledger, Undrifted, UsersFit

LEMMA SocketsKept ==
  ASSUME Phases, Phases', ConnectionsExact,
         UNCHANGED connections, Alive' = Alive, WithServer' = WithServer
  PROVE  ConnectionsExact'
BY SocketCount

\* A session that goes on, neither counted nor with another socket.
LEMMA SessionAdvances ==
  ASSUME IInv, IInv', Ledger, NEW s \in Session, NEW r \in SessionType,
         r.state \in Unserved <=> r.user = NoUser,
         r.server <=> r.state \in Connected,
         s \in Alive, r.state # "NONE", r.server = sess[s].server,
         \A u \in User : s \in Counted(u) <=> r.user = u /\ r.state # "AUTH_SUCCESSFUL",
         sess' = [sess EXCEPT ![s] = r], UNCHANGED <<tables, counts, connections>>
  PROVE  Ledger'
<1>1. Phases /\ ConnectionsExact
  BY DEF Ledger, OnlyEarlyEndsMiscount
<1>2. /\ Phases' /\ Alive' = Alive /\ WithServer' = WithServer
      /\ \A u \in User : Counted(u)' = Counted(u)
  <2>1. /\ Phases' /\ Alive' = Alive \cup {s}
        /\ WithServer' = IF r.server THEN WithServer \cup {s} ELSE WithServer \ {s}
        /\ \A u \in User :
             Counted(u)' = IF r.user = u /\ r.state # "AUTH_SUCCESSFUL"
                           THEN Counted(u) \cup {s} ELSE Counted(u) \ {s}
    BY <1>1, Update
  <2>2. s \in WithServer <=> r.server
    BY DEF WithServer
  <2>3. Alive' = Alive /\ WithServer' = WithServer
    BY <2>1, <2>2
  <2>4. ASSUME NEW u \in User
        PROVE  Counted(u)' = Counted(u)
    <3>1. CASE r.user = u /\ r.state # "AUTH_SUCCESSFUL"
      BY ZenonT(40), <2>1, <3>1
    <3>2. CASE ~(r.user = u /\ r.state # "AUTH_SUCCESSFUL")
      BY <2>1, <3>2
    <3> QED
      BY <3>1, <3>2
  <2> QED
    BY <2>1, <2>3, <2>4
<1>3. ConnectionsExact'
  BY <1>1, <1>2, SocketsKept
<1>4. CountBalance' /\ UserCountExact' /\ Undrifted' /\ UsersFit'
  BY <1>2, CountsKept DEF tables
<1> QED
  BY <1>2, <1>3, <1>4 DEF Ledger, OnlyEarlyEndsMiscount

LEMMA NoSessionType ==
  /\ NoSession \in SessionType /\ NoSession.user = NoUser /\ NoSession.state = "NONE"
  /\ NoSession.server = FALSE
BY DEF NoSession, SessionType, States, Methods

\* Closing sessions of one user, whatever else happens to the users.
LEMMA CloseLedger ==
  ASSUME IInv, IInv', Ledger, UsersFit', NEW u \in users, NEW C \in SUBSET Holding(u),
         CloseSessions(C, u), users' \subseteq users
  PROVE  Ledger'
<1>1. Phases /\ ConnectionsExact /\ u # NoUser /\ u \in User /\ Undrifted
  BY AccountsAssumption DEF Ledger, OnlyEarlyEndsMiscount, IInv, Tables, TablesOK
<1>2. C \in SUBSET Alive
  BY <1>1 DEF Phases, Holding, Alive, Unserved
<1>3. \A s \in Session : sess'[s] = IF s \in C THEN NoSession ELSE sess[s]
  BY DEF CloseSessions
<1>4. Phases'
  BY <1>1, <1>3, NoSessionType DEF Phases, Unserved, Connected
<1>5. ConnectionsExact'
  BY <1>1, <1>2, <1>4, SocketsClosed
<1>6. UncountUser(u, Cardinality(C)) /\ NoteEarly(C, u)
  BY <1>1 DEF CloseSessions
<1>7. ASSUME NEW w \in User
      PROVE  Counted(w)' = IF w = u THEN Counted(w) \ C ELSE Counted(w)
  <2>1. NoSession.user # w
    BY NoSessionType, AccountsAssumption
  <2>2. \A s \in C : sess[s].user = u
    BY DEF Holding
  <2> QED
    BY <1>3, <2>1, <2>2 DEF Counted
<1>8. CountBalance' /\ UserCountExact'
  BY <1>6, <1>7, UserUncounted
<1>9. Undrifted'
  <2> SUFFICES ASSUME ~drifted', NEW w \in User
               PROVE  early'[w] = 0
    BY DEF Undrifted
  <2> DEFINE E == {s \in C : sess[s].state = "AUTH_SUCCESSFUL"}
  <2>1. early' = [early EXCEPT ![u] = (@ + Cardinality(E)) % CountMod]
        /\ drifted' = (drifted \/ E # {})
    BY <1>6 DEF NoteEarly
  <2>2. E = {} /\ early[w] = 0 /\ early[u] = 0
    BY <1>1, <2>1 DEF Undrifted
  <2>3. Cardinality(E) = 0
    BY <2>2, FS_EmptySet
  <2>4. (0 + 0) % CountMod = 0
    BY AccountsAssumption, SmallMod
  <2> HIDE DEF E
  <2> QED
    BY <2>1, <2>2, <2>3, <2>4 DEF IInv, CountersOK
<1> QED
  BY <1>4, <1>5, <1>8, <1>9 DEF Ledger, OnlyEarlyEndsMiscount

\* Nothing of a session or of a counter moves.
LEMMA LedgerKept ==
  ASSUME IInv, Ledger, UNCHANGED <<socks, users>>
  PROVE  Ledger'
<1>1. UNCHANGED <<sess, count, userCount, early, drifted, connections, users>>
  BY DEF socks, counts, history
<1> QED
  BY <1>1 DEF Ledger, Phases, UsersFit, Undrifted, OnlyEarlyEndsMiscount, ConnectionsExact, Fds,
              CountBalance, UserCountExact, Counted

LEMMA SessionLedger ==
  ASSUME IInv, IInv', Ledger, NEW s \in Session, SessionStep(s)
  PROVE  Ledger'
<1>1. /\ sess \in [Session -> SessionType] /\ sess[s] \in SessionType
      /\ Phases /\ ConnectionsExact /\ UsersFit
      /\ sess[s].state \in Unserved <=> sess[s].user = NoUser
      /\ sess[s].server <=> sess[s].state \in Connected
      /\ users \subseteq User /\ NoUser \notin User /\ Anonymous \in users
  BY AccountsAssumption
     DEF IInv, Tables, TablesOK, AnonymousPresent, Ledger, OnlyEarlyEndsMiscount, Phases
<1>2. s \in Alive <=> sess[s].state # "NONE"
  BY DEF Alive
<1>3. \A u \in User : s \in Counted(u) <=> sess[s].user = u /\ sess[s].state # "AUTH_SUCCESSFUL"
  BY DEF Counted
<1>4. ASSUME NEW state \in States, Goto(s, state), UNCHANGED <<tables, counts, connections>>,
             sess[s].state # "NONE", state # "NONE",
             state \in Unserved <=> sess[s].state \in Unserved,
             state \in Connected <=> sess[s].state \in Connected,
             state = "AUTH_SUCCESSFUL" <=> sess[s].state = "AUTH_SUCCESSFUL"
      PROVE  Ledger'
  <2> DEFINE r == [sess[s] EXCEPT !.state = state]
  <2>1. /\ r \in SessionType /\ r.user = sess[s].user /\ r.state = state
        /\ r.server = sess[s].server
    BY <1>1 DEF SessionType
  <2>2. sess' = [sess EXCEPT ![s] = r]
    BY <1>1, <1>4 DEF Goto
  <2> HIDE DEF r
  <2> QED
    BY ZenonT(40), <1>1, <1>2, <1>3, <1>4, <2>1, <2>2, SessionAdvances
<1>5. CASE Accept(s)
  <2> DEFINE r == [sess[s] EXCEPT !.state = "HELLO"]
  <2>1. /\ r \in SessionType /\ r.user = NoUser /\ r.state = "HELLO" /\ ~r.server
        /\ sess[s].user = NoUser
    BY <1>1, <1>5 DEF SessionType, Accept, Unserved, Connected, States
  <2>2. sess' = [sess EXCEPT ![s] = r] /\ s \notin Alive /\ IncConnections
        /\ UNCHANGED <<tables, counts>>
    BY <1>1, <1>2, <1>5 DEF Accept, Goto
  <2> HIDE DEF r
  <2>3. /\ Phases' /\ Alive' = Alive \cup {s} /\ WithServer' = WithServer \ {s}
        /\ \A u \in User : Counted(u)' = Counted(u) \ {s}
    BY ZenonT(30), <1>1, <2>1, <2>2, Update DEF Unserved, Connected
  <2>4. WithServer' = WithServer /\ \A u \in User : Counted(u)' = Counted(u)
    <3>1. s \notin WithServer
      BY <1>1, <1>5 DEF WithServer, Accept, Connected
    <3>2. \A u \in User : s \notin Counted(u)
      BY <1>1, <1>3, <2>1
    <3> QED
      BY <2>3, <3>1, <3>2
  <2>5. ConnectionsExact'
    BY <1>1, <2>2, <2>3, <2>4, SocketAdded
  <2>6. CountBalance' /\ UserCountExact' /\ Undrifted' /\ UsersFit'
    BY <2>2, <2>4, CountsKept DEF tables
  <2> QED
    BY <2>3, <2>5, <2>6 DEF Ledger, OnlyEarlyEndsMiscount
<1>6. CASE Hello(s)
  <2>1. PICK m \in Methods, st \in {"AUTH_METHOD_ANNOUNCEMENT", "HELLO_ERROR"} :
          sess' = [sess EXCEPT ![s].method = m, ![s].state = st]
    <3>1. \A offered : Preferred(offered) \in Methods
      BY DEF Preferred, Methods
    <3> QED
      BY <1>6, <3>1 DEF Hello
  <2> DEFINE r == [[sess[s] EXCEPT !.method = m] EXCEPT !.state = st]
  <2>2. /\ r \in SessionType /\ r.user = sess[s].user /\ r.state = st
        /\ r.server = sess[s].server
    BY <1>1 DEF SessionType, States, Errors
  <2>3. sess' = [sess EXCEPT ![s] = r]
    BY <1>1, <2>1
  <2>4. sess[s].state = "HELLO" /\ UNCHANGED <<tables, counts, connections>>
    BY <1>6 DEF Hello
  <2> HIDE DEF r
  <2>5. /\ r.state \in Unserved <=> r.user = NoUser
        /\ r.server <=> r.state \in Connected
        /\ s \in Alive /\ r.state # "NONE"
        /\ \A u \in User : s \in Counted(u) <=> r.user = u /\ r.state # "AUTH_SUCCESSFUL"
    BY <1>1, <1>2, <1>3, <2>2, <2>4 DEF Unserved, Connected
  <2> QED
    BY <2>2, <2>3, <2>4, <2>5, SessionAdvances
<1>7. CASE AuthRequest(s)
  <2>1. sess[s].state = "AUTH_REQUEST" /\ UNCHANGED <<tables, counts, connections>>
    BY <1>7 DEF AuthRequest
  <2>2. CASE Goto(s, "AUTH_ERROR")
    BY <1>4, <2>1, <2>2 DEF Unserved, Connected, States, Errors
  <2>3. ASSUME NEW u \in users,
               sess' = [sess EXCEPT ![s].user = u, ![s].state = "AUTH_SUCCESSFUL"]
        PROVE  Ledger'
    <3> DEFINE r == [[sess[s] EXCEPT !.user = u] EXCEPT !.state = "AUTH_SUCCESSFUL"]
    <3>1. /\ r \in SessionType /\ r.user = u /\ r.state = "AUTH_SUCCESSFUL"
          /\ r.server = sess[s].server
      BY <1>1 DEF SessionType, States
    <3>2. sess' = [sess EXCEPT ![s] = r]
      BY <1>1, <2>3
    <3> HIDE DEF r
    <3>3. /\ r.state \in Unserved <=> r.user = NoUser
          /\ r.server <=> r.state \in Connected
          /\ s \in Alive /\ r.state # "NONE"
          /\ \A w \in User : s \in Counted(w) <=> r.user = w /\ r.state # "AUTH_SUCCESSFUL"
      BY <1>1, <1>2, <1>3, <2>1, <3>1 DEF Unserved, Connected
    <3> QED
      BY <2>1, <3>1, <3>2, <3>3, SessionAdvances
  <2> QED
    BY <1>7, <2>2, <2>3 DEF AuthRequest
<1>8. CASE RequestSuccessful(s)
  BY <1>4, <1>8 DEF RequestSuccessful, Unserved, Connected, States
<1>9. ASSUME NEW u \in users, NEW r \in SessionType, r.user = u, r.state = "REQUEST",
             r.server = FALSE, sess[s].server = FALSE, s \in Alive, s \notin Counted(u),
             sess[s].user \in {u, NoUser}, sess' = [sess EXCEPT ![s] = r],
             CountUser(u), UNCHANGED <<tables, history, connections>>
      PROVE  Ledger'
  <2>1. /\ Phases' /\ Alive' = Alive \cup {s} /\ WithServer' = WithServer \ {s}
        /\ \A w \in User : Counted(w)' = IF u = w THEN Counted(w) \cup {s} ELSE Counted(w) \ {s}
    BY ZenonT(30), <1>1, <1>9, Update DEF Unserved, Connected
  <2>2. Alive' = Alive /\ WithServer' = WithServer
    BY <1>9, <2>1 DEF WithServer
  <2>3. \A w \in User : Counted(w)' = IF w = u THEN Counted(w) \cup {s} ELSE Counted(w)
    <3>1. \A w \in User : w # u => s \notin Counted(w)
      BY <1>1, <1>3, <1>9
    <3> QED
      BY <2>1, <3>1
  <2>4. UsersFit' /\ Undrifted' /\ UNCHANGED <<history, users>>
    BY <1>1, <1>9 DEF UsersFit, Undrifted, Ledger, tables, history
  <2>5. CountBalance' /\ UserCountExact'
    BY <1>9, <2>3, <2>4, UserCounted
  <2>6. ConnectionsExact'
    BY <1>1, <1>9, <2>1, <2>2, SocketsKept
  <2> QED
    BY <2>1, <2>4, <2>5, <2>6 DEF Ledger, OnlyEarlyEndsMiscount
<1>10. CASE MethodAnnounced(s)
  <2>1. sess[s].state = "AUTH_METHOD_ANNOUNCEMENT" /\ UNCHANGED <<tables, connections>>
    BY <1>10 DEF MethodAnnounced
  <2>2. CASE Goto(s, "AUTH_REQUEST") /\ UNCHANGED counts
    BY <1>4, <2>1, <2>2 DEF Unserved, Connected, States
  <2>3. CASE /\ sess' = [sess EXCEPT ![s].user = Anonymous, ![s].state = "REQUEST"]
             /\ CountUser(Anonymous) /\ UNCHANGED history
    <3> DEFINE r == [[sess[s] EXCEPT !.user = Anonymous] EXCEPT !.state = "REQUEST"]
    <3>1. sess[s].user = NoUser /\ sess[s].server = FALSE /\ s \in Alive
          /\ s \notin Counted(Anonymous)
      BY <1>1, <1>2, <1>3, <2>1 DEF Unserved, Connected, SessionType
    <3>2. /\ r \in SessionType /\ r.user = Anonymous /\ r.state = "REQUEST"
          /\ r.server = FALSE
      BY <1>1, <3>1 DEF SessionType, States
    <3>3. sess' = [sess EXCEPT ![s] = r]
      BY <1>1, <2>3
    <3> HIDE DEF r
    <3> QED
      BY <1>1, <1>9, <2>1, <2>3, <3>1, <3>2, <3>3
  <2> QED
    BY <1>10, <2>2, <2>3 DEF MethodAnnounced
<1>11. CASE AuthSuccessful(s)
  <2> DEFINE r == [sess[s] EXCEPT !.state = "REQUEST"]
             u == sess[s].user
  <2>1. /\ sess[s].state = "AUTH_SUCCESSFUL" /\ CountUser(u)
        /\ UNCHANGED <<tables, history, connections>>
    BY <1>11 DEF AuthSuccessful
  <2>2. u # NoUser /\ u \in users
    BY <1>1, <2>1 DEF Unserved, IInv, Tables, NoDanglingUser
  <2>3. sess[s].server = FALSE /\ s \in Alive /\ s \notin Counted(u)
    BY <1>1, <1>2, <1>3, <2>1, <2>2 DEF Connected, SessionType
  <2>4. r \in SessionType /\ r.user = u /\ r.state = "REQUEST" /\ r.server = FALSE
    BY <1>1, <2>3 DEF SessionType, States
  <2>5. sess' = [sess EXCEPT ![s] = r]
    BY <1>1, <1>11 DEF AuthSuccessful, Goto
  <2> HIDE DEF r
  <2> QED
    BY <1>9, <2>1, <2>2, <2>3, <2>4, <2>5
<1>12. CASE Request(s)
  <2>1. sess[s].state = "REQUEST" /\ UNCHANGED <<tables, counts>>
    BY <1>12 DEF Request
  <2>2. CASE Goto(s, "REQUEST_ERROR") /\ UNCHANGED connections
    BY <1>4, <2>1, <2>2 DEF Unserved, Connected, States, Errors
  <2>3. CASE /\ sess' = [sess EXCEPT ![s].state = "IP_CONNECT", ![s].server = TRUE]
             /\ IncConnections
    <3> DEFINE r == [[sess[s] EXCEPT !.state = "IP_CONNECT"] EXCEPT !.server = TRUE]
    <3>1. r \in SessionType /\ r.user = sess[s].user /\ r.state = "IP_CONNECT" /\ r.server
      BY <1>1 DEF SessionType, States
    <3>2. sess' = [sess EXCEPT ![s] = r]
      BY <1>1, <2>3
    <3>3. s \in Alive /\ s \notin WithServer /\ sess[s].user # NoUser
      BY <1>1, <1>2, <2>1 DEF WithServer, Unserved, Connected
    <3> HIDE DEF r
    <3>4. /\ Phases' /\ Alive' = Alive \cup {s} /\ WithServer' = WithServer \cup {s}
          /\ \A u \in User : Counted(u)' = IF r.user = u THEN Counted(u) \cup {s}
                                                        ELSE Counted(u) \ {s}
      BY ZenonT(40), <1>1, <3>1, <3>2, <3>3, Update DEF Unserved, Connected
    <3>5. \A u \in User : Counted(u)' = Counted(u)
      <4>1. \A u \in User : s \in Counted(u) <=> r.user = u
        BY <1>3, <2>1, <3>1
      <4> TAKE u \in User
      <4>2. CASE r.user = u
        BY <3>4, <4>1, <4>2
      <4>3. CASE r.user # u
        BY <3>4, <4>1, <4>3
      <4> QED
        BY <4>2, <4>3
    <3>6. ConnectionsExact'
      <4>1. Alive' = Alive
        BY <3>3, <3>4
      <4> QED
        BY <1>1, <2>3, <3>3, <3>4, <4>1, SocketAdded
    <3>7. CountBalance' /\ UserCountExact' /\ Undrifted' /\ UsersFit'
      BY <2>1, <3>5, CountsKept DEF tables
    <3> QED
      BY <3>4, <3>6, <3>7 DEF Ledger, OnlyEarlyEndsMiscount
  <2> QED
    BY <1>12, <2>2, <2>3 DEF Request
<1>13. CASE IpConnect(s)
  <2>1. sess[s].state = "IP_CONNECT" /\ UNCHANGED <<tables, counts>>
    BY <1>13 DEF IpConnect
  <2>2. CASE Goto(s, "REQUEST_SUCCESSFUL") /\ UNCHANGED connections
    BY <1>4, <2>1, <2>2 DEF Unserved, Connected, States
  <2>3. CASE /\ sess' = [sess EXCEPT ![s].state = "REQUEST_ERROR", ![s].server = FALSE]
             /\ DecConnections(1)
    <3> DEFINE r == [[sess[s] EXCEPT !.state = "REQUEST_ERROR"] EXCEPT !.server = FALSE]
    <3>1. /\ r \in SessionType /\ r.user = sess[s].user /\ r.state = "REQUEST_ERROR"
          /\ ~r.server
      BY <1>1 DEF SessionType, States, Errors
    <3>2. sess' = [sess EXCEPT ![s] = r]
      BY <1>1, <2>3
    <3>3. s \in Alive /\ s \in WithServer /\ sess[s].user # NoUser
      BY <1>1, <1>2, <2>1 DEF WithServer, Unserved, Connected
    <3> HIDE DEF r
    <3>4. /\ Phases' /\ Alive' = Alive \cup {s} /\ WithServer' = WithServer \ {s}
          /\ \A u \in User : Counted(u)' = IF r.user = u THEN Counted(u) \cup {s}
                                                        ELSE Counted(u) \ {s}
      BY ZenonT(40), <1>1, <3>1, <3>2, <3>3, Update DEF Unserved, Connected
    <3>5. \A u \in User : Counted(u)' = Counted(u)
      <4>1. \A u \in User : s \in Counted(u) <=> r.user = u
        BY <1>3, <2>1, <3>1
      <4> TAKE u \in User
      <4>2. CASE r.user = u
        BY <3>4, <4>1, <4>2
      <4>3. CASE r.user # u
        BY <3>4, <4>1, <4>3
      <4> QED
        BY <4>2, <4>3
    <3>6. ConnectionsExact'
      <4>1. /\ IsFiniteSet(WithServer) /\ Cardinality(WithServer) \in Nat
            /\ Cardinality(Alive) \in Nat
        BY <1>1, <3>4, SocketCount, SocketBound
      <4>2. Cardinality(WithServer \ {s}) = Cardinality(WithServer) - 1
            /\ Cardinality(WithServer) # 0
        BY <3>3, <4>1, FS_RemoveElement, FS_EmptySet
      <4>3. connections = Cardinality(Alive) + Cardinality(WithServer)
            /\ connections' = IF 1 <= connections THEN connections - 1 ELSE 0
        BY <1>1, <2>3, <3>4, SocketCount DEF DecConnections
      <4>4. Alive' = Alive
        BY <3>3, <3>4
      <4>5. connections' = Cardinality(Alive') + Cardinality(WithServer')
        <5>1. WithServer' = WithServer \ {s}
          BY <3>4
        <5>2. Cardinality(WithServer) >= 1 /\ 1 <= connections
          BY <4>1, <4>2, <4>3
        <5>3. connections' = Cardinality(Alive) + Cardinality(WithServer) - 1
          BY <4>1, <4>3, <5>2
        <5>4. connections' = Cardinality(Alive) + Cardinality(WithServer \ {s})
          BY <4>1, <4>2, <5>3
        <5> QED
          BY <4>4, <5>1, <5>4
      <4> QED
        BY <1>1, <3>4, <4>5, SocketCount
    <3>7. CountBalance' /\ UserCountExact' /\ Undrifted' /\ UsersFit'
      BY <2>1, <3>5, CountsKept DEF tables
    <3> QED
      BY <3>4, <3>6, <3>7 DEF Ledger, OnlyEarlyEndsMiscount
  <2> QED
    BY <1>13, <2>2, <2>3 DEF IpConnect
<1>14. CASE Close(s)
  <2> DEFINE u == sess[s].user
  <2>1. /\ sess[s].state # "NONE" /\ CloseSessions({s}, u) /\ UNCHANGED tables
    BY <1>14 DEF Close, CloseOne
  <2>2. UsersFit' /\ users' = users
    BY <1>1, <2>1 DEF UsersFit, tables
  <2>3. CASE u # NoUser
    <3>1. u \in users
      BY <2>3 DEF IInv, Tables, NoDanglingUser
    <3>2. {s} \in SUBSET Holding(u)
      BY DEF Holding
    <3> HIDE DEF u
    <3> QED
      BY <2>1, <2>2, <3>1, <3>2, CloseLedger
  <2>4. CASE u = NoUser
    <3>1. sess' = [sess EXCEPT ![s] = NoSession] /\ UNCHANGED counts
      BY <1>1, <2>1, <2>4 DEF CloseSessions
    <3>2. /\ Phases'
          /\ \A w \in User : Counted(w)' = Counted(w) \ {s}
      <4>1. /\ NoSession.state \in Unserved <=> NoSession.user = NoUser
            /\ NoSession.server <=> NoSession.state \in Connected
            /\ NoSession.user \notin User
        BY <1>1, NoSessionType DEF Unserved, Connected
      <4> QED
        BY ZenonT(40), <1>1, <3>1, <4>1, NoSessionType, Update
    <3>3. \A w \in User : Counted(w)' = Counted(w)
      BY <1>1, <1>3, <2>4, <3>2
    <3>4. ConnectionsExact'
      BY <1>1, <1>2, <2>1, <3>2, SocketsClosed
    <3>5. CountBalance' /\ UserCountExact' /\ Undrifted' /\ UsersFit'
      BY <2>2, <3>1, <3>3, CountsKept
    <3> QED
      BY <3>2, <3>4, <3>5 DEF Ledger, OnlyEarlyEndsMiscount
  <2> QED
    BY <2>3, <2>4
<1> QED
  BY <1>5, <1>6, <1>7, <1>8, <1>10, <1>11, <1>12, <1>13, <1>14 DEF SessionStep
-----------------------------------------------------------------------------
\* user_handler_add_user: the entry of a name that was free counts nothing.
LEMMA AddLedger ==
  ASSUME IInv, IInv', Ledger, NEW a \in Admin, NEW u \in User, NEW isAdmin \in BOOLEAN,
         AddUser(a, u, isAdmin)
  PROVE  Ledger'
<1>1. /\ u \notin users /\ Cardinality(users) < MaxUsers
      /\ users' = users \cup {u}
      /\ count' = [count EXCEPT ![u] = 0] /\ early' = [early EXCEPT ![u] = 0]
      /\ UNCHANGED <<sess, userCount, connections, drifted>>
  BY DEF AddUser
<1>2. /\ Phases /\ UsersFit /\ Undrifted /\ ConnectionsExact /\ CountBalance /\ UserCountExact
      /\ count \in [User -> 0 .. CountMod - 1] /\ early \in [User -> 0 .. CountMod - 1]
      /\ users \subseteq User
  BY DEF Ledger, OnlyEarlyEndsMiscount, IInv, Tables, TablesOK, CountersOK
<1>3. \A w \in User : Counted(w)' = Counted(w)
  BY <1>1 DEF Counted
<1>4. Phases' /\ ConnectionsExact' /\ UserCountExact' /\ Undrifted'
  <2>1. Phases' /\ ConnectionsExact'
    BY <1>1, <1>2 DEF Phases, ConnectionsExact, Fds
  <2>2. UserCountExact'
    <3>1. {w \in User : Counted(w)' # {}} = {w \in User : Counted(w) # {}}
      BY <1>3
    <3> QED
      BY <1>1, <1>2, <3>1 DEF UserCountExact
  <2>3. Undrifted'
    BY <1>1, <1>2 DEF Undrifted
  <2> QED
    BY <2>1, <2>2, <2>3
<1>5. CountBalance'
  <2> SUFFICES ASSUME NEW w \in users'
               PROVE  count'[w] = (Cardinality(Counted(w)') - early'[w]) % CountMod
    BY DEF CountBalance
  <2>1. CASE w = u
    <3>1. Counted(u) = {}
      BY <1>1, AccountsAssumption DEF IInv, Tables, NoDanglingUser, Counted
    <3>2. Cardinality(Counted(u)') = 0 /\ count'[u] = 0 /\ early'[u] = 0
      BY <1>1, <1>2, <1>3, <3>1, FS_EmptySet
    <3>3. (0 - 0) % CountMod = 0
      BY AccountsAssumption, SmallMod
    <3> QED
      BY <2>1, <3>2, <3>3
  <2>2. CASE w # u
    <3>1. w \in users /\ count'[w] = count[w] /\ early'[w] = early[w]
      BY <1>1, <1>2, <2>2
    <3> QED
      BY <1>2, <1>3, <3>1 DEF CountBalance
  <2> QED
    BY <2>1, <2>2
<1>6. UsersFit'
  <2>1. IsFiniteSet(users)
    BY <1>2, CountersAssumption, FS_Subset
  <2>2. Cardinality(users) \in Nat /\ Cardinality(users \cup {u}) = Cardinality(users) + 1
    BY <1>1, <2>1, FS_CardinalityType, FS_AddElement
  <2> QED
    BY <1>1, <2>2, AccountsAssumption DEF UsersFit
<1> QED
  BY <1>4, <1>5, <1>6 DEF Ledger, OnlyEarlyEndsMiscount

\* user_handler_delete_user
LEMMA RemoveLedger ==
  ASSUME IInv, IInv', Ledger, NEW a \in Admin, NEW u \in User, RemoveUser(a, u)
  PROVE  Ledger'
<1>1. u \in users /\ CloseSessions(Holding(u), u) /\ users' = users \ {u}
  BY DEF RemoveUser, Holding
<1>2. UsersFit'
  <2>1. IsFiniteSet(users)
    BY CountersAssumption, FS_Subset DEF IInv, Tables, TablesOK
  <2>2. /\ Cardinality(users \ {u}) = Cardinality(users) - 1
        /\ Cardinality(users) \in Nat /\ MaxUsers \in Nat
    BY <1>1, <2>1, FS_RemoveElement, FS_CardinalityType, AccountsAssumption
  <2> QED
    BY <1>1, <2>2 DEF Ledger, UsersFit
<1> QED
  BY <1>1, <1>2, CloseLedger

LEMMA AdminLedger ==
  ASSUME IInv, IInv', Ledger, NEW a \in Admin, AdminStep(a)
  PROVE  Ledger'
<1>1. ASSUME AdminAccept(a) \/ AdminAuth(a) \/ AdminReply(a) \/ AdminQuery(a) \/ AdminClose(a)
      PROVE  Ledger'
  <2>1. UNCHANGED <<socks, users>>
    BY <1>1 DEF AdminAccept, AdminAuth, AdminReply, AdminQuery, AdminClose
  <2> QED
    BY <2>1, LedgerKept
<1>2. ASSUME NEW u \in User, NEW isAdmin \in BOOLEAN, AddUser(a, u, isAdmin) PROVE Ledger'
  BY <1>2, AddLedger
<1>3. ASSUME NEW u \in User, RemoveUser(a, u) PROVE Ledger'
  BY <1>3, RemoveLedger
<1> QED
  BY <1>1, <1>2, <1>3 DEF AdminStep

LEMMA InitLedger == Init => Ledger
<1> SUFFICES ASSUME Init PROVE Ledger
  OBVIOUS
<1>1. sess = [s \in Session |-> NoSession] /\ connections = 0 /\ userCount = 0
  BY DEF Init
<1>2. \A s \in Session : sess[s].state = "NONE" /\ sess[s].user = NoUser /\ ~sess[s].server
  BY <1>1, NoSessionType
<1>3. Phases
  BY <1>2 DEF Phases, Unserved, Connected
<1>4. UsersFit /\ Undrifted
  BY DEF Init, UsersFit, Undrifted
<1>5. Cardinality({}) = 0
  BY FS_EmptySet
<1>6. ConnectionsExact
  <2>1. {s \in Session : sess[s].state # "NONE"} = {}
    BY <1>2
  <2>2. Fds({}) = 0
    <3>1. {s \in {} : sess[s].server} = {}
      OBVIOUS
    <3> QED
      BY <1>5, <3>1 DEF Fds
  <2> QED
    BY <1>1, <2>1, <2>2 DEF ConnectionsExact
<1>7. \A u \in User : Counted(u) = {}
  BY <1>2, AccountsAssumption DEF Counted
<1>8. CountBalance
  <2>1. (0 - 0) % CountMod = 0
    BY AccountsAssumption, SmallMod
  <2> QED
    BY <1>5, <1>7, <2>1 DEF Init, CountBalance
<1>9. UserCountExact
  <2>1. {u \in User : Counted(u) # {}} = {}
    BY <1>7
  <2> QED
    BY <1>1, <1>5, <2>1 DEF UserCountExact
<1> QED
  BY <1>3, <1>4, <1>6, <1>8, <1>9 DEF Ledger, OnlyEarlyEndsMiscount

LEMMA StutterLedger == IInv /\ Ledger /\ UNCHANGED vars => Ledger'
BY LedgerKept DEF vars, socks, counts, history

LEMMA LedgerKeeps == Spec => []Ledger
<1>1. Init => IInv /\ Ledger
  BY InitIInv, InitLedger
<1>2. IInv /\ Ledger /\ [Next]_vars => (IInv /\ Ledger)'
  <2> SUFFICES ASSUME IInv, Ledger, [Next]_vars
               PROVE  IInv' /\ Ledger'
    OBVIOUS
  <2>1. ASSUME NEW s \in Session, SessionStep(s) PROVE IInv' /\ Ledger'
    BY <2>1, SessionStepKeeps, SessionLedger
  <2>2. ASSUME NEW a \in Admin, AdminStep(a) PROVE IInv' /\ Ledger'
    BY <2>2, AdminStepKeeps, AdminLedger
  <2>3. CASE UNCHANGED vars
    BY <2>3, StutterKeeps, StutterLedger
  <2> QED
    BY <2>1, <2>2, <2>3 DEF Next
<1> QED
  BY <1>1, <1>2, PTL DEF Spec

\* The connections counted are the sockets of the sessions, and what the users'
\* entries and currentUserCount miss of the sessions that were counted is what
\* ended before it was, modulo the width of the counter: no other end, removal or
\* registration adds to it.
THEOREM CountersStay == Spec => []CountersFollow
<1>1. Ledger => CountersFollow
  BY DEF Ledger, CountersFollow
<1> QED
  BY <1>1, LedgerKeeps, PTL
=============================================================================
