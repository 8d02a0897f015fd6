------------------------------ MODULE Accounts ------------------------------
(***************************************************************************)
(* Who is connected as whom: the handshake of every SOCKS5 session up to   *)
(* FORWARDING, the user table, the administration sessions that change it, *)
(* and the counters they report.  One selector thread runs one handler at  *)
(* a time, so a handler is a step; the steps of different sessions come in *)
(* any order.  Requests are for IP addresses; FORWARDING stands for it and *)
(* the flush states (module Relay), which touch nothing of this.           *)
(***************************************************************************)
EXTENDS Integers, FiniteSets

CONSTANTS
  Session,      \* SOCKS5 sessions (a session may be freed and allocated again)
  Admin,        \* administration sessions
  User,         \* user names
  Anonymous,    \* ANONYMOUS_USER_CREDENTIALS
  NoUser,       \* the NULL UserInfoP
  MaxUsers,     \* MAX_USER_COUNT
  CountMod,     \* connectionCount is counted modulo CountMod (2^16)
  ConnMax,      \* where currentConnections saturates (UINT16_MAX)
  UserCountMax  \* where currentUserCount saturates (UINT8_MAX)

ASSUME AccountsAssumption ==
  /\ IsFiniteSet(Session)
  /\ Anonymous \in User /\ NoUser \notin User
  /\ MaxUsers \in Nat \ {0}
  /\ CountMod \in Nat \ {0} /\ ConnMax \in Nat /\ UserCountMax \in Nat

\* What keeps the counters from wrapping and saturating: names are of at most
\* 255 bytes, a session holds two registered descriptors, which are below
\* FD_SETSIZE (1024), and MAX_USER_COUNT is UINT8_MAX.
ASSUME CountersAssumption ==
  /\ IsFiniteSet(User) /\ MaxUsers <= UserCountMax
  /\ 2 * Cardinality(Session) <= ConnMax /\ Cardinality(Session) < CountMod

VARIABLES
  sess,         \* sess[s]: state, authMethod, user, and if a server socket is registered
  adm,          \* adm[a]: currentState and user
  users,        \* names in userMap
  admins,       \* those with the admin flag
  count,        \* count[u]: connectionCount
  userCount,    \* statistics.currentUserCount
  connections,  \* statistics.currentConnections
  early,        \* history: sessions of u ended before they were counted (mod CountMod)
  drifted       \* history: early was ever incremented

vars == <<sess, adm, users, admins, count, userCount, connections, early, drifted>>

tables  == <<adm, users, admins>>
history == <<early, drifted>>
counts  == <<count, userCount, history>>

Errors == {"HELLO_ERROR", "AUTH_ERROR", "REQUEST_ERROR"}
States == {"NONE", "HELLO", "AUTH_METHOD_ANNOUNCEMENT", "AUTH_REQUEST",
           "AUTH_SUCCESSFUL", "REQUEST", "IP_CONNECT", "REQUEST_SUCCESSFUL",
           "FORWARDING"} \cup Errors
AdminStates == {"NONE", "AUTHENTICATING", "AUTH_ACK", "AUTH_ERROR",
                "METHOD", "METHOD_RESPONSE"}
Methods == {"NO_AUTHENTICATION", "USER_PASSWORD", "NO_ACCEPTABLE_METHODS"}

NoSession == [state |-> "NONE", method |-> "NO_ACCEPTABLE_METHODS",
              user |-> NoUser, server |-> FALSE]
NoAdmin   == [state |-> "NONE", user |-> NoUser]

Least(x, y) == IF x <= y THEN x ELSE y
Goto(s, state) == sess' = [sess EXCEPT ![s].state = state]
-----------------------------------------------------------------------------
(* Counters.                                                               *)

\* statistics_inc_current_connection, statistics_dec_current_connection
IncConnections == connections' = Least(connections + 1, ConnMax)
\* (a slip: the end of a session counts as one, whatever it has open)
DecConnectionsOnce(n) == connections' = IF connections > 0 THEN connections - 1 ELSE 0
DecConnections(n) ==
  connections' = IF n <= connections THEN connections - n ELSE 0

\* request_on_arrival
CountUser(u) ==
  /\ userCount' = IF count[u] = 0 THEN Least(userCount + 1, UserCountMax)
                                  ELSE userCount
  /\ count' = [count EXCEPT ![u] = (@ + 1) % CountMod]

\* (a slip: the count may become negative)
UncountUserSigned(u, n) ==
  /\ count' = [count EXCEPT ![u] = @ - n]
  /\ userCount' = IF count[u] = n THEN userCount - 1 ELSE userCount
\* n sessions of u are closed one after the other; the user stops being
\* counted each time the connection count comes to 0.
UncountUser(u, n) ==
  LET zeros == Cardinality({i \in 1 .. n : (count[u] - i) % CountMod = 0})
  IN  /\ count' = [count EXCEPT ![u] = (@ - n) % CountMod]
      /\ userCount' = IF zeros <= userCount THEN userCount - zeros ELSE 0
-----------------------------------------------------------------------------
(* Closing.                                                                *)

\* the client sockets of the sessions in C and their server sockets
Fds(C) == Cardinality(C) + Cardinality({s \in C : sess[s].server})

NoteEarly(C, u) ==
  LET uncounted == {s \in C : sess[s].state = "AUTH_SUCCESSFUL"}
  IN  /\ early' = [early EXCEPT ![u] = (@ + Cardinality(uncounted)) % CountMod]
      /\ drifted' = (drifted \/ uncounted # {})

\* (a slip: a session that waits for its request gives nothing back)
CloseSessionsCounted(C, u) ==
  /\ sess' = [s \in Session |-> IF s \in C THEN NoSession ELSE sess[s]]
  /\ DecConnections(Fds(C))
  /\ IF u = NoUser THEN UNCHANGED counts
     ELSE UncountUser(u, Cardinality({s \in C : sess[s].state # "REQUEST"})) /\ NoteEarly(C, u)
\* socks5_client_close of every session in C, all of which hold user u.
CloseSessions(C, u) ==
  /\ sess' = [s \in Session |-> IF s \in C THEN NoSession ELSE sess[s]]
  /\ DecConnections(Fds(C))
  /\ IF u = NoUser THEN UNCHANGED counts
     ELSE UncountUser(u, Cardinality(C)) /\ NoteEarly(C, u)

CloseOne(s) == CloseSessions({s}, sess[s].user)
-----------------------------------------------------------------------------
Init ==
  /\ sess = [s \in Session |-> NoSession]
  /\ adm = [a \in Admin |-> NoAdmin]
  /\ users \in {U \in SUBSET User : Anonymous \in U /\ Cardinality(U) <= MaxUsers}
  /\ admins \in SUBSET (users \ {Anonymous})
  /\ count = [u \in User |-> 0]
  /\ userCount = 0
  /\ connections = 0
  /\ early = [u \in User |-> 0]
  /\ drifted = FALSE
-----------------------------------------------------------------------------
(* SOCKS5 sessions.                                                        *)

\* socks5_passive_accept_ipv4 and _ipv6
Accept(s) ==
  /\ sess[s].state = "NONE"
  /\ Goto(s, "HELLO")
  /\ IncConnections
  /\ UNCHANGED <<tables, counts>>

\* on_auth_method: user and password before no authentication
Preferred(offered) ==
  IF "USER_PASSWORD" \in offered THEN "USER_PASSWORD"
  ELSE IF "NO_AUTHENTICATION" \in offered THEN "NO_AUTHENTICATION"
  ELSE "NO_ACCEPTABLE_METHODS"

\* hello_on_read, once the message is complete; a malformed one is an error
\* whatever it offers
Hello(s) ==
  /\ sess[s].state = "HELLO"
  /\ \E offered \in SUBSET Methods, wellFormed \in BOOLEAN :
       sess' = [sess EXCEPT ![s].method = Preferred(offered),
                            ![s].state =
                  IF wellFormed /\ Preferred(offered) # "NO_ACCEPTABLE_METHODS"
                  THEN "AUTH_METHOD_ANNOUNCEMENT" ELSE "HELLO_ERROR"]
  /\ UNCHANGED <<tables, counts, connections>>

\* method_announcement_on_write, the reply sent.  (The daemon aborts if there is
\* no anonymous user: the session would hold one that does not exist.)
MethodAnnounced(s) ==
  /\ sess[s].state = "AUTH_METHOD_ANNOUNCEMENT"
  /\ \/ /\ sess[s].method = "NO_AUTHENTICATION"
        /\ sess' = [sess EXCEPT ![s].user = Anonymous, ![s].state = "REQUEST"]
        /\ CountUser(Anonymous)
        /\ UNCHANGED history
     \/ /\ sess[s].method # "NO_AUTHENTICATION"
        /\ Goto(s, "AUTH_REQUEST")
        /\ UNCHANGED counts
  /\ UNCHANGED <<tables, connections>>

\* auth_request_on_read: only a registered user with its password is let in
AuthRequest(s) ==
  /\ sess[s].state = "AUTH_REQUEST"
  /\ \/ Goto(s, "AUTH_ERROR")
     \/ \E u \in users :
          sess' = [sess EXCEPT ![s].user = u, ![s].state = "AUTH_SUCCESSFUL"]
  /\ UNCHANGED <<tables, counts, connections>>

\* auth_successful_on_write, the reply sent; request_on_arrival
AuthSuccessful(s) ==
  /\ sess[s].state = "AUTH_SUCCESSFUL"
  /\ Goto(s, "REQUEST")
  /\ CountUser(sess[s].user)
  /\ UNCHANGED <<tables, history, connections>>

\* request_on_read: an error, or a socket that is connecting
Request(s) ==
  /\ sess[s].state = "REQUEST"
  /\ \/ Goto(s, "REQUEST_ERROR") /\ UNCHANGED connections
     \/ /\ sess' = [sess EXCEPT ![s].state = "IP_CONNECT", ![s].server = TRUE]
        /\ IncConnections
  /\ UNCHANGED <<tables, counts>>

\* ip_connect_on_write: the connection succeeded, or its socket is closed
IpConnect(s) ==
  /\ sess[s].state = "IP_CONNECT"
  /\ \/ Goto(s, "REQUEST_SUCCESSFUL") /\ UNCHANGED connections
     \/ /\ sess' = [sess EXCEPT ![s].state = "REQUEST_ERROR", ![s].server = FALSE]
        /\ DecConnections(1)
  /\ UNCHANGED <<tables, counts>>

\* request_successful_on_write
RequestSuccessful(s) ==
  /\ sess[s].state = "REQUEST_SUCCESSFUL"
  /\ Goto(s, "FORWARDING")
  /\ UNCHANGED <<tables, counts, connections>>

\* The session ends: FINISH after an error reply or the flush, the end or an
\* error of a socket, a full buffer, or socks5_cleanup_session.
Close(s) ==
  /\ sess[s].state # "NONE"
  /\ CloseOne(s)
  /\ UNCHANGED tables
-----------------------------------------------------------------------------
(* Administration sessions.                                                *)

socks == <<sess, counts, connections>>
AdminGoto(a, state) == adm' = [adm EXCEPT ![a].state = state]

\* admin_passive_accept_util
AdminAccept(a) ==
  /\ adm[a].state = "NONE"
  /\ AdminGoto(a, "AUTHENTICATING")
  /\ UNCHANGED <<socks, users, admins>>

AdminLetIn(u) == u \in admins

\* admin_auth_read.  A registered user is kept in the session even when its
\* password or its flag is wrong; NULL is, for an unknown name.
AdminAuth(a) ==
  /\ adm[a].state = "AUTHENTICATING"
  /\ \/ AdminGoto(a, "AUTH_ERROR")
     \/ \E u \in users :
          \/ adm' = [adm EXCEPT ![a] = [state |-> "AUTH_ERROR", user |-> u]]
          \/ /\ AdminLetIn(u)
             /\ adm' = [adm EXCEPT ![a] = [state |-> "AUTH_ACK", user |-> u]]
  /\ UNCHANGED <<socks, users, admins>>

\* admin_post_write_handler, the answer sent
AdminReply(a) ==
  /\ \/ adm[a].state \in {"AUTH_ACK", "METHOD_RESPONSE"} /\ AdminGoto(a, "METHOD")
     \/ adm[a].state = "AUTH_ERROR" /\ adm' = [adm EXCEPT ![a] = NoAdmin]
  /\ UNCHANGED <<socks, users, admins>>

\* A query, or a command that is refused.
AdminQuery(a) ==
  /\ adm[a].state = "METHOD"
  /\ AdminGoto(a, "METHOD_RESPONSE")
  /\ UNCHANGED <<socks, users, admins>>

\* user_handler_add_user
AddUser(a, u, isAdmin) ==
  /\ adm[a].state = "METHOD"
  /\ u \notin users /\ Cardinality(users) < MaxUsers
  /\ users' = users \cup {u}
  /\ admins' = IF isAdmin THEN admins \cup {u} ELSE admins
  /\ count' = [count EXCEPT ![u] = 0]
  /\ early' = [early EXCEPT ![u] = 0]
  /\ AdminGoto(a, "METHOD_RESPONSE")
  /\ UNCHANGED <<sess, userCount, connections, drifted>>

\* (slips: a session may remove its own user, or the anonymous one)
MayRemoveOwn(a, u) == u # Anonymous
MayRemoveAnonymous(a, u) == u # adm[a].user
\* admin_request_read turns the name of the session's own user into "";
\* user_handler_delete_user refuses that and the anonymous user.
MayRemove(a, u) == u # adm[a].user /\ u # Anonymous

\* (a slip: sessions that wait to send an authentication error are forgotten)
AdminsOfAuthenticated(u) == {x \in Admin : adm[x].user = u /\ adm[x].state # "AUTH_ERROR"}
AdminsOf(u) == {x \in Admin : adm[x].user = u}

\* user_handler_delete_user: the sessions of u, then u
RemoveUser(a, u) ==
  /\ adm[a].state = "METHOD"
  /\ u \in users /\ MayRemove(a, u)
  /\ CloseSessions({s \in Session : sess[s].user = u}, u)
  /\ adm' = [x \in Admin |-> IF x \in AdminsOf(u) THEN NoAdmin
                             ELSE IF x = a THEN [adm[a] EXCEPT !.state = "METHOD_RESPONSE"]
                             ELSE adm[x]]
  /\ users' = users \ {u}
  /\ admins' = admins \ {u}

\* The socket ends or fails; nothing else closes an administration session.
AdminClose(a) ==
  /\ adm[a].state # "NONE"
  /\ adm' = [adm EXCEPT ![a] = NoAdmin]
  /\ UNCHANGED <<socks, users, admins>>

SessionStep(s) ==
  \/ Accept(s) \/ Hello(s) \/ MethodAnnounced(s) \/ AuthRequest(s)
  \/ AuthSuccessful(s) \/ Request(s) \/ IpConnect(s) \/ RequestSuccessful(s)
  \/ Close(s)

AdminStep(a) ==
  \/ AdminAccept(a) \/ AdminAuth(a) \/ AdminReply(a) \/ AdminQuery(a)
  \/ AdminClose(a)
  \/ \E u \in User, isAdmin \in BOOLEAN : AddUser(a, u, isAdmin)
  \/ \E u \in User : RemoveUser(a, u)

Next == (\E s \in Session : SessionStep(s)) \/ (\E a \in Admin : AdminStep(a))

Spec == Init /\ [][Next]_vars
-----------------------------------------------------------------------------
(* Properties.                                                             *)

TypeOK ==
  /\ sess \in [Session -> [state : States, method : Methods,
                           user : User \cup {NoUser}, server : BOOLEAN]]
  /\ adm \in [Admin -> [state : AdminStates, user : User \cup {NoUser}]]
  /\ users \in SUBSET User
  /\ admins \in SUBSET users
  /\ count \in [User -> 0 .. CountMod - 1]
  /\ userCount \in 0 .. UserCountMax
  /\ connections \in 0 .. ConnMax
  /\ early \in [User -> 0 .. CountMod - 1]
  /\ drifted \in BOOLEAN

\* Sessions of u that request_on_arrival has counted.
Counted(u) == {s \in Session : sess[s].user = u /\ sess[s].state # "AUTH_SUCCESSFUL"}
Holding(u) == {s \in Session : sess[s].user = u}

\* No session of either kind holds a user that was freed: a removal closes all
\* of them first, wherever they are in their handshake.
NoDanglingUser ==
  /\ \A s \in Session : sess[s].user # NoUser => sess[s].user \in users
  /\ \A a \in Admin : adm[a].user # NoUser => adm[a].user \in users

\* The anonymous user survives every sequence of commands, so that
\* authMethodAnnouncement.c never aborts.
AnonymousPresent == Anonymous \in users

\* A session that is let past authentication holds a user, and one that
\* commands holds an administrator: user is never a NULL dereferenced later.
AuthenticatedHasUser ==
  /\ \A s \in Session :
       sess[s].state \in {"AUTH_SUCCESSFUL", "REQUEST", "REQUEST_ERROR", "IP_CONNECT",
                          "REQUEST_SUCCESSFUL", "FORWARDING"} => sess[s].user # NoUser
  /\ \A a \in Admin : adm[a].state \in {"AUTH_ACK", "METHOD", "METHOD_RESPONSE"}
                        => adm[a].user \in admins

\* The session that removes a user outlives the removal: admin_request_read
\* goes on using it to answer.
RemoverAnswers ==
  [][~(users \subseteq users') =>
       \E a \in Admin : adm[a].state = "METHOD" /\ adm'[a].state = "METHOD_RESPONSE"]_vars

\* currentConnections is the number of sockets of the sessions.
ConnectionsExact ==
  connections = Fds({s \in Session : sess[s].state # "NONE"})

\* The connections of a user, and the users connected, are the sessions that are
\* open (pipoProtocol.txt, 5.1.12 and 5.1.7), whether or not one that was just
\* told it is logged in is among them.  The code does not keep it: one that ends
\* right then gives back a count that it never took.
CountsConcurrent ==
  /\ \A u \in users : count[u] \in Cardinality(Counted(u)) .. Cardinality(Holding(u))
  /\ userCount \in Cardinality({u \in User : Counted(u) # {}})
                    .. Cardinality({u \in User : Holding(u) # {}})

\* connectionCount differs from the sessions counted by exactly those that
\* ended in AUTH_SUCCESSFUL.
CountBalance ==
  \A u \in users : count[u] = (Cardinality(Counted(u)) - early[u]) % CountMod

\* Unless a session ever ended like that, currentUserCount is the number of
\* users with a counted session.
UserCountExact ==
  ~drifted =>
    userCount = Cardinality({u \in User : Counted(u) # {}})

\* What CountsConcurrent is violated by is all that goes wrong with the two
\* counts, by as much as it happened: they follow every other way in which
\* sessions begin, advance and end, and a removal and its sessions.
OnlyEarlyEndsMiscount == CountBalance /\ UserCountExact

\* Every way in which a session begins, advances or ends moves the three counters
\* by what it takes or gives back, but for the end that CountsConcurrent shows.
CountersFollow == ConnectionsExact /\ OnlyEarlyEndsMiscount
=============================================================================
