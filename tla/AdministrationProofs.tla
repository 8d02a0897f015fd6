------------------------ MODULE AdministrationProofs ------------------------
(***************************************************************************)
(* Who an administration session serves and what it allocates, whatever    *)
(* the parsers make of the bytes, with any users and any other sessions;   *)
(* and then what the parsers, the commands and the response builder make   *)
(* of the bytes: the answers are exact.                                    *)
(***************************************************************************)
EXTENDS Administration, ByteLemmas

\* The selector watches an open session for what its state waits for.
Watched ==
  /\ state \in States
  /\ interest = "READ" <=> state \in {"AUTH_ARRIVAL", "AUTHENTICATING", "METHOD_ARRIVAL", "METHOD"}
  /\ interest = "WRITE" <=> state \in {"AUTH_ACK", "AUTH_ERROR", "METHOD_RESPONSE"}
  /\ interest = "NONE" <=> state = "CLOSED"

IsReply(r) == "list" \in DOMAIN r /\ r.list \in BOOLEAN

IInv == Watched /\ IsReply(reply) /\ ListsFreed /\ ServedByAdmin
-----------------------------------------------------------------------------
LEMMA Replies ==
  ASSUME NEW type, NEW cmd, NEW body
  PROVE  /\ IsReply(Answer(type, cmd, body)) /\ ~Answer(type, cmd, body).list
         /\ IsReply(UserList(type, cmd, body)) /\ UserList(type, cmd, body).list
BY DEF IsReply, Answer, UserList

\* The builder goes on with the reply it was given.
LEMMA BuildKeeps ==
  ASSUME NEW r, IsReply(r), NEW room, NEW b \in Build(r, room)
  PROVE  IsReply(b.r) /\ b.r.list = r.list
<1>1. CASE r.list
  <2>1. PICK a \in ListBytes(r, room) :
          b = [r |-> [r EXCEPT !.cur = a.cur, !.entry = a.entry], bytes |-> a.bytes]
    BY <1>1 DEF Build
  <2>2. b.r = [r EXCEPT !.cur = a.cur, !.entry = a.entry]  BY <2>1
  <2> QED  BY <2>2 DEF IsReply
<1>2. CASE ~r.list
  <2>1. PICK to : b = [r |-> [r EXCEPT !.cur = to],
                       bytes |-> SubSeq(r.head \o r.body, r.cur + 1, to)]
    BY <1>2 DEF Build
  <2>2. b.r = [r EXCEPT !.cur = to]  BY <2>1
  <2> QED  BY <2>2 DEF IsReply
<1> QED  BY <1>1, <1>2 DEF IsReply

\* Every way out frees the list.
LEMMA Closes ==
  ASSUME IInv, Close, IsReply(reply')
  PROVE  IInv'
<1>1. state' = "CLOSED" /\ interest' = "NONE"
      /\ lists' = IF Holding THEN lists - 1 ELSE lists
  BY DEF Close
<1>2. lists' = 0  BY <1>1 DEF IInv, ListsFreed
<1>3. Watched'  BY <1>1 DEF Watched, States
<1>4. ListsFreed'  BY <1>1, <1>2 DEF ListsFreed, Holding
<1>5. ServedByAdmin'  BY <1>1 DEF ServedByAdmin
<1> QED  BY <1>3, <1>4, <1>5 DEF IInv

\* A command answers, allocates for a list only, and leaves its own user alone.
LEMMA Executes ==
  ASSUME IInv, state \in {"METHOD_ARRIVAL", "METHOD"}, NEW p, NEW v, Execute(p, v)
  PROVE  /\ IsReply(reply') /\ lists' = IF reply'.list THEN 1 ELSE 0
         /\ user \in DOMAIN users' /\ users'[user].admin = 1
<1>1. lists = 0 /\ user \in DOMAIN users /\ users[user].admin = 1
  BY DEF IInv, ListsFreed, Holding, ServedByAdmin, Exists
<1>2. CASE ListUsers(p)
  <2>1. PICK body : reply' = UserList(p.type, p.cmd, body)  BY <1>2 DEF ListUsers
  <2>2. lists' = lists + 1 /\ users' = users  BY <1>2 DEF ListUsers, NoEffect
  <2> QED  BY <1>1, <2>1, <2>2, Replies
<1>3. CASE Number(p, v)
  <2>1. PICK body : reply' = Answer(p.type, p.cmd, body)  BY <1>3 DEF Number
  <2>2. lists' = lists /\ users' = users  BY <1>3 DEF Number, NoEffect
  <2> QED  BY <1>1, <2>1, <2>2, Replies
<1>4. CASE AddUser(p)
  <2> DEFINE name == p.args[1]
             pass == p.args[2]
             admin == p.args[3]
  <2>1. PICK wrong : /\ Status(p, wrong)
                     /\ wrong = 0 => ~Exists(name)
                     /\ users' = IF wrong # 0 THEN users
                                 ELSE [n \in DOMAIN users \cup {name} |->
                                         IF n = name THEN [pass |-> pass, admin |-> admin]
                                         ELSE users[n]]
    BY <1>4 DEF AddUser, InvalidParameter
  <2>2. reply' = Answer(p.type, p.cmd, <<wrong>>) /\ lists' = lists
    BY <1>4, <2>1 DEF AddUser, Status
  <2>3. user \in DOMAIN users' /\ users'[user] = users[user]
    <3> HIDE DEF name, pass, admin
    <3>1. CASE wrong # 0  BY <1>1, <2>1, <3>1
    <3>2. CASE wrong = 0
      <4>1. user # name  BY <1>1, <2>1, <3>2 DEF Exists
      <4> QED  BY <1>1, <2>1, <3>2, <4>1
    <3> QED  BY <3>1, <3>2
  <2> QED  BY <1>1, <2>2, <2>3, Replies
<1>5. CASE RemoveUser(p)
  <2> DEFINE name == p.args[1]
  <2>1. PICK wrong : /\ Status(p, wrong)
                     /\ wrong = 0 => MayRemove(name)
                     /\ users' = IF wrong = 0 THEN Without(name) ELSE users
    BY <1>5 DEF RemoveUser, InvalidParameter
  <2>2. reply' = Answer(p.type, p.cmd, <<wrong>>) /\ lists' = lists
    BY <1>5, <2>1 DEF RemoveUser, Status
  <2>3. user \in DOMAIN users' /\ users'[user] = users[user]
    <3> HIDE DEF name
    <3>1. CASE wrong # 0  BY <1>1, <2>1, <3>1
    <3>2. CASE wrong = 0
      <4>1. user # name  BY <2>1, <3>2 DEF MayRemove
      <4>2. users' = [n \in DOMAIN users \ {name} |-> users[n]]
        BY <2>1, <3>2 DEF Without
      <4> QED  BY <1>1, <4>1, <4>2
    <3> QED  BY <3>1, <3>2
  <2> QED  BY <1>1, <2>2, <2>3, Replies
<1>6. CASE Set(p)
  <2>1. PICK s : reply' = Answer(p.type, p.cmd, <<s>>)  BY <1>6 DEF Set, Status
  <2>2. lists' = lists /\ users' = users  BY <1>6 DEF Set
  <2> QED  BY <1>1, <2>1, <2>2, Replies
<1>7. CASE Refuse(p)
  <2>1. PICK type : reply' = Answer(type, Invalid, <<>>)  BY <1>7 DEF Refuse
  <2>2. lists' = lists /\ users' = users  BY <1>7 DEF Refuse, NoEffect
  <2> QED  BY <1>1, <2>1, <2>2, Replies
<1> QED  BY <1>2, <1>3, <1>4, <1>5, <1>6, <1>7 DEF Execute

\* Who logs in is found among the users, with the rights of that moment.
LEMMA AuthReads ==
  ASSUME IInv, NEW in, AuthRead(in)
  PROVE  IInv'
<1>1. state \in {"AUTH_ARRIVAL", "AUTHENTICATING"} /\ users' = users /\ lists' = lists
  BY DEF AuthRead
<1>2. lists' = 0 /\ interest = "READ" /\ IsReply(reply)
  BY <1>1 DEF IInv, ListsFreed, Holding, Watched
<1>3. PICK p : IF Done(p) THEN LogIn(p)
               ELSE /\ state' = "AUTHENTICATING"
                    /\ UNCHANGED <<user, interest, reply, handled>>
  BY SMTT(40) DEF AuthRead
<1>4. CASE LogIn(p)
  <2>1. PICK status :
          /\ status = 0 => p.args[1] \in DOMAIN users /\ users[p.args[1]].admin = 1
                           /\ user' = p.args[1]
          /\ state' = IF status = 0 THEN "AUTH_ACK" ELSE "AUTH_ERROR"
          /\ interest' = "WRITE"
          /\ reply' = Answer(AuthVersion, status, <<>>)
    BY SMTT(40), <1>4 DEF LogIn, Exists
  <2>2. IsReply(reply')  BY <2>1, Replies
  <2>3. Watched'  BY <2>1 DEF Watched, States
  <2>4. ListsFreed'  BY <1>2, <2>1 DEF ListsFreed, Holding
  <2>5. ServedByAdmin'  BY <1>1, <2>1 DEF ServedByAdmin, Exists
  <2> QED  BY SMTT(30), <2>2, <2>3, <2>4, <2>5 DEF IInv
<1>5. CASE state' = "AUTHENTICATING" /\ UNCHANGED <<user, interest, reply, handled>>
  BY <1>2, <1>5 DEF IInv, Watched, States, ListsFreed, Holding, ServedByAdmin
<1> QED  BY <1>3, <1>4, <1>5

LEMMA RequestReads ==
  ASSUME IInv, NEW in, RequestRead(in)
  PROVE  IInv'
<1>1. state \in {"METHOD_ARRIVAL", "METHOD"} /\ user' = user
  BY DEF RequestRead
<1>2. lists = 0 /\ interest = "READ" /\ IsReply(reply) /\ Exists(user) /\ users[user].admin = 1
  BY <1>1 DEF IInv, ListsFreed, Holding, Watched, ServedByAdmin
<1>3. PICK p, v :
        \/ Execute(p, v) /\ state' = "METHOD_RESPONSE" /\ interest' = "WRITE"
        \/ /\ state' = "METHOD"
           /\ UNCHANGED <<interest, reply, handled, lists>> /\ NoEffect
  BY DEF RequestRead
<1>4. CASE Execute(p, v) /\ state' = "METHOD_RESPONSE" /\ interest' = "WRITE"
  <2>1. /\ IsReply(reply') /\ lists' = IF reply'.list THEN 1 ELSE 0
        /\ user \in DOMAIN users' /\ users'[user].admin = 1
    BY <1>1, <1>4, Executes
  <2> QED  BY <1>1, <1>4, <2>1
           DEF IInv, Watched, States, ListsFreed, Holding, ServedByAdmin, Exists
<1>5. CASE /\ state' = "METHOD"
           /\ UNCHANGED <<interest, reply, handled, lists>> /\ NoEffect
  BY <1>1, <1>2, <1>5
  DEF IInv, Watched, States, ListsFreed, Holding, ServedByAdmin, Exists, NoEffect
<1> QED  BY <1>3, <1>4, <1>5

LEMMA Reads ==
  ASSUME IInv, Read
  PROVE  IInv'
<1>1. CASE Close /\ UNCHANGED reply
  <2>1. IsReply(reply')  BY <1>1 DEF IInv
  <2> QED  BY <1>1, <2>1, Closes
<1>2. CASE \E in : AuthRead(in) \/ RequestRead(in)
  BY <1>2, AuthReads, RequestReads
<1> QED  BY <1>1, <1>2 DEF Read

\* After a send: the reply goes on, or is complete and its list is freed.
LEMMA PostWrites ==
  ASSUME IInv, interest = "WRITE", NEW out, NEW received, PostWrite(out, received),
         UNCHANGED <<user, users>>
  PROVE  IInv'
<1>1. PICK b \in Build(reply, Room(out, OutSize)) :
        /\ reply' = b.r
        /\ \/ UNCHANGED <<state, interest, lists>>
           \/ state = "AUTH_ERROR" /\ Close
           \/ /\ state # "AUTH_ERROR"
              /\ state' = "METHOD_ARRIVAL" /\ interest' = "READ"
              /\ lists' = IF Holding THEN lists - 1 ELSE lists
  BY DEF PostWrite
<1>2. IsReply(reply') /\ reply'.list = reply.list
  BY <1>1, BuildKeeps DEF IInv
<1>3. CASE UNCHANGED <<state, interest, lists>>
  BY <1>2, <1>3 DEF IInv, Watched, ListsFreed, Holding, ServedByAdmin, Exists
<1>4. CASE Close
  BY <1>2, <1>4, Closes
<1>5. CASE /\ state # "AUTH_ERROR"
           /\ state' = "METHOD_ARRIVAL" /\ interest' = "READ"
           /\ lists' = IF Holding THEN lists - 1 ELSE lists
  <2>1. state \in {"AUTH_ACK", "METHOD_RESPONSE"}  BY <1>5 DEF IInv, Watched
  <2>2. ServedByAdmin'  BY <1>5, <2>1 DEF IInv, ServedByAdmin, Exists
  <2>3. Watched'  BY <1>5 DEF Watched, States
  <2>4. ListsFreed'  BY <1>5 DEF IInv, ListsFreed, Holding
  <2> QED  BY <1>2, <2>2, <2>3, <2>4 DEF IInv
<1> QED  BY <1>1, <1>3, <1>4, <1>5

LEMMA Writes ==
  ASSUME IInv, Write
  PROVE  IInv'
<1>1. interest = "WRITE" /\ UNCHANGED <<user, users>>
  BY DEF Write
<1>2. CASE \E out, received : PostWrite(out, received)
  BY <1>1, <1>2, PostWrites
<1>3. CASE Close /\ UNCHANGED reply
  <2>1. IsReply(reply')  BY <1>3 DEF IInv
  <2> QED  BY <1>3, <2>1, Closes
<1> QED  BY <1>2, <1>3 DEF Write

\* Another administrator's commands, which never touch a user that is served.
LEMMA OthersAdminister ==
  ASSUME IInv, OtherAdds \/ OtherRemoves
  PROVE  IInv'
<1>1. CASE OtherAdds
  <2>1. UNCHANGED <<state, interest, user, reply, lists>>
    BY <1>1 DEF OtherAdds, session
  <2>2. Visitor \notin DOMAIN users
        /\ users' = [n \in DOMAIN users \cup {Visitor} |->
                       IF n = Visitor THEN [pass |-> Visitor, admin |-> 1] ELSE users[n]]
    BY <1>1 DEF OtherAdds, Exists
  <2>3. Exists(user) => Exists(user)' /\ users'[user'] = users[user]
    BY <2>1, <2>2 DEF Exists
  <2>4. ServedByAdmin'  BY <2>1, <2>3 DEF IInv, ServedByAdmin
  <2> QED  BY <2>1, <2>4 DEF IInv, Watched, ListsFreed, Holding
<1>2. CASE OtherRemoves
  <2>1. UNCHANGED <<user, reply>> /\ users' = [n \in DOMAIN users \ {Visitor} |-> users[n]]
    BY <1>2 DEF OtherRemoves, Without
  <2>2. CASE Close
    <3>1. IsReply(reply')  BY <2>1 DEF IInv
    <3> QED  BY <2>2, <3>1, Closes
  <2>3. CASE (user # Visitor \/ state = "CLOSED") /\ UNCHANGED <<state, interest, wire, lists>>
    <3>1. Exists(user) /\ user # Visitor => Exists(user)' /\ users'[user'] = users[user]
      BY <2>1 DEF Exists
    <3>2. ServedByAdmin'  BY <2>3, <3>1 DEF IInv, ServedByAdmin
    <3> QED  BY <2>1, <2>3, <3>2 DEF IInv, Watched, ListsFreed, Holding
  <2> QED  BY <1>2, <2>2, <2>3 DEF OtherRemoves
<1> QED  BY <1>1, <1>2

LEMMA Stutters ==
  ASSUME IInv, UNCHANGED <<state, interest, user, reply, users, lists>>
  PROVE  IInv'
BY DEF IInv, Watched, ListsFreed, Holding, ServedByAdmin, Exists

LEMMA Starts == ASSUME Init  PROVE IInv
<1>1. IsReply(reply)  BY Replies DEF Init
<1> QED  BY <1>1 DEF Init, IInv, Watched, States, ListsFreed, Holding, ServedByAdmin

LEMMA Inductive == Spec => []IInv
<1>1. Init => IInv  BY Starts
<1>2. IInv /\ [Next]_vars => IInv'
  <2> SUFFICES ASSUME IInv, [Next]_vars  PROVE IInv'
    OBVIOUS
  <2>1. CASE Read  BY <2>1, Reads
  <2>2. CASE Write  BY <2>2, Writes
  <2>3. CASE OtherAdds \/ OtherRemoves  BY <2>3, OthersAdminister
  <2>4. CASE ClientSend \/ ClientGone
    BY <2>4, Stutters DEF ClientSend, ClientGone, session
  <2>5. CASE UNCHANGED vars  BY <2>5, Stutters DEF vars, session
  <2> QED  BY <2>1, <2>2, <2>3, <2>4, <2>5 DEF Next, Environment, Over
<1> QED  BY <1>1, <1>2, PTL DEF Spec

-----------------------------------------------------------------------------
(***************************************************************************)
(* The parsers, over the bytes of one message                              *)
(***************************************************************************)

LoginParser == [state : LoginStates, type : Byte, cmd : Byte, len : Int, str : Seq(Byte),
                args : Seq(Seq(Byte))]

RequestStates == {"TYPE", "COMMAND", "STRING", "ADD_USER", "ADD_PASS", "ADD_PRIV", "UINT_8",
                  "UINT_32", "DONE", "BAD_TYPE", "BAD_COMMAND"}
\* a string or a number
Arg == Seq(Byte) \cup Nat
RequestParser == [state : RequestStates, type : Byte, cmd : Byte, len : Int, str : Seq(Byte),
                  args : Seq(Arg)]

LEMMA NewParsers == NewParser("VERSION") \in LoginParser /\ NewParser("TYPE") \in RequestParser
<1>1. Invalid \in Byte /\ -1 \in Int  BY DEF Invalid, Byte
<1>2. <<>> \in Seq(Byte) /\ <<>> \in Seq(Seq(Byte)) /\ <<>> \in Seq(Arg)  BY EmptySeq
<1>3. "VERSION" \in LoginStates /\ "TYPE" \in RequestStates  BY DEF LoginStates, RequestStates
<1>4. NewParser("VERSION") \in LoginParser  BY <1>1, <1>2, <1>3 DEF NewParser, LoginParser
<1>5. NewParser("TYPE") \in RequestParser  BY <1>1, <1>2, <1>3 DEF NewParser, RequestParser
<1> QED  BY <1>4, <1>5

LEMMA LoginFeed ==
  ASSUME NEW p \in LoginParser, p.state \in LoginStates \ LoginEnds, NEW x \in Byte
  PROVE  AuthFeed(p, x) \in LoginParser /\ CoreOf(AuthFeed(p, x)) = AuthFeed(CoreOf(p), x)
<1>1. PICK c \in Core : c = CoreOf(p)
  <2>1. p.str \in Seq(Byte) /\ p.args \in Seq(Seq(Byte))  BY DEF LoginParser
  <2>2. p.len \in Int  BY DEF LoginParser
  <2>3. p.state \in LoginStates  OBVIOUS
  <2> QED  BY <2>1, <2>2, <2>3 DEF Core, CoreOf
<1>2. c.state = p.state /\ c.len = p.len /\ c.str = p.str /\ c.args = p.args  BY <1>1 DEF CoreOf
<1>3. PICK e \in Seq(Byte) : e = <<>>  BY EmptySeq
<1>x. x \in Int  BY DEF Byte
<1>4. PICK s \in Seq(Byte) : s = Append(p.str, x)  BY AppendProperties DEF LoginParser
<1>5. PICK a \in Seq(Seq(Byte)) : a = Append(p.args, s)  BY AppendProperties DEF LoginParser
<1>6. ASSUME NEW next \in LoginStates, NEW q \in LoginParser, q = [p EXCEPT !.state = next]
      PROVE  CoreOf(q) = [c EXCEPT !.state = next]
  <2>1. c = [state |-> p.state, len |-> p.len, str |-> p.str, args |-> p.args]  BY <1>1 DEF CoreOf
  <2>2. q.state = next /\ q.len = p.len /\ q.str = p.str /\ q.args = p.args  BY <1>6 DEF LoginParser
  <2> QED  BY <2>1, <2>2 DEF CoreOf
<1>7. ASSUME NEW next \in LoginStates, NEW otherwise \in LoginStates
      PROVE  /\ Length(p, x, next, otherwise) \in LoginParser
             /\ CoreOf(Length(p, x, next, otherwise)) = Length(c, x, next, otherwise)
  <2>1. CASE x < 1
    <3>1. PICK q \in LoginParser : q = [p EXCEPT !.state = otherwise]  BY DEF LoginParser
    <3> QED  BY <1>6, <2>1, <3>1 DEF Length
  <2>2. CASE ~(x < 1)
    <3>1. PICK q \in LoginParser : q = [p EXCEPT !.state = next, !.len = x, !.str = e]  BY <1>x DEF LoginParser
    <3>2. CoreOf(q) = [c EXCEPT !.state = next, !.len = x, !.str = e]
      <4>1. c = [state |-> p.state, len |-> p.len, str |-> p.str, args |-> p.args]  BY <1>1 DEF CoreOf
      <4>2. q.state = next /\ q.len = x /\ q.str = e /\ q.args = p.args  BY <3>1 DEF LoginParser
      <4>3. CoreOf(q) = [state |-> next, len |-> x, str |-> e, args |-> p.args]  BY <4>2 DEF CoreOf
      <4>4. [c EXCEPT !.state = next, !.len = x, !.str = e]
            = [state |-> next, len |-> x, str |-> e, args |-> p.args]
        <5>1. PICK r : r = [c EXCEPT !.state = next, !.len = x, !.str = e]  OBVIOUS
        <5>2. r = [state |-> next, len |-> x, str |-> e, args |-> p.args]  BY Zenon, <4>1, <5>1, CoreUpdates
        <5> QED  BY <5>1, <5>2
      <4> QED  BY <4>3, <4>4
    <3> QED  BY <1>3, <2>2, <3>1, <3>2 DEF Length
  <2> QED  BY <2>1, <2>2
<1>8. ASSUME NEW next \in LoginStates
      PROVE  Char(p, x, next) \in LoginParser /\ CoreOf(Char(p, x, next)) = Char(c, x, next)
  <2>1. CASE Len(s) = p.len
    <3>1. PICK q \in LoginParser : q = [p EXCEPT !.state = next, !.args = a]  BY DEF LoginParser
    <3>2. CoreOf(q) = [c EXCEPT !.state = next, !.args = a]
      <4>1. c = [state |-> p.state, len |-> p.len, str |-> p.str, args |-> p.args]  BY <1>1 DEF CoreOf
      <4>2. q.state = next /\ q.len = p.len /\ q.str = p.str /\ q.args = a  BY <3>1 DEF LoginParser
      <4>3. CoreOf(q) = [state |-> next, len |-> p.len, str |-> p.str, args |-> a]  BY <4>2 DEF CoreOf
      <4>4. [c EXCEPT !.state = next, !.args = a]
            = [state |-> next, len |-> p.len, str |-> p.str, args |-> a]
        <5>1. PICK r : r = [c EXCEPT !.state = next, !.args = a]  OBVIOUS
        <5>2. r = [state |-> next, len |-> p.len, str |-> p.str, args |-> a]  BY Zenon, <4>1, <5>1, CoreUpdates
        <5> QED  BY <5>1, <5>2
      <4> QED  BY <4>3, <4>4
    <3>3. Char(p, x, next) = q  BY <1>4, <1>5, <2>1, <3>1 DEF Char
    <3>4. Char(c, x, next) = CoreOf(q)  BY <1>2, <1>4, <1>5, <2>1, <3>2 DEF Char
    <3> QED  BY <3>3, <3>4
  <2>2. CASE Len(s) # p.len
    <3>1. PICK q \in LoginParser : q = [p EXCEPT !.str = s]  BY DEF LoginParser
    <3>2. CoreOf(q) = [c EXCEPT !.str = s]
      <4>1. c = [state |-> p.state, len |-> p.len, str |-> p.str, args |-> p.args]  BY <1>1 DEF CoreOf
      <4>2. q.state = p.state /\ q.len = p.len /\ q.str = s /\ q.args = p.args  BY <3>1 DEF LoginParser
      <4>3. CoreOf(q) = [state |-> p.state, len |-> p.len, str |-> s, args |-> p.args]  BY <4>2 DEF CoreOf
      <4>4. [c EXCEPT !.str = s] = [state |-> p.state, len |-> p.len, str |-> s, args |-> p.args]  BY <4>1
      <4> QED  BY <4>3, <4>4
    <3>3. Char(p, x, next) = q  BY <1>4, <2>2, <3>1 DEF Char
    <3>4. Char(c, x, next) = CoreOf(q)  BY <1>2, <1>4, <2>2, <3>2 DEF Char
    <3> QED  BY <3>3, <3>4
  <2> QED  BY <2>1, <2>2
<1>9. /\ "UNAME" \in LoginStates /\ "PLEN" \in LoginStates /\ "PASSWORD" \in LoginStates
      /\ "BAD_LENGTH" \in LoginStates /\ "BAD_VERSION" \in LoginStates /\ "ULEN" \in LoginStates
      /\ "DONE" \in LoginStates
  BY DEF LoginStates, LoginEnds
<1>10. p.state \in {"VERSION", "ULEN", "UNAME", "PLEN", "PASSWORD"}  BY DEF LoginStates
<1>11. CASE p.state = "VERSION"
  <2>1. PICK next \in LoginStates : next = IF x = AuthVersion THEN "ULEN" ELSE "BAD_VERSION"  BY <1>9
  <2>2. PICK q \in LoginParser : q = [p EXCEPT !.state = next]  BY DEF LoginParser
  <2>3. AuthFeed(p, x) = q  BY <1>11, <2>1, <2>2 DEF AuthFeed
  <2>4. AuthFeed(c, x) = [c EXCEPT !.state = next]  BY <1>2, <1>11, <2>1 DEF AuthFeed
  <2> QED  BY <1>1, <1>6, <2>2, <2>3, <2>4
<1>12. CASE p.state = "ULEN"
  <2>1. AuthFeed(p, x) = Length(p, x, "UNAME", "BAD_LENGTH")  BY <1>12 DEF AuthFeed
  <2>2. AuthFeed(c, x) = Length(c, x, "UNAME", "BAD_LENGTH")  BY <1>2, <1>12 DEF AuthFeed
  <2> QED  BY <1>1, <1>7, <1>9, <2>1, <2>2
<1>13. CASE p.state = "UNAME"
  <2>1. AuthFeed(p, x) = Char(p, x, "PLEN")  BY <1>13 DEF AuthFeed
  <2>2. AuthFeed(c, x) = Char(c, x, "PLEN")  BY <1>2, <1>13 DEF AuthFeed
  <2> QED  BY <1>1, <1>8, <1>9, <2>1, <2>2
<1>14. CASE p.state = "PLEN"
  <2>1. AuthFeed(p, x) = Length(p, x, "PASSWORD", "BAD_LENGTH")  BY <1>14 DEF AuthFeed
  <2>2. AuthFeed(c, x) = Length(c, x, "PASSWORD", "BAD_LENGTH")  BY <1>2, <1>14 DEF AuthFeed
  <2> QED  BY <1>1, <1>7, <1>9, <2>1, <2>2
<1>15. CASE p.state = "PASSWORD"
  <2>1. AuthFeed(p, x) = Char(p, x, "DONE")  BY <1>15 DEF AuthFeed
  <2>2. AuthFeed(c, x) = Char(c, x, "DONE")  BY <1>2, <1>15 DEF AuthFeed
  <2> QED  BY <1>1, <1>8, <1>9, <2>1, <2>2
<1> QED  BY <1>10, <1>11, <1>12, <1>13, <1>14, <1>15

LEMMA LoginDone ==
  ASSUME NEW b, NEW seen, LoginBytes(b, seen), NEW j \in 0 .. Len(b), NEW p, LoginAt(b, j, p)
  PROVE  /\ Done(p) <=> j = Len(b)
         /\ Done(p) => p.args = seen /\ (p.state = "DONE" <=> Len(seen) = 2)
<1>1. /\ p.state \in LoginStates /\ (p.state \in LoginEnds <=> j = Len(b))
      /\ p.state \in LoginEnds => p.args = seen /\ (p.state = "DONE" <=> Len(seen) = 2)
  BY LoginEnd
<1>2. Done(p) <=> p.state \in LoginEnds  BY <1>1 DEF Done, LoginStates, LoginEnds
<1> QED  BY <1>1, <1>2

LEMMA VersionRead ==
  ASSUME NEW b, NEW seen, LoginBytes(b, seen), NEW p, LoginAt(b, Len(b), p)
  PROVE  p.state = "BAD_VERSION" <=> b[1] # AuthVersion
<1>1. PICK n \in Nat : n = Len(b)  BY LenProperties DEF LoginBytes
<1>2. p.state = "BAD_VERSION" => b[1] # AuthVersion  BY DEF LoginAt
<1>3. CASE b[1] # AuthVersion
  <2>1. n = 1  BY <1>1, <1>3 DEF LoginBytes
  <2>2. n # 0 /\ n # 2  BY <2>1
  <2>3. ASSUME b[2] \in Byte \ {0}  PROVE n \notin 2 .. 1 + b[2] /\ ~(n >= 2 + b[2])
    <3>1. PICK u \in Nat : u = b[2]  BY Zenon, <2>3, ByteSize
    <3>2. n \notin 2 .. 1 + u /\ ~(n >= 2 + u)  BY <2>1
    <3> QED  BY <3>1, <3>2
  <2>4. LoginAt(b, n, p)  BY <1>1
  <2> QED  BY <1>3, <2>2, <2>3, <2>4 DEF LoginAt
<1> QED  BY <1>2, <1>3

LEMMA LoginFed ==
  ASSUME NEW b, NEW seen, LoginBytes(b, seen), NEW j \in 0 .. Len(b) - 1, NEW p \in LoginParser, LoginAt(b, j, p)
  PROVE  AuthFeed(p, b[j + 1]) \in LoginParser /\ LoginAt(b, j + 1, AuthFeed(p, b[j + 1]))
<1>0. b \in Seq(Byte) /\ Len(b) \in Nat /\ j \in 0 .. Len(b) /\ j # Len(b) /\ j + 1 \in 1 .. Len(b)
  BY LenProperties DEF LoginBytes
<1>1. b[j + 1] \in Byte  BY <1>0, ElementOfSeq
<1>2. p.state \in LoginStates \ LoginEnds  BY <1>0, LoginEnd
<1>3. PICK c \in Core : c = CoreOf(p)
  <2>1. p.str \in Seq(Byte) /\ p.args \in Seq(Seq(Byte))  BY DEF LoginParser
  <2>2. p.len \in Int  BY DEF LoginParser
  <2>3. p.state \in LoginStates  BY <1>2
  <2> QED  BY <2>1, <2>2, <2>3 DEF Core, CoreOf
<1>4. LoginAt(b, j, c)  BY <1>3 DEF LoginAt, CoreOf
<1>5. LoginAt(b, j + 1, AuthFeed(c, b[j + 1]))  BY <1>4, LoginStep
<1>6. PICK q \in LoginParser : q = AuthFeed(p, b[j + 1]) /\ CoreOf(q) = AuthFeed(c, b[j + 1])
  BY <1>1, <1>2, <1>3, LoginFeed
<1>7. PICK d : d = CoreOf(q) /\ LoginAt(b, j + 1, d)  BY <1>5, <1>6
<1>8. d.state = q.state /\ d.len = q.len /\ d.str = q.str /\ d.args = q.args  BY SMTT(40), <1>7 DEF CoreOf
<1>9. LoginAt(b, j + 1, q)  BY <1>7, <1>8 DEF LoginAt
<1> QED  BY <1>6, <1>9

-----------------------------------------------------------------------------
(* The parser of a request.                                                 *)

\* What the bytes of a request are: one that is no type, or a type, a command,
\* and the arguments that its state awaits, behind the second byte.
ArgumentBytes(awaited, a, b) ==
  \/ awaited \in {"DONE", "BAD_COMMAND"} /\ a = <<>> /\ Len(b) = 2
  \/ /\ awaited = "STRING" /\ a = <<a[1]>> /\ IsString(a[1])
     /\ Len(b) = 3 + Len(a[1]) /\ \A i \in 0 .. Len(a[1]) : b[3 + i] = Str(a[1])[1 + i]
  \/ /\ awaited = "ADD_USER" /\ a = <<a[1], a[2], a[3]>>
     /\ IsString(a[1]) /\ IsString(a[2]) /\ a[3] \in Byte
     /\ Len(b) = 5 + Len(a[1]) + Len(a[2])
     /\ \A i \in 0 .. Len(a[1]) : b[3 + i] = Str(a[1])[1 + i]
     /\ \A i \in 0 .. Len(a[2]) : b[4 + Len(a[1]) + i] = Str(a[2])[1 + i]
     /\ b[5 + Len(a[1]) + Len(a[2])] = a[3]
  \/ awaited = "UINT_8" /\ a = <<a[1]>> /\ a[1] \in Byte /\ b[3] = a[1] /\ Len(b) = 3
  \/ awaited = "UINT_32" /\ a = <<Value32(SubSeq(b, 3, 6))>> /\ a[1] \in Nat /\ Len(b) = 6
RequestBytes(m) ==
  /\ m.bytes \in Seq(Byte)
  /\ \/ /\ Len(m.bytes) = 1 /\ m.bytes[1] \notin {Query, Modification}
        /\ m.seen = <<Invalid, Invalid, <<>>>>
     \/ /\ Len(m.bytes) > 1 /\ m.bytes[1] \in {Query, Modification} /\ m.bytes[2] \in Byte
        /\ m.seen = <<m.bytes[1], m.bytes[2], m.seen[3]>>
        /\ ArgumentBytes(ArgState(m.bytes[1], m.bytes[2]), m.seen[3], m.bytes)

Awaited == {"DONE", "BAD_COMMAND", "STRING", "ADD_USER", "UINT_8", "UINT_32"}

LEMMA ArgStates ==
  ASSUME NEW type, NEW cmd
  PROVE  ArgState(type, cmd) \in Awaited
BY DEF ArgState, Awaited

\* Two bytes in front of a sequence.
LEMMA TwoPrefix ==
  ASSUME NEW t \in Byte, NEW c \in Byte, NEW s \in Seq(Byte)
  PROVE  /\ <<t, c>> \o s \in Seq(Byte) /\ Len(<<t, c>> \o s) = 2 + Len(s)
         /\ (<<t, c>> \o s)[1] = t /\ (<<t, c>> \o s)[2] = c
         /\ \A i \in 1 .. Len(s) : (<<t, c>> \o s)[2 + i] = s[i]
<1>0. <<t, c>> \in Seq(Byte) /\ Len(<<t, c>>) = 2 /\ <<t, c>>[1] = t /\ <<t, c>>[2] = c  OBVIOUS
<1>1. PICK a \in Seq(Byte) : a = <<t, c>> /\ Len(a) = 2 /\ a[1] = t /\ a[2] = c  BY <1>0
<1>2. /\ a \o s \in Seq(Byte) /\ Len(a \o s) = Len(a) + Len(s)
      /\ \A i \in 1 .. Len(a) : (a \o s)[i] = a[i]
      /\ \A i \in 1 .. Len(s) : (a \o s)[Len(a) + i] = s[i]
  BY ConcatParts
<1>3. 1 \in 1 .. 2 /\ 2 \in 1 .. 2  OBVIOUS
<1> QED  BY <1>1, <1>2, <1>3

LEMMA OneByte == \A x \in Byte : <<x>> \in Seq(Byte) /\ Len(<<x>>) = 1 /\ <<x>>[1] = x
OBVIOUS

LEMMA ArgumentShape ==
  ASSUME NEW awaited \in Awaited,
         NEW a, NEW s, Arguments(awaited, a, s), NEW t \in Byte, NEW c \in Byte, NEW b, b = <<t, c>> \o s
  PROVE  /\ s \in Seq(Byte) /\ b \in Seq(Byte) /\ Len(b) > 1 /\ b[1] = t /\ b[2] = c
         /\ ArgumentBytes(awaited, a, b)
<1>1. ASSUME s \in Seq(Byte)
      PROVE  /\ Len(s) \in Nat /\ b \in Seq(Byte) /\ Len(b) = 2 + Len(s) /\ Len(b) > 1 /\ b[1] = t /\ b[2] = c
             /\ \A i \in 1 .. Len(s) : b[2 + i] = s[i]
  <2>1. Len(s) \in Nat  BY <1>1, LenProperties
  <2>2. 2 + Len(s) > 1  BY <2>1
  <2> QED  BY <1>1, <2>1, <2>2, TwoPrefix
<1>2. CASE awaited \in {"DONE", "BAD_COMMAND"}
  <2>1. a = <<>> /\ s = <<>>  BY <1>2 DEF Arguments
  <2>2. s \in Seq(Byte) /\ Len(s) = 0  BY <2>1, EmptySeq
  <2>3. Len(b) = 2  BY <1>1, <2>2
  <2> QED  BY <1>1, <1>2, <2>1, <2>2, <2>3 DEF ArgumentBytes
<1>3. CASE awaited = "STRING"
  <2>1. a = <<a[1]>> /\ IsString(a[1]) /\ s = Str(a[1])  BY <1>3 DEF Arguments
  <2>2. PICK x \in Seq(Byte), n \in Nat : x = a[1] /\ n = Len(x) /\ n \in Byte  BY <2>1, StringType
  <2>3. s \in Seq(Byte) /\ Len(s) = 1 + n  BY <2>1, <2>2, StrParts
  <2>4. Len(b) = 3 + n  BY <1>1, <2>3
  <2>5. ASSUME NEW i \in 0 .. n  PROVE b[3 + i] = s[1 + i]
    <3>1. 1 + i \in 1 .. Len(s) /\ 2 + (1 + i) = 3 + i  BY <2>3
    <3> QED  BY <1>1, <2>3, <3>1
  <2> QED  BY <1>1, <1>3, <2>1, <2>2, <2>3, <2>4, <2>5 DEF ArgumentBytes
<1>4. CASE awaited = "ADD_USER"
  <2>1. /\ a = <<a[1], a[2], a[3]>> /\ IsString(a[1]) /\ IsString(a[2]) /\ a[3] \in Byte
        /\ s = Str(a[1]) \o Str(a[2]) \o <<a[3]>>
    BY <1>4 DEF Arguments
  <2>2. PICK x \in Seq(Byte), n \in Nat : x = a[1] /\ n = Len(x) /\ n \in Byte  BY <2>1, StringType
  <2>3. PICK y \in Seq(Byte), k \in Nat : y = a[2] /\ k = Len(y) /\ k \in Byte  BY <2>1, StringType
  <2>4. PICK sx \in Seq(Byte) : sx = Str(x) /\ Len(sx) = 1 + n  BY <2>2, StrParts
  <2>5. PICK sy \in Seq(Byte) : sy = Str(y) /\ Len(sy) = 1 + k  BY <2>3, StrParts
  <2>6. PICK z \in Seq(Byte) : z = <<a[3]>> /\ Len(z) = 1 /\ z[1] = a[3]  BY <2>1, OneByte
  <2>7. PICK d \in Seq(Byte) :
          /\ d = sx \o sy /\ Len(d) = Len(sx) + Len(sy)
          /\ \A i \in 1 .. Len(sx) : d[i] = sx[i]
          /\ \A i \in 1 .. Len(sy) : d[Len(sx) + i] = sy[i]
    BY ZenonT(40), Pasted
  <2>8. PICK e \in Seq(Byte) :
          /\ e = d \o z /\ Len(e) = Len(d) + Len(z)
          /\ \A i \in 1 .. Len(d) : e[i] = d[i]
          /\ \A i \in 1 .. Len(z) : e[Len(d) + i] = z[i]
    BY Pasted
  <2>9. s = e  BY <2>1, <2>2, <2>3, <2>4, <2>5, <2>6, <2>7, <2>8
  <2>10. Len(d) = 2 + n + k /\ Len(e) = 3 + n + k  BY <2>4, <2>5, <2>6, <2>7, <2>8
  <2>11. Len(b) = 5 + n + k /\ \A i \in 1 .. 3 + n + k : b[2 + i] = e[i]
    BY <1>1, <2>9, <2>10
  <2>12. ASSUME NEW i \in 0 .. n  PROVE b[3 + i] = sx[1 + i]
    <3>1. 1 + i \in 1 .. Len(sx) /\ 2 + (1 + i) = 3 + i /\ 1 + i \in 1 .. 3 + n + k /\ 1 + i \in 1 .. Len(d)
      BY SMTT(40), <2>4, <2>10
    <3>2. b[2 + (1 + i)] = e[1 + i]  BY <2>11, <3>1
    <3>3. e[1 + i] = d[1 + i]  BY <2>8, <3>1
    <3>4. d[1 + i] = sx[1 + i]  BY <2>7, <3>1
    <3> QED  BY <3>1, <3>2, <3>3, <3>4
  <2>13. ASSUME NEW i \in 0 .. k  PROVE b[4 + n + i] = sy[1 + i]
    <3>1. PICK h \in 1 .. Len(d) : h = Len(sx) + (1 + i) /\ 2 + h = 4 + n + i /\ h \in 1 .. 3 + n + k
      BY <2>4, <2>10
    <3>2. 1 + i \in 1 .. Len(sy)  BY <2>5
    <3>3. d[h] = sy[1 + i]  BY <2>7, <3>1, <3>2
    <3>4. e[h] = d[h]  BY <2>8
    <3>5. b[2 + h] = e[h]  BY <2>11, <3>1
    <3> QED  BY <3>1, <3>3, <3>4, <3>5
  <2>14. b[5 + n + k] = a[3]
    <3>1. 1 \in 1 .. Len(z) /\ Len(d) + 1 = 3 + n + k /\ 2 + (3 + n + k) = 5 + n + k /\ 3 + n + k \in 1 .. 3 + n + k
      BY <2>6, <2>10
    <3>2. e[Len(d) + 1] = z[1]  BY <2>8, <3>1
    <3>3. b[2 + (3 + n + k)] = e[3 + n + k]  BY <2>11, <3>1
    <3> QED  BY <2>6, <3>1, <3>2, <3>3
  <2> HIDE DEF Str
  <2> QED  BY <1>1, <1>4, <2>1, <2>2, <2>3, <2>4, <2>5, <2>9, <2>11, <2>12, <2>13, <2>14 DEF ArgumentBytes
<1>5. CASE awaited = "UINT_8"
  <2>1. a = <<a[1]>> /\ a[1] \in Byte /\ s = a  BY <1>5 DEF Arguments
  <2>p. PICK x \in Byte : x = a[1] /\ s = <<x>>  BY <2>1
  <2>2. s \in Seq(Byte) /\ Len(s) = 1 /\ s[1] = a[1]  BY <2>p, OneByte
  <2>3. Len(b) = 3 /\ b[3] = a[1]
    <3>1. 1 \in 1 .. Len(s) /\ 2 + 1 = 3  BY <2>2
    <3> QED  BY <1>1, <2>2, <3>1
  <2> QED  BY <1>1, <1>5, <2>1, <2>2, <2>3 DEF ArgumentBytes
<1>6. CASE awaited = "UINT_32"
  <2>1. s \in Seq(Byte) /\ Len(s) = 4 /\ a = <<Value32(s)>>  BY <1>6 DEF Arguments
  <2>2. Len(b) = 6 /\ \A i \in 1 .. 4 : b[2 + i] = s[i]  BY <1>1, <2>1
  <2>3. SubSeq(b, 3, 6) = s
    <3>1. \A i \in 1 .. Len(s) : b[3 - 1 + i] = s[i]  BY <2>1, <2>2
    <3>2. 6 = 3 + Len(s) - 1 /\ 3 \in Nat \ {0} /\ 6 \in Int  BY <2>1
    <3> QED  BY <1>1, <2>1, <3>1, <3>2, SubSeqIs
  <2>4. Value32(s) \in Nat
    <3>1. \A i \in 1 .. 4 : s[i] \in Byte  BY <2>1, ElementOfSeq
    <3>2. PICK v \in Nat, w \in Nat, x \in Nat, y \in Nat : v = s[1] /\ w = s[2] /\ x = s[3] /\ y = s[4]
      <4>n. \A x \in Byte : x \in Nat  BY DEF Byte
      <4>1. \A i \in 1 .. 4 : s[i] \in Nat  BY <3>1, <4>n
      <4>2. 1 \in 1 .. 4 /\ 2 \in 1 .. 4 /\ 3 \in 1 .. 4 /\ 4 \in 1 .. 4  OBVIOUS
      <4>3. s[1] \in Nat /\ s[2] \in Nat /\ s[3] \in Nat /\ s[4] \in Nat  BY ZenonT(20), <4>1, <4>2
      <4> QED  BY Zenon, <4>3
    <3>3. ((v * 256 + w) * 256 + x) * 256 + y \in Nat  OBVIOUS
    <3> QED  BY <3>2, <3>3 DEF Value32
  <2>5. a[1] = Value32(s)  BY <2>1
  <2> QED  BY <1>1, <1>6, <2>1, <2>2, <2>3, <2>4, <2>5 DEF ArgumentBytes
<1> QED  BY <1>2, <1>3, <1>4, <1>5, <1>6 DEF Awaited

LEMMA RequestShape ==
  ASSUME NEW m, IsRequest(m)
  PROVE  RequestBytes(m)
<1>1. CASE Len(m.bytes) = 1
  <2>1. PICK b \in Byte \ {Query, Modification} :
          m = [kind |-> "request", bytes |-> <<b>>, seen |-> <<Invalid, Invalid, <<>>>>]
    BY <1>1 DEF IsRequest
  <2>2. m.bytes = <<b>> /\ m.seen = <<Invalid, Invalid, <<>>>>  BY <2>1
  <2>3. m.bytes[1] = b /\ m.bytes \in Seq(Byte)  BY <2>2, OneByte
  <2> QED  BY <1>1, <2>2, <2>3 DEF RequestBytes
<1>2. CASE Len(m.bytes) # 1
  <2>1. PICK type \in {Query, Modification} : \E cmd \in Byte : \E s, a :
          /\ a = m.seen[3] /\ Arguments(ArgState(type, cmd), a, s) /\ m = Request(type, cmd, s, a)
    BY <1>2 DEF IsRequest
  <2>c. PICK cmd \in Byte : \E s, a :
          /\ a = m.seen[3] /\ Arguments(ArgState(type, cmd), a, s) /\ m = Request(type, cmd, s, a)
    BY <2>1
  <2>s. PICK s, a :
          /\ a = m.seen[3] /\ Arguments(ArgState(type, cmd), a, s) /\ m = Request(type, cmd, s, a)
    BY <2>c
  <2>2. m.bytes = <<type, cmd>> \o s /\ m.seen = <<type, cmd, a>>  BY <2>s DEF Request
  <2>3. type \in Byte  BY <2>1 DEF Query, Modification, Byte
  <2>4. PICK awaited \in Awaited : awaited = ArgState(type, cmd)
    BY ArgStates
  <2>b. PICK b : b = m.bytes /\ b = <<type, cmd>> \o s  BY <2>2
  <2>d. Arguments(awaited, a, s)  BY <2>s, <2>4
  <2>e. b \in Seq(Byte) /\ Len(b) > 1 /\ b[1] = type /\ b[2] = cmd /\ ArgumentBytes(awaited, a, b)
    <3>1. PICK t \in Byte : t = type  BY <2>3
    <3>2. b = <<t, cmd>> \o s  BY <2>b, <3>1
    <3>3. s \in Seq(Byte) /\ ArgumentBytes(awaited, a, b)
      BY Zenon, <2>d, <3>2, ArgumentShape
    <3>4. PICK z \in Seq(Byte) : z = s /\ Len(z) \in Nat  BY <3>3, LenProperties
    <3>5. b \in Seq(Byte) /\ Len(b) = 2 + Len(z) /\ b[1] = t /\ b[2] = cmd
      BY <3>2, <3>4, TwoPrefix
    <3>6. Len(b) > 1  BY <3>4, <3>5
    <3> QED  BY <3>1, <3>3, <3>5, <3>6
  <2>5. /\ m.bytes \in Seq(Byte) /\ Len(m.bytes) > 1 /\ m.bytes[1] = type /\ m.bytes[2] = cmd
        /\ ArgumentBytes(awaited, a, m.bytes)
    BY <2>b, <2>e
  <2>6. m.seen[3] = a  BY <2>s
  <2> QED  BY <2>1, <2>2, <2>4, <2>5, <2>6 DEF RequestBytes
<1> QED  BY <1>1, <1>2

\* What the parser has of a string s and its length after i of their bytes.
InString(s, i, p) ==
  IF i = 0 THEN p.len = -1 ELSE p.len = Len(s) /\ p.str = SubSeq(s, 1, i - 1)

\* What the parser has of the arguments after j bytes of the request b.
ArgumentsAt(awaited, a, b, j, p) ==
  \/ awaited \in {"DONE", "BAD_COMMAND"} /\ j = 2 /\ p.state = awaited /\ p.args = <<>>
  \/ /\ awaited = "STRING"
     /\ \/ /\ j \in 2 .. 2 + Len(a[1]) /\ p.state = "STRING" /\ p.args = <<>>
           /\ InString(a[1], j - 2, p)
        \/ j = 3 + Len(a[1]) /\ p.state = "DONE" /\ p.args = <<a[1]>>
  \/ /\ awaited = "ADD_USER"
     /\ \/ /\ j \in 2 .. 2 + Len(a[1]) /\ p.state = "ADD_USER" /\ p.args = <<>>
           /\ InString(a[1], j - 2, p)
        \/ /\ j \in 3 + Len(a[1]) .. 3 + Len(a[1]) + Len(a[2])
           /\ p.state = "ADD_PASS" /\ p.args = <<a[1]>>
           /\ InString(a[2], j - 3 - Len(a[1]), p)
        \/ j = 4 + Len(a[1]) + Len(a[2]) /\ p.state = "ADD_PRIV" /\ p.args = <<a[1], a[2]>>
        \/ j = 5 + Len(a[1]) + Len(a[2]) /\ p.state = "DONE" /\ p.args = <<a[1], a[2], a[3]>>
  \/ /\ awaited = "UINT_8"
     /\ \/ j = 2 /\ p.state = "UINT_8" /\ p.args = <<>>
        \/ j = 3 /\ p.state = "DONE" /\ p.args = <<a[1]>>
  \/ /\ awaited = "UINT_32"
     /\ \/ j \in 2 .. 5 /\ p.state = "UINT_32" /\ p.args = <<>> /\ p.str = SubSeq(b, 3, j)
        \/ j = 6 /\ p.state = "DONE" /\ p.args = <<Value32(SubSeq(b, 3, 6))>>

\* What the parser p has after the j first bytes of the request m.
RequestAt(m, j, p) ==
  \/ j = 0 /\ p = NewParser("TYPE")
  \/ /\ j = 1 /\ m.bytes[1] \notin {Query, Modification} /\ p.state = "BAD_TYPE"
     /\ p.type = Invalid /\ p.cmd = Invalid /\ p.args = <<>>
  \/ /\ j = 1 /\ m.bytes[1] \in {Query, Modification} /\ p.state = "COMMAND"
     /\ p.type = m.bytes[1] /\ p.len = -1 /\ p.str = <<>> /\ p.args = <<>>
  \/ /\ j >= 2 /\ m.bytes[1] \in {Query, Modification}
     /\ p.type = m.bytes[1] /\ p.cmd = m.bytes[2]
     /\ ArgumentsAt(ArgState(m.bytes[1], m.bytes[2]), m.seen[3], m.bytes, j, p)

LEMMA StrAt ==
  ASSUME NEW s \in Seq(Byte), Len(s) \in Byte, NEW i \in 0 .. Len(s), NEW x, x = Str(s)[1 + i]
  PROVE  (i = 0 => x = Len(s)) /\ (i # 0 => x = s[i])
<1>1. Str(s)[1] = Len(s) /\ \A k \in 1 .. Len(s) : Str(s)[1 + k] = s[k]  BY StrParts
<1>2. i = 0 => 1 + i = 1  OBVIOUS
<1>3. i # 0 => i \in 1 .. Len(s)  BY LenProperties
<1> QED  BY Zenon, <1>1, <1>2, <1>3

\* One byte more of a string.
LEMMA StringStep ==
  ASSUME NEW s \in Seq(Byte), Len(s) \in Byte, NEW i \in 0 .. Len(s), NEW p \in RequestParser,
         InString(s, i, p), NEW x \in Byte, i = 0 => x = Len(s), i # 0 => x = s[i],
         NEW next \in RequestStates, NEW more, more = StringArg(p, x, next)
  PROVE  /\ more \in RequestParser /\ more.type = p.type /\ more.cmd = p.cmd
         /\ i = Len(s) => more.state = next /\ more.args = Append(p.args, s) /\ more.len = -1
         /\ i # Len(s) => more.state = p.state /\ more.args = p.args /\ InString(s, i + 1, more)
<1>0. PICK n \in Nat : n = Len(s) /\ n >= 0 /\ i \in 0 .. n /\ n \in Byte
  BY LenProperties
<1>e. PICK e \in Seq(Byte) : e = <<>> /\ Len(e) = 0  BY EmptySeq
<1>x. x \in Int  BY DEF Byte
<1>1. PICK t \in Seq(Byte), q \in RequestParser :
        /\ q = IF p.len = -1 THEN [p EXCEPT !.len = x, !.str = e] ELSE [p EXCEPT !.str = Append(@, x)]
        /\ q.type = p.type /\ q.cmd = p.cmd /\ q.state = p.state /\ q.args = p.args
        /\ q.len = n /\ q.str = t /\ t = SubSeq(s, 1, i) /\ Len(t) = i
  <2>1. CASE i = 0
    <3>1. p.len = -1 /\ x = n  BY <1>0, <2>1 DEF InString
    <3>2. PICK q \in RequestParser : q = [p EXCEPT !.len = x, !.str = e]  BY <1>x DEF RequestParser
    <3>3. q.type = p.type /\ q.cmd = p.cmd /\ q.state = p.state /\ q.args = p.args /\ q.len = x /\ q.str = e
      BY <3>2 DEF RequestParser
    <3>4. SubSeq(s, 1, 0) = <<>>  BY SubSeqEmpty
    <3> QED  BY <1>e, <2>1, <3>1, <3>2, <3>3, <3>4
  <2>2. CASE i # 0
    <3>1. p.len = n /\ p.str = SubSeq(s, 1, i - 1) /\ x = s[i]  BY <1>0, <2>2 DEF InString
    <3>2. p.len # -1  BY <1>0, <3>1
    <3>3. PICK j \in Nat : j = i - 1 /\ j + 1 = i /\ j < Len(s)  BY <1>0, <2>2
    <3>4. SubSeq(s, 1, j + 1) \in Seq(Byte) /\ Append(SubSeq(s, 1, j), s[j + 1]) = SubSeq(s, 1, j + 1)
          /\ Len(SubSeq(s, 1, j + 1)) = j + 2 - 1
      BY <3>3, StringGrows
    <3>a. j + 2 - 1 = i /\ SubSeq(s, 1, j) = SubSeq(s, 1, i - 1)  BY <3>3
    <3>5. PICK t \in Seq(Byte) : t = SubSeq(s, 1, i) /\ Len(t) = i /\ t = Append(p.str, x)
      <4>1. SubSeq(s, 1, j + 1) = SubSeq(s, 1, i) /\ s[j + 1] = s[i]  BY Zenon, <3>3
      <4> QED  BY Zenon, <3>1, <3>4, <3>a, <4>1
    <3>6. PICK q \in RequestParser : q = [p EXCEPT !.str = t]  BY DEF RequestParser
    <3>7. q.type = p.type /\ q.cmd = p.cmd /\ q.state = p.state /\ q.args = p.args /\ q.len = p.len /\ q.str = t
      BY <3>6 DEF RequestParser
    <3>8. [p EXCEPT !.str = Append(@, x)] = q  BY <3>5, <3>6
    <3> QED  BY <3>1, <3>2, <3>5, <3>7, <3>8
  <2> QED  BY <2>1, <2>2
<1>s. StringArg(p, x, next)
        = IF Len(q.str) = q.len
          THEN [q EXCEPT !.state = next, !.len = -1, !.args = Append(q.args, q.str)] ELSE q
  <2> DEFINE r == IF p.len = -1 THEN [p EXCEPT !.len = x, !.str = <<>>]
                                ELSE [p EXCEPT !.str = Append(p.str, x)]
  <2>1. StringArg(p, x, next)
          = IF Len(r.str) = r.len
            THEN [r EXCEPT !.state = next, !.len = -1, !.args = Append(r.args, r.str)] ELSE r
    BY Zenon DEF StringArg
  <2>2. r = q  BY Zenon, <1>e, <1>1
  <2> HIDE DEF r
  <2> QED  BY Zenon, <2>1, <2>2
<1>2. CASE i = n
  <2>1. t = s
    <3>1. 1 = 1 + 0 /\ \A k \in 1 .. Len(s) : s[1 - 1 + k] = s[k]  BY <1>0
    <3>2. n = 1 + Len(s) - 1 /\ 1 \in Nat \ {0} /\ n \in Int  BY <1>0
    <3> QED  BY <1>1, <1>2, <3>1, <3>2, SubSeqIs
  <2>2. PICK a \in Seq(Arg) : a = Append(q.args, t)
    <3>1. t \in Arg /\ q.args \in Seq(Arg)  BY DEF Arg, RequestParser
    <3> QED  BY <3>1, AppendProperties
  <2>l. PICK l \in Int : l = -1  OBVIOUS
  <2>3. PICK r \in RequestParser : r = [q EXCEPT !.state = next, !.len = l, !.args = a]  BY DEF RequestParser
  <2>4. r.type = q.type /\ r.cmd = q.cmd /\ r.state = next /\ r.len = l /\ r.args = a  BY <2>3 DEF RequestParser
  <2>5. StringArg(p, x, next) = r
    <3>1. Len(q.str) = q.len  BY <1>1, <1>2
    <3>2. StringArg(p, x, next) = [q EXCEPT !.state = next, !.len = -1, !.args = Append(q.args, q.str)]
      BY <1>s, <3>1
    <3>3. Append(q.args, q.str) = a  BY <1>1, <2>2
    <3> DEFINE Ended(y, z) == [q EXCEPT !.state = next, !.len = y, !.args = z]
    <3>4. r = Ended(l, a) /\ StringArg(p, x, next) = Ended(-1, Append(q.args, q.str))  BY Zenon, <2>3, <3>2
    <3> HIDE DEF Ended
    <3> QED  BY Zenon, <2>l, <3>3, <3>4
  <2> QED  BY <1>0, <1>1, <1>2, <2>1, <2>2, <2>l, <2>4, <2>5
<1>3. CASE i # n
  <2>0. Len(q.str) # q.len  BY <1>1, <1>3
  <2>1. StringArg(p, x, next) = q  BY <1>s, <2>0
  <2>2. i + 1 # 0 /\ (i + 1) - 1 = i  BY <1>0
  <2>3. InString(s, i + 1, q)  BY <1>0, <1>1, <2>2 DEF InString
  <2> QED  BY <1>0, <1>1, <1>3, <2>1, <2>3
<1> QED  BY <1>2, <1>3

LEMMA ArgumentsEnd ==
  ASSUME NEW awaited, NEW a, NEW b, ArgumentBytes(awaited, a, b), NEW j \in 2 .. Len(b), NEW p,
         ArgumentsAt(awaited, a, b, j, p)
  PROVE  /\ Done(p) <=> j = Len(b)
         /\ Done(p) => p.args = a /\ (p.state = "DONE" <=> awaited # "BAD_COMMAND")
<1>1. CASE awaited \in {"DONE", "BAD_COMMAND"}
  BY <1>1 DEF ArgumentBytes, ArgumentsAt, Done
<1>2. CASE awaited = "STRING"
  <2>1. PICK n \in Nat : n = Len(a[1]) /\ Len(b) = 3 + n /\ a = <<a[1]>>
    <3>1. IsString(a[1]) /\ Len(b) = 3 + Len(a[1]) /\ a = <<a[1]>>  BY <1>2 DEF ArgumentBytes
    <3> QED  BY <3>1, StringType
  <2>2. \/ j \in 2 .. 2 + n /\ p.state = "STRING"
        \/ j = 3 + n /\ p.state = "DONE" /\ p.args = <<a[1]>>
    BY <1>2, <2>1 DEF ArgumentsAt
  <2> QED  BY <1>2, <2>1, <2>2 DEF Done
<1>3. CASE awaited = "ADD_USER"
  <2>1. PICK n \in Nat, k \in Nat :
          n = Len(a[1]) /\ k = Len(a[2]) /\ Len(b) = 5 + n + k /\ a = <<a[1], a[2], a[3]>>
    <3>1. IsString(a[1]) /\ IsString(a[2]) /\ Len(b) = 5 + Len(a[1]) + Len(a[2]) /\ a = <<a[1], a[2], a[3]>>
      BY <1>3 DEF ArgumentBytes
    <3> QED  BY ZenonT(40), <3>1, StringType
  <2>2. \/ j \in 2 .. 2 + n /\ p.state = "ADD_USER"
        \/ j \in 3 + n .. 3 + n + k /\ p.state = "ADD_PASS"
        \/ j = 4 + n + k /\ p.state = "ADD_PRIV"
        \/ j = 5 + n + k /\ p.state = "DONE" /\ p.args = <<a[1], a[2], a[3]>>
    BY <1>3, <2>1 DEF ArgumentsAt
  <2> QED  BY SMTT(40), <1>3, <2>1, <2>2 DEF Done
<1>4. CASE awaited = "UINT_8"
  <2>1. Len(b) = 3 /\ a = <<a[1]>>  BY <1>4 DEF ArgumentBytes
  <2>2. \/ j = 2 /\ p.state = "UINT_8"
        \/ j = 3 /\ p.state = "DONE" /\ p.args = <<a[1]>>
    BY <1>4 DEF ArgumentsAt
  <2> QED  BY <1>4, <2>1, <2>2 DEF Done
<1>5. CASE awaited = "UINT_32"
  <2>1. Len(b) = 6 /\ a = <<Value32(SubSeq(b, 3, 6))>>  BY <1>5 DEF ArgumentBytes
  <2>2. \/ j \in 2 .. 5 /\ p.state = "UINT_32"
        \/ j = 6 /\ p.state = "DONE" /\ p.args = <<Value32(SubSeq(b, 3, 6))>>
    BY <1>5 DEF ArgumentsAt
  <2> QED  BY <1>5, <2>1, <2>2 DEF Done
<1> QED  BY <1>1, <1>2, <1>3, <1>4, <1>5 DEF ArgumentBytes

LEMMA AppendTriple == ASSUME NEW x, NEW y, NEW z  PROVE Append(<<x, y>>, z) = <<x, y, z>>
<1> DEFINE S == {x, y, z}
<1>1. x \in S /\ y \in S /\ z \in S  OBVIOUS
<1> HIDE DEF S
<1>2. <<x, y>> \in Seq(S) /\ <<x, y, z>> \in Seq(S)  BY <1>1
<1>3. PICK a \in Seq(S), d \in Seq(S) : /\ a = <<x, y>> /\ Len(a) = 2 /\ a[1] = x /\ a[2] = y
                                        /\ d = <<x, y, z>> /\ Len(d) = 3 /\ d[1] = x /\ d[2] = y /\ d[3] = z
  BY <1>2
<1>4. /\ Append(a, z) \in Seq(S) /\ Len(Append(a, z)) = Len(a) + 1
      /\ \A i \in 1 .. Len(a) : Append(a, z)[i] = a[i]
      /\ Append(a, z)[Len(a) + 1] = z
  BY <1>1, AppendProperties
<1>5. Append(a, z)[1] = d[1] /\ Append(a, z)[2] = d[2] /\ Append(a, z)[3] = d[3] /\ Len(Append(a, z)) = 3
  BY <1>3, <1>4
<1>6. \A i \in 1 .. 3 : i = 1 \/ i = 2 \/ i = 3  OBVIOUS
<1>7. Append(a, z) = d  BY ZenonT(60), <1>3, <1>4, <1>5, <1>6, SeqEqual
<1> QED  BY <1>3, <1>7

LEMMA ArgumentsStep ==
  ASSUME NEW awaited, NEW a, NEW b \in Seq(Byte), ArgumentBytes(awaited, a, b),
         NEW j \in 2 .. Len(b) - 1, NEW p \in RequestParser, ArgumentsAt(awaited, a, b, j, p),
         NEW x \in Byte, x = b[j + 1]
  PROVE  LET more == RequestFeed(p, x)
         IN  /\ more \in RequestParser /\ more.type = p.type /\ more.cmd = p.cmd
             /\ ArgumentsAt(awaited, a, b, j + 1, more)
<1>0. j \in Nat /\ j + 1 - 2 = j - 1  OBVIOUS
<1>l. Len(b) \in Nat /\ j <= Len(b) - 1  BY LenProperties
<1>b. x \in Arg
  <2>1. \A y \in Byte : y \in Nat  BY DEF Byte
  <2>2. x \in Nat  BY Zenon, <2>1
  <2> QED  BY Zenon, <2>2 DEF Arg
<1>s. /\ "DONE" \in RequestStates /\ "ADD_PASS" \in RequestStates /\ "ADD_PRIV" \in RequestStates
  BY DEF RequestStates
<1>1. CASE awaited \in {"DONE", "BAD_COMMAND"}
  <2>1. Len(b) = 2  BY <1>1 DEF ArgumentBytes
  <2> QED  BY <2>1
<1>2. CASE awaited = "STRING"
  <2>1. PICK s \in Seq(Byte), n \in Nat :
          /\ s = a[1] /\ n = Len(s) /\ n \in Byte /\ Len(b) = 3 + n
          /\ \A i \in 0 .. n : b[3 + i] = Str(s)[1 + i]
    <3>1. IsString(a[1]) /\ Len(b) = 3 + Len(a[1]) /\ \A i \in 0 .. Len(a[1]) : b[3 + i] = Str(a[1])[1 + i]
      BY <1>2 DEF ArgumentBytes
    <3> QED  BY ZenonT(40), <3>1, StringType
  <2>2. j \in 2 .. 2 + n /\ p.state = "STRING" /\ p.args = <<>> /\ InString(s, j - 2, p)
    BY <1>2, <2>1 DEF ArgumentsAt
  <2>3. PICK i \in 0 .. n : i = j - 2 /\ 3 + i = j + 1  BY <2>2
  <2>4. (i = 0 => x = n) /\ (i # 0 => x = s[i])
    <3>1. x = Str(s)[1 + i]  BY <2>1, <2>3
    <3> QED  BY ZenonT(60), <2>1, <3>1, StrAt
  <2>5. PICK q : q = StringArg(p, x, "DONE")  OBVIOUS
  <2>6. /\ q \in RequestParser /\ q.type = p.type /\ q.cmd = p.cmd
        /\ i = n => q.state = "DONE" /\ q.args = Append(p.args, s) /\ q.len = -1
        /\ i # n => q.state = p.state /\ q.args = p.args /\ InString(s, i + 1, q)
    <3>1. /\ InString(s, i, p) /\ i \in 0 .. Len(s) /\ Len(s) \in Byte
          /\ i = 0 => x = Len(s)
          /\ i # 0 => x = s[i]
      BY <2>1, <2>2, <2>3, <2>4
    <3>2. /\ q \in RequestParser /\ q.type = p.type /\ q.cmd = p.cmd
          /\ i = Len(s) => q.state = "DONE" /\ q.args = Append(p.args, s) /\ q.len = -1
          /\ i # Len(s) => q.state = p.state /\ q.args = p.args /\ InString(s, i + 1, q)
      <4>1. PICK next \in RequestStates : next = "DONE" /\ q = StringArg(p, x, next)  BY <1>s, <2>5
      <4>2. /\ q \in RequestParser /\ q.type = p.type /\ q.cmd = p.cmd
            /\ i = Len(s) => q.state = next /\ q.args = Append(p.args, s) /\ q.len = -1
            /\ i # Len(s) => q.state = p.state /\ q.args = p.args /\ InString(s, i + 1, q)
        BY SMTT(60), <3>1, <4>1, StringStep
      <4> QED  BY Zenon, <4>1, <4>2
    <3> QED  BY <2>1, <3>2
  <2>7. RequestFeed(p, x) = q  BY Zenon, <2>2, <2>5 DEF RequestFeed
  <2>8. ArgumentsAt(awaited, a, b, j + 1, q)
    <3>1. CASE i = n
      <4>1. q.args = <<a[1]>>  BY SMTT(40), <2>1, <2>2, <2>6, <3>1, AppendPair
      <4>2. j + 1 = 3 + n  BY <2>3, <3>1
      <4> QED  BY <1>2, <2>1, <2>6, <3>1, <4>1, <4>2 DEF ArgumentsAt
    <3>2. CASE i # n
      <4>1. j + 1 \in 2 .. 2 + n /\ (j + 1) - 2 = i + 1  BY <2>3, <3>2
      <4> QED  BY <1>2, <2>1, <2>2, <2>6, <3>2, <4>1 DEF ArgumentsAt
    <3> QED  BY <3>1, <3>2
  <2> QED  BY <2>6, <2>7, <2>8
<1>3. CASE awaited = "ADD_USER"
  <2>0. /\ IsString(a[1]) /\ IsString(a[2]) /\ Len(b) = 5 + Len(a[1]) + Len(a[2]) /\ a[3] \in Byte
        /\ \A i \in 0 .. Len(a[1]) : b[3 + i] = Str(a[1])[1 + i]
        /\ \A i \in 0 .. Len(a[2]) : b[4 + Len(a[1]) + i] = Str(a[2])[1 + i]
        /\ b[5 + Len(a[1]) + Len(a[2])] = a[3]
    BY <1>3 DEF ArgumentBytes
  <2>1. PICK s \in Seq(Byte), n \in Nat :
          /\ s = a[1] /\ n = Len(s) /\ n \in Byte
          /\ \A i \in 0 .. n : b[3 + i] = Str(s)[1 + i]
    BY ZenonT(40), <2>0, StringType
  <2>2. PICK t \in Seq(Byte), k \in Nat :
          /\ t = a[2] /\ k = Len(t) /\ k \in Byte /\ Len(b) = 5 + n + k
          /\ \A i \in 0 .. k : b[4 + n + i] = Str(t)[1 + i]
          /\ b[5 + n + k] = a[3]
    BY ZenonT(40), <2>0, <2>1, StringType
  <2>3. \/ j \in 2 .. 2 + n /\ p.state = "ADD_USER" /\ p.args = <<>> /\ InString(s, j - 2, p)
        \/ /\ j \in 3 + n .. 3 + n + k /\ p.state = "ADD_PASS" /\ p.args = <<s>>
           /\ InString(t, j - 3 - n, p)
        \/ j = 4 + n + k /\ p.state = "ADD_PRIV" /\ p.args = <<s, t>>
        \/ j = 5 + n + k
    BY <1>3, <2>1, <2>2 DEF ArgumentsAt
  <2>4. CASE j \in 2 .. 2 + n /\ p.state = "ADD_USER" /\ p.args = <<>> /\ InString(s, j - 2, p)
    <3>3. PICK i \in 0 .. n : i = j - 2 /\ 3 + i = j + 1  BY SMTT(40), <2>4
    <3>4. (i = 0 => x = n) /\ (i # 0 => x = s[i])
      <4>1. x = Str(s)[1 + i]  BY <2>1, <3>3
      <4> QED  BY ZenonT(60), <2>1, <4>1, StrAt
    <3>5. PICK q : q = StringArg(p, x, "ADD_PASS")  OBVIOUS
    <3>6. /\ q \in RequestParser /\ q.type = p.type /\ q.cmd = p.cmd
          /\ i = n => q.state = "ADD_PASS" /\ q.args = Append(p.args, s) /\ q.len = -1
          /\ i # n => q.state = p.state /\ q.args = p.args /\ InString(s, i + 1, q)
      <4>1. /\ InString(s, i, p) /\ i \in 0 .. Len(s) /\ Len(s) \in Byte
            /\ i = 0 => x = Len(s)
            /\ i # 0 => x = s[i]
        BY <2>1, <2>4, <3>3, <3>4
      <4>2. /\ q \in RequestParser /\ q.type = p.type /\ q.cmd = p.cmd
            /\ i = Len(s) => q.state = "ADD_PASS" /\ q.args = Append(p.args, s) /\ q.len = -1
            /\ i # Len(s) => q.state = p.state /\ q.args = p.args /\ InString(s, i + 1, q)
        <5>1. PICK next \in RequestStates : next = "ADD_PASS" /\ q = StringArg(p, x, next)  BY <1>s, <3>5
        <5>2. /\ q \in RequestParser /\ q.type = p.type /\ q.cmd = p.cmd
              /\ i = Len(s) => q.state = next /\ q.args = Append(p.args, s) /\ q.len = -1
              /\ i # Len(s) => q.state = p.state /\ q.args = p.args /\ InString(s, i + 1, q)
          BY SMTT(60), <4>1, <5>1, StringStep
        <5> QED  BY Zenon, <5>1, <5>2
      <4> QED  BY <2>1, <4>2
    <3>7. RequestFeed(p, x) = q  BY Zenon, <2>4, <3>5 DEF RequestFeed
    <3>8. ArgumentsAt(awaited, a, b, j + 1, q)
      <4>1. CASE i = n
        <5>1. q.args = <<s>>  BY <2>4, <3>6, <4>1, AppendPair
        <5>2. j + 1 = 3 + n /\ (j + 1) - 3 - n = 0 /\ j + 1 \in 3 + n .. 3 + n + k  BY <3>3, <4>1
        <5>3. InString(t, (j + 1) - 3 - n, q)  BY <3>6, <4>1, <5>2 DEF InString
        <5> QED  BY <1>3, <2>1, <2>2, <3>6, <4>1, <5>1, <5>2, <5>3 DEF ArgumentsAt
      <4>2. CASE i # n
        <5>1. j + 1 \in 2 .. 2 + n /\ (j + 1) - 2 = i + 1  BY <3>3, <4>2
        <5> QED  BY <1>3, <2>1, <2>4, <3>6, <4>2, <5>1 DEF ArgumentsAt
      <4> QED  BY <4>1, <4>2
    <3> QED  BY <3>6, <3>7, <3>8
  <2>5. CASE /\ j \in 3 + n .. 3 + n + k /\ p.state = "ADD_PASS" /\ p.args = <<s>>
             /\ InString(t, j - 3 - n, p)
    <3>3. PICK i \in 0 .. k : i = j - 3 - n /\ 4 + n + i = j + 1  BY SMTT(30), <2>5
    <3>4. (i = 0 => x = k) /\ (i # 0 => x = t[i])
      <4>1. x = Str(t)[1 + i]  BY <2>2, <3>3
      <4> QED  BY ZenonT(60), <2>2, <4>1, StrAt
    <3>5. PICK q : q = StringArg(p, x, "ADD_PRIV")  OBVIOUS
    <3>6. /\ q \in RequestParser /\ q.type = p.type /\ q.cmd = p.cmd
          /\ i = k => q.state = "ADD_PRIV" /\ q.args = Append(p.args, t) /\ q.len = -1
          /\ i # k => q.state = p.state /\ q.args = p.args /\ InString(t, i + 1, q)
      <4>1. /\ InString(t, i, p) /\ i \in 0 .. Len(t) /\ Len(t) \in Byte
            /\ i = 0 => x = Len(t)
            /\ i # 0 => x = t[i]
        BY <2>2, <2>5, <3>3, <3>4
      <4>2. /\ q \in RequestParser /\ q.type = p.type /\ q.cmd = p.cmd
            /\ i = Len(t) => q.state = "ADD_PRIV" /\ q.args = Append(p.args, t) /\ q.len = -1
            /\ i # Len(t) => q.state = p.state /\ q.args = p.args /\ InString(t, i + 1, q)
        <5>1. PICK next \in RequestStates : next = "ADD_PRIV" /\ q = StringArg(p, x, next)  BY <1>s, <3>5
        <5>2. /\ q \in RequestParser /\ q.type = p.type /\ q.cmd = p.cmd
              /\ i = Len(t) => q.state = next /\ q.args = Append(p.args, t) /\ q.len = -1
              /\ i # Len(t) => q.state = p.state /\ q.args = p.args /\ InString(t, i + 1, q)
          BY SMTT(60), <4>1, <5>1, StringStep
        <5> QED  BY Zenon, <5>1, <5>2
      <4> QED  BY <2>2, <4>2
    <3>7. RequestFeed(p, x) = q  BY Zenon, <2>5, <3>5 DEF RequestFeed
    <3>8. ArgumentsAt(awaited, a, b, j + 1, q)
      <4>1. CASE i = k
        <5>1. q.args = <<s, t>>  BY ZenonT(40), <2>5, <3>6, <4>1, AppendPair
        <5>2. j + 1 = 4 + n + k  BY <3>3, <4>1
        <5> QED  BY <1>3, <2>1, <2>2, <3>6, <4>1, <5>1, <5>2 DEF ArgumentsAt
      <4>2. CASE i # k
        <5>1. j + 1 \in 3 + n .. 3 + n + k /\ (j + 1) - 3 - n = i + 1  BY <3>3, <4>2
        <5> QED  BY <1>3, <2>1, <2>2, <2>5, <3>6, <4>2, <5>1 DEF ArgumentsAt
      <4> QED  BY <4>1, <4>2
    <3> QED  BY <3>6, <3>7, <3>8
  <2>6. CASE j = 4 + n + k /\ p.state = "ADD_PRIV" /\ p.args = <<s, t>>
    <3>1. x = a[3]
      <4>1. j + 1 = 5 + n + k  BY <2>6
      <4> QED  BY <2>2, <4>1
    <3>2. PICK g \in Seq(Arg) : g = Append(p.args, x)
      <4>1. x \in Arg /\ p.args \in Seq(Arg)  BY <1>b DEF RequestParser
      <4> QED  BY <4>1, AppendProperties
    <3>3. PICK q \in RequestParser : q = [p EXCEPT !.args = g, !.state = "DONE"]
      BY <1>s DEF RequestParser
    <3>4. q.type = p.type /\ q.cmd = p.cmd /\ q.args = g /\ q.state = "DONE"  BY <3>3 DEF RequestParser
    <3>5. RequestFeed(p, x) = q  BY <2>6, <3>2, <3>3 DEF RequestFeed
    <3>6. g = <<s, t, a[3]>>  BY <2>6, <3>1, <3>2, AppendTriple
    <3>7. j + 1 = 5 + n + k  BY SMTT(40), <2>6
    <3> QED  BY <1>3, <2>1, <2>2, <3>3, <3>4, <3>5, <3>6, <3>7 DEF ArgumentsAt
  <2>7. j # 5 + n + k
    <3>1. Len(b) = 5 + n + k  BY <2>2
    <3> QED  BY <1>0, <1>l, <3>1
  <2> QED  BY <2>3, <2>4, <2>5, <2>6, <2>7
<1>4. CASE awaited = "UINT_8"
  <2>1. Len(b) = 3 /\ b[3] = a[1]  BY <1>4 DEF ArgumentBytes
  <2>2. j = 2 /\ p.state = "UINT_8" /\ p.args = <<>> /\ x = a[1]  BY <1>4, <2>1 DEF ArgumentsAt
  <2>3. PICK g \in Seq(Arg) : g = Append(p.args, x)
    <3>1. x \in Arg /\ p.args \in Seq(Arg)  BY <1>b DEF RequestParser
    <3> QED  BY <3>1, AppendProperties
  <2>4. PICK q \in RequestParser : q = [p EXCEPT !.args = g, !.state = "DONE"]
    BY <1>s DEF RequestParser
  <2>5. q.type = p.type /\ q.cmd = p.cmd /\ q.args = g /\ q.state = "DONE"  BY <2>4 DEF RequestParser
  <2>6. RequestFeed(p, x) = q  BY <2>2, <2>3, <2>4 DEF RequestFeed
  <2>7. g = <<a[1]>>  BY <2>2, <2>3, AppendPair
  <2>8. ArgumentsAt(awaited, a, b, j + 1, q)
    <3>1. j + 1 = 3  BY <2>2
    <3> QED  BY <1>4, <2>5, <2>7, <3>1 DEF ArgumentsAt
  <2> QED  BY <2>4, <2>5, <2>6, <2>8
<1>5. CASE awaited = "UINT_32"
  <2>1. Len(b) = 6 /\ a = <<Value32(SubSeq(b, 3, 6))>> /\ a[1] \in Nat  BY <1>5 DEF ArgumentBytes
  <2>2. j \in 2 .. 5 /\ p.state = "UINT_32" /\ p.args = <<>> /\ p.str = SubSeq(b, 3, j)
    BY <1>5, <2>1 DEF ArgumentsAt
  <2>3. PICK s \in Seq(Byte) : s = Append(p.str, x) /\ s = SubSeq(b, 3, j + 1) /\ Len(s) = j - 1
    <3>1. SubSeq(b, 3, j + 1) \in Seq(Byte) /\ Append(SubSeq(b, 3, j), b[j + 1]) = SubSeq(b, 3, j + 1)
          /\ Len(SubSeq(b, 3, j + 1)) = j + 2 - 3
      <4>1. 3 \in Nat \ {0} /\ j < Len(b) /\ 3 <= j + 1  BY <2>1, <2>2
      <4> QED  BY <1>0, <4>1, StringGrows
    <3>2. j + 2 - 3 = j - 1  OBVIOUS
    <3> QED  BY <2>2, <3>1, <3>2
  <2>4. PICK q \in RequestParser : q = [p EXCEPT !.str = s]  BY DEF RequestParser
  <2>5. q.type = p.type /\ q.cmd = p.cmd /\ q.state = p.state /\ q.args = p.args /\ q.str = s
    BY <2>4 DEF RequestParser
  <2>6. CASE j = 5
    <3>1. j + 1 = 6 /\ Len(s) = 4 /\ Value32(s) = a[1]  BY <2>1, <2>3, <2>6
    <3>2. PICK g \in Seq(Arg) : g = <<Value32(s)>>
      <4>1. PICK v \in Arg : v = Value32(s)  BY <2>1, <3>1 DEF Arg
      <4>2. <<v>> \in Seq(Arg)  OBVIOUS
      <4> QED  BY <4>1, <4>2
    <3>3. PICK r \in RequestParser : r = [q EXCEPT !.state = "DONE", !.args = g]
      BY <1>s DEF RequestParser
    <3>4. r.type = q.type /\ r.cmd = q.cmd /\ r.args = g /\ r.state = "DONE"  BY <3>3 DEF RequestParser
    <3>5. RequestFeed(p, x) = r
      <4>1. RequestFeed(p, x) = LET q1 == [p EXCEPT !.str = Append(p.str, x)]
                                IN  IF Len(q1.str) = 4
                                    THEN [q1 EXCEPT !.state = "DONE", !.args = <<Value32(q1.str)>>]
                                    ELSE q1
        BY Zenon, <2>2 DEF RequestFeed
      <4>2. [p EXCEPT !.str = Append(p.str, x)] = q  BY Zenon, <2>3, <2>4
      <4>3. RequestFeed(p, x) = IF Len(q.str) = 4
                                THEN [q EXCEPT !.state = "DONE", !.args = <<Value32(q.str)>>] ELSE q
        BY Zenon, <4>1, <4>2
      <4>4. Len(q.str) = 4 /\ <<Value32(q.str)>> = g  BY <2>5, <3>1, <3>2
      <4> QED  BY Zenon, <3>3, <4>3, <4>4
    <3>6. SubSeq(b, 3, 6) = s  BY <2>3, <3>1
    <3> QED  BY <1>5, <2>5, <3>1, <3>2, <3>3, <3>4, <3>5, <3>6 DEF ArgumentsAt
  <2>7. CASE j # 5
    <3>1. j + 1 \in 2 .. 5 /\ Len(s) # 4  BY <2>2, <2>3, <2>7
    <3>5. RequestFeed(p, x) = q
      <4>1. RequestFeed(p, x) = LET q1 == [p EXCEPT !.str = Append(p.str, x)]
                                IN  IF Len(q1.str) = 4
                                    THEN [q1 EXCEPT !.state = "DONE", !.args = <<Value32(q1.str)>>]
                                    ELSE q1
        BY Zenon, <2>2 DEF RequestFeed
      <4>2. [p EXCEPT !.str = Append(p.str, x)] = q  BY Zenon, <2>3, <2>4
      <4>3. RequestFeed(p, x) = IF Len(q.str) = 4
                                THEN [q EXCEPT !.state = "DONE", !.args = <<Value32(q.str)>>] ELSE q
        BY Zenon, <4>1, <4>2
      <4> QED  BY <2>5, <3>1, <4>3
    <3> QED  BY <1>5, <2>2, <2>3, <2>4, <2>5, <3>1, <3>5 DEF ArgumentsAt
  <2> QED  BY <2>6, <2>7
<1> QED  BY <1>1, <1>2, <1>3, <1>4, <1>5 DEF ArgumentBytes

\* What admin_request_read may execute.
Understandable(p) ==
  \/ p.state = "BAD_TYPE" /\ p.type = Invalid /\ p.cmd = Invalid
  \/ /\ p.type \in {Query, Modification} /\ p.state = "BAD_COMMAND"
     /\ ArgState(p.type, p.cmd) = "BAD_COMMAND"
  \/ /\ p.type \in {Query, Modification} /\ p.state = "DONE"
     /\ ArgState(p.type, p.cmd) # "BAD_COMMAND"
     /\ \E b \in Seq(Byte) : ArgumentBytes(ArgState(p.type, p.cmd), p.args, b)

LEMMA RequestLength == ASSUME NEW m, RequestBytes(m)  PROVE m.bytes \in Seq(Byte) /\ Len(m.bytes) \in Nat /\ Len(m.bytes) >= 1
<1>1. m.bytes \in Seq(Byte)  BY DEF RequestBytes
<1>2. Len(m.bytes) \in Nat  BY <1>1, LenProperties
<1>3. Len(m.bytes) = 1 \/ Len(m.bytes) > 1  BY DEF RequestBytes
<1> QED  BY SMTT(40), <1>1, <1>2, <1>3

LEMMA RequestStep ==
  ASSUME NEW m, RequestBytes(m), NEW j \in 0 .. Len(m.bytes) - 1, NEW p \in RequestParser, RequestAt(m, j, p)
  PROVE  /\ RequestFeed(p, m.bytes[j + 1]) \in RequestParser
         /\ RequestAt(m, j + 1, RequestFeed(p, m.bytes[j + 1]))
<1>1. PICK b \in Seq(Byte), n \in Nat : b = m.bytes /\ n = Len(b) /\ n >= 1 /\ j \in 0 .. n - 1
  BY RequestLength
<1>2. j \in Nat /\ j + 1 \in 1 .. n  BY <1>1
<1>3. PICK x \in Byte : x = b[j + 1]  BY <1>1, <1>2, ElementOfSeq
<1>4. PICK q : q = RequestFeed(p, x)  OBVIOUS
<1>s. /\ "COMMAND" \in RequestStates /\ "BAD_TYPE" \in RequestStates
      /\ \A t, c : ArgState(t, c) \in RequestStates
  BY DEF RequestStates, ArgState
<1>5. CASE j = 0 /\ p = NewParser("TYPE")
  <2>1. p.state = "TYPE" /\ p.type = Invalid /\ p.cmd = Invalid /\ p.len = -1 /\ p.str = <<>> /\ p.args = <<>>
    BY <1>5 DEF NewParser
  <2>2. x = b[1] /\ j + 1 = 1  BY <1>3, <1>5
  <2>3. CASE x \in {Query, Modification}
    <3>1. q = [p EXCEPT !.type = x, !.state = "COMMAND"]  BY <1>4, <2>1, <2>3 DEF RequestFeed
    <3>2. q \in RequestParser /\ q.state = "COMMAND" /\ q.type = x /\ q.len = p.len /\ q.str = p.str /\ q.args = p.args
      BY <1>s, <3>1 DEF RequestParser
    <3>3. RequestAt(m, 1, q)  BY <1>1, <2>1, <2>2, <2>3, <3>2 DEF RequestAt
    <3> QED  BY <1>1, <1>3, <1>4, <2>2, <3>2, <3>3
  <2>4. CASE x \notin {Query, Modification}
    <3>1. q = [p EXCEPT !.state = "BAD_TYPE"]  BY <1>4, <2>1, <2>4 DEF RequestFeed
    <3>2. q \in RequestParser /\ q.state = "BAD_TYPE" /\ q.type = p.type /\ q.cmd = p.cmd /\ q.args = p.args
      BY <1>s, <3>1 DEF RequestParser
    <3>3. RequestAt(m, 1, q)  BY <1>1, <2>1, <2>2, <2>4, <3>2 DEF RequestAt
    <3> QED  BY <1>1, <1>3, <1>4, <2>2, <3>2, <3>3
  <2> QED  BY <2>3, <2>4
<1>6. CASE /\ j = 1 /\ m.bytes[1] \notin {Query, Modification}
  <2>1. n = 1  BY <1>1, <1>6 DEF RequestBytes
  <2> QED  BY <1>1, <1>6, <2>1
<1>a. m.bytes[1] \in {Query, Modification} => ArgumentBytes(ArgState(b[1], b[2]), m.seen[3], b)
  BY <1>1 DEF RequestBytes
<1>7. CASE /\ j = 1 /\ m.bytes[1] \in {Query, Modification} /\ p.state = "COMMAND"
           /\ p.type = m.bytes[1] /\ p.len = -1 /\ p.str = <<>> /\ p.args = <<>>
  <2>1. x = b[2] /\ j + 1 = 2 /\ p.type = b[1]  BY <1>1, <1>3, <1>7
  <2>2. PICK next \in RequestStates : next = ArgState(b[1], b[2])  BY <1>s
  <2>3. q = [p EXCEPT !.cmd = x, !.state = next]  BY <1>4, <1>7, <2>1, <2>2 DEF RequestFeed
  <2>4. q \in RequestParser /\ q.state = next /\ q.type = p.type /\ q.cmd = x /\ q.len = p.len /\ q.str = p.str
        /\ q.args = p.args
    BY <2>3 DEF RequestParser
  <2>5. ArgumentsAt(next, m.seen[3], b, 2, q)
    <3>1. ArgumentBytes(next, m.seen[3], b)  BY <1>a, <1>7, <2>2
    <3>2. CASE next \in {"DONE", "BAD_COMMAND"}  BY <1>7, <2>4, <3>2 DEF ArgumentsAt
    <3>3. CASE next \in {"STRING", "ADD_USER"}
      <4>1. IsString(m.seen[3][1])  BY <3>1, <3>3 DEF ArgumentBytes
      <4>2. PICK k \in Nat : k = Len(m.seen[3][1])  BY <4>1, StringType
      <4>3. 2 \in 2 .. 2 + k /\ 2 - 2 = 0  BY SMTT(40), <4>2
      <4>4. InString(m.seen[3][1], 2 - 2, q)  BY <1>7, <2>4, <4>3 DEF InString
      <4> QED  BY SMTT(40), <1>7, <2>4, <3>3, <4>2, <4>3, <4>4 DEF ArgumentsAt
    <3>4. CASE next = "UINT_8"  BY <1>7, <2>4, <3>4 DEF ArgumentsAt
    <3>5. CASE next = "UINT_32"
      <4>1. SubSeq(b, 3, 2) = <<>>  BY SubSeqEmpty
      <4> QED  BY <1>7, <2>4, <3>5, <4>1 DEF ArgumentsAt
    <3> QED  BY <3>1, <3>2, <3>3, <3>4, <3>5 DEF ArgumentBytes
  <2>6. RequestAt(m, 2, q)  BY <1>1, <1>7, <2>1, <2>2, <2>4, <2>5 DEF RequestAt
  <2> QED  BY <1>1, <1>3, <1>4, <2>1, <2>4, <2>6
<1>8. CASE /\ j >= 2 /\ m.bytes[1] \in {Query, Modification}
           /\ p.type = m.bytes[1] /\ p.cmd = m.bytes[2]
           /\ ArgumentsAt(ArgState(m.bytes[1], m.bytes[2]), m.seen[3], m.bytes, j, p)
  <2>1. PICK awaited, a : awaited = ArgState(b[1], b[2]) /\ a = m.seen[3]  OBVIOUS
  <2>2. j \in 2 .. Len(b) - 1  BY <1>1, <1>8
  <2>3. ArgumentBytes(awaited, a, b) /\ ArgumentsAt(awaited, a, b, j, p)  BY <1>1, <1>a, <1>8, <2>1
  <2>4. q \in RequestParser /\ q.type = p.type /\ q.cmd = p.cmd /\ ArgumentsAt(awaited, a, b, j + 1, q)
    <3>1. x = b[j + 1]  BY <1>3
    <3>2. LET more == RequestFeed(p, x)
          IN  /\ more \in RequestParser /\ more.type = p.type /\ more.cmd = p.cmd
              /\ ArgumentsAt(awaited, a, b, j + 1, more)
      BY SMTT(30), <2>2, <2>3, <3>1, ArgumentsStep
    <3> QED  BY <1>4, <3>2
  <2>5. RequestAt(m, j + 1, q)  BY <1>1, <1>8, <2>1, <2>4 DEF RequestAt
  <2> QED  BY <1>1, <1>3, <1>4, <2>4, <2>5
<1> QED  BY <1>1, <1>5, <1>6, <1>7, <1>8 DEF RequestAt

LEMMA RequestEnd ==
  ASSUME NEW m, RequestBytes(m), NEW j \in 0 .. Len(m.bytes), NEW p, RequestAt(m, j, p)
  PROVE  /\ Done(p) <=> j = Len(m.bytes)
         /\ Done(p) => <<p.type, p.cmd, p.args>> = m.seen /\ Understandable(p)
<1>1. PICK b \in Seq(Byte), n \in Nat : b = m.bytes /\ n = Len(b) /\ n >= 1 /\ j \in 0 .. n
  BY RequestLength
<1>2. CASE j = 0 /\ p = NewParser("TYPE")
  BY <1>1, <1>2 DEF Done, NewParser
<1>3. CASE /\ j = 1 /\ m.bytes[1] \notin {Query, Modification} /\ p.state = "BAD_TYPE"
           /\ p.type = Invalid /\ p.cmd = Invalid /\ p.args = <<>>
  <2>1. n = 1 /\ m.seen = <<Invalid, Invalid, <<>>>>  BY <1>1, <1>3 DEF RequestBytes
  <2> QED  BY <1>1, <1>3, <2>1 DEF Done, Understandable
<1>4. CASE j = 1 /\ m.bytes[1] \in {Query, Modification} /\ p.state = "COMMAND"
  <2>1. n > 1  BY <1>1, <1>4 DEF RequestBytes
  <2>2. ~Done(p) /\ j # n  BY <1>4, <2>1 DEF Done
  <2> QED  BY <1>1, <2>2
<1>5. CASE /\ j >= 2 /\ m.bytes[1] \in {Query, Modification}
           /\ p.type = m.bytes[1] /\ p.cmd = m.bytes[2]
           /\ ArgumentsAt(ArgState(m.bytes[1], m.bytes[2]), m.seen[3], m.bytes, j, p)
  <2>1. PICK awaited, a : awaited = ArgState(b[1], b[2]) /\ a = m.seen[3]  OBVIOUS
  <2>2. j \in 2 .. Len(b)  BY <1>1, <1>5
  <2>3. /\ ArgumentBytes(awaited, a, b) /\ ArgumentsAt(awaited, a, b, j, p)
        /\ m.seen = <<b[1], b[2], a>>
    BY <1>1, <1>5, <2>1 DEF RequestBytes
  <2>4. /\ Done(p) <=> j = Len(b)
        /\ Done(p) => p.args = a /\ (p.state = "DONE" <=> awaited # "BAD_COMMAND")
    BY <2>2, <2>3, ArgumentsEnd
  <2>5. Done(p) => p.state \in {"DONE", "BAD_COMMAND"}
    BY <2>3 DEF ArgumentsAt, Done
  <2>6. Done(p) => Understandable(p)
    BY <1>1, <1>5, <2>1, <2>3, <2>4, <2>5 DEF Understandable
  <2> QED  BY <1>1, <1>5, <2>3, <2>4, <2>6
<1> QED  BY <1>2, <1>3, <1>4, <1>5 DEF RequestAt

-----------------------------------------------------------------------------
(* A receive: what the parser of the turn makes of the bytes of a message.  *)

OfProtocol(protocol, m) ==
  \/ protocol = "auth" /\ m.kind = "login" /\ m.bytes \in Seq(Byte) /\ IsLogin(m)
  \/ protocol = "request" /\ IsRequest(m)

\* The parser p of the protocol has had j bytes of the message m.
At(protocol, m, j, p) ==
  IF protocol = "auth" THEN p \in LoginParser /\ LoginAt(m.bytes, j, p)
                       ELSE p \in RequestParser /\ RequestAt(m, j, p)

\* What the handler makes of the parser is what the message means.
Understood(protocol, m, p) ==
  IF protocol = "auth"
  THEN /\ p.args = m.seen /\ (p.state = "DONE" <=> Len(m.seen) = 2)
       /\ p.state = "BAD_VERSION" <=> m.bytes[1] # AuthVersion
  ELSE <<p.type, p.cmd, p.args>> = m.seen /\ Understandable(p)

First(protocol) == NewParser(IF protocol = "auth" THEN "VERSION" ELSE "TYPE")

LEMMA ReadsBytes ==
  ASSUME NEW protocol, NEW m, OfProtocol(protocol, m)
  PROVE  m.bytes \in Seq(Byte) /\ Len(m.bytes) \in Nat
<1>1. m.bytes \in Seq(Byte)  BY RequestShape DEF OfProtocol, RequestBytes
<1> QED  BY <1>1, LenProperties

LEMMA RequestKind == ASSUME NEW m, IsRequest(m)  PROVE m.kind = "request"
<1>1. CASE Len(m.bytes) = 1
  <2>1. PICK b : m = [kind |-> "request", bytes |-> <<b>>, seen |-> <<Invalid, Invalid, <<>>>>]
    BY <1>1 DEF IsRequest
  <2>2. PICK bytes, seen : m = [kind |-> "request", bytes |-> bytes, seen |-> seen]  BY <2>1
  <2> QED  BY <2>2
<1>2. CASE Len(m.bytes) # 1
  <2>1. PICK type, cmd, bytes, args : m = Request(type, cmd, bytes, args)  BY <1>2 DEF IsRequest
  <2>2. PICK bytes2, seen : m = [kind |-> "request", bytes |-> bytes2, seen |-> seen]  BY <2>1 DEF Request
  <2> QED  BY <2>2
<1> QED  BY <1>1, <1>2

LEMMA NothingRead ==
  ASSUME NEW protocol, NEW m, OfProtocol(protocol, m)
  PROVE  At(protocol, m, 0, First(protocol)) /\ ~Done(First(protocol))
<1>1. CASE protocol = "auth"
  <2>1. First(protocol) = NewParser("VERSION")  BY <1>1 DEF First
  <2>2. NewParser("VERSION").state = "VERSION" /\ NewParser("VERSION").args = <<>>  BY DEF NewParser
  <2>3. LoginAt(m.bytes, 0, NewParser("VERSION"))  BY <2>2 DEF LoginAt
  <2>4. ~Done(NewParser("VERSION"))  BY <2>2 DEF Done
  <2> QED  BY <1>1, <2>1, <2>3, <2>4, NewParsers DEF At
<1>2. CASE protocol # "auth"
  <2>1. First(protocol) = NewParser("TYPE")  BY <1>2 DEF First
  <2>2. NewParser("TYPE").state = "TYPE"  BY DEF NewParser
  <2>3. RequestAt(m, 0, NewParser("TYPE"))  BY DEF RequestAt
  <2>4. ~Done(NewParser("TYPE"))  BY <2>2 DEF Done
  <2> QED  BY <1>2, <2>1, <2>3, <2>4, NewParsers DEF At
<1> QED  BY <1>1, <1>2

LEMMA FeedStep ==
  ASSUME NEW protocol, NEW m, OfProtocol(protocol, m), NEW j \in 0 .. Len(m.bytes) - 1, NEW p, At(protocol, m, j, p)
  PROVE  At(protocol, m, j + 1, Feed(protocol, p, m.bytes[j + 1]))
<1>1. CASE protocol = "auth"
  <2>1. LoginBytes(m.bytes, m.seen)  BY <1>1, LoginShape DEF OfProtocol
  <2>2. p \in LoginParser /\ LoginAt(m.bytes, j, p)  BY <1>1 DEF At
  <2>3. PICK b : b = m.bytes  OBVIOUS
  <2>4. AuthFeed(p, b[j + 1]) \in LoginParser /\ LoginAt(b, j + 1, AuthFeed(p, b[j + 1]))
    BY <2>1, <2>2, <2>3, LoginFed
  <2> QED  BY <1>1, <2>3, <2>4 DEF At, Feed
<1>2. CASE protocol = "request"
  <2>1. RequestBytes(m)  BY <1>2, RequestShape DEF OfProtocol
  <2>2. p \in RequestParser /\ RequestAt(m, j, p)  BY <1>2 DEF At
  <2>3. RequestFeed(p, m.bytes[j + 1]) \in RequestParser /\ RequestAt(m, j + 1, RequestFeed(p, m.bytes[j + 1]))
    BY <2>1, <2>2, RequestStep
  <2> QED  BY <1>2, <2>3 DEF At, Feed
<1> QED  BY <1>1, <1>2 DEF OfProtocol

LEMMA FeedEnd ==
  ASSUME NEW protocol, NEW m, OfProtocol(protocol, m), NEW j \in 0 .. Len(m.bytes), NEW p, At(protocol, m, j, p)
  PROVE  (Done(p) <=> j = Len(m.bytes)) /\ (Done(p) => Understood(protocol, m, p))
<1>1. CASE protocol = "auth"
  <2>1. PICK b, seen : b = m.bytes /\ seen = m.seen /\ LoginBytes(b, seen)  BY <1>1, LoginShape DEF OfProtocol
  <2>2. LoginAt(b, j, p)  BY <1>1, <2>1 DEF At
  <2>3. /\ Done(p) <=> j = Len(b)
        /\ Done(p) => p.args = seen /\ (p.state = "DONE" <=> Len(seen) = 2)
    BY <2>1, <2>2, LoginDone
  <2>4. Done(p) => (p.state = "BAD_VERSION" <=> b[1] # AuthVersion)
    BY <2>1, <2>2, <2>3, VersionRead
  <2> QED  BY <1>1, <2>1, <2>3, <2>4 DEF Understood
<1>2. CASE protocol = "request"
  <2>1. RequestBytes(m)  BY <1>2, RequestShape DEF OfProtocol
  <2>2. RequestAt(m, j, p)  BY <1>2 DEF At
  <2>3. /\ Done(p) <=> j = Len(m.bytes)
        /\ Done(p) => <<p.type, p.cmd, p.args>> = m.seen /\ Understandable(p)
    BY <2>1, <2>2, RequestEnd
  <2> QED  BY <1>2, <2>3 DEF Understood
<1> QED  BY <1>1, <1>2 DEF OfProtocol

\* The parser and the count of bytes after each byte of a receive.
More(protocol, a, x) == IF Done(a.p) THEN a ELSE [p |-> Feed(protocol, a.p, x), n |-> a.n + 1]
Feeds(protocol, start, f, held, n) ==
  f = [k \in 0 .. n |-> IF k = 0 THEN [p |-> start, n |-> 0] ELSE More(protocol, f[k - 1], held[k])]

LEMMA FeedsExist ==
  ASSUME NEW protocol, NEW start, NEW held, NEW n \in Nat
  PROVE  \E f : Feeds(protocol, start, f, held, n)
<1> DEFINE Failing == {k \in Nat : ~ \E f : Feeds(protocol, start, f, held, k)}
<1>1. SUFFICES ASSUME Failing # {}  PROVE FALSE
  OBVIOUS
<1>2. PICK k \in Failing : \A m \in Failing : k <= m
  <2>1. Failing \in SUBSET Nat  OBVIOUS
  <2> HIDE DEF Failing
  <2> QED  BY <1>1, <2>1, LeastExists
<1>3. k \in Nat /\ ~ \E f : Feeds(protocol, start, f, held, k)  BY <1>2
<1>4. CASE k = 0
  <2> DEFINE f == [i \in 0 .. 0 |-> [p |-> start, n |-> 0]]
  <2>1. Feeds(protocol, start, f, held, 0)  BY DEF Feeds
  <2> QED  BY <1>3, <1>4, <2>1
<1>5. CASE k # 0
  <2>1. PICK l \in Nat : l = k - 1 /\ l < k  BY <1>3, <1>5
  <2>2. l \notin Failing
    <3>1. \A m \in Failing : m \in Nat  OBVIOUS
    <3> HIDE DEF Failing
    <3> QED  BY <1>2, <1>3, <2>1, <3>1
  <2>3. PICK f : Feeds(protocol, start, f, held, l)  BY <2>2
  <2>4. \A i \in 0 .. l : f[i] = IF i = 0 THEN [p |-> start, n |-> 0] ELSE More(protocol, f[i - 1], held[i])
    BY <2>3 DEF Feeds
  <2> DEFINE g == [i \in 0 .. k |-> IF i = k THEN More(protocol, f[l], held[k]) ELSE f[i]]
  <2>5. \A i \in 0 .. l : g[i] = f[i]  BY <1>3, <2>1
  <2>6. g[k] = More(protocol, f[l], held[k])  BY <1>3
  <2>7. g = [i \in 0 .. k |-> g[i]]  OBVIOUS
  <2> HIDE DEF g
  <2>8. ASSUME NEW i \in 0 .. k
        PROVE  g[i] = IF i = 0 THEN [p |-> start, n |-> 0] ELSE More(protocol, g[i - 1], held[i])
    <3>1. CASE i = k
      <4>1. l \in 0 .. l /\ i - 1 = l  BY <2>1, <3>1
      <4> QED  BY <1>5, <2>5, <2>6, <3>1, <4>1
    <3>2. CASE i # k
      <4>1. i \in 0 .. l /\ (i # 0 => i - 1 \in 0 .. l)  BY <1>3, <2>1, <3>2
      <4> QED  BY <2>4, <2>5, <4>1
    <3> QED  BY <3>1, <3>2
  <2>9. Feeds(protocol, start, g, held, k)  BY <2>7, <2>8 DEF Feeds
  <2> QED  BY <1>3, <2>9
<1> QED  BY <1>4, <1>5

LEMMA FedIs ==
  ASSUME NEW protocol, NEW start, NEW held \in Seq(Byte)
  PROVE  Feeds(protocol, start, Fed(protocol, start, held), held, Len(held))
<1>1. Len(held) \in Nat  BY LenProperties
<1> DEFINE Equation(f) ==
             f = [k \in 0 .. Len(held) |->
                    IF k = 0 THEN [p |-> start, n |-> 0]
                    ELSE LET a == f[k - 1]
                         IN  IF Done(a.p) THEN a ELSE [p |-> Feed(protocol, a.p, held[k]), n |-> a.n + 1]]
<1>2. Fed(protocol, start, held) = CHOOSE f : Equation(f)  BY DEF Fed
<1>3. \A f : Equation(f) <=> Feeds(protocol, start, f, held, Len(held))  BY DEF Feeds, More
<1>4. \E h : Equation(h)  BY <1>1, <1>3, FeedsExist
<1> HIDE DEF Equation
<1>5. Equation(CHOOSE f : Equation(f))  BY <1>4
<1> QED  BY <1>2, <1>3, <1>5

\* After k bytes of a receive: all of them are used, up to the end of the message.
Good(protocol, m, j, f, k) ==
  /\ f[k].n \in 0 .. k /\ j + f[k].n <= Len(m.bytes)
  /\ At(protocol, m, j + f[k].n, f[k].p)
  /\ f[k].n # k => j + f[k].n = Len(m.bytes)

LEMMA FedReads ==
  ASSUME NEW protocol, NEW m, OfProtocol(protocol, m), NEW start, NEW j \in 0 .. Len(m.bytes), At(protocol, m, j, start),
         NEW held \in Seq(Byte), \A i \in 1 .. Len(held) : j + i <= Len(m.bytes) => held[i] = m.bytes[j + i]
  PROVE  Good(protocol, m, j, Fed(protocol, start, held), Len(held))
<1>0. PICK n \in Nat, t \in Nat : n = Len(held) /\ t = Len(m.bytes) /\ j \in 0 .. t  BY ReadsBytes, LenProperties
<1>1. PICK f : f = Fed(protocol, start, held) /\ Feeds(protocol, start, f, held, n)  BY <1>0, FedIs
<1>2. \A k \in 0 .. n : f[k] = IF k = 0 THEN [p |-> start, n |-> 0] ELSE More(protocol, f[k - 1], held[k])
  BY <1>1 DEF Feeds
<1> DEFINE Failing == {k \in 0 .. n : ~ Good(protocol, m, j, f, k)}
<1>3. SUFFICES ASSUME Failing # {}  PROVE FALSE
  <2>1. n \in 0 .. n  OBVIOUS
  <2> QED  BY <1>0, <1>1, <2>1
<1>4. PICK k \in Failing : \A l \in Failing : k <= l
  <2>1. \A l \in Failing : l \in Nat  OBVIOUS
  <2> HIDE DEF Failing
  <2> QED  BY <1>3, <2>1, LeastExists
<1>5. k \in 0 .. n /\ ~ Good(protocol, m, j, f, k)  BY <1>4
<1>6. CASE k = 0
  <2>1. f[0].p = start /\ f[0].n = 0  BY <1>2, <1>5, <1>6
  <2>2. 0 \in 0 .. 0 /\ j + 0 = j /\ j <= t  BY <1>0
  <2> QED  BY <1>0, <1>5, <1>6, <2>1, <2>2 DEF Good
<1>7. CASE k # 0
  <2>1. PICK l \in Nat : l = k - 1 /\ l \in 0 .. n /\ l < k /\ l + 1 = k  BY <1>5, <1>7
  <2>2. Good(protocol, m, j, f, l)
    <3>1. l \notin Failing
      <4>1. \A i \in Failing : i \in Nat  OBVIOUS
      <4> HIDE DEF Failing
      <4> QED  BY <1>4, <2>1, <1>5, <4>1
    <3> QED  BY <2>1, <3>1
  <2>3. f[k] = More(protocol, f[l], held[k])  BY <1>2, <1>5, <1>7, <2>1
  <2>4. PICK c \in 0 .. l : c = f[l].n  BY <2>2 DEF Good
  <2>p. PICK p : p = f[l].p  OBVIOUS
  <2>5. j + c <= t /\ j + c \in 0 .. t /\ At(protocol, m, j + c, p) /\ (c # l => j + c = t)
    BY SMTT(40), <1>0, <2>2, <2>4, <2>p DEF Good
  <2>6. Done(p) <=> j + c = t
    BY <1>0, <2>5, FeedEnd
  <2>7. CASE Done(p)
    <3>1. f[k].p = p /\ f[k].n = c  BY <2>3, <2>4, <2>p, <2>7 DEF More
    <3>2. c \in 0 .. k  BY <2>1
    <3> QED  BY <1>0, <1>5, <2>5, <2>6, <2>7, <3>1, <3>2 DEF Good
  <2>8. CASE ~Done(p)
    <3>1. f[k].p = Feed(protocol, p, held[k]) /\ f[k].n = c + 1  BY <2>3, <2>4, <2>p, <2>8 DEF More
    <3>a. c = l /\ j + c # t  BY <2>5, <2>6, <2>8
    <3>b. c + 1 = k /\ j + k = (j + c) + 1  BY <1>0, <2>1, <3>a
    <3>2. c = l /\ c + 1 = k /\ j + c < t /\ j + k <= t /\ j + k = (j + c) + 1
      <4>1. j \in Nat /\ t \in Nat /\ c \in Nat /\ j + c <= t /\ j + c # t  BY <1>0, <2>1, <2>5, <3>a
      <4>2. j + c < t /\ (j + c) + 1 <= t  BY <4>1
      <4> QED  BY <3>a, <3>b, <4>2
    <3>3. held[k] = m.bytes[(j + c) + 1]
      <4>1. k \in 1 .. n  BY <1>5, <1>7
      <4> QED  BY <1>0, <3>2, <4>1
    <3>4. j + c \in 0 .. Len(m.bytes) - 1  BY <1>0, <2>4, <3>2
    <3>5. At(protocol, m, (j + c) + 1, Feed(protocol, p, held[k]))
      BY SMTT(40), <2>5, <3>3, <3>4, FeedStep
    <3>6. f[k].n = k /\ k \in 0 .. k  BY <1>5, <3>1, <3>2
    <3> QED  BY <1>0, <1>5, <3>1, <3>2, <3>5, <3>6 DEF Good
  <2> QED  BY <2>7, <2>8
<1> QED  BY <1>6, <1>7

-----------------------------------------------------------------------------
(***************************************************************************)
(* The response builder                                                    *)
(***************************************************************************)

Names == {s \in Seq(Byte) : IsString(s)}
Shows == [name : Names, admin : 0 .. 1]

\* The bytes of a list of users, and those of the users after the first k.
Shown(body) == [i \in 1 .. Len(body) |-> [bytes |-> Entry(body[i])]]
Behind(body, k) == BytesOf(Shown(body), k, Len(body))

\* What the builder has still to write of a reply.
RestOf(head, body, cur, entry) ==
  IF entry > Len(body) THEN <<>>
  ELSE IF cur < 3 THEN SubSeq(head, cur + 1, 3) \o Behind(body, 0)
  ELSE SubSeq(Entry(body[entry]), cur - 2, Len(Entry(body[entry]))) \o Behind(body, entry)
Rest(r) == IF r.list THEN RestOf(r.head, r.body, r.cur, r.entry)
           ELSE SubSeq(r.head \o r.body, r.cur + 1, Len(r.head \o r.body))

PlainReply == [list : {FALSE}, head : Seq(Byte), body : Seq(Byte), cur : Nat, entry : {1}]
ListReply == [list : {TRUE}, head : Seq(Byte), body : Seq(Shows), cur : Nat, entry : Nat]
Reply(r) ==
  \/ r \in PlainReply /\ r.cur <= Len(r.head \o r.body)
  \/ /\ r \in ListReply /\ Len(r.head) = 3 /\ Len(r.body) >= 1 /\ r.entry \in 1 .. Len(r.body) + 1
     /\ r.cur < 3 => r.entry = 1
     /\ r.entry > Len(r.body) => r.cur = 3

LEMMA EntryParts ==
  ASSUME NEW u \in Shows
  PROVE  /\ Entry(u) \in Seq(Byte) /\ Len(Entry(u)) = Len(u.name) + 2
         /\ u.name \in Seq(Byte) /\ Len(u.name) \in Byte /\ Len(u.name) \in Nat /\ u.admin \in Byte
         /\ Entry(u)[1] = Len(u.name) /\ Entry(u)[Len(u.name) + 2] = u.admin
         /\ \A i \in 1 .. Len(u.name) : Entry(u)[i + 1] = u.name[i]
<1>0. u.name \in Names /\ u.admin \in 0 .. 1  BY DEF Shows
<1>1. PICK s \in Seq(Byte), n \in Nat : s = u.name /\ n = Len(s) /\ n \in Byte
  BY <1>0, StringType DEF Names
<1>2. PICK a \in Byte : a = u.admin  BY SMTT(40), <1>0 DEF Byte
<1>3. PICK t \in Seq(Byte) : t = Str(s) /\ Len(t) = 1 + n /\ t[1] = n /\ \A i \in 1 .. n : t[1 + i] = s[i]
  BY <1>1, StrParts
<1>4. PICK z \in Seq(Byte) : z = <<a>> /\ Len(z) = 1 /\ z[1] = a  BY OneByte
<1>5. PICK e \in Seq(Byte) : /\ e = t \o z /\ Len(e) = Len(t) + Len(z)
                             /\ \A i \in 1 .. Len(t) : e[i] = t[i]
                             /\ \A i \in 1 .. Len(z) : e[Len(t) + i] = z[i]
  BY Pasted
<1>6. Entry(u) = e  BY Zenon, <1>1, <1>2, <1>3, <1>4, <1>5 DEF Entry
<1>7. Len(e) = n + 2 /\ e[1] = n  BY <1>3, <1>4, <1>5
<1>8. e[n + 2] = a
  <2>1. 1 \in 1 .. Len(z) /\ Len(t) + 1 = n + 2  BY <1>3, <1>4
  <2> QED  BY <1>4, <1>5, <2>1
<1>9. ASSUME NEW i \in 1 .. n  PROVE e[i + 1] = s[i]
  <2>1. 1 + i \in 1 .. Len(t) /\ i + 1 = 1 + i  BY <1>3
  <2> QED  BY <1>3, <1>5, <2>1
<1> QED  BY <1>1, <1>2, <1>6, <1>7, <1>8, <1>9

LEMMA ShownMessages ==
  ASSUME NEW body \in Seq(Shows)
  PROVE  /\ Messages(Shown(body)) /\ Len(Shown(body)) = Len(body) /\ Len(body) \in Nat
         /\ \A i \in 1 .. Len(body) : body[i] \in Shows /\ Shown(body)[i].bytes = Entry(body[i])
<1>1. Len(body) \in Nat /\ \A i \in 1 .. Len(body) : body[i] \in Shows  BY LenProperties, ElementOfSeq
<1>2. PICK n \in Nat : n = Len(body)  BY <1>1
<1>3. PICK s : s = Shown(body)  OBVIOUS
<1>4. s = [i \in 1 .. n |-> [bytes |-> Entry(body[i])]]  BY <1>2, <1>3 DEF Shown
<1>5. DOMAIN s = 1 .. n /\ \A i \in 1 .. n : s[i] = [bytes |-> Entry(body[i])]  BY <1>4
<1>6. \A i \in 1 .. n : s[i].bytes = Entry(body[i]) /\ s[i].bytes \in Seq(Byte)
  BY <1>1, <1>2, <1>5, EntryParts
<1>7. s \in Seq(Range(s)) /\ Len(s) = n
  <2>1. \A i \in 1 .. n : s[i] \in Range(s)  BY <1>5 DEF Range
  <2>2. s \in [1 .. n -> Range(s)]  BY <1>4, <1>5, <2>1
  <2> QED  BY <2>2
<1> QED  BY <1>1, <1>2, <1>3, <1>5, <1>6, <1>7 DEF Messages

LEMMA BehindParts ==
  ASSUME NEW body \in Seq(Shows), NEW k \in 0 .. Len(body)
  PROVE  /\ Behind(body, k) \in Seq(Byte)
         /\ k = Len(body) => Behind(body, k) = <<>>
         /\ k # Len(body) => Behind(body, k) = Entry(body[k + 1]) \o Behind(body, k + 1)
<1>0. PICK s : s = Shown(body)  OBVIOUS
<1>1. PICK n \in Nat : /\ s = Shown(body) /\ n = Len(body) /\ Messages(s) /\ Len(s) = n /\ k \in 0 .. n
                       /\ \A i \in 1 .. n : s[i].bytes = Entry(body[i])
  BY <1>0, ShownMessages
<1>2. k \in Nat /\ n \in k .. Len(s)  BY <1>1
<1>3. Behind(body, k) \in Seq(Byte)  BY <1>1, <1>2, BytesOfType DEF Behind
<1>4. k = n => Behind(body, k) = <<>>  BY <1>1, <1>2, BytesOfNone DEF Behind
<1>5. ASSUME k # n  PROVE Behind(body, k) = Entry(body[k + 1]) \o Behind(body, k + 1)
  <2>1. n \in k + 1 .. Len(s) /\ k + 1 \in 1 .. n  BY <1>1, <1>2, <1>5
  <2>2. BytesOf(s, k, n) = s[k + 1].bytes \o BytesOf(s, k + 1, n)  BY <1>1, <1>2, <2>1, BytesOfFirst
  <2> QED  BY <1>1, <2>1, <2>2 DEF Behind
<1> QED  BY <1>1, <1>3, <1>4, <1>5

LEMMA RestType ==
  ASSUME NEW head \in Seq(Byte), Len(head) = 3, NEW body \in Seq(Shows), NEW cur \in Nat,
         NEW entry \in 1 .. Len(body) + 1
  PROVE  RestOf(head, body, cur, entry) \in Seq(Byte)
<1>1. PICK n \in Nat : n = Len(body) /\ entry \in 1 .. n + 1  BY LenProperties
<1>2. CASE entry > n  BY <1>1, <1>2, EmptySeq DEF RestOf
<1>3. CASE ~(entry > n) /\ cur < 3
  <2>1. cur \in 0 .. Len(head)  BY <1>3
  <2>2. SubSeq(head, cur + 1, 3) \in Seq(Byte)  BY <2>1, Cut
  <2>3. Behind(body, 0) \in Seq(Byte)  BY <1>1, BehindParts
  <2> QED  BY <1>1, <1>3, <2>2, <2>3, ConcatParts DEF RestOf
<1>4. CASE ~(entry > n) /\ ~(cur < 3)
  <2>1. entry \in 1 .. n /\ entry \in 0 .. n  BY <1>1, <1>4
  <2>2. PICK e \in Seq(Byte) : e = Entry(body[entry])  BY <1>1, <2>1, ShownMessages, EntryParts
  <2>3. SubSeq(e, cur - 2, Len(e)) \in Seq(Byte)
    <3>1. Len(e) \in Nat /\ cur - 2 \in Nat /\ cur - 2 >= 1  BY <1>4, LenProperties
    <3>2. \A i \in cur - 2 .. Len(e) : i \in 1 .. Len(e)  BY <3>1
    <3>3. \A i \in 1 .. Len(e) : e[i] \in Byte  BY ElementOfSeq
    <3>4. \A i \in cur - 2 .. Len(e) : e[i] \in Byte  BY <3>2, <3>3
    <3> QED  BY <3>1, <3>4, SubSeqProperties
  <2>4. Behind(body, entry) \in Seq(Byte)  BY <1>1, <2>1, BehindParts
  <2> QED  BY <1>1, <1>4, <2>2, <2>3, <2>4, ConcatParts DEF RestOf
<1> QED  BY <1>2, <1>3, <1>4

\* A byte and what is left.
LEMMA OneMore ==
  ASSUME NEW s \in Seq(Byte), NEW i \in 1 .. Len(s), NEW z \in Seq(Byte)
  PROVE  /\ s[i] \in Byte
         /\ SubSeq(s, i, Len(s)) \o z = <<s[i]>> \o (SubSeq(s, i + 1, Len(s)) \o z)
         /\ i = Len(s) => SubSeq(s, i, Len(s)) \o z = <<s[i]>> \o z
<1>0. PICK n \in Nat : n = Len(s) /\ i \in 1 .. n /\ n \in i .. n  BY LenProperties
<1>1. PICK x \in Byte : x = s[i]  BY ElementOfSeq
<1>2. SubSeq(s, i, n) = <<x>> \o SubSeq(s, i + 1, n)  BY <1>0, <1>1, SubSeqRecursiveFirst
<1>3. PICK r \in Seq(Byte) : r = SubSeq(s, i + 1, n)
  <2>1. i \in 0 .. Len(s)  BY <1>0
  <2> QED  BY <1>0, <2>1, Cut
<1>4. PICK a \in Seq(Byte) : a = <<x>>  BY OneByte
<1>5. (a \o r) \o z = a \o (r \o z)
  <2>1. a \in Seq(Byte) /\ r \in Seq(Byte) /\ z \in Seq(Byte)  OBVIOUS
  <2> QED  BY SMTT(60), <2>1, ConcatAssociative
<1>6. i = n => r = <<>>  BY <1>0, <1>3, SubSeqEmpty
<1>7. <<>> \o z = z  BY ConcatEmptySeq
<1> QED  BY <1>0, <1>1, <1>2, <1>3, <1>4, <1>5, <1>6, <1>7

\* The builder's place, and the next byte of the list.
LEMMA RestHead ==
  ASSUME NEW head \in Seq(Byte), Len(head) = 3, NEW body \in Seq(Shows), Len(body) >= 1, NEW cur \in 0 .. 2
  PROVE  /\ head[cur + 1] \in Byte
         /\ RestOf(head, body, cur, 1) = <<head[cur + 1]>> \o RestOf(head, body, cur + 1, 1)
<1>0. PICK n \in Nat : n = Len(body) /\ n >= 1  BY LenProperties
<1>1. PICK z \in Seq(Byte) : z = Behind(body, 0)  BY <1>0, BehindParts
<1>2. cur + 1 \in 1 .. Len(head) /\ cur \in Nat  OBVIOUS
<1>3. RestOf(head, body, cur, 1) = SubSeq(head, cur + 1, 3) \o z
  <2>1. ~(1 > Len(body)) /\ cur < 3  BY <1>0
  <2> QED  BY <1>1, <2>1 DEF RestOf
<1>4. /\ head[cur + 1] \in Byte
      /\ SubSeq(head, cur + 1, 3) \o z = <<head[cur + 1]>> \o (SubSeq(head, (cur + 1) + 1, 3) \o z)
      /\ cur + 1 = 3 => SubSeq(head, cur + 1, 3) \o z = <<head[cur + 1]>> \o z
  <2>1. PICK l \in Nat, i \in 1 .. Len(head) : l = Len(head) /\ l = 3 /\ i = cur + 1  BY <1>2
  <2>2. /\ head[i] \in Byte
        /\ SubSeq(head, i, l) \o z = <<head[i]>> \o (SubSeq(head, i + 1, l) \o z)
        /\ i = l => SubSeq(head, i, l) \o z = <<head[i]>> \o z
    <3>1. /\ head[i] \in Byte
          /\ SubSeq(head, i, Len(head)) \o z = <<head[i]>> \o (SubSeq(head, i + 1, Len(head)) \o z)
      BY Zenon, OneMore
    <3>2. i = Len(head) => SubSeq(head, i, Len(head)) \o z = <<head[i]>> \o z  BY Zenon, OneMore
    <3> QED  BY Zenon, <2>1, <3>1, <3>2
  <2> QED  BY <2>1, <2>2
<1>5. CASE cur + 1 < 3
  <2>1. RestOf(head, body, cur + 1, 1) = SubSeq(head, (cur + 1) + 1, 3) \o z
    <3>1. ~(1 > Len(body))  BY <1>0
    <3> QED  BY <1>1, <1>5, <3>1 DEF RestOf
  <2> QED  BY <1>3, <1>4, <2>1
<1>6. CASE cur + 1 = 3
  <2>1. PICK e \in Seq(Byte) : e = Entry(body[1])  BY <1>0, ShownMessages, EntryParts
  <2>2. z = e \o Behind(body, 1)
    <3>1. 0 \in 0 .. Len(body) /\ 0 # Len(body) /\ 0 + 1 = 1  BY <1>0
    <3> QED  BY <1>1, <2>1, <3>1, BehindParts
  <2>3. SubSeq(e, 1, Len(e)) = e  BY SubSeqFull
  <2>4. RestOf(head, body, cur + 1, 1) = z
    <3>1. ~(1 > Len(body)) /\ ~(cur + 1 < 3) /\ (cur + 1) - 2 = 1  BY <1>0, <1>6
    <3> QED  BY <2>1, <2>2, <2>3, <3>1 DEF RestOf
  <2> QED  BY <1>3, <1>4, <1>6, <2>4
<1> QED  BY <1>2, <1>5, <1>6, <1>4

LEMMA RestInside ==
  ASSUME NEW head, NEW body \in Seq(Shows), NEW entry \in 1 .. Len(body), NEW e, e = Entry(body[entry]),
         NEW i \in 1 .. Len(e), i # Len(e)
  PROVE  RestOf(head, body, 2 + i, entry) = <<e[i]>> \o RestOf(head, body, 3 + i, entry)
<1>0. PICK n \in Nat : n = Len(body) /\ entry \in 1 .. n  BY LenProperties
<1>1. e \in Seq(Byte)  BY ShownMessages, EntryParts
<1>2. PICK l \in Nat : l = Len(e) /\ i \in 1 .. l  BY <1>1, LenProperties
<1>3. PICK z \in Seq(Byte) : z = Behind(body, entry)
  <2>1. entry \in 0 .. Len(body)  BY <1>0
  <2> QED  BY <2>1, BehindParts
<1>4. RestOf(head, body, 2 + i, entry) = SubSeq(e, i, l) \o z
  <2>1. ~(entry > Len(body)) /\ ~(2 + i < 3) /\ (2 + i) - 2 = i  BY <1>0, <1>2
  <2> QED  BY <1>2, <1>3, <2>1 DEF RestOf
<1>5. /\ e[i] \in Byte
      /\ SubSeq(e, i, l) \o z = <<e[i]>> \o (SubSeq(e, i + 1, l) \o z)
      /\ i = l => SubSeq(e, i, l) \o z = <<e[i]>> \o z
  BY ZenonT(40), <1>1, <1>2, OneMore
<1>6. RestOf(head, body, 3 + i, entry) = SubSeq(e, i + 1, l) \o z
  <2>1. ~(entry > Len(body)) /\ ~(3 + i < 3) /\ (3 + i) - 2 = i + 1  BY <1>0, <1>2
  <2> QED  BY <1>2, <1>3, <2>1 DEF RestOf
<1> QED  BY <1>4, <1>5, <1>6

LEMMA RestEntry ==
  ASSUME NEW head, NEW body \in Seq(Shows), NEW entry \in 1 .. Len(body), NEW e, e = Entry(body[entry]),
         NEW i \in 1 .. Len(e), i = Len(e)
  PROVE  RestOf(head, body, 2 + i, entry) = <<e[i]>> \o RestOf(head, body, 3, entry + 1)
<1>0. PICK n \in Nat : n = Len(body) /\ entry \in 1 .. n  BY LenProperties
<1>1. e \in Seq(Byte)  BY ShownMessages, EntryParts
<1>2. PICK l \in Nat : l = Len(e) /\ i \in 1 .. l  BY <1>1, LenProperties
<1>3. PICK z \in Seq(Byte) : z = Behind(body, entry)
  <2>1. entry \in 0 .. Len(body)  BY <1>0
  <2> QED  BY <2>1, BehindParts
<1>4. RestOf(head, body, 2 + i, entry) = SubSeq(e, i, l) \o z
  <2>1. ~(entry > Len(body)) /\ ~(2 + i < 3) /\ (2 + i) - 2 = i  BY <1>0, <1>2
  <2> QED  BY <1>2, <1>3, <2>1 DEF RestOf
<1>5. /\ e[i] \in Byte
      /\ SubSeq(e, i, l) \o z = <<e[i]>> \o (SubSeq(e, i + 1, l) \o z)
      /\ i = l => SubSeq(e, i, l) \o z = <<e[i]>> \o z
  BY <1>1, <1>2, OneMore
<1>6. RestOf(head, body, 3, entry + 1) = z
  <2>1. CASE entry = n
    <3>1. entry + 1 > Len(body) /\ entry \in 0 .. Len(body)  BY <1>0, <2>1
    <3>2. z = <<>>  BY <1>0, <1>3, <2>1, <3>1, BehindParts
    <3> QED  BY <3>1, <3>2 DEF RestOf
  <2>2. CASE entry # n
    <3>1. entry + 1 \in 1 .. Len(body) /\ entry \in 0 .. Len(body) /\ ~(entry + 1 > Len(body)) /\ entry # Len(body)
      BY <1>0, <2>2
    <3>2. PICK f \in Seq(Byte) : f = Entry(body[entry + 1])  BY <3>1, ShownMessages, EntryParts
    <3>3. z = f \o Behind(body, entry + 1)  BY <1>3, <3>1, <3>2, BehindParts
    <3>4. SubSeq(f, 1, Len(f)) = f  BY SubSeqFull
    <3>5. ~(3 < 3) /\ 3 - 2 = 1  OBVIOUS
    <3> QED  BY <3>1, <3>2, <3>3, <3>4, <3>5 DEF RestOf
  <2> QED  BY <2>1, <2>2
<1> QED  BY <1>2, <1>4, <1>5, <1>6

\* Where the builder of a list may be, and where it is when it was not resumed
\* inside an entry: what it wrote is what is no longer to be written.
Placed(r, a) ==
  /\ a \in [cur : Nat, entry : 1 .. Len(r.body) + 1, put : BOOLEAN, bytes : Seq(Byte)]
  /\ a.cur < 3 => a.entry = 1
  /\ a.entry > Len(r.body) => a.cur = 3
Exact(r, a) ==
  /\ a.put <=> a.cur <= 3
  /\ a.cur > 3 => a.cur - 2 <= Len(Entry(r.body[a.entry]))
  /\ a.bytes \o RestOf(r.head, r.body, a.cur, a.entry) = RestOf(r.head, r.body, r.cur, r.entry)
Right(r, k, a) ==
  /\ Placed(r, a) /\ Len(a.bytes) <= k
  /\ a.bytes = <<>> => a.cur = r.cur /\ a.entry = r.entry
  /\ r.cur <= 3 => Exact(r, a)

ListOf(r) == r \in ListReply /\ Reply(r)

LEMMA ListParts ==
  ASSUME NEW r, ListOf(r)
  PROVE  /\ r.list = TRUE /\ r.head \in Seq(Byte) /\ Len(r.head) = 3 /\ r.body \in Seq(Shows) /\ Len(r.body) \in Nat
         /\ Len(r.body) >= 1 /\ r.cur \in Nat /\ r.entry \in 1 .. Len(r.body) + 1
         /\ r.cur < 3 => r.entry = 1
         /\ r.entry > Len(r.body) => r.cur = 3
<1>1. r.list = TRUE /\ r.head \in Seq(Byte) /\ r.body \in Seq(Shows) /\ r.cur \in Nat  BY DEF ListOf, ListReply
<1>2. r \notin PlainReply  BY <1>1 DEF PlainReply
<1> QED  BY <1>1, <1>2, LenProperties DEF ListOf, Reply

\* The byte x is written, and the builder goes on at cur of an entry.
Goes(r, a, x, cur, entry, put) ==
  /\ cur < 3 => entry = 1
  /\ entry > Len(r.body) => cur = 3
  /\ r.cur <= 3 => /\ put <=> cur <= 3
                   /\ cur > 3 => cur - 2 <= Len(Entry(r.body[entry]))
                   /\ RestOf(r.head, r.body, a.cur, a.entry) = <<x>> \o RestOf(r.head, r.body, cur, entry)

LEMMA ByteRight ==
  ASSUME NEW r, ListOf(r), NEW k \in Nat, NEW a, Right(r, k, a), NEW x \in Byte,
         NEW cur \in Nat, NEW entry \in 1 .. Len(r.body) + 1, NEW put \in BOOLEAN, Goes(r, a, x, cur, entry, put)
  PROVE  Right(r, k + 1, [cur |-> cur, entry |-> entry, put |-> put, bytes |-> a.bytes \o <<x>>])
<1>1. PICK s \in Seq(Byte), l \in Nat : s = a.bytes /\ l = Len(s) /\ l <= k
  <2>1. a.bytes \in Seq(Byte)  BY DEF Right, Placed
  <2>2. Len(a.bytes) \in Nat  BY <2>1, LenProperties
  <2> QED  BY <2>1, <2>2 DEF Right
<1>2. PICK z \in Seq(Byte) : z = <<x>> /\ Len(z) = 1  BY OneByte
<1>3. PICK d \in Seq(Byte) : d = s \o z /\ Len(d) = l + 1
  <2>1. PICK d \in Seq(Byte) : d = s \o z /\ Len(d) = Len(s) + Len(z)  BY Pasted
  <2> QED  BY <1>1, <1>2, <2>1
<1>4. PICK c : c = [cur |-> cur, entry |-> entry, put |-> put, bytes |-> d]  OBVIOUS
<1>5. c.cur = cur /\ c.entry = entry /\ c.put = put /\ c.bytes = d  BY <1>4
<1>6. Placed(r, c)  BY <1>4, <1>5 DEF Placed, Goes
<1>7. d # <<>> /\ Len(d) <= k + 1
  <2>1. d # <<>>
    <3>1. d = <<>> => Len(d) = 0  OBVIOUS
    <3> QED  BY <1>3, <3>1
  <2> QED  BY <1>1, <1>3, <2>1
<1>8. ASSUME r.cur <= 3  PROVE Exact(r, c)
  <2>1. PICK t \in Seq(Byte) : t = RestOf(r.head, r.body, cur, entry)  BY ListParts, RestType
  <2>2. s \o RestOf(r.head, r.body, a.cur, a.entry) = RestOf(r.head, r.body, r.cur, r.entry)
    BY <1>1, <1>8 DEF Right, Exact
  <2>3. RestOf(r.head, r.body, a.cur, a.entry) = z \o t  BY <1>2, <1>8, <2>1 DEF Goes
  <2>4. (s \o z) \o t = s \o (z \o t)  BY SMTT(60), ConcatAssociative
  <2>5. d \o t = RestOf(r.head, r.body, r.cur, r.entry)  BY <1>3, <2>2, <2>3, <2>4
  <2>6. (put <=> cur <= 3) /\ (cur > 3 => cur - 2 <= Len(Entry(r.body[entry])))  BY <1>8 DEF Goes
  <2> QED  BY <1>5, <2>1, <2>5, <2>6 DEF Exact
<1>9. Right(r, k + 1, c)  BY <1>5, <1>6, <1>7, <1>8 DEF Right
<1> QED  BY <1>1, <1>2, <1>3, <1>4, <1>9

LEMMA ListByteRight ==
  ASSUME NEW r, ListOf(r), NEW k \in Nat, NEW a, Right(r, k, a), ~(a.entry > Len(r.body)), NEW c \in ListByte(r, a)
  PROVE  Right(r, k + 1, c)
<1>1. PICK head \in Seq(Byte), body \in Seq(Shows), n \in Nat :
        /\ head = r.head /\ body = r.body /\ n = Len(body) /\ Len(head) = 3 /\ n >= 1
  BY ListParts
<1>2. PICK cur \in Nat, entry \in 1 .. n, put \in BOOLEAN :
        cur = a.cur /\ entry = a.entry /\ put = a.put /\ (cur < 3 => entry = 1)
  <2>1. a.cur \in Nat /\ a.entry \in 1 .. n + 1 /\ a.put \in BOOLEAN /\ (a.cur < 3 => a.entry = 1)
    BY <1>1 DEF Right, Placed
  <2>2. a.entry \in 1 .. n  BY <1>1, <2>1
  <2> QED  BY <2>1, <2>2
<1>3. PICK u \in Shows : u = body[entry]  BY <1>1, <1>2, ShownMessages
<1>e. PICK e \in Seq(Byte), l \in Nat :
        /\ e = Entry(u) /\ l = Len(u.name) /\ Len(e) = l + 2 /\ u.name \in Seq(Byte) /\ l \in Byte
        /\ u.admin \in Byte /\ e[1] = l /\ e[l + 2] = u.admin /\ \A i \in 1 .. l : e[i + 1] = u.name[i]
  BY EntryParts
<1>a. PICK s : s = a.bytes  OBVIOUS
<1>g. ASSUME NEW x \in Byte, NEW at \in Nat, NEW to \in 1 .. n + 1, NEW p \in BOOLEAN, Goes(r, a, x, at, to, p)
      PROVE  Right(r, k + 1, [cur |-> at, entry |-> to, put |-> p, bytes |-> s \o <<x>>])
  <2>1. to \in 1 .. Len(r.body) + 1  BY <1>1
  <2>2. Right(r, k + 1, [cur |-> at, entry |-> to, put |-> p, bytes |-> a.bytes \o <<x>>])
    BY Zenon, <1>g, <2>1, ByteRight
  <2> QED  BY Zenon, <1>a, <2>2
<1>4. ASSUME NEW x \in Byte, NEW at \in Nat, NEW to \in 1 .. n + 1, NEW p \in BOOLEAN,
             at < 3 => to = 1, to > n => at = 3,
             r.cur <= 3 => (p <=> at <= 3) /\ (at > 3 => at - 2 <= Len(Entry(body[to]))),
             r.cur <= 3 => RestOf(head, body, cur, entry) = <<x>> \o RestOf(head, body, at, to)
      PROVE  Goes(r, a, x, at, to, p)
  BY <1>1, <1>2, <1>4 DEF Goes
<1>x. r.cur <= 3 => (put <=> cur <= 3) /\ (cur > 3 => cur - 2 <= Len(e))
  BY <1>1, <1>2, <1>3, <1>e DEF Right, Exact
<1>b. 1 .. n \subseteq 1 .. n + 1 /\ entry + 1 \in 1 .. n + 1 /\ cur + 1 \in Nat /\ entry \in 1 .. n + 1
  OBVIOUS
<1>5. CASE cur < 3
  <2>1. c = [cur |-> cur + 1, entry |-> entry, put |-> put, bytes |-> s \o <<head[cur + 1]>>]
    BY <1>1, <1>2, <1>a, <1>5 DEF ListByte
  <2>2. cur \in 0 .. 2 /\ entry = 1  BY SMTT(40), <1>2, <1>5
  <2>3. /\ head[cur + 1] \in Byte
        /\ RestOf(head, body, cur, 1) = <<head[cur + 1]>> \o RestOf(head, body, cur + 1, 1)
    BY <1>1, <2>2, RestHead
  <2>4. r.cur <= 3 => (put <=> cur + 1 <= 3)  BY <1>5, <1>x
  <2>5. ~(cur + 1 > 3) /\ ~(entry > n)  BY <1>5
  <2>6. Goes(r, a, head[cur + 1], cur + 1, entry, put)  BY <1>4, <1>b, <2>2, <2>3, <2>4, <2>5
  <2> QED  BY <1>b, <1>g, <2>1, <2>3, <2>6
<1>6. CASE ~(cur < 3) /\ put
  <2>1. c = [cur |-> cur + 1, entry |-> entry, put |-> FALSE, bytes |-> s \o <<l>>]
    BY ZenonT(40), <1>1, <1>2, <1>3, <1>e, <1>a, <1>6 DEF ListByte
  <2>2. ASSUME r.cur <= 3  PROVE cur = 3 /\ RestOf(head, body, cur, entry) = <<l>> \o RestOf(head, body, cur + 1, entry)
    <3>1. cur = 3  BY <1>6, <1>x, <2>2
    <3>2. 1 \in 1 .. Len(e) /\ 1 # Len(e) /\ 2 + 1 = cur /\ 3 + 1 = cur + 1 /\ entry \in 1 .. Len(body)  BY <1>1, <1>e, <3>1
    <3>3. RestOf(head, body, 2 + 1, entry) = <<e[1]>> \o RestOf(head, body, 3 + 1, entry)
      <4>1. e = Entry(body[entry])  BY <1>3, <1>e
      <4> QED  BY Zenon, <3>2, <4>1, RestInside
    <3> QED  BY <1>e, <3>1, <3>2, <3>3
  <2>3. r.cur <= 3 => cur + 1 = 4 /\ (cur + 1) - 2 <= Len(Entry(body[entry]))
    <3>1. r.cur <= 3 => cur + 1 = 4 /\ (cur + 1) - 2 <= Len(e)  BY SMTT(40), <1>e, <2>2
    <3> QED  BY <1>3, <1>e, <3>1
  <2>4. ~(cur + 1 < 3) /\ ~(entry > n) /\ FALSE \in BOOLEAN  BY <1>6
  <2>5. r.cur <= 3 => ~(cur + 1 <= 3) /\ (cur + 1) - 2 <= Len(Entry(body[entry]))  BY <2>2, <2>3
  <2>6. Goes(r, a, l, cur + 1, entry, FALSE)  BY <1>4, <1>b, <1>e, <2>2, <2>4, <2>5
  <2> QED  BY <1>b, <1>e, <1>g, <2>1, <2>4, <2>6
<1>7. CASE ~(cur < 3) /\ ~put
  <2>0. PICK z \in Chars(u.name, cur - 3) :
          c = IF z # <<>> THEN [cur |-> cur + 1, entry |-> entry, put |-> FALSE, bytes |-> s \o z]
              ELSE [cur |-> 3, entry |-> entry + 1, put |-> TRUE, bytes |-> s \o <<u.admin>>]
    BY <1>1, <1>2, <1>3, <1>a, <1>7 DEF ListByte
  <2>1. ASSUME r.cur <= 3  PROVE cur > 3 /\ cur - 2 <= Len(e) /\ cur - 2 \in 2 .. Len(e)
    <3>1. cur > 3 /\ cur - 2 <= Len(e)  BY <1>7, <1>x, <2>1
    <3> QED  BY <1>e, <3>1
  <2>2. CASE cur - 3 \in DOMAIN u.name
    <3>1. cur - 3 \in 1 .. l  BY <1>e, <2>2, LenProperties
    <3>2. PICK x \in Byte : x = u.name[cur - 3]  BY <1>e, <3>1, ElementOfSeq
    <3>3. z = <<x>>
      <4>1. Chars(u.name, cur - 3) = {<<u.name[cur - 3]>>}
        <5>1. cur - 3 # Len(u.name) + 2  BY <1>e, <3>1
        <5> QED  BY <2>2, <5>1 DEF Chars
      <4> QED  BY <2>0, <3>2, <4>1
    <3>4. c = [cur |-> cur + 1, entry |-> entry, put |-> FALSE, bytes |-> s \o <<x>>]
      <4>1. z # <<>>  BY <3>3
      <4> QED  BY <2>0, <3>3, <4>1
    <3>5. RestOf(head, body, cur, entry) = <<x>> \o RestOf(head, body, cur + 1, entry)
      <4>1. PICK i \in 1 .. Len(e) : i = cur - 2 /\ i # Len(e) /\ 2 + i = cur /\ 3 + i = cur + 1 /\ i = (cur - 3) + 1
        BY SMTT(30), <1>e, <3>1
      <4>2. e[i] = x  BY <1>e, <3>1, <3>2, <4>1
      <4>3. entry \in 1 .. Len(body)  BY <1>1
      <4>4. RestOf(head, body, 2 + i, entry) = <<e[i]>> \o RestOf(head, body, 3 + i, entry)
        <5>1. e = Entry(body[entry])  BY <1>3, <1>e
        <5> QED  BY ZenonT(60), <4>1, <4>3, <5>1, RestInside
      <4> QED  BY <4>1, <4>2, <4>4
    <3>6. ~(cur + 1 <= 3) /\ (cur + 1) - 2 <= Len(e) /\ ~(cur + 1 < 3) /\ ~(entry > n)
      <4>1. cur - 3 >= 1 /\ cur - 3 <= l /\ Len(e) = l + 2 /\ l \in Nat  BY <1>e, <3>1
      <4> QED  BY <4>1
    <3>7. Len(e) = Len(Entry(body[entry])) /\ FALSE \in BOOLEAN  BY <1>3, <1>e
    <3>8. r.cur <= 3 => ~(cur + 1 <= 3) /\ (cur + 1) - 2 <= Len(Entry(body[entry]))  BY <3>6, <3>7
    <3>9. Goes(r, a, x, cur + 1, entry, FALSE)  BY <1>4, <1>b, <3>5, <3>6, <3>7, <3>8
    <3> QED  BY <1>b, <1>g, <3>4, <3>7, <3>9
  <2>3. CASE cur - 3 \notin DOMAIN u.name /\ z = <<>>
    <3>1. c = [cur |-> 3, entry |-> entry + 1, put |-> TRUE, bytes |-> s \o <<u.admin>>]  BY <2>0, <2>3
    <3>2. ASSUME r.cur <= 3
          PROVE  RestOf(head, body, cur, entry) = <<u.admin>> \o RestOf(head, body, 3, entry + 1)
      <4>1. cur - 3 \notin 1 .. l  BY <1>e, <2>3, LenProperties
      <4>2. PICK i \in 1 .. Len(e) : i = cur - 2 /\ i = Len(e) /\ 2 + i = cur /\ i = l + 2
        BY SMTT(40), <1>e, <2>1, <3>2, <4>1
      <4>3. entry \in 1 .. Len(body)  BY <1>1
      <4>4. RestOf(head, body, 2 + i, entry) = <<e[i]>> \o RestOf(head, body, 3, entry + 1)
        BY ZenonT(40), <1>3, <1>e, <4>2, <4>3, RestEntry
      <4> QED  BY <1>e, <4>2, <4>4
    <3>3. /\ 3 \in Nat /\ (3 < 3 => entry + 1 = 1) /\ (3 > 3 => 3 - 2 <= Len(Entry(body[entry + 1])))
          /\ (TRUE <=> 3 <= 3) /\ TRUE \in BOOLEAN
      OBVIOUS
    <3>4. Goes(r, a, u.admin, 3, entry + 1, TRUE)  BY <1>4, <1>b, <1>e, <3>2, <3>3
    <3> QED  BY <1>b, <1>e, <1>g, <3>1, <3>3, <3>4
  <2>4. CASE cur - 3 \notin DOMAIN u.name /\ z # <<>>
    <3>1. cur - 3 = l + 2 /\ z = <<Junk>>  BY <1>e, <2>0, <2>4 DEF Chars
    <3>2. c = [cur |-> cur + 1, entry |-> entry, put |-> FALSE, bytes |-> s \o <<Junk>>]  BY <2>0, <2>4, <3>1
    <3>3. ~(r.cur <= 3)
      <4>1. SUFFICES ASSUME r.cur <= 3  PROVE FALSE
        OBVIOUS
      <4> QED  BY <1>e, <2>1, <3>1, <4>1
    <3>4. ~(cur + 1 < 3) /\ ~(entry > n) /\ FALSE \in BOOLEAN  BY <1>7
    <3>5. Junk \in Byte  BY NumbersAssumption
    <3>6. Goes(r, a, Junk, cur + 1, entry, FALSE)  BY <1>4, <1>b, <3>3, <3>4, <3>5
    <3> QED  BY <1>b, <1>g, <3>2, <3>4, <3>5, <3>6
  <2> QED  BY <2>2, <2>3, <2>4
<1> QED  BY <1>5, <1>6, <1>7

\* Where the builder may be after each byte it had room for.
Outcomes(r, places) == UNION {IF a.entry > Len(r.body) THEN {a} ELSE ListByte(r, a) : a \in places}
Start(r) == [cur |-> r.cur, entry |-> r.entry, put |-> TRUE, bytes |-> <<>>]
Lists(r, f, n) == f = [k \in 0 .. n |-> IF k = 0 THEN {Start(r)} ELSE Outcomes(r, f[k - 1])]

LEMMA ListsExist ==
  ASSUME NEW r, NEW n \in Nat
  PROVE  \E f : Lists(r, f, n)
<1> DEFINE Failing == {k \in Nat : ~ \E f : Lists(r, f, k)}
<1>1. SUFFICES ASSUME Failing # {}  PROVE FALSE
  OBVIOUS
<1>2. PICK k \in Failing : \A m \in Failing : k <= m
  <2>1. Failing \in SUBSET Nat  OBVIOUS
  <2> HIDE DEF Failing
  <2> QED  BY <1>1, <2>1, LeastExists
<1>3. k \in Nat /\ ~ \E f : Lists(r, f, k)  BY <1>2
<1>4. CASE k = 0
  <2> DEFINE f == [i \in 0 .. 0 |-> {Start(r)}]
  <2>1. Lists(r, f, 0)  BY DEF Lists
  <2> QED  BY <1>3, <1>4, <2>1
<1>5. CASE k # 0
  <2>1. PICK l \in Nat : l = k - 1 /\ l < k  BY <1>3, <1>5
  <2>2. l \notin Failing
    <3>1. \A m \in Failing : m \in Nat  OBVIOUS
    <3> HIDE DEF Failing
    <3> QED  BY <1>2, <1>3, <2>1, <3>1
  <2>3. PICK f : Lists(r, f, l)  BY <2>2
  <2>4. \A i \in 0 .. l : f[i] = IF i = 0 THEN {Start(r)} ELSE Outcomes(r, f[i - 1])
    BY <2>3 DEF Lists
  <2> DEFINE g == [i \in 0 .. k |-> IF i = k THEN Outcomes(r, f[l]) ELSE f[i]]
  <2>5. \A i \in 0 .. l : g[i] = f[i]  BY <1>3, <2>1
  <2>6. g[k] = Outcomes(r, f[l])  BY <1>3
  <2>7. g = [i \in 0 .. k |-> g[i]]  OBVIOUS
  <2> HIDE DEF g
  <2>8. ASSUME NEW i \in 0 .. k
        PROVE  g[i] = IF i = 0 THEN {Start(r)} ELSE Outcomes(r, g[i - 1])
    <3>1. CASE i = k
      <4>1. l \in 0 .. l /\ i - 1 = l  BY <2>1, <3>1
      <4> QED  BY <1>5, <2>5, <2>6, <3>1, <4>1
    <3>2. CASE i # k
      <4>1. i \in 0 .. l /\ (i # 0 => i - 1 \in 0 .. l)  BY <1>3, <2>1, <3>2
      <4> QED  BY <2>4, <2>5, <4>1
    <3> QED  BY <3>1, <3>2
  <2>9. Lists(r, g, k)  BY <2>7, <2>8 DEF Lists
  <2> QED  BY <1>3, <2>9
<1> QED  BY <1>4, <1>5

LEMMA ListedIs ==
  ASSUME NEW r, NEW n \in Nat
  PROVE  Lists(r, Listed(r, n), n)
<1> DEFINE Equation(f) ==
             f = [k \in 0 .. n |->
                    IF k = 0 THEN {[cur |-> r.cur, entry |-> r.entry, put |-> TRUE, bytes |-> <<>>]}
                    ELSE UNION {IF a.entry > Len(r.body) THEN {a} ELSE ListByte(r, a) : a \in f[k - 1]}]
<1>2. Listed(r, n) = CHOOSE f : Equation(f)  BY DEF Listed
<1>3. \A f : Equation(f) <=> Lists(r, f, n)  BY DEF Lists, Outcomes, Start
<1>4. \E h : Equation(h)  BY <1>3, ListsExist
<1> HIDE DEF Equation
<1>5. Equation(CHOOSE f : Equation(f))  BY <1>4
<1> QED  BY <1>2, <1>3, <1>5

LEMMA ListedRight ==
  ASSUME NEW r, ListOf(r), NEW room \in Nat, NEW a \in ListBytes(r, room)
  PROVE  Right(r, room, a)
<1>1. PICK f : f = Listed(r, room) /\ Lists(r, f, room)  BY ListedIs
<1>2. \A k \in 0 .. room : f[k] = IF k = 0 THEN {Start(r)} ELSE Outcomes(r, f[k - 1])
  BY <1>1 DEF Lists
<1> DEFINE Failing == {k \in 0 .. room : \E c \in f[k] : ~ Right(r, k, c)}
<1>3. SUFFICES ASSUME Failing # {}  PROVE FALSE
  <2>1. room \in 0 .. room /\ a \in f[room]  BY <1>1 DEF ListBytes
  <2> QED  BY <2>1
<1>4. PICK k \in Failing : \A l \in Failing : k <= l
  <2>1. \A l \in Failing : l \in Nat  OBVIOUS
  <2> HIDE DEF Failing
  <2> QED  BY <1>3, <2>1, LeastExists
<1>5. PICK c \in f[k] : k \in 0 .. room /\ ~ Right(r, k, c)  BY <1>4
<1>6. CASE k = 0
  <2>1. c = Start(r)  BY <1>2, <1>5, <1>6
  <2>2. PICK e \in Seq(Byte) : e = <<>> /\ Len(e) = 0  BY EmptySeq
  <2>3. c.cur = r.cur /\ c.entry = r.entry /\ c.put = TRUE /\ c.bytes = e  BY <2>1, <2>2 DEF Start
  <2>4. c = [cur |-> r.cur, entry |-> r.entry, put |-> TRUE, bytes |-> e]  BY <2>1, <2>2 DEF Start
  <2>5. Placed(r, c)  BY <2>3, <2>4, ListParts DEF Placed
  <2>6. ASSUME r.cur <= 3  PROVE Exact(r, c)
    <3>1. PICK t \in Seq(Byte) : t = RestOf(r.head, r.body, r.cur, r.entry)  BY ListParts, RestType
    <3>2. e \o t = t  BY <2>2, ConcatEmptySeq
    <3>n. r.cur \in Nat  BY ListParts
    <3>3. ~(r.cur > 3)  BY <2>6, <3>n
    <3> QED  BY <2>3, <2>6, <3>1, <3>2, <3>3 DEF Exact
  <2>7. Right(r, 0, c)  BY <2>2, <2>3, <2>5, <2>6 DEF Right
  <2> QED  BY <1>5, <1>6, <2>7
<1>7. CASE k # 0
  <2>1. PICK l \in Nat : l = k - 1 /\ l \in 0 .. room /\ l < k /\ l + 1 = k  BY <1>5, <1>7
  <2>2. \A d \in f[l] : Right(r, l, d)
    <3>1. l \notin Failing
      <4>1. \A i \in Failing : i \in Nat  OBVIOUS
      <4> HIDE DEF Failing
      <4> QED  BY <1>4, <2>1, <1>5, <4>1
    <3> QED  BY <2>1, <3>1
  <2>3. c \in Outcomes(r, f[l])  BY <1>2, <1>5, <1>7, <2>1
  <2>4. PICK d \in f[l] : c \in (IF d.entry > Len(r.body) THEN {d} ELSE ListByte(r, d))
    BY <2>3 DEF Outcomes
  <2>5. Right(r, l, d)  BY <2>2
  <2>6. CASE d.entry > Len(r.body)
    <3>1. c = d  BY <2>4, <2>6
    <3>2. PICK n \in Nat : n = Len(d.bytes) /\ n <= l
      <4>1. d.bytes \in Seq(Byte)  BY <2>5 DEF Right, Placed
      <4> QED  BY <2>5, <4>1, LenProperties DEF Right
    <3>3. Len(c.bytes) <= k  BY <2>1, <3>1, <3>2
    <3>4. Right(r, k, c)  BY <2>5, <3>1, <3>3 DEF Right
    <3> QED  BY <1>5, <3>4
  <2>7. CASE ~(d.entry > Len(r.body))
    <3>1. Right(r, l + 1, c)  BY <2>4, <2>5, <2>7, ListByteRight
    <3> QED  BY <1>5, <2>1, <3>1
  <2> QED  BY <2>6, <2>7
<1> QED  BY <1>6, <1>7

\* A call of the builder: a reply is still one, the bytes fit, and with what is
\* left they are what was left, unless a list was resumed inside an entry.
Builds(r, room, b) ==
  /\ Reply(b.r) /\ b.r.list = r.list /\ b.bytes \in Seq(Byte) /\ Len(b.bytes) <= room
  /\ Rest(b.r) \in Seq(Byte) /\ Rest(r) \in Seq(Byte)
  /\ ~(r.list /\ r.cur > 3 /\ b.bytes # <<>>) => b.bytes \o Rest(b.r) = Rest(r)
  /\ Built(b.r) => Rest(b.r) = <<>>

LEMMA BuildList ==
  ASSUME NEW r, ListOf(r), NEW room \in Nat, NEW b \in Build(r, room)
  PROVE  Builds(r, room, b)
<1>1. PICK a \in ListBytes(r, room) :
        b = [r |-> [r EXCEPT !.cur = a.cur, !.entry = a.entry], bytes |-> a.bytes]
  BY ListParts DEF Build
<1>2. Right(r, room, a)  BY <1>1, ListedRight
<1>3. PICK s \in Seq(Byte), cur \in Nat, entry \in 1 .. Len(r.body) + 1 :
        /\ s = a.bytes /\ cur = a.cur /\ entry = a.entry /\ Len(s) <= room
        /\ cur < 3 => entry = 1
        /\ entry > Len(r.body) => cur = 3
  <2>1. /\ a.bytes \in Seq(Byte) /\ a.cur \in Nat /\ a.entry \in 1 .. Len(r.body) + 1
        /\ Len(a.bytes) <= room /\ (a.cur < 3 => a.entry = 1) /\ (a.entry > Len(r.body) => a.cur = 3)
    BY <1>2 DEF Right, Placed
  <2> QED  BY <2>1
<1>4. PICK q \in ListReply : q = [r EXCEPT !.cur = cur, !.entry = entry]
  <2>1. entry \in Nat  BY ListParts
  <2> QED  BY <2>1 DEF ListOf, ListReply
<1>5. q.list = TRUE /\ q.head = r.head /\ q.body = r.body /\ q.cur = cur /\ q.entry = entry
  BY <1>4 DEF ListOf, ListReply
<1>6. b.r = q /\ b.bytes = s  BY <1>1, <1>3, <1>4
<1>7. Reply(q)  BY ZenonT(40), <1>3, <1>5, ListParts DEF Reply
<1>8. PICK z \in Seq(Byte), t \in Seq(Byte) :
        z = RestOf(r.head, r.body, cur, entry) /\ t = RestOf(r.head, r.body, r.cur, r.entry)
  BY ListParts, RestType
<1>9. Rest(q) = z /\ Rest(r) = t  BY <1>5, <1>8, ListParts DEF Rest
<1>10. ASSUME ~(r.cur > 3 /\ s # <<>>)  PROVE s \o z = t
  <2>1. CASE r.cur <= 3
    BY <1>2, <1>3, <1>8, <2>1 DEF Right, Exact
  <2>2. CASE ~(r.cur <= 3)
    <3>n. r.cur \in Nat  BY ListParts
    <3>1. s = <<>>  BY <1>10, <2>2, <3>n
    <3>2. z = t  BY <1>2, <1>3, <1>8, <3>1 DEF Right
    <3> QED  BY <3>1, <3>2, ConcatEmptySeq
  <2> QED  BY <2>1, <2>2
<1>11. Built(q) => z = <<>>  BY <1>5, <1>8 DEF Built, RestOf
<1>12. r.list = TRUE  BY ListParts
<1> QED  BY <1>3, <1>5, <1>6, <1>7, <1>9, <1>10, <1>11, <1>12 DEF Builds

LEMMA BuildPlain ==
  ASSUME NEW r \in PlainReply, r.cur <= Len(r.head \o r.body), NEW room \in Nat, NEW b \in Build(r, room)
  PROVE  Builds(r, room, b)
<1>1. PICK w \in Seq(Byte), l \in Nat : w = r.head \o r.body /\ l = Len(w)
  BY ConcatParts, LenProperties DEF PlainReply
<1>2. PICK cur \in 0 .. l : cur = r.cur  BY <1>1 DEF PlainReply
<1>3. r.list = FALSE  BY DEF PlainReply
<1>4. PICK to \in Nat : /\ to = (IF cur + room < l THEN cur + room ELSE l)
                       /\ to - cur <= room /\ to \in 0 .. l /\ cur <= to /\ to <= l /\ cur \in Nat
  OBVIOUS
<1>n. cur <= to /\ to <= l /\ cur \in Nat  BY <1>4
<1>5. b = [r |-> [r EXCEPT !.cur = to], bytes |-> SubSeq(w, cur + 1, to)]
  BY <1>1, <1>2, <1>3, <1>4 DEF Build
<1>6. PICK q \in PlainReply : q = [r EXCEPT !.cur = to]  BY DEF PlainReply
<1>7. q.list = FALSE /\ q.head = r.head /\ q.body = r.body /\ q.cur = to  BY <1>6 DEF PlainReply
<1>8. PICK t \in Seq(Byte) : t = SubSeq(w, cur + 1, l) /\ Len(t) = l - cur  BY <1>1, Cut
<1>9. PICK z \in Seq(Byte) : z = SubSeq(w, to + 1, l) /\ Len(z) = l - to
  <2>1. to \in 0 .. Len(w)  BY <1>1, <1>4
  <2> QED  BY <1>1, <2>1, Cut
<1>10. PICK s \in Seq(Byte) : s = SubSeq(w, cur + 1, to) /\ Len(s) = to - cur
  <2>1. \A i \in cur + 1 .. to : w[i] \in Byte
    <3>1. \A i \in cur + 1 .. to : i \in 1 .. Len(w)
      <4>1. \A i \in cur + 1 .. to : i \in 1 .. l  BY <1>n
      <4> QED  BY <1>1, <4>1
    <3> QED  BY <3>1, ElementOfSeq
  <2>2. cur + 1 \in Nat /\ to \in Nat /\ cur + 1 <= to + 1  BY <1>4
  <2>3. SubSeq(w, cur + 1, to) \in Seq(Byte) /\ Len(SubSeq(w, cur + 1, to)) = to - cur
    <3>1. /\ SubSeq(w, cur + 1, to) \in Seq(Byte)
          /\ Len(SubSeq(w, cur + 1, to)) = IF cur + 1 <= to THEN to - (cur + 1) + 1 ELSE 0
      BY <2>1, <2>2, SubSeqProperties
    <3> QED  BY <1>4, <3>1
  <2> QED  BY <2>3
<1>11. s \o z = t
  <2>1. PICK first \in 1 .. l + 1 : first = cur + 1 /\ to \in first - 1 .. l /\ l \in to .. l  BY <1>n
  <2>m. first \in 1 .. Len(w) + 1 /\ to \in first - 1 .. Len(w) /\ l \in to .. Len(w)  BY <1>1, <2>1
  <2>2. SubSeq(w, first, to) \o SubSeq(w, to + 1, l) = SubSeq(w, first, l)
    BY <2>m, ConcatAdjacentSubSeq
  <2> QED  BY <1>8, <1>9, <1>10, <2>1, <2>2
<1>12. b.r = q /\ b.bytes = s  BY <1>5, <1>6, <1>10
<1>13. Rest(q) = z /\ Rest(r) = t  BY <1>1, <1>2, <1>3, <1>7, <1>8, <1>9 DEF Rest
<1>14. Reply(q)  BY <1>1, <1>4, <1>7 DEF Reply
<1>15. Built(q) => z = <<>>
  <2>1. Built(q) => to = l  BY <1>1, <1>7 DEF Built
  <2>2. to = l => Len(z) = 0  BY <1>9
  <2> QED  BY <2>1, <2>2, EmptySeq
<1>16. Len(s) <= room  BY <1>4, <1>10
<1> QED  BY <1>3, <1>7, <1>11, <1>12, <1>13, <1>14, <1>15, <1>16 DEF Builds

LEMMA BuildReply ==
  ASSUME NEW r, Reply(r), NEW room \in Nat, NEW b \in Build(r, room)
  PROVE  Builds(r, room, b)
<1>1. CASE r \in PlainReply /\ r.cur <= Len(r.head \o r.body)  BY <1>1, BuildPlain
<1>2. CASE ~(r \in PlainReply /\ r.cur <= Len(r.head \o r.body))
  <2>1. ListOf(r)  BY <1>2 DEF Reply, ListOf
  <2> QED  BY <2>1, BuildList
<1> QED  BY <1>1, <1>2

-----------------------------------------------------------------------------
(***************************************************************************)
(* The commands                                                            *)
(***************************************************************************)

SettingsOK(s) == s \in [spoofing : 0 .. 1, cleanup : 0 .. 1, buffer : MinBuffer .. MaxBuffer,
                        select : 1 .. 255, inactivity : 1 .. 255]

\* A reply of which nothing is written yet.
Fresh(r) == Reply(r) /\ Whole(r) \in Seq(Byte) /\ Rest(r) = Whole(r)

LEMMA FreshAnswer ==
  ASSUME NEW type \in Byte, NEW cmd \in Byte, NEW body \in Seq(Byte)
  PROVE  Fresh(Answer(type, cmd, body))
<1>0. <<type, cmd>> \in Seq(Byte)  OBVIOUS
<1>1. PICK head \in Seq(Byte) : head = <<type, cmd>>  BY <1>0
<1>2. PICK r : r = Answer(type, cmd, body)  OBVIOUS
<1>3. r = [list |-> FALSE, head |-> head, body |-> body, cur |-> 0, entry |-> 1]  BY <1>1, <1>2 DEF Answer
<1>4. r.list = FALSE /\ r.head = head /\ r.body = body /\ r.cur = 0 /\ r.entry = 1  BY <1>3
<1>5. PICK w \in Seq(Byte), l \in Nat : w = head \o body /\ l = Len(w)  BY ConcatParts, LenProperties
<1>6. r \in PlainReply  BY <1>3 DEF PlainReply
<1>7. Reply(r)  BY <1>4, <1>5, <1>6 DEF Reply
<1>8. Whole(r) = w  BY <1>4, <1>5 DEF Whole
<1>9. Rest(r) = SubSeq(w, 1, Len(w))
  <2>1. 0 + 1 = 1  OBVIOUS
  <2> QED  BY <1>4, <1>5, <2>1 DEF Rest
<1>10. SubSeq(w, 1, Len(w)) = w  BY SubSeqFull
<1> QED  BY <1>2, <1>7, <1>8, <1>9, <1>10 DEF Fresh

LEMMA FreshList ==
  ASSUME NEW type \in Byte, NEW cmd \in Byte, NEW body \in Seq(Shows), Len(body) \in Byte, Len(body) >= 1
  PROVE  Fresh(UserList(type, cmd, body))
<1>0. PICK n \in Byte : n = Len(body) /\ n \in Nat /\ n >= 1  BY LenProperties
<1>h. <<type, cmd, n>> \in Seq(Byte) /\ Len(<<type, cmd, n>>) = 3  OBVIOUS
<1>1. PICK head \in Seq(Byte) : head = <<type, cmd, n>> /\ Len(head) = 3  BY <1>h
<1>2. PICK r : r = UserList(type, cmd, body)  OBVIOUS
<1>3. r = [list |-> TRUE, head |-> head, body |-> body, cur |-> 0, entry |-> 1]  BY <1>0, <1>1, <1>2 DEF UserList
<1>4. r.list = TRUE /\ r.head = head /\ r.body = body /\ r.cur = 0 /\ r.entry = 1  BY <1>3
<1>5. r \in ListReply  BY <1>3 DEF ListReply
<1>6. Reply(r)
  <2>1. 1 \in 1 .. n + 1 /\ ~(1 > n)  BY <1>0
  <2> QED  BY <1>0, <1>1, <1>4, <1>5, <2>1 DEF Reply
<1>7. PICK z \in Seq(Byte) : z = Behind(body, 0)
  <2>1. 0 \in 0 .. Len(body)  BY <1>0
  <2> QED  BY <2>1, BehindParts
<1>8. Whole(r) = head \o z
  <2>1. DOMAIN body = 1 .. n  BY <1>0, LenProperties
  <2>2. [i \in DOMAIN body |-> Entry(body[i])] = [i \in 1 .. n - 0 |-> Shown(body)[0 + i].bytes]
    <3>1. n - 0 = n  BY <1>0
    <3>2. \A i \in 1 .. n : Shown(body)[0 + i].bytes = Entry(body[i])
      <4>1. \A i \in 1 .. n : 0 + i = i  OBVIOUS
      <4>2. \A i \in 1 .. n : Shown(body)[i].bytes = Entry(body[i])  BY <1>0, ShownMessages
      <4> QED  BY <4>1, <4>2
    <3> QED  BY <2>1, <3>1, <3>2
  <2>3. z = FlattenSeq([i \in DOMAIN body |-> Entry(body[i])])  BY <1>0, <1>7, <2>2 DEF Behind, BytesOf
  <2> QED  BY <1>4, <2>3 DEF Whole
<1>9. Rest(r) = head \o z
  <2>1. ~(1 > Len(body)) /\ 0 < 3 /\ 0 + 1 = 1  BY <1>0
  <2>2. RestOf(head, body, 0, 1) = SubSeq(head, 1, 3) \o z  BY <1>7, <2>1 DEF RestOf
  <2>3. SubSeq(head, 1, 3) = head  BY <1>1, SubSeqFull
  <2> QED  BY <1>4, <2>2, <2>3 DEF Rest
<1>10. head \o z \in Seq(Byte)  BY ConcatParts
<1> QED  BY <1>2, <1>6, <1>8, <1>9, <1>10 DEF Fresh

\* The users, one by one, in some order.
LEMMA UsersInOrder ==
  ASSUME NEW S, IsFiniteSet(S)
  PROVE  /\ SetToSeq(S) \in [1 .. Cardinality(S) -> S] /\ Cardinality(S) \in Nat
         /\ \A i, j \in 1 .. Cardinality(S) : SetToSeq(S)[i] = SetToSeq(S)[j] => i = j
<1>1. Cardinality(S) \in Nat /\ ExistsBijection(1 .. Cardinality(S), S)  BY FS_CardinalityType
<1>2. \E f \in [1 .. Cardinality(S) -> S] : IsInjective(f)
  BY <1>1 DEF ExistsBijection, Bijection, Injection
<1>3. SetToSeq(S) \in [1 .. Cardinality(S) -> S] /\ IsInjective(SetToSeq(S))  BY <1>2 DEF SetToSeq
<1> QED  BY <1>1, <1>3 DEF IsInjective

LEMMA ListFresh ==
  ASSUME IsUsers(users), user \in DOMAIN users, NEW names, names = SetToSeq(DOMAIN users),
         NEW type \in Byte, NEW cmd \in Byte
  PROVE  Fresh(UserList(type, cmd, [i \in DOMAIN names |-> [name |-> names[i], admin |-> users[names[i]].admin]]))
<1>1. IsFiniteSet(DOMAIN users) /\ Cardinality(DOMAIN users) <= MaxUsers /\ MaxUsers \in Byte
      /\ \A name \in DOMAIN users : IsString(name) /\ users[name].admin \in 0 .. 1
  BY UsersAssumption DEF IsUsers
<1>2. PICK n \in Nat : n = Cardinality(DOMAIN users) /\ names \in [1 .. n -> DOMAIN users]
  BY <1>1, UsersInOrder
<1>3. n >= 1 /\ n \in Byte
  <2>1. n # 0  BY <1>1, <1>2, FS_EmptySet
  <2>2. PICK max \in Nat : max = MaxUsers /\ max <= 255  BY <1>1 DEF Byte
  <2>3. n <= max  BY <1>1, <1>2, <2>2
  <2> QED  BY <2>1, <2>2, <2>3 DEF Byte
<1>4. PICK body : body = [i \in DOMAIN names |-> [name |-> names[i], admin |-> users[names[i]].admin]]
  OBVIOUS
<1>5. body \in Seq(Shows) /\ Len(body) = n
  <2>1. DOMAIN names = 1 .. n  BY <1>2
  <2>2. ASSUME NEW i \in 1 .. n  PROVE [name |-> names[i], admin |-> users[names[i]].admin] \in Shows
    <3>1. PICK name \in DOMAIN users : name = names[i]  BY <1>2
    <3>2. IsString(name) /\ users[name].admin \in 0 .. 1  BY <1>1
    <3>3. name \in Names  BY <3>2, StringType DEF Names
    <3> QED  BY <3>1, <3>2, <3>3 DEF Shows
  <2>3. body \in [1 .. n -> Shows]  BY <1>4, <2>1, <2>2
  <2> QED  BY <2>3
<1> QED  BY <1>3, <1>4, <1>5, FreshList

LEMMA BigEndianBytes ==
  ASSUME NEW v \in Nat, NEW w \in {1, 2, 4}
  PROVE  BigEndian(v, w) \in Seq(Byte)
<1>1. ASSUME NEW i \in 1 .. w  PROVE (v \div Weight[4 - w + i]) % 256 \in Byte
  <2>1. PICK k \in 1 .. 4 : k = 4 - w + i  OBVIOUS
  <2>2. Weight[1] = 16777216 /\ Weight[2] = 65536 /\ Weight[3] = 256 /\ Weight[4] = 1  BY DEF Weight
  <2>3. k = 1 \/ k = 2 \/ k = 3 \/ k = 4  OBVIOUS
  <2>4. PICK z \in Nat \ {0} : z = Weight[k]  BY <2>2, <2>3
  <2>5. PICK d \in Int : d = v \div z  BY ModParts
  <2>6. d % 256 \in 0 .. 256 - 1  BY ModParts
  <2>7. d % 256 \in Byte  BY <2>6 DEF Byte
  <2> QED  BY <2>1, <2>4, <2>5, <2>7
<1>2. BigEndian(v, w) \in [1 .. w -> Byte]  BY ZenonT(40), <1>1 DEF BigEndian
<1>3. w \in Nat  OBVIOUS
<1> QED  BY <1>2, <1>3

LEMMA WordBytes ==
  ASSUME NEW v \in Nat, NEW w \in {1, 2, 4, 8}
  PROVE  Word(v, w) \in Seq(Byte)
<1>1. CASE w = 8
  <2>1. 4 \in {1, 2, 4} /\ 0 \in Nat  OBVIOUS
  <2>2. BigEndian(0, 4) \in Seq(Byte) /\ BigEndian(v, 4) \in Seq(Byte)  BY <2>1, BigEndianBytes
  <2> QED  BY <1>1, <2>2, ConcatParts DEF Word
<1>2. CASE w # 8
  <2>1. w \in {1, 2, 4}  BY <1>2
  <2> QED  BY <1>2, <2>1, BigEndianBytes DEF Word
<1> QED  BY <1>1, <1>2

\* What a command leaves: a reply, users and settings.
Leaves == Fresh(reply') /\ IsUsers(users') /\ SettingsOK(settings')

Commanded(p) ==
  /\ IsUsers(users) /\ user \in DOMAIN users /\ SettingsOK(settings)
  /\ p \in RequestParser /\ Understandable(p)

LEMMA StatusFresh ==
  ASSUME NEW p \in RequestParser, NEW s \in Byte, Status(p, s)
  PROVE  Fresh(reply')
<1>1. p.type \in Byte /\ p.cmd \in Byte  BY DEF RequestParser
<1>2. <<s>> \in Seq(Byte)  BY OneByte
<1>3. Fresh(Answer(p.type, p.cmd, <<s>>))  BY <1>1, <1>2, FreshAnswer
<1> QED  BY <1>3 DEF Status

LEMMA ListsUsers == ASSUME NEW p, Commanded(p), ListUsers(p)  PROVE Leaves
<1>1. p.type \in Byte /\ p.cmd \in Byte  BY DEF Commanded, RequestParser
<1>2. PICK names : /\ names = SetToSeq(DOMAIN users)
                   /\ reply' = UserList(p.type, p.cmd,
                        [i \in DOMAIN names |-> [name |-> names[i], admin |-> users[names[i]].admin]])
  BY DEF ListUsers
<1>3. Fresh(reply')  BY <1>1, <1>2, ListFresh DEF Commanded
<1>4. users' = users /\ settings' = settings  BY DEF ListUsers, NoEffect
<1> QED  BY <1>3, <1>4 DEF Leaves, Commanded

LEMMA Numbers ==
  ASSUME NEW p, Commanded(p), p.state = "DONE", NEW v \in Statistic, Number(p, v)
  PROVE  Leaves
<1>1. p.type \in Byte /\ p.cmd \in Byte  BY DEF Commanded, RequestParser
<1>2. p.type = Query /\ p.cmd > 0  BY DEF Number
<1>3. p.cmd \in 1 .. 11
  <2>1. ArgState(p.type, p.cmd) # "BAD_COMMAND"  BY DEF Commanded, Understandable
  <2>2. p.cmd \in 0 .. 10 \/ p.cmd = 11  BY <1>2, <2>1 DEF ArgState, Query, Modification
  <2> QED  BY <1>2, <2>2
<1>4. Width[p.cmd] \in {1, 2, 4, 8}
  <2>1. Width[1] = 8 /\ Width[2] = 2 /\ Width[3] = 2 /\ Width[4] = 8 /\ Width[5] = 8 /\ Width[6] = 1
        /\ Width[7] = 1 /\ Width[8] = 4 /\ Width[9] = 1 /\ Width[10] = 1 /\ Width[11] = 2
    BY DEF Width
  <2>2. p.cmd = 1 \/ p.cmd = 2 \/ p.cmd = 3 \/ p.cmd = 4 \/ p.cmd = 5 \/ p.cmd = 6 \/ p.cmd = 7
        \/ p.cmd = 8 \/ p.cmd = 9 \/ p.cmd = 10 \/ p.cmd = 11
    BY <1>3
  <2> QED  BY <2>1, <2>2
<1>5. Value(p, v) \in Nat
  <2>1. Cardinality(DOMAIN users) \in Nat  BY FS_CardinalityType DEF Commanded, IsUsers
  <2>2. settings.buffer \in Nat /\ settings.select \in Nat /\ settings.inactivity \in Nat
    <3>1. /\ settings.buffer \in MinBuffer .. MaxBuffer /\ settings.select \in 1 .. 255
          /\ settings.inactivity \in 1 .. 255
      BY DEF Commanded, SettingsOK
    <3>2. MinBuffer \in Nat /\ MaxBuffer \in Int  BY DEF MinBuffer, MaxBuffer
    <3> QED  BY SMTT(40), <3>1, <3>2
  <2>3. Statistic \subseteq Nat  BY NumbersAssumption
  <2> QED  BY <2>1, <2>2, <2>3 DEF Value
<1>6. PICK x \in Nat : reply' = Answer(p.type, p.cmd, Word(x, Width[p.cmd]))  BY <1>5 DEF Number
<1>7. Word(x, Width[p.cmd]) \in Seq(Byte)  BY <1>4, WordBytes
<1>8. Fresh(reply')  BY <1>1, <1>6, <1>7, FreshAnswer
<1>9. users' = users /\ settings' = settings  BY DEF Number, NoEffect
<1> QED  BY <1>8, <1>9 DEF Leaves, Commanded

\* One user more, one user less.
LEMMA OneUserMore ==
  ASSUME NEW u, IsUsers(u), NEW name, name \notin DOMAIN u, IsString(name), Cardinality(DOMAIN u) < MaxUsers,
         NEW new, new.admin \in 0 .. 1
  PROVE  IsUsers([n \in DOMAIN u \cup {name} |-> IF n = name THEN new ELSE u[n]])
<1>1. PICK c \in Nat : c = Cardinality(DOMAIN u) /\ IsFiniteSet(DOMAIN u) /\ c < MaxUsers
  BY FS_CardinalityType DEF IsUsers
<1>2. IsFiniteSet(DOMAIN u \cup {name}) /\ Cardinality(DOMAIN u \cup {name}) = c + 1
  BY <1>1, FS_AddElement
<1>3. c + 1 <= MaxUsers
  <2>1. MaxUsers \in Nat  BY UsersAssumption DEF Byte
  <2> QED  BY <1>1, <2>1
<1>4. PICK v : v = [n \in DOMAIN u \cup {name} |-> IF n = name THEN new ELSE u[n]]  OBVIOUS
<1>5. DOMAIN v = DOMAIN u \cup {name}  BY <1>4
<1>6. ASSUME NEW n \in DOMAIN v  PROVE IsString(n) /\ v[n].admin \in 0 .. 1
  <2>1. CASE n = name  BY <1>4, <1>5, <2>1
  <2>2. CASE n # name
    <3>1. n \in DOMAIN u /\ v[n] = u[n]  BY <1>4, <1>5, <2>2
    <3> QED  BY <3>1 DEF IsUsers
  <2> QED  BY <2>1, <2>2
<1> QED  BY <1>2, <1>3, <1>4, <1>5, <1>6 DEF IsUsers

LEMMA OneUserLess ==
  ASSUME NEW u, IsUsers(u), NEW name
  PROVE  IsUsers([n \in DOMAIN u \ {name} |-> u[n]])
<1>1. PICK c \in Nat : c = Cardinality(DOMAIN u) /\ IsFiniteSet(DOMAIN u) /\ c <= MaxUsers
  BY FS_CardinalityType DEF IsUsers
<1>2. PICK d \in Nat : d = Cardinality(DOMAIN u \ {name}) /\ d <= c /\ IsFiniteSet(DOMAIN u \ {name})
  <2>1. IsFiniteSet(DOMAIN u \ {name})
        /\ Cardinality(DOMAIN u \ {name}) = IF name \in DOMAIN u THEN c - 1 ELSE c
    BY <1>1, FS_RemoveElement
  <2>2. Cardinality(DOMAIN u \ {name}) \in Nat  BY <2>1, FS_CardinalityType
  <2> QED  BY <2>1, <2>2
<1>3. d <= MaxUsers
  <2>1. MaxUsers \in Nat  BY UsersAssumption DEF Byte
  <2> QED  BY <1>1, <1>2, <2>1
<1>4. PICK v : v = [n \in DOMAIN u \ {name} |-> u[n]]  OBVIOUS
<1>5. DOMAIN v = DOMAIN u \ {name} /\ \A n \in DOMAIN v : n \in DOMAIN u /\ v[n] = u[n]  BY <1>4
<1>6. \A n \in DOMAIN v : IsString(n) /\ v[n].admin \in 0 .. 1  BY <1>5 DEF IsUsers
<1> QED  BY <1>2, <1>3, <1>4, <1>5, <1>6 DEF IsUsers

LEMMA AddsUser == ASSUME NEW p, Commanded(p), p.state = "DONE", AddUser(p)  PROVE Leaves
<1>1. p.type = Modification /\ p.cmd = 0  BY DEF AddUser
<1>2. ArgState(p.type, p.cmd) = "ADD_USER"  BY <1>1 DEF ArgState, Query, Modification
<1>3. PICK b \in Seq(Byte) : ArgumentBytes("ADD_USER", p.args, b)  BY <1>1, <1>2 DEF Commanded, Understandable
<1>4. IsString(p.args[1]) /\ p.args[3] \in Byte  BY <1>3 DEF ArgumentBytes
<1>5. PICK name, pass, admin : name = p.args[1] /\ pass = p.args[2] /\ admin = p.args[3]  OBVIOUS
<1>6. PICK wrong \in Byte :
        /\ Status(p, wrong)
        /\ wrong = 0 => ~Exists(name) /\ ~(admin > 1) /\ ~(Cardinality(DOMAIN users) >= MaxUsers)
        /\ users' = IF wrong # 0 THEN users
                    ELSE [n \in DOMAIN users \cup {name} |->
                            IF n = name THEN [pass |-> pass, admin |-> admin] ELSE users[n]]
  <2>1. PICK wrong \in {InvalidParameter, 1, 2, 0} :
          /\ Status(p, wrong)
          /\ wrong = 0 => ~Exists(name) /\ ~(admin > 1) /\ ~(Cardinality(DOMAIN users) >= MaxUsers)
          /\ users' = IF wrong # 0 THEN users
                      ELSE [n \in DOMAIN users \cup {name} |->
                              IF n = name THEN [pass |-> pass, admin |-> admin] ELSE users[n]]
    BY <1>5 DEF AddUser, InvalidParameter
  <2>2. wrong \in Byte  BY <2>1 DEF InvalidParameter, Byte
  <2> QED  BY <2>1, <2>2
<1>7. Fresh(reply')  BY <1>6, StatusFresh DEF Commanded
<1>8. IsUsers(users')
  <2>1. CASE wrong # 0  BY <1>6, <2>1 DEF Commanded
  <2>2. CASE wrong = 0
    <3>1. name \notin DOMAIN users /\ IsString(name) /\ admin \in 0 .. 1
      <4>1. ~Exists(name) /\ ~(admin > 1)  BY <1>6, <2>2
      <4>2. admin \in 0 .. 1
        <5>1. admin \in Byte  BY <1>4, <1>5
        <5> QED  BY <4>1, <5>1 DEF Byte
      <4>3. IsString(name)  BY <1>4, <1>5
      <4> QED  BY <4>1, <4>2, <4>3 DEF Exists
    <3>2. Cardinality(DOMAIN users) < MaxUsers
      <4>1. Cardinality(DOMAIN users) \in Nat  BY FS_CardinalityType DEF Commanded, IsUsers
      <4>2. MaxUsers \in Nat  BY UsersAssumption DEF Byte
      <4> QED  BY <1>6, <2>2, <4>1, <4>2
    <3>n. PICK new : new = [pass |-> pass, admin |-> admin]  OBVIOUS
    <3>3. new = [pass |-> pass, admin |-> admin] /\ new.admin \in 0 .. 1  BY <3>1, <3>n
    <3>4. users' = [n \in DOMAIN users \cup {name} |-> IF n = name THEN new ELSE users[n]]  BY <1>6, <2>2, <3>3
    <3>5. IsUsers([n \in DOMAIN users \cup {name} |-> IF n = name THEN new ELSE users[n]])
      BY SMTT(30), <3>1, <3>2, <3>3, OneUserMore DEF Commanded
    <3> QED  BY <3>4, <3>5
  <2> QED  BY <2>1, <2>2
<1>9. settings' = settings  BY DEF AddUser
<1> QED  BY <1>7, <1>8, <1>9 DEF Leaves, Commanded

LEMMA RemovesUser == ASSUME NEW p, Commanded(p), RemoveUser(p)  PROVE Leaves
<1>n. PICK name : name = p.args[1]  OBVIOUS
<1>1. PICK wrong \in Byte : Status(p, wrong) /\ users' = IF wrong = 0 THEN Without(name) ELSE users
  <2>2. PICK wrong \in {InvalidParameter, 1, 0} : Status(p, wrong) /\ users' = IF wrong = 0 THEN Without(name) ELSE users
    BY <1>n DEF RemoveUser, InvalidParameter
  <2>3. wrong \in Byte  BY <2>2 DEF InvalidParameter, Byte
  <2> QED  BY <2>2, <2>3
<1>2. Fresh(reply')  BY <1>1, StatusFresh DEF Commanded
<1>3. IsUsers(users')
  <2>1. IsUsers(Without(name))  BY OneUserLess DEF Commanded, Without
  <2> QED  BY <1>1, <2>1 DEF Commanded
<1>4. settings' = settings  BY DEF RemoveUser
<1> QED  BY <1>2, <1>3, <1>4 DEF Leaves, Commanded

LEMMA Sets == ASSUME NEW p, Commanded(p), p.state = "DONE", Set(p)  PROVE Leaves
<1>1. p.type = Modification /\ p.cmd > 1 /\ p.cmd \in Byte  BY DEF Set, Commanded, RequestParser
<1>2. p.cmd \in 2 .. 6
  <2>1. ArgState(p.type, p.cmd) # "BAD_COMMAND"  BY DEF Commanded, Understandable
  <2>2. p.cmd \in 0 .. 6  BY <1>1, <2>1 DEF ArgState, Query, Modification
  <2> QED  BY <1>1, <2>2
<1>3. PICK s \in Byte : Status(p, s)
  <2>1. PICK s \in {0, 1, InvalidParameter} : Status(p, s)  BY DEF Set
  <2>2. s \in Byte  BY <2>1 DEF InvalidParameter, Byte
  <2> QED  BY <2>1, <2>2
<1>4. Fresh(reply')  BY <1>3, StatusFresh DEF Commanded
<1>5. SettingsOK(settings')
  <2>1. CASE settings' = settings  BY <2>1 DEF Commanded
  <2>2. CASE p.args[1] \in Accepted(p.cmd) /\ settings' = [settings EXCEPT ![Setting(p.cmd)] = p.args[1]]
    <3>1. PICK x : x = p.args[1]  OBVIOUS
    <3>2. CASE p.cmd = 2
      <4>a. Setting(p.cmd) = "spoofing"  BY <3>2 DEF Setting
      <4>b. Accepted(p.cmd) = 0 .. 1  BY <3>2 DEF Accepted
      <4>c. settings' = [settings EXCEPT !["spoofing"] = x]  BY Zenon, <2>2, <3>1, <4>a
      <4>1. x \in 0 .. 1 /\ settings' = [settings EXCEPT !.spoofing = x]
        BY <2>2, <3>1, <4>b, <4>c
      <4> QED  BY <4>1 DEF Commanded, SettingsOK
    <3>3. CASE p.cmd = 3
      <4>a. Setting(p.cmd) = "cleanup"  BY <3>3 DEF Setting
      <4>b. Accepted(p.cmd) = 0 .. 1  BY <3>3 DEF Accepted
      <4>c. settings' = [settings EXCEPT !["cleanup"] = x]  BY Zenon, <2>2, <3>1, <4>a
      <4>1. x \in 0 .. 1 /\ settings' = [settings EXCEPT !.cleanup = x]
        BY <2>2, <3>1, <4>b, <4>c
      <4> QED  BY <4>1 DEF Commanded, SettingsOK
    <3>4. CASE p.cmd = 4
      <4>a. Setting(p.cmd) = "buffer"  BY <3>4 DEF Setting
      <4>b. Accepted(p.cmd) = MinBuffer .. MaxBuffer  BY <3>4 DEF Accepted
      <4>c. settings' = [settings EXCEPT !["buffer"] = x]  BY Zenon, <2>2, <3>1, <4>a
      <4>1. x \in MinBuffer .. MaxBuffer /\ settings' = [settings EXCEPT !.buffer = x]
        BY <2>2, <3>1, <4>b, <4>c
      <4> QED  BY <4>1 DEF Commanded, SettingsOK
    <3>5. CASE p.cmd = 5
      <4>a. Setting(p.cmd) = "select"  BY <3>5 DEF Setting
      <4>b. Accepted(p.cmd) = 1 .. 255  BY <3>5 DEF Accepted
      <4>c. settings' = [settings EXCEPT !["select"] = x]  BY Zenon, <2>2, <3>1, <4>a
      <4>1. x \in 1 .. 255 /\ settings' = [settings EXCEPT !.select = x]
        BY ZenonT(40), <2>2, <3>1, <4>b, <4>c
      <4> QED  BY <4>1 DEF Commanded, SettingsOK
    <3>6. CASE p.cmd = 6
      <4>a. Setting(p.cmd) = "inactivity"  BY <3>6 DEF Setting
      <4>b. Accepted(p.cmd) = 1 .. 255  BY <3>6 DEF Accepted
      <4>c. settings' = [settings EXCEPT !["inactivity"] = x]  BY Zenon, <2>2, <3>1, <4>a
      <4>1. x \in 1 .. 255 /\ settings' = [settings EXCEPT !.inactivity = x]
        BY <2>2, <3>1, <4>b, <4>c
      <4> QED  BY <4>1 DEF Commanded, SettingsOK
    <3> QED  BY <1>2, <3>2, <3>3, <3>4, <3>5, <3>6
  <2> QED  BY <2>1, <2>2 DEF Set
<1>6. users' = users  BY DEF Set
<1> QED  BY <1>4, <1>5, <1>6 DEF Leaves, Commanded

LEMMA Refuses == ASSUME NEW p, Commanded(p), Refuse(p)  PROVE Leaves
<1>1. PICK type \in Byte : reply' = Answer(type, Invalid, <<>>)
  <2>1. p.type \in Byte /\ Invalid \in Byte  BY DEF Commanded, RequestParser, Invalid, Byte
  <2> QED  BY <2>1 DEF Refuse
<1>2. Invalid \in Byte /\ <<>> \in Seq(Byte)  BY EmptySeq DEF Invalid, Byte
<1>3. Fresh(reply')  BY <1>1, <1>2, FreshAnswer
<1>4. users' = users /\ settings' = settings  BY DEF Refuse, NoEffect
<1> QED  BY <1>3, <1>4 DEF Leaves, Commanded

LEMMA ExecuteLeaves == ASSUME NEW p, Commanded(p), NEW v \in Statistic, Execute(p, v)  PROVE Leaves
BY ListsUsers, Numbers, AddsUser, RemovesUser, Sets, Refuses DEF Execute

-----------------------------------------------------------------------------
(***************************************************************************)
(* What the commands answer is what pipoProtocol.txt says                  *)
(***************************************************************************)

\* The message m is the one that the parser p has read, and h says what is true
\* when it is executed.
Asked(p, m) == m.kind = "request" /\ m.seen = <<p.type, p.cmd, p.args>>
Noted(h, v) == /\ h.users = users /\ h.settings = settings /\ h.by = user /\ h.counter = v
               /\ h.nextUsers = users' /\ h.nextSettings = settings'
Answers(m, h) == Documented(m, h) \cup Disputed(m, h)

LEMMA WholeAnswer ==
  ASSUME NEW type, NEW cmd, NEW body
  PROVE  Whole(Answer(type, cmd, body)) = <<type, cmd>> \o body
<1>1. PICK r : r = Answer(type, cmd, body)  OBVIOUS
<1>2. r.list = FALSE /\ r.head = <<type, cmd>> /\ r.body = body  BY <1>1 DEF Answer
<1> QED  BY <1>1, <1>2 DEF Whole

LEMMA WholeStatus ==
  ASSUME NEW type \in Byte, NEW cmd \in Byte, NEW s \in Byte
  PROVE  Whole(Answer(type, cmd, <<s>>)) = <<type, cmd, s>>
<1>1. PICK a \in Seq(Byte) : a = <<type, cmd>> /\ Len(a) = 2 /\ a[1] = type /\ a[2] = cmd
  <2>1. <<type, cmd>> \in Seq(Byte) /\ Len(<<type, cmd>>) = 2  OBVIOUS
  <2> QED  BY <2>1
<1>2. PICK z \in Seq(Byte) : z = <<s>> /\ Len(z) = 1 /\ z[1] = s  BY OneByte
<1>3. PICK d \in Seq(Byte) : /\ d = a \o z /\ Len(d) = Len(a) + Len(z)
                             /\ \A i \in 1 .. Len(a) : d[i] = a[i]
                             /\ \A i \in 1 .. Len(z) : d[Len(a) + i] = z[i]
  BY Pasted
<1>4. Len(d) = 3 /\ d[1] = type /\ d[2] = cmd /\ d[3] = s
  <2>1. 1 \in 1 .. 2 /\ 2 \in 1 .. 2 /\ 1 \in 1 .. 1 /\ 2 + 1 = 3  OBVIOUS
  <2> QED  BY <1>1, <1>2, <1>3, <2>1
<1>5. PICK e \in Seq(Byte) : e = <<type, cmd, s>> /\ Len(e) = 3 /\ e[1] = type /\ e[2] = cmd /\ e[3] = s
  <2>1. <<type, cmd, s>> \in Seq(Byte) /\ Len(<<type, cmd, s>>) = 3  OBVIOUS
  <2> QED  BY <2>1
<1>6. \A i \in 1 .. 3 : i = 1 \/ i = 2 \/ i = 3  OBVIOUS
<1>7. d = e  BY <1>4, <1>5, <1>6, SeqEqual
<1>8. Whole(Answer(type, cmd, z)) = a \o z
  <2>1. Whole(Answer(type, cmd, z)) = <<type, cmd>> \o z  BY WholeAnswer
  <2>2. a = <<type, cmd>>  BY <1>1
  <2> QED  BY <2>1, <2>2
<1>9. Answer(type, cmd, <<s>>) = Answer(type, cmd, z)  BY Zenon, <1>2
<1> QED  BY Zenon, <1>3, <1>5, <1>7, <1>8, <1>9

\* A status that the document has for what a modification did.
LEMMA Modified ==
  ASSUME NEW p \in RequestParser, p.type = Modification, p.cmd \in 0 .. 6, NEW m, Asked(p, m), NEW h,
         NEW s \in Byte, Status(p, s),
         \/ p.cmd = 0 /\ s \in AddStatus(p.args, h)
         \/ p.cmd = 1 /\ s \in RemoveStatus(p.args[1], h)
         \/ p.cmd \in 2 .. 6 /\ s \in SetStatus(p.cmd, p.args[1], h)
  PROVE  Whole(reply') \in Answers(m, h)
<1>1. p.type \in Byte /\ p.cmd \in Byte /\ Modification # Query  BY DEF RequestParser, Modification, Query
<1>2. Whole(reply') = <<Modification, p.cmd, s>>  BY <1>1, WholeStatus DEF Status
<1>3. m.kind = "request" /\ m.seen[1] = Modification /\ m.seen[2] = p.cmd /\ m.seen[3] = p.args
  BY DEF Asked
<1>4. <<Modification, p.cmd, s>> \in ModificationAnswers(p.cmd, p.args, h)
  <2>1. CASE p.cmd = 0  BY <2>1 DEF ModificationAnswers
  <2>2. CASE p.cmd = 1  BY <2>2 DEF ModificationAnswers
  <2>3. CASE p.cmd \in 2 .. 6
    <3>1. p.cmd # 0 /\ p.cmd # 1  BY <2>3
    <3> QED  BY <2>3, <3>1 DEF ModificationAnswers
  <2> QED  BY <2>1, <2>2, <2>3
<1>5. Documented(m, h) = ModificationAnswers(p.cmd, p.args, h)  BY <1>1, <1>3 DEF Documented
<1> QED  BY <1>2, <1>4, <1>5 DEF Answers

LEMMA AddAnswered ==
  ASSUME NEW p, Commanded(p), AddUser(p), NEW m, Asked(p, m), NEW h, NEW v, Noted(h, v)
  PROVE  Whole(reply') \in Answers(m, h)
<1>1. p.type = Modification /\ p.cmd = 0 /\ p \in RequestParser  BY DEF AddUser, Commanded
<1>2. PICK name, pass, admin : name = p.args[1] /\ pass = p.args[2] /\ admin = p.args[3]  OBVIOUS
<1>3. PICK wrong \in {InvalidParameter, 1, 2, 0} :
        /\ Status(p, wrong)
        /\ wrong = InvalidParameter => admin > 1 \/ name = <<>> \/ pass = <<>>
        /\ wrong = 1 => Exists(name)
        /\ wrong = 2 => Cardinality(DOMAIN users) >= MaxUsers
        /\ wrong = 0 => ~(admin > 1 \/ name = <<>> \/ pass = <<>>) /\ ~Exists(name)
        /\ users' = IF wrong # 0 THEN users
                    ELSE [n \in DOMAIN users \cup {name} |->
                            IF n = name THEN [pass |-> pass, admin |-> admin] ELSE users[n]]
  BY SMTT(40), <1>2 DEF AddUser, InvalidParameter
<1>4. settings' = settings  BY DEF AddUser
<1>5. h.users = users /\ h.settings = settings /\ h.nextUsers = users' /\ h.nextSettings = settings'  BY DEF Noted
<1>6. wrong \in Byte /\ wrong \in {0, 1, 2, 254}  BY <1>3 DEF InvalidParameter, Byte
<1>7. wrong \in AddStatus(p.args, h)
  <2>1. CASE wrong = 0
    <3>1. name \notin DOMAIN users
          /\ users' = [n \in DOMAIN users \cup {name} |->
                         IF n = name THEN [pass |-> pass, admin |-> admin] ELSE users[n]]
      BY <1>3, <2>1 DEF Exists
    <3>2. /\ DOMAIN users' = DOMAIN users \cup {name}
          /\ users'[name] = [pass |-> pass, admin |-> admin]
          /\ \A n \in DOMAIN users : users'[n] = users[n]
      BY <3>1
    <3> QED  BY <1>2, <1>3, <1>4, <1>5, <2>1, <3>1, <3>2 DEF AddStatus
  <2>2. CASE wrong # 0
    <3>1. Same(h)  BY <1>3, <1>4, <1>5, <2>2 DEF Same
    <3>2. CASE wrong = 1  BY <1>2, <1>3, <1>5, <3>1, <3>2 DEF AddStatus, Exists
    <3>3. CASE wrong = 2  BY <1>3, <1>5, <3>1, <3>3 DEF AddStatus
    <3>4. CASE wrong = 254  BY <1>2, <1>3, <3>1, <3>4 DEF AddStatus, InvalidParameter
    <3> QED  BY <1>6, <2>2, <3>2, <3>3, <3>4
  <2> QED  BY <2>1, <2>2
<1> QED  BY <1>1, <1>3, <1>6, <1>7, Modified

LEMMA RemoveAnswered ==
  ASSUME NEW p, Commanded(p), RemoveUser(p), NEW m, Asked(p, m), NEW h, NEW v, Noted(h, v)
  PROVE  Whole(reply') \in Answers(m, h)
<1>1. p.type = Modification /\ p.cmd = 1 /\ p \in RequestParser  BY DEF RemoveUser, Commanded
<1>2. PICK name : name = p.args[1]  OBVIOUS
<1>3. PICK wrong \in {InvalidParameter, 1, 0} :
        /\ Status(p, wrong)
        /\ wrong = InvalidParameter => ~MayRemove(name)
        /\ wrong = 1 => ~Exists(name)
        /\ wrong = 0 => Exists(name)
        /\ users' = IF wrong = 0 THEN Without(name) ELSE users
  BY <1>2 DEF RemoveUser, InvalidParameter
<1>4. settings' = settings  BY DEF RemoveUser
<1>5. /\ h.users = users /\ h.settings = settings /\ h.nextUsers = users' /\ h.nextSettings = settings'
      /\ h.by = user
  BY DEF Noted
<1>6. wrong \in Byte /\ wrong \in {0, 1, 254}  BY <1>3 DEF InvalidParameter, Byte
<1>7. wrong \in RemoveStatus(name, h)
  <2>1. CASE wrong = 0
    <3>1. name \in DOMAIN users /\ users' = [n \in DOMAIN users \ {name} |-> users[n]]
      BY <1>3, <2>1 DEF Exists, Without
    <3>2. DOMAIN users' = DOMAIN users \ {name} /\ \A n \in DOMAIN users' : users'[n] = users[n]
      BY <3>1
    <3> QED  BY <1>4, <1>5, <2>1, <3>1, <3>2 DEF RemoveStatus
  <2>2. CASE wrong # 0
    <3>1. Same(h)  BY <1>3, <1>4, <1>5, <2>2 DEF Same
    <3>2. CASE wrong = 1  BY <1>3, <1>5, <3>1, <3>2 DEF RemoveStatus, Exists
    <3>3. CASE wrong = 254  BY <1>3, <1>5, <3>1, <3>3 DEF RemoveStatus, InvalidParameter, MayRemove
    <3> QED  BY <1>6, <2>2, <3>2, <3>3
  <2> QED  BY <2>1, <2>2
<1> QED  BY <1>1, <1>2, <1>3, <1>6, <1>7, Modified

LEMMA SetAnswered ==
  ASSUME NEW p, Commanded(p), p.state = "DONE", Set(p), NEW m, Asked(p, m), NEW h, NEW v, Noted(h, v)
  PROVE  Whole(reply') \in Answers(m, h)
<1>1. p.type = Modification /\ p.cmd > 1 /\ p.cmd \in Byte /\ p \in RequestParser
  BY DEF Set, Commanded, RequestParser
<1>2. ArgState(p.type, p.cmd) # "BAD_COMMAND"
      /\ \E b \in Seq(Byte) : ArgumentBytes(ArgState(p.type, p.cmd), p.args, b)
  BY DEF Commanded, Understandable
<1>3. p.cmd \in 2 .. 6
  <2>1. p.cmd \in 0 .. 6  BY <1>1, <1>2 DEF ArgState, Query, Modification
  <2> QED  BY <1>1, <2>1
<1>4. PICK c \in 2 .. 6, x \in Nat : c = p.cmd /\ x = p.args[1] /\ (c # 4 => x \in Byte)
  <2>1. ArgState(p.type, p.cmd) = IF p.cmd = 4 THEN "UINT_32" ELSE "UINT_8"
    BY <1>1, <1>3 DEF ArgState, Query, Modification
  <2>2. CASE p.cmd = 4
    <3>1. p.args[1] \in Nat  BY <1>2, <2>1, <2>2 DEF ArgumentBytes
    <3> QED  BY <1>3, <2>2, <3>1
  <2>3. CASE p.cmd # 4
    <3>1. p.args[1] \in Byte  BY <1>2, <2>1, <2>3 DEF ArgumentBytes
    <3>2. p.args[1] \in Nat  BY <3>1 DEF Byte
    <3> QED  BY <1>3, <3>1, <3>2
  <2> QED  BY <2>2, <2>3
<1>5. users' = users  BY DEF Set
<1>6. h.users = users /\ h.settings = settings /\ h.nextUsers = users' /\ h.nextSettings = settings'  BY DEF Noted
<1>7. CASE x \in Accepted(c)
  <2>1. Status(p, 0) /\ settings' = [settings EXCEPT ![Setting(c)] = x]  BY <1>4, <1>7 DEF Set
  <2>2. Setting(c) = Subject[c]
    <3>1. /\ Subject[2] = "spoofing" /\ Subject[3] = "cleanup" /\ Subject[4] = "buffer"
          /\ Subject[5] = "select" /\ Subject[6] = "inactivity"
      BY DEF Subject
    <3>2. /\ Setting(2) = "spoofing" /\ Setting(3) = "cleanup" /\ Setting(4) = "buffer"
          /\ Setting(5) = "select" /\ Setting(6) = "inactivity"
      BY DEF Setting
    <3>3. c = 2 \/ c = 3 \/ c = 4 \/ c = 5 \/ c = 6  OBVIOUS
    <3> QED  BY <3>1, <3>2, <3>3
  <2>3. IF c < 4 THEN x \in 0 .. 1 ELSE x > 0
    <3>1. CASE c < 4  BY <1>7, <3>1 DEF Accepted
    <3>2. CASE c = 4
      <4>1. x \in MinBuffer .. MaxBuffer /\ MinBuffer > 0  BY <1>7, <3>2 DEF Accepted, MinBuffer
      <4>2. MinBuffer \in Int /\ MaxBuffer \in Int  BY SMT DEF MinBuffer, MaxBuffer
      <4> QED  BY <3>2, <4>1, <4>2
    <3>3. CASE c > 4
      <4>1. x \in 1 .. 255  BY <1>7, <3>3 DEF Accepted
      <4> QED  BY <3>3, <4>1
    <3> QED  BY <3>1, <3>2, <3>3
  <2>4. settings' = [settings EXCEPT ![Subject[c]] = x]  BY Zenon, <2>1, <2>2
  <2>5. 0 \in SetStatus(c, x, h)  BY <1>5, <1>6, <2>3, <2>4 DEF SetStatus
  <2>6. 0 \in Byte  BY DEF Byte
  <2>7. c \in 0 .. 6  OBVIOUS
  <2> QED  BY <1>1, <1>3, <1>4, <2>1, <2>5, <2>6, <2>7, Modified
<1>8. CASE x \notin Accepted(c)
  <2>1. PICK s \in {1, 254} : s = (IF c < 4 THEN InvalidParameter ELSE 1) /\ Status(p, s) /\ settings' = settings
    BY <1>4, <1>8 DEF Set, InvalidParameter
  <2>2. Same(h)  BY <1>5, <1>6, <2>1 DEF Same
  <2>3. s \in SetStatus(c, x, h)
    <3>1. CASE c < 4
      <4>1. x \notin 0 .. 1  BY <1>8, <3>1 DEF Accepted
      <4>2. x > 1 /\ s = 254  BY <2>1, <3>1, <4>1 DEF InvalidParameter
      <4> QED  BY <2>2, <3>1, <4>2 DEF SetStatus
    <3>2. CASE c = 4
      <4>1. x \notin MinBuffer .. MaxBuffer /\ s = 1  BY <1>8, <2>1, <3>2 DEF Accepted
      <4> QED  BY <2>2, <3>2, <4>1 DEF SetStatus
    <3>3. CASE c > 4
      <4>1. x \notin 1 .. 255 /\ s = 1  BY <1>8, <2>1, <3>3 DEF Accepted
      <4>2. x \in Byte  BY <1>4, <3>3
      <4>3. x = 0  BY <4>1, <4>2 DEF Byte
      <4> QED  BY <2>2, <3>3, <4>1, <4>3 DEF SetStatus
    <3> QED  BY <3>1, <3>2, <3>3
  <2>4. s \in Byte  BY DEF Byte
  <2>5. c \in 0 .. 6  OBVIOUS
  <2> QED  BY <1>1, <1>3, <1>4, <2>1, <2>3, <2>4, <2>5, Modified
<1> QED  BY <1>7, <1>8

\* A type or a command that there is not.
LEMMA RefuseAnswered ==
  ASSUME NEW p, Commanded(p), p.state # "DONE", Refuse(p), NEW m, Asked(p, m), NEW h
  PROVE  Whole(reply') \in Answers(m, h)
<1>1. p.type \in Byte /\ p.cmd \in Byte /\ Invalid \in Byte /\ Invalid \notin {Query, Modification}
  BY DEF Commanded, RequestParser, Invalid, Query, Modification, Byte
<1>2. m.kind = "request" /\ m.seen[1] = p.type /\ m.seen[2] = p.cmd /\ m.seen[3] = p.args
  BY DEF Asked
<1>3. PICK type \in Byte : /\ reply' = Answer(type, Invalid, <<>>)
                           /\ type = IF p.state = "BAD_TYPE" THEN Invalid ELSE p.type
  BY <1>1 DEF Refuse
<1>4. Whole(reply') = <<type, Invalid>>
  <2>1. PICK w \in Seq(Byte) : w = <<type, Invalid>>
    <3>1. <<type, Invalid>> \in Seq(Byte)  BY <1>1
    <3> QED  BY <3>1
  <2>2. w \o <<>> = w  BY ConcatEmptySeq
  <2>3. Whole(Answer(type, Invalid, <<>>)) = <<type, Invalid>> \o <<>>  BY WholeAnswer
  <2> QED  BY <1>3, <2>1, <2>2, <2>3
<1>5. CASE p.state = "BAD_TYPE"
  <2>1. p.type = Invalid /\ type = Invalid  BY <1>1, <1>3, <1>5 DEF Commanded, Understandable
  <2>2. Documented(m, h) = {<<Invalid, Invalid>>}  BY <1>1, <1>2, <2>1 DEF Documented
  <2> QED  BY <1>4, <2>1, <2>2 DEF Answers
<1>6. CASE p.state # "BAD_TYPE"
  <2>1. p.type \in {Query, Modification} /\ type = p.type /\ ArgState(p.type, p.cmd) = "BAD_COMMAND"
    BY <1>3, <1>6 DEF Commanded, Understandable
  <2>2. p.type = Query => p.cmd \notin 0 .. 11
    <3>1. ASSUME p.type = Query  PROVE p.cmd \notin 0 .. 10 /\ p.cmd # 11
      BY <2>1, <3>1 DEF ArgState
    <3> QED  BY <3>1
  <2>3. p.type = Modification => p.cmd \notin 0 .. 6
    <3>1. ASSUME p.type = Modification
          PROVE  p.cmd # 0 /\ p.cmd # 1 /\ p.cmd \notin {2, 3, 5, 6} /\ p.cmd # 4
      BY <2>1, <3>1 DEF ArgState, Query, Modification
    <3> QED  BY <3>1
  <2>4. Documented(m, h) = {<<p.type, Invalid>>}  BY <1>1, <1>2, <2>1, <2>2, <2>3 DEF Documented
  <2> QED  BY <1>4, <2>1, <2>4 DEF Answers
<1> QED  BY <1>5, <1>6

\* A number, in the width that the document has or, of connections, the code.
LEMMA NumberAnswered ==
  ASSUME NEW p, Commanded(p), p.state = "DONE", NEW v, Number(p, v), NEW m, Asked(p, m), NEW h, Noted(h, v)
  PROVE  Whole(reply') \in Answers(m, h)
<1>1. p.type = Query /\ p.cmd > 0  BY DEF Number
<1>2. ArgState(p.type, p.cmd) # "BAD_COMMAND"  BY DEF Commanded, Understandable
<1>3. PICK c \in 1 .. 11 : c = p.cmd
  <2>1. p.cmd \in 0 .. 10 \/ p.cmd = 11  BY <1>1, <1>2 DEF ArgState, Query, Modification
  <2> QED  BY <1>1, <2>1
<1>4. m.kind = "request" /\ m.seen[1] = Query /\ m.seen[2] = c /\ m.seen[3] = p.args
  BY <1>1, <1>3 DEF Asked
<1>5. Whole(reply') = <<Query, c>> \o Word(Value(p, v), Width[c])
  <2>1. PICK w : w = Word(Value(p, v), Width[c])  OBVIOUS
  <2>2. reply' = Answer(Query, c, w)  BY <1>1, <1>3, <2>1 DEF Number
  <2>3. Whole(Answer(Query, c, w)) = <<Query, c>> \o w  BY WholeAnswer
  <2> QED  BY <2>1, <2>2, <2>3
<1>6. Documented(m, h) = QueryAnswers(c, p.args, h)
  <2>1. c \in 0 .. 11 /\ Query # Modification  BY DEF Query, Modification
  <2> QED  BY <1>4, <2>1 DEF Documented
<1>7. h.users = users /\ h.settings = settings /\ h.counter = v  BY DEF Noted
<1>8. CASE c # 11
  <2>1. Width[c] = Sizes[c]
    <3>1. c = 1 \/ c = 2 \/ c = 3 \/ c = 4 \/ c = 5 \/ c = 6 \/ c = 7 \/ c = 8 \/ c = 9 \/ c = 10  BY <1>8
    <3> QED  BY <3>1 DEF Width, Sizes
  <2>2. Value(p, v) = Reported(c, h)  BY <1>3, <1>7, <1>8 DEF Value, Reported
  <2>3. QueryAnswers(c, p.args, h) = {<<Query, c>> \o Word(Reported(c, h), Sizes[c])}
    BY <1>8 DEF QueryAnswers
  <2> QED  BY <1>5, <1>6, <2>1, <2>2, <2>3 DEF Answers
<1>9. CASE c = 11
  <2>1. Width[c] = 2  BY <1>9 DEF Width
  <2>2. Value(p, v) = IF p.args[1] \in DOMAIN h.users THEN h.counter ELSE 0
    BY <1>3, <1>7, <1>9 DEF Value, Exists
  <2>3. Word(Value(p, v), 2) = BigEndian(Value(p, v), 2)  BY DEF Word
  <2>4. IsQuery(m, 11)  BY <1>4, <1>9 DEF IsQuery
  <2>5. Disputed(m, h) = {<<Query, 11>> \o BigEndian(Value(p, v), 2)}  BY <1>4, <2>2, <2>4 DEF Disputed
  <2> QED  BY <1>5, <1>9, <2>1, <2>3, <2>5 DEF Answers
<1> QED  BY <1>8, <1>9

\* The users, each once, in some order.
LEMMA ListAnswered ==
  ASSUME NEW p, Commanded(p), ListUsers(p), NEW m, Asked(p, m), NEW h, NEW v, Noted(h, v)
  PROVE  Whole(reply') \in Answers(m, h)
<1>1. p.type = Query /\ p.cmd = 0  BY DEF ListUsers
<1>2. PICK names, body, r :
        /\ names = SetToSeq(DOMAIN users)
        /\ body = [i \in DOMAIN names |-> [name |-> names[i], admin |-> users[names[i]].admin]]
        /\ r = UserList(Query, 0, body) /\ r = reply'
  BY <1>1 DEF ListUsers
<1>3. PICK n \in Nat : /\ n = Cardinality(DOMAIN users) /\ names \in [1 .. n -> DOMAIN users]
                       /\ \A i, j \in 1 .. n : names[i] = names[j] => i = j
  <2>1. IsFiniteSet(DOMAIN users)  BY DEF Commanded, IsUsers
  <2>2. PICK n \in Nat : n = Cardinality(DOMAIN users)  BY <2>1, FS_CardinalityType
  <2> QED  BY <1>2, <2>1, <2>2, UsersInOrder
<1>4. DOMAIN names = 1 .. n /\ DOMAIN body = 1 .. n /\ Len(body) = n
  <2>1. DOMAIN names = 1 .. n /\ DOMAIN body = 1 .. n  BY <1>2, <1>3
  <2>2. body \in [1 .. n -> {body[i] : i \in 1 .. n}]  BY <1>2, <2>1
  <2> QED  BY <2>1, <2>2
<1>5. [i \in DOMAIN body |-> Entry(body[i])]
      = [i \in DOMAIN names |-> Str(names[i]) \o <<users[names[i]].admin>>]
  <2>1. ASSUME NEW i \in 1 .. n  PROVE Entry(body[i]) = Str(names[i]) \o <<users[names[i]].admin>>
    <3>1. PICK u : u = body[i] /\ u = [name |-> names[i], admin |-> users[names[i]].admin]  BY <1>2, <1>4
    <3>2. u.name = names[i] /\ u.admin = users[names[i]].admin  BY <3>1
    <3> QED  BY Zenon, <3>1, <3>2 DEF Entry
  <2> QED  BY Zenon, <1>4, <2>1
<1>6. Whole(r) = <<Query, 0, n>> \o FlattenSeq([i \in DOMAIN body |-> Entry(body[i])])
  <2>1. r.list = TRUE /\ r.body = body /\ r.head = <<Query, 0, n>>  BY <1>2, <1>4 DEF UserList
  <2> QED  BY <2>1 DEF Whole
<1>7. names \in Orders(DOMAIN users)  BY <1>3 DEF Orders
<1>8. Whole(r) \in UserLists(users)
  BY Zenon, <1>3, <1>5, <1>6, <1>7 DEF UserLists
<1>9. Documented(m, h) = UserLists(h.users)
  <2>1. m.kind = "request" /\ m.seen[1] = Query /\ m.seen[2] = 0  BY <1>1 DEF Asked
  <2>2. 0 \in 0 .. 11 /\ Query # Modification  BY DEF Query, Modification
  <2>3. Documented(m, h) = QueryAnswers(0, m.seen[3], h)  BY <2>1, <2>2 DEF Documented
  <2> QED  BY <2>3 DEF QueryAnswers
<1> QED  BY <1>2, <1>8, <1>9 DEF Answers, Noted

\* A login, by what it says and by whom there is.
LEMMA LoginAnswered ==
  ASSUME NEW p, LogIn(p), NEW m, m.kind = "login", Understood("auth", m, p), NEW h, NEW v, Noted(h, v)
  PROVE  Whole(reply') \in Answers(m, h)
<1> DEFINE found == p.state = "DONE" /\ p.args[1] \in DOMAIN users
           knows == /\ Len(m.seen) = 2 /\ m.seen[1] \in DOMAIN h.users
                    /\ h.users[m.seen[1]].pass = m.seen[2] /\ h.users[m.seen[1]].admin = 1
<1>1. PICK status \in 0 .. 2 :
        /\ reply' = Answer(AuthVersion, status, <<>>)
        /\ p.state = "BAD_VERSION" => status = 2
        /\ p.state # "BAD_VERSION" =>
             status = IF /\ found /\ users[p.args[1]].pass = p.args[2]
                         /\ users[p.args[1]].admin = 1
                      THEN 0 ELSE 1
  BY SMTT(40) DEF LogIn, Exists
<1>2. /\ p.args = m.seen /\ (p.state = "DONE" <=> Len(m.seen) = 2)
      /\ p.state = "BAD_VERSION" <=> m.bytes[1] # AuthVersion
  BY DEF Understood
<1>3. h.users = users  BY DEF Noted
<1>4. status = IF m.bytes[1] # AuthVersion THEN 2 ELSE IF knows THEN 0 ELSE 1
  BY <1>1, <1>2, <1>3
<1>5. Whole(reply') = <<AuthVersion, status>>
  <2>1. PICK w \in Seq(Byte) : w = <<AuthVersion, status>>
    <3>1. <<AuthVersion, status>> \in Seq(Byte)
      <4>1. AuthVersion \in Byte /\ status \in Byte  BY DEF AuthVersion, Byte
      <4> QED  BY <4>1
    <3> QED  BY <3>1
  <2>2. w \o <<>> = w  BY ConcatEmptySeq
  <2>3. Whole(Answer(AuthVersion, status, <<>>)) = <<AuthVersion, status>> \o <<>>  BY WholeAnswer
  <2> QED  BY <1>1, <2>1, <2>2, <2>3
<1>6. Documented(m, h) = LoginAnswers(m, h)  BY DEF Documented
<1>7. LoginAnswers(m, h) = {<<AuthVersion, status>>}  BY <1>4 DEF LoginAnswers
<1> QED  BY <1>5, <1>6, <1>7 DEF Answers

LEMMA ExecuteAnswered ==
  ASSUME NEW p, Commanded(p), NEW v, Execute(p, v), NEW m, Asked(p, m), NEW h, Noted(h, v)
  PROVE  Whole(reply') \in Answers(m, h)
BY ListAnswered, NumberAnswered, AddAnswered, RemoveAnswered, SetAnswered, RefuseAnswered DEF Execute

-----------------------------------------------------------------------------
(***************************************************************************)
(* The invariant                                                           *)
(***************************************************************************)

BufferOK(b, size) == b \in [off : Nat, held : Seq(Byte)] /\ b.off + Len(b.held) <= size

Typed ==
  /\ BufferOK(input, InSize) /\ BufferOK(output, OutSize)
  /\ IsUsers(users) /\ SettingsOK(settings) /\ Reply(reply)
  /\ wire \in Seq(Byte) /\ got \in Seq(Byte)
  /\ gone \in {"no", "fin", "reset"}

\* A login, then requests.
Script ==
  /\ sent \in Seq(Logins \cup Requests)
  /\ \A i \in 1 .. Len(sent) : IF i = 1 THEN sent[i] \in Logins ELSE sent[i] \in Requests

\* What was handled is what was sent, and the login is handled first.
Handled ==
  /\ \E S : handled \in Seq(S)
  /\ Len(handled) <= Len(sent)
  /\ \A i \in 1 .. Len(handled) : handled[i].seen = sent[i].seen
Turn == state # "CLOSED" => (Len(handled) = 0 <=> state \in {"AUTH_ARRIVAL", "AUTHENTICATING"})

\* What was sent and not handled: u bytes that are used, those of the buffer, and
\* those on their way.
Protocol == IF Len(handled) = 0 THEN "auth" ELSE "request"
Ahead == BytesOf(sent, Len(handled), Len(sent))
Using(u) ==
  IF state \in {"AUTHENTICATING", "METHOD"}
  THEN /\ Len(handled) < Len(sent) /\ u < Len(sent[Len(handled) + 1].bytes)
       /\ At(Protocol, sent[Len(handled) + 1], u, parser)
  ELSE u = 0
Split(u) ==
  /\ Lies(input.held, Ahead, u)
  /\ IF gone = "reset" THEN wire = <<>>
     ELSE /\ Lies(wire, Ahead, u + Len(input.held))
          /\ Len(Ahead) = u + Len(input.held) + Len(wire)
Stream == state # "CLOSED" => \E u \in 0 .. Len(Ahead) : Split(u) /\ Using(u)

\* What was answered, and what is still to be.
Telling == [bytes : Seq(Byte), cut : BOOLEAN]
Told ==
  /\ told \in Seq(Telling) /\ cut \in BOOLEAN /\ Len(told) <= Len(handled)
  /\ \A i \in 1 .. Len(told) : told[i].cut \/ told[i].bytes \in Owed(i)
Replied ==
  /\ Told
  /\ interest = "READ" => Len(told) = Len(handled) /\ got = <<>> /\ output.held = <<>> /\ ~cut
  /\ interest = "WRITE" =>
       /\ Len(told) = Len(handled) - 1
       /\ cut \/ (got \o output.held) \o Rest(reply) \in Owed(Len(handled))

Inv == IInv /\ Typed /\ Script /\ Handled /\ Turn /\ Stream /\ Replied

LEMMA SentMessages ==
  ASSUME Script
  PROVE  /\ Messages(sent) /\ Len(sent) \in Nat
         /\ \A i \in 1 .. Len(sent) : OfProtocol(IF i = 1 THEN "auth" ELSE "request", sent[i])
<1>1. PICK n \in Nat : n = Len(sent) /\ DOMAIN sent = 1 .. n  BY LenProperties DEF Script
<1>2. ASSUME NEW i \in 1 .. n
      PROVE  OfProtocol(IF i = 1 THEN "auth" ELSE "request", sent[i]) /\ sent[i].bytes \in Seq(Byte)
  <2>1. CASE i = 1
    <3>1. sent[i] \in Logins  BY <1>1, <2>1 DEF Script
    <3>2. OfProtocol("auth", sent[i])  BY <3>1, MessagesAssumption DEF OfProtocol
    <3> QED  BY <2>1, <3>2, ReadsBytes
  <2>2. CASE i # 1
    <3>1. sent[i] \in Requests  BY <1>1, <2>2 DEF Script
    <3>2. OfProtocol("request", sent[i])  BY <3>1, MessagesAssumption DEF OfProtocol
    <3> QED  BY <2>2, <3>2, ReadsBytes
  <2> QED  BY <2>1, <2>2
<1>3. sent \in Seq(Range(sent))
  <2>1. PICK s : s = sent  OBVIOUS
  <2>2. s = [i \in 1 .. n |-> s[i]]  BY <1>1, <2>1, LenProperties DEF Script
  <2>3. \A i \in 1 .. n : s[i] \in Range(s)  BY <1>1, <2>1 DEF Range
  <2>4. s \in [1 .. n -> Range(s)]  BY <2>2, <2>3
  <2>5. s \in Seq(Range(s))  BY <2>4
  <2> QED  BY <2>1, <2>5
<1> QED  BY <1>1, <1>2, <1>3 DEF Messages

LEMMA AheadType ==
  ASSUME Script, Handled
  PROVE  /\ Ahead \in Seq(Byte) /\ Len(Ahead) \in Nat /\ Len(sent) \in Nat /\ Len(handled) \in Nat
         /\ Len(handled) <= Len(sent)
<1>1. Messages(sent) /\ Len(sent) \in Nat  BY SentMessages
<1>2. Len(handled) \in Nat  BY LenProperties DEF Handled
<1>3. Len(sent) \in Len(handled) .. Len(sent)  BY <1>1, <1>2 DEF Handled
<1>5. Ahead \in Seq(Byte)  BY <1>1, <1>2, <1>3, BytesOfType DEF Ahead
<1> QED  BY <1>1, <1>2, <1>5, LenProperties DEF Handled

\* The message of the turn is one that its parser reads.
LEMMA TurnReads ==
  ASSUME Script, Handled, Len(handled) < Len(sent)
  PROVE  OfProtocol(Protocol, sent[Len(handled) + 1])
<1>1. PICK k \in Nat : k = Len(handled) /\ k + 1 \in 1 .. Len(sent) /\ (k + 1 = 1 <=> k = 0)  BY AheadType
<1>2. OfProtocol(IF k + 1 = 1 THEN "auth" ELSE "request", sent[k + 1])  BY <1>1, SentMessages
<1> QED  BY <1>1, <1>2 DEF Protocol

\* What a receive of n bytes makes of the stream.
StillReading(m, p, held, w) ==
  \E u \in 1 .. Len(Ahead) :
    /\ u < Len(m.bytes) /\ At(Protocol, m, u, p)
    /\ Lies(held, Ahead, u) /\ Lies(w, Ahead, u + Len(held)) /\ Len(Ahead) = u + Len(held) + Len(w)
ReadWhole(m, p, held, w) ==
  LET after == BytesOf(sent, Len(handled) + 1, Len(sent))
  IN  /\ At(Protocol, m, Len(m.bytes), p) /\ Understood(Protocol, m, p)
      /\ Lies(held, after, 0) /\ Lies(w, after, Len(held)) /\ Len(after) = Len(held) + Len(w)

\* c is what the parser makes of the first n bytes on their way, w the others.
Asking == {"AUTH_ARRIVAL", "AUTHENTICATING", "METHOD_ARRIVAL", "METHOD"}
Begun == IF state \in {"AUTHENTICATING", "METHOD"} THEN parser ELSE First(Protocol)
Consumed(n, c, w) ==
  /\ n \in 1 .. Len(wire) /\ n <= Room(input, InSize) /\ w = SubSeq(wire, n + 1, Len(wire))
  /\ c \in Consume(Protocol, Begun, [input EXCEPT !.held = @ \o SubSeq(wire, 1, n)])

LEMMA Receive ==
  ASSUME Typed, Script, Handled, Stream, state \in Asking,
         NEW n \in Nat, NEW c, NEW w, Consumed(n, c, w)
  PROVE  /\ gone # "reset" /\ Len(handled) < Len(sent) /\ w \in Seq(Byte)
         /\ BufferOK(c.in, InSize)
         /\ IF Done(c.p) THEN ReadWhole(sent[Len(handled) + 1], c.p, c.in.held, w)
                         ELSE StillReading(sent[Len(handled) + 1], c.p, c.in.held, w)
<1>1. PICK t \in Seq(Byte), k \in Nat, lt \in Nat :
        t = Ahead /\ lt = Len(t) /\ k = Len(handled) /\ k <= Len(sent) /\ Len(sent) \in Nat
  BY AheadType
<1>2. PICK u \in 0 .. lt : Split(u) /\ Using(u)
  BY <1>1 DEF Stream, Asking
<1>3. PICK held \in Seq(Byte), off \in Nat, l \in Nat, lw \in Nat :
        /\ input = [off |-> off, held |-> held] /\ l = Len(held) /\ lw = Len(wire) /\ n \in 1 .. lw
        /\ off + l <= InSize /\ n <= InSize - off - l /\ wire \in Seq(Byte)
  <2>1. input.held \in Seq(Byte) /\ input.off \in Nat /\ input = [off |-> input.off, held |-> input.held]
        /\ wire \in Seq(Byte) /\ input.off + Len(input.held) <= InSize
    BY DEF Typed, BufferOK
  <2>2. Len(input.held) \in Nat /\ Len(wire) \in Nat  BY <2>1, LenProperties
  <2>3. n \in 1 .. Len(wire) /\ n <= InSize - input.off - Len(input.held)  BY DEF Consumed, Room
  <2> QED  BY <2>1, <2>2, <2>3
<1>4. gone # "reset" /\ Lies(held, t, u) /\ Lies(wire, t, u + l) /\ lt = u + l + lw
  <2>1. wire # <<>>  BY <1>3
  <2> QED  BY <1>1, <1>2, <1>3, <2>1 DEF Split
<1>5. k < Len(sent)
  <2>1. SUFFICES ASSUME k = Len(sent)  PROVE FALSE
    BY <1>1
  <2>2. t = <<>>  BY <1>1, <2>1, BytesOfNone DEF Ahead
  <2>3. lt = 0  BY <1>1, <2>2
  <2> QED  BY <1>3, <1>4, <2>3
<1>p. PICK protocol : protocol = Protocol  OBVIOUS
<1>6. PICK m : m = sent[k + 1] /\ OfProtocol(protocol, m)  BY <1>1, <1>p, <1>5, TurnReads
<1>c. PICK b \in Seq(Byte), lb \in Nat : b = m.bytes /\ lb = Len(b)  BY <1>6, ReadsBytes
<1>7. PICK z \in Seq(Byte), lz \in Nat :
        z = BytesOf(sent, k + 1, Len(sent)) /\ lz = Len(z) /\ t = b \o z /\ lt = lb + lz /\ Lies(b, t, 0)
  <2>1. Messages(sent) /\ Len(sent) \in Nat  BY SentMessages
  <2>2. Len(sent) \in k + 1 .. Len(sent) /\ k + 1 \in Nat  BY <1>1, <1>5
  <2>3. t = b \o BytesOf(sent, k + 1, Len(sent))  BY ZenonT(40), <1>1, <1>6, <1>c, <2>1, <2>2, BytesOfFirst DEF Ahead
  <2>4. BytesOf(sent, k + 1, Len(sent)) \in Seq(Byte)  BY <2>1, <2>2, BytesOfType
  <2>5. PICK z \in Seq(Byte) : z = BytesOf(sent, k + 1, Len(sent))  BY <2>4
  <2>6. Len(z) \in Nat /\ Len(b \o z) = Len(b) + Len(z) /\ Lies(b, b \o z, 0)
    BY <1>c, LiesAfter, LenProperties
  <2> QED  BY <1>1, <1>c, <2>3, <2>5, <2>6
<1>s. PICK start : start = Begun  OBVIOUS
<1>8. At(protocol, m, u, start) /\ u < lb
  <2>1. CASE state \in {"AUTHENTICATING", "METHOD"}
    BY <1>1, <1>2, <1>p, <1>6, <1>c, <1>s, <2>1 DEF Using, Begun
  <2>2. CASE state \notin {"AUTHENTICATING", "METHOD"}
    <3>1. u = 0 /\ start = First(protocol)  BY <1>2, <1>p, <1>s, <2>2 DEF Using, Begun
    <3>2. At(protocol, m, 0, start) /\ ~Done(start)  BY <1>6, <3>1, NothingRead
    <3>3. 0 \in 0 .. Len(m.bytes)  BY <1>c
    <3>4. lb # 0  BY <1>6, <1>c, <3>2, <3>3, FeedEnd
    <3> QED  BY <1>c, <3>1, <3>2, <3>4
  <2> QED  BY <2>1, <2>2
<1>9. PICK a \in Seq(Byte) : /\ a = SubSeq(wire, 1, n) /\ Len(a) = n /\ Lies(a, t, u + l)
                             /\ Lies(w, t, (u + l) + n) /\ Len(w) = lw - n /\ w \in Seq(Byte)
  <2>1. n \in 0 .. Len(wire) /\ u + l \in Nat  BY <1>2, <1>3
  <2>w. w = SubSeq(wire, n + 1, Len(wire))  BY DEF Consumed
  <2>2. Lies(SubSeq(wire, 1, n), t, u + l) /\ Lies(w, t, (u + l) + n)  BY <1>4, <2>1, <2>w, LiesCut
  <2>3. Len(SubSeq(wire, 1, n)) = n /\ Len(w) = lw - n /\ SubSeq(wire, 1, n) \in Seq(Byte) /\ w \in Seq(Byte)
    BY <1>3, <2>1, <2>w, Cut
  <2> QED  BY <2>2, <2>3
<1>10. PICK hb \in Seq(Byte), lh \in Nat : hb = held \o a /\ lh = Len(hb) /\ lh = l + n /\ Lies(hb, t, u)
  <2>1. Lies(a, t, u + Len(held))  BY <1>3, <1>9
  <2>2. Lies(held \o a, t, u) /\ Len(held \o a) = Len(held) + Len(a)  BY <1>2, <1>4, <2>1, LiesJoin
  <2>3. Len(held \o a) = l + n /\ l + n \in Nat  BY <1>3, <1>9, <2>2
  <2>4. held \o a \in Seq(Byte)  BY ConcatParts
  <2> QED  BY <2>2, <2>3, <2>4
<1>f. PICK fed : fed = Fed(protocol, start, hb)  OBVIOUS
<1>q. PICK p : p = fed[lh].p  OBVIOUS
<1>11. PICK q \in 0 .. lh :
         /\ q = fed[lh].n /\ u + q <= lb /\ At(protocol, m, u + q, p)
         /\ q # lh => u + q = lb
  <2>1. ASSUME NEW i \in 1 .. lh, u + i <= lb  PROVE hb[i] = b[u + i]
    <3>1. hb[i] = t[u + i]  BY <1>10 DEF Lies
    <3>2. u + i \in 1 .. lb /\ 0 + (u + i) = u + i  BY <1>2, <2>1
    <3>3. b[u + i] = t[0 + (u + i)]  BY <1>c, <1>7, <3>2 DEF Lies
    <3> QED  BY <3>1, <3>2, <3>3
  <2>2. u \in 0 .. Len(m.bytes) /\ Len(m.bytes) \in Nat  BY <1>2, <1>c, <1>8
  <2>5. \A i \in 1 .. Len(hb) : u + i <= Len(m.bytes) => hb[i] = m.bytes[u + i]  BY <1>c, <1>10, <2>1
  <2>4. Good(protocol, m, u, fed, lh)
    <3>1. Good(protocol, m, u, fed, Len(hb))  BY <1>6, <1>8, <1>f, <2>2, <2>5, FedReads
    <3> QED  BY <1>10, <3>1
  <2> QED  BY <1>c, <1>q, <2>4 DEF Good
<1>12. PICK rest \in Seq(Byte) : /\ rest = SubSeq(hb, q + 1, lh) /\ Len(rest) = lh - q
                                 /\ Lies(rest, t, u + q)
  <2>1. q \in 0 .. Len(hb)  BY <1>10
  <2>u. u \in Nat  OBVIOUS
  <2>2. Lies(SubSeq(hb, q + 1, Len(hb)), t, u + q)  BY <1>10, <2>1, <2>u, LiesCut
  <2>3. Len(SubSeq(hb, q + 1, Len(hb))) = Len(hb) - q /\ SubSeq(hb, q + 1, Len(hb)) \in Seq(Byte)  BY <2>1, Cut
  <2> QED  BY <1>10, <2>2, <2>3
<1>13. c.p = p /\ c.in = [off |-> IF q = lh THEN 0 ELSE off + q, held |-> rest]
  <2>1. [input EXCEPT !.held = @ \o SubSeq(wire, 1, n)] = [off |-> off, held |-> hb]
    <3>1. input.held \o SubSeq(wire, 1, n) = hb  BY <1>3, <1>9, <1>10
    <3>2. [input EXCEPT !.held = @ \o SubSeq(wire, 1, n)] = [input EXCEPT !.held = hb]  BY <3>1
    <3>3. [[off |-> off, held |-> held] EXCEPT !.held = hb] = [off |-> off, held |-> hb]  OBVIOUS
    <3>4. input = [off |-> off, held |-> held]  BY <1>3
    <3> QED  BY <3>2, <3>3, <3>4
  <2>i. PICK in : in = [off |-> off, held |-> hb]  OBVIOUS
  <2>2. c \in Consume(protocol, start, in)  BY <1>p, <1>s, <2>1, <2>i DEF Consumed
  <2>h. in.held = hb /\ in.off = off  BY <2>i
  <2>3. c = [p |-> p, in |-> Advance(in, q)]
    BY <1>10, <1>f, <1>q, <1>11, <2>2, <2>h DEF Consume
  <2> QED  BY <1>10, <1>12, <2>3, <2>h DEF Advance
<1>14. BufferOK(c.in, InSize)
  <2>1. PICK o \in Nat : o = (IF q = lh THEN 0 ELSE off + q) /\ o + (lh - q) <= InSize
    <3>1. InSize \in Nat /\ off + lh <= InSize  BY <1>3, <1>10, SizesAssumption
    <3>2. CASE q = lh  BY <3>1, <3>2
    <3>3. CASE q # lh  BY <1>10, <3>1, <3>3
    <3> QED  BY <3>2, <3>3
  <2>2. PICK l2 \in Nat : l2 = lh - q  OBVIOUS
  <2>3. c.in = [off |-> o, held |-> rest]  BY <1>13, <2>1
  <2>4. c.in.off = o /\ c.in.held = rest /\ c.in \in [off : Nat, held : Seq(Byte)]  BY <2>3
  <2>5. c.in.off + Len(c.in.held) = o + l2  BY <1>12, <2>2, <2>4
  <2> QED  BY <2>1, <2>2, <2>4, <2>5 DEF BufferOK
<1>15. (Done(p) <=> u + q = lb) /\ (Done(p) => Understood(protocol, m, p))
  <2>0. u + q \in 0 .. lb  BY SMTT(60), <1>11
  <2>1. u + q \in 0 .. Len(m.bytes)  BY <1>c, <2>0
  <2> QED  BY ZenonT(40), <1>6, <1>c, <1>11, <2>1, FeedEnd
<1>16. CASE Done(p)
  <2>1. u + q = lb + 0 /\ (u + l) + n = lb + (lh - q)  BY <1>2, <1>10, <1>15, <1>16
  <2>2. Lies(rest, z, 0)
    <3>1. Lies(rest, b \o z, Len(b) + 0)  BY <1>c, <1>7, <1>12, <2>1
    <3> QED  BY <3>1, LiesBehind
  <2>3. Lies(w, z, lh - q)
    <3>2. lh - q \in Nat  OBVIOUS
    <3>1. Lies(w, b \o z, Len(b) + (lh - q)) /\ lh - q \in Nat  BY <1>c, <1>7, <1>9, <2>1, <3>2
    <3> QED  BY <3>1, LiesBehind
  <2>4. lz = (lh - q) + (lw - n)
    <3>1. lb + lz = u + l + lw /\ lh = l + n /\ u + q = lb  BY <1>4, <1>7, <1>10, <1>15, <1>16
    <3> QED  BY <1>2, <3>1
  <2>a. At(protocol, m, Len(m.bytes), p)  BY <1>c, <1>11, <1>15, <1>16
  <2>5. ReadWhole(m, p, rest, w)
    BY <1>1, <1>p, <1>7, <1>9, <1>12, <1>15, <1>16, <2>a, <2>2, <2>3, <2>4 DEF ReadWhole
  <2>6. c.in.held = rest  BY <1>13
  <2> QED  BY <1>1, <1>4, <1>5, <1>6, <1>9, <1>13, <1>14, <1>16, <2>5, <2>6
<1>17. CASE ~Done(p)
  <2>a. u + q # lb /\ q = lh /\ u + q <= lb  BY <1>11, <1>15, <1>17
  <2>1. q = lh /\ u + q < lb  BY <2>a
  <2>2. u + q \in 1 .. lt /\ lh - q = 0 /\ (u + l) + n = (u + q) + 0 /\ lt = (u + q) + 0 + (lw - n)
    <3>1. lh = l + n /\ n >= 1 /\ lt = u + l + lw /\ n <= lw /\ q = lh  BY <1>3, <1>4, <1>10, <2>1
    <3> QED  BY <3>1
  <2>3. Lies(w, t, (u + q) + Len(rest)) /\ lt = (u + q) + Len(rest) + Len(w)
    BY <1>9, <1>12, <2>2
  <2>4. StillReading(m, p, rest, w)
    BY <1>1, <1>p, <1>c, <1>11, <1>12, <2>1, <2>2, <2>3 DEF StillReading
  <2>6. c.in.held = rest  BY <1>13
  <2> QED  BY <1>1, <1>4, <1>5, <1>6, <1>9, <1>13, <1>14, <1>17, <2>4, <2>6
<1> QED  BY <1>16, <1>17

-----------------------------------------------------------------------------
(***************************************************************************)
(* The parts of the invariant that more than one step keeps                *)
(***************************************************************************)

LEMMA HandledType == ASSUME Handled  PROVE Len(handled) \in Nat
BY LenProperties DEF Handled

LEMMA HandledMore ==
  ASSUME Script, Handled, Len(handled) < Len(sent), UNCHANGED sent,
         NEW x, x.seen = sent[Len(handled) + 1].seen, handled' = Append(handled, x)
  PROVE  /\ Handled' /\ Len(handled') = Len(handled) + 1 /\ handled'[Len(handled) + 1] = x
         /\ \A i \in 1 .. Len(handled) : handled'[i] = handled[i]
<1>1. PICK k \in Nat : k = Len(handled) /\ k < Len(sent) /\ Len(sent) \in Nat /\ k + 1 \in 1 .. Len(sent)
  BY AheadType
<1>2. PICK S : handled \in Seq(S) /\ x \in S
  <2>1. PICK T : handled \in Seq(T)  BY DEF Handled
  <2>2. PICK S : S = T \cup {x}  OBVIOUS
  <2>3. T \subseteq S /\ x \in S  BY <2>2
  <2> QED  BY <2>1, <2>3, SeqMonotonic
<1>3. /\ handled' \in Seq(S) /\ Len(handled') = k + 1
      /\ \A i \in 1 .. k : handled'[i] = handled[i]
      /\ handled'[k + 1] = x
  BY <1>1, <1>2, AppendProperties
<1>4. ASSUME NEW i \in 1 .. k + 1  PROVE handled'[i].seen = sent[i].seen
  <2>1. CASE i \in 1 .. k  BY <1>1, <1>3, <2>1 DEF Handled
  <2>2. CASE i = k + 1  BY <1>1, <1>3, <2>2
  <2>3. i \in 1 .. k \/ i = k + 1  BY <1>1
  <2> QED  BY <2>1, <2>2, <2>3
<1>5. Handled'
  <2>1. Len(handled') <= Len(sent')  BY <1>1, <1>3
  <2>2. \A i \in 1 .. Len(handled') : handled'[i].seen = sent'[i].seen  BY <1>3, <1>4
  <2>3. \E Z : handled' \in Seq(Z)  BY <1>3
  <2> QED  BY <2>1, <2>2, <2>3 DEF Handled
<1> QED  BY <1>1, <1>3, <1>5

\* The answers that were given stay right when more is sent and handled.
LEMMA ToldSame ==
  ASSUME Told, Handled, UNCHANGED <<told, cut>>, Len(handled') \in Nat, Len(handled) <= Len(handled'),
         \A i \in 1 .. Len(handled) : handled'[i] = handled[i] /\ sent'[i] = sent[i]
  PROVE  Told'
<1>1. PICK t \in Nat, k \in Nat : t = Len(told) /\ k = Len(handled) /\ t <= k
  <2>1. Len(told) \in Nat  BY LenProperties DEF Told
  <2> QED  BY <2>1, HandledType DEF Told
<1>2. ASSUME NEW i \in 1 .. t  PROVE told[i].cut \/ told[i].bytes \in Owed(i)'
  <2>1. i \in 1 .. k  BY <1>1
  <2>2. Owed(i)' = Owed(i)  BY <1>1, <2>1 DEF Owed
  <2> QED  BY <1>1, <2>2 DEF Told
<1>3. t <= Len(handled')  BY <1>1
<1> QED  BY <1>1, <1>2, <1>3 DEF Told

LEMMA RepliedSame ==
  ASSUME Replied, Handled, UNCHANGED <<told, cut, handled, interest, got, output, reply>>,
         \A i \in 1 .. Len(handled) : sent'[i] = sent[i]
  PROVE  Replied'
<1>1. PICK k \in Nat : k = Len(handled)  BY HandledType
<1>2. Told'  BY <1>1, ToldSame DEF Replied
<1>3. ASSUME interest = "WRITE"  PROVE Owed(k)' = Owed(k)
  <2>1. Len(told) = k - 1 /\ Len(told) \in Nat  BY <1>1, <1>3, LenProperties DEF Replied, Told
  <2>2. k \in 1 .. k  BY <2>1
  <2>3. sent'[k] = sent[k] /\ handled'[k] = handled[k]  BY <1>1, <2>2
  <2> QED  BY <2>3 DEF Owed
<1>4. interest = "WRITE" => Owed(Len(handled))' = Owed(Len(handled))
  <2>1. Owed(Len(handled))' = Documented(sent'[k], handled'[k]) \cup Disputed(sent'[k], handled'[k])
    BY <1>1 DEF Owed
  <2>2. Owed(k)' = Documented(sent'[k], handled'[k]) \cup Disputed(sent'[k], handled'[k])  BY DEF Owed
  <2> QED  BY <1>1, <1>3, <2>1, <2>2
<1> QED  BY <1>2, <1>4 DEF Replied

LEMMA SentSame == ASSUME Script, Handled, UNCHANGED <<sent, handled>>  PROVE Script' /\ Handled'
BY DEF Script, Handled

\* A step that reads nothing leaves the stream.
LEMMA StreamSame ==
  ASSUME Stream, UNCHANGED <<sent, handled, input, wire, gone>>, state # "CLOSED",
         \/ UNCHANGED <<state, parser>>
         \/ {state, state'} \cap {"AUTHENTICATING", "METHOD"} = {}
  PROVE  Stream'
<1>1. PICK u \in 0 .. Len(Ahead) : Split(u) /\ Using(u)  BY DEF Stream
<1>2. Ahead' = Ahead /\ Protocol' = Protocol  BY DEF Ahead, Protocol
<1>3. Split(u)'  BY <1>1, <1>2 DEF Split
<1>4. Using(u)'  BY <1>1, <1>2 DEF Using
<1> QED  BY <1>1, <1>2, <1>3, <1>4 DEF Stream

\* A receive that ends no message, and one that ends one.
LEMMA StreamPart ==
  ASSUME Len(handled) < Len(sent), UNCHANGED <<sent, handled, gone>>, gone # "reset",
         state' \in {"AUTHENTICATING", "METHOD"},
         StillReading(sent[Len(handled) + 1], parser', input'.held, wire')
  PROVE  Stream'
<1> DEFINE m == sent[Len(handled) + 1]
<1>1. PICK u \in 1 .. Len(Ahead) :
        /\ u < Len(m.bytes) /\ At(Protocol, m, u, parser')
        /\ Lies(input'.held, Ahead, u) /\ Lies(wire', Ahead, u + Len(input'.held))
        /\ Len(Ahead) = u + Len(input'.held) + Len(wire')
  BY DEF StillReading
<1>2. Ahead' = Ahead /\ Protocol' = Protocol /\ u \in 0 .. Len(Ahead)  BY <1>1 DEF Ahead, Protocol
<1>3. Split(u)'  BY <1>1, <1>2 DEF Split
<1>4. Using(u)'  BY <1>1, <1>2 DEF Using
<1> QED  BY <1>2, <1>3, <1>4 DEF Stream

LEMMA StreamWhole ==
  ASSUME Script, Handled, UNCHANGED <<sent, gone>>, gone # "reset",
         Len(handled) < Len(sent), Len(handled') = Len(handled) + 1,
         state' \notin {"AUTHENTICATING", "METHOD"}, input'.held \in Seq(Byte),
         NEW m, NEW p, ReadWhole(m, p, input'.held, wire')
  PROVE  Stream'
<1>1. PICK t \in Seq(Byte), lt \in Nat :
        t = Ahead' /\ lt = Len(t) /\ t = BytesOf(sent, Len(handled) + 1, Len(sent))
  <2>1. Messages(sent) /\ Len(sent) \in Nat  BY SentMessages
  <2>2. Len(handled) + 1 \in Nat /\ Len(sent) \in Len(handled) + 1 .. Len(sent)  BY <2>1, AheadType
  <2>3. BytesOf(sent, Len(handled) + 1, Len(sent)) \in Seq(Byte)  BY <2>1, <2>2, BytesOfType
  <2>4. Ahead' = BytesOf(sent, Len(handled) + 1, Len(sent))  BY DEF Ahead
  <2> QED  BY <2>3, <2>4, LenProperties
<1>3. Lies(input'.held, t, 0) /\ Lies(wire', t, Len(input'.held)) /\ lt = Len(input'.held) + Len(wire')
  BY <1>1 DEF ReadWhole
<1>6. PICK l \in Nat : l = Len(input'.held)  BY LenProperties
<1>7. 0 + l = l /\ 0 \in 0 .. lt /\ 0 + l + Len(wire') = l + Len(wire')
  <2>1. lt = l + Len(wire') /\ wire' \in Seq(Byte)  BY <1>3, <1>6 DEF Lies
  <2>2. PICK lw \in Nat : lw = Len(wire')  BY <2>1, LenProperties
  <2> QED  BY <2>2
<1>8. Split(0)'  BY <1>1, <1>3, <1>6, <1>7 DEF Split
<1>9. Using(0)'  BY DEF Using
<1> QED  BY <1>1, <1>7, <1>8, <1>9 DEF Stream

\* What is behind a reply that is out, and before one that is not.
LEMMA PrefixIs ==
  ASSUME NEW a \in Seq(Byte), NEW z \in Seq(Byte), NEW t, t = a \o z
  PROVE  IsPrefix(a, t)
<1>1. PICK n \in Nat : n = Len(a)  BY LenProperties
<1>2. /\ t \in Seq(Byte) /\ Len(t) = n + Len(z) /\ Len(z) \in Nat
      /\ \A i \in 1 .. n : t[i] = a[i]
  BY <1>1, ConcatParts, LenProperties
<1>3. SubSeq(t, 1, n) = a
  <2>1. n = 1 + n - 1 /\ \A i \in 1 .. n : 1 - 1 + i = i  OBVIOUS
  <2>2. \A i \in 1 .. Len(a) : t[1 - 1 + i] = a[i]  BY <1>1, <1>2, <2>1
  <2>3. 1 \in Nat \ {0} /\ n \in Int /\ n = 1 + Len(a) - 1  BY <1>1, <2>1
  <2> QED  BY <1>2, <2>2, <2>3, SubSeqIs
<1>4. SubSeq(a, 1, n) = a
  <2>1. n = 1 + n - 1 /\ \A i \in 1 .. n : 1 - 1 + i = i  OBVIOUS
  <2>2. \A i \in 1 .. Len(a) : a[1 - 1 + i] = a[i]  BY <1>1, <2>1
  <2>3. 1 \in Nat \ {0} /\ n \in Int /\ n = 1 + Len(a) - 1  BY <1>1, <2>1
  <2> QED  BY <2>2, <2>3, SubSeqIs
<1>5. Len(a) <= Len(t)  BY <1>1, <1>2
<1> QED  BY <1>1, <1>3, <1>4, <1>5 DEF IsPrefix

LEMMA RestBytes == ASSUME NEW r, Reply(r)  PROVE Rest(r) \in Seq(Byte)
<1>1. CASE ListOf(r)
  <2>1. RestOf(r.head, r.body, r.cur, r.entry) \in Seq(Byte)
    BY <1>1, ListParts, RestType
  <2> QED  BY <1>1, <2>1, ListParts DEF Rest
<1>2. CASE r \in PlainReply /\ r.cur <= Len(r.head \o r.body)
  <2>1. PICK w \in Seq(Byte), cur \in Nat : w = r.head \o r.body /\ cur = r.cur /\ r.list = FALSE
    <3>1. r.head \in Seq(Byte) /\ r.body \in Seq(Byte) /\ r.cur \in Nat /\ r.list = FALSE
      BY <1>2 DEF PlainReply
    <3> QED  BY <3>1, ConcatParts
  <2>2. cur \in 0 .. Len(w)
    <3>1. r.cur <= Len(r.head \o r.body)  BY <1>2
    <3>2. cur <= Len(w)  BY <2>1, <3>1
    <3>3. PICK l \in Nat : l = Len(w)  BY LenProperties
    <3>4. cur <= l  BY <3>2, <3>3
    <3> QED  BY <3>3, <3>4
  <2> QED  BY <2>1, <2>2, Cut DEF Rest
<1> QED  BY <1>1, <1>2 DEF Reply, ListOf

-----------------------------------------------------------------------------
(***************************************************************************)
(* The steps                                                               *)
(***************************************************************************)

\* A session that closes, with its users as they are or without one.
LEMMA Leaving ==
  ASSUME Inv, Close, UNCHANGED <<reply, input, output, settings, gone, sent, handled, answers>>,
         IsUsers(users')
  PROVE  Inv'
<1>1. state' = "CLOSED" /\ interest' = "NONE" /\ wire' = <<>> /\ wire' \in Seq(Byte)
  BY EmptySeq DEF Close
<1>2. IInv'
  <2>1. IsReply(reply')  BY DEF Inv, IInv
  <2> QED  BY <2>1, Closes DEF Inv
<1>3. Typed'  BY <1>1 DEF Inv, Typed, answers
<1>4. Script' /\ Handled'  BY SentSame DEF Inv
<1>5. Turn' /\ Stream'  BY <1>1 DEF Turn, Stream
<1>6. Replied'
  <2>1. PICK k \in Nat : k = Len(handled)  BY HandledType DEF Inv
  <2>2. Told'  BY <2>1, ToldSame DEF Inv, Replied, answers
  <2> QED  BY <1>1, <2>2 DEF Replied
<1> QED  BY <1>2, <1>3, <1>4, <1>5, <1>6 DEF Inv

\* What a receive leaves to its handler, whose parser has ended or has not.
Heard ==
  /\ state \in Asking /\ interest = "READ" /\ gone # "reset" /\ Len(handled) < Len(sent)
  /\ UNCHANGED <<output, sent, gone, answers>>
  /\ BufferOK(input', InSize) /\ wire' \in Seq(Byte) /\ input'.held \in Seq(Byte)
  /\ IF Done(parser') THEN ReadWhole(sent[Len(handled) + 1], parser', input'.held, wire')
                      ELSE StillReading(sent[Len(handled) + 1], parser', input'.held, wire')

\* A message that is not whole.
LEMMA PartKeeps ==
  ASSUME Inv, IInv', Heard, ~Done(parser'), UNCHANGED <<interest, reply, handled, users, settings>>,
         state' = IF state \in {"AUTH_ARRIVAL", "AUTHENTICATING"} THEN "AUTHENTICATING" ELSE "METHOD"
  PROVE  Inv'
<1>1. Typed'  BY DEF Inv, Typed, Heard, answers
<1>2. Script' /\ Handled'  BY SentSame DEF Inv, Heard
<1>3. Turn'  BY DEF Inv, Turn, Heard, Asking
<1>4. Stream'
  <2>1. StillReading(sent[Len(handled) + 1], parser', input'.held, wire')  BY DEF Heard
  <2>2. state' \in {"AUTHENTICATING", "METHOD"}  OBVIOUS
  <2> QED  BY <2>1, <2>2, StreamPart DEF Heard
<1>5. Replied'  BY RepliedSame DEF Inv, Heard, answers
<1> QED  BY <1>1, <1>2, <1>3, <1>4, <1>5 DEF Inv

\* A message that is whole, with the answer that its handler leaves.
LEMMA WholeKeeps ==
  ASSUME Inv, IInv', Heard, Done(parser'), Leaves, interest' = "WRITE",
         state' \in {"AUTH_ACK", "AUTH_ERROR", "METHOD_RESPONSE"},
         NEW x, x.seen = sent[Len(handled) + 1].seen, handled' = Append(handled, x),
         Whole(reply') \in Answers(sent[Len(handled) + 1], x)
  PROVE  Inv'
<1>1. Fresh(reply') /\ IsUsers(users') /\ SettingsOK(settings')  BY DEF Leaves
<1>2. PICK w \in Seq(Byte) : w = Whole(reply') /\ w = Rest(reply')  BY <1>1 DEF Fresh
<1>3. Typed'  BY <1>1 DEF Inv, Typed, Heard, Fresh, answers
<1>4. Script'  BY DEF Inv, Script, Heard
<1>5. /\ Handled' /\ Len(handled') = Len(handled) + 1 /\ handled'[Len(handled) + 1] = x
      /\ \A i \in 1 .. Len(handled) : handled'[i] = handled[i]
  BY HandledMore DEF Inv, Heard
<1>6. Turn'
  <2>1. Len(handled) \in Nat  BY HandledType DEF Inv
  <2>2. Len(handled') # 0  BY <1>5, <2>1
  <2> QED  BY <2>2 DEF Turn
<1>7. Stream'
  <2>1. ReadWhole(sent[Len(handled) + 1], parser', input'.held, wire')  BY DEF Heard
  <2> QED  BY <1>5, <2>1, StreamWhole DEF Inv, Heard
<1>8. Replied'
  <2>1. PICK k \in Nat : k = Len(handled) /\ Len(handled') = k + 1  BY <1>5, HandledType DEF Inv
  <2>2. Told'
    <3>1. k <= k + 1 /\ k + 1 \in Nat  OBVIOUS
    <3> QED  BY <1>5, <2>1, <3>1, ToldSame DEF Inv, Replied, Heard, answers
  <2>3. Len(told) = k /\ got = <<>> /\ output.held = <<>>  BY <2>1 DEF Inv, Replied, Heard
  <2>4. (got' \o output'.held) \o Rest(reply') = w
    <3>1. <<>> \o <<>> = <<>> /\ <<>> \o w = w  BY EmptySeq, ConcatEmptySeq
    <3> QED  BY <1>2, <2>3, <3>1 DEF Heard, answers
  <2>5. Owed(Len(handled))' = Answers(sent[k + 1], x)  BY <1>5, <2>1 DEF Owed, Answers, Heard
  <2>6. (got' \o output'.held) \o Rest(reply') \in Owed(Len(handled))'  BY <1>2, <2>1, <2>4, <2>5
  <2>7. Len(told') = Len(handled') - 1  BY <2>1, <2>3 DEF Heard, answers
  <2> QED  BY <2>2, <2>6, <2>7 DEF Replied
<1> QED  BY <1>3, <1>4, <1>5, <1>6, <1>7, <1>8 DEF Inv

\* Which message the handlers have, and how their parser took it.
LEMMA HeardMessage ==
  ASSUME Inv, Heard
  PROVE  /\ OfProtocol(Protocol, sent[Len(handled) + 1])
         /\ sent[Len(handled) + 1].kind = IF Protocol = "auth" THEN "login" ELSE "request"
         /\ Protocol = IF state \in {"AUTH_ARRIVAL", "AUTHENTICATING"} THEN "auth" ELSE "request"
         /\ Done(parser') => /\ Understood(Protocol, sent[Len(handled) + 1], parser')
                             /\ Protocol = "request" => parser' \in RequestParser
<1>1. OfProtocol(Protocol, sent[Len(handled) + 1])  BY TurnReads DEF Inv, Heard
<1>2. Protocol = IF state \in {"AUTH_ARRIVAL", "AUTHENTICATING"} THEN "auth" ELSE "request"
  <2>1. state # "CLOSED"  BY DEF Heard, Asking
  <2> QED  BY <2>1 DEF Inv, Turn, Protocol
<1>3. ASSUME Done(parser')
      PROVE  /\ Understood(Protocol, sent[Len(handled) + 1], parser')
             /\ Protocol = "request" => parser' \in RequestParser
  <2>1. ReadWhole(sent[Len(handled) + 1], parser', input'.held, wire')  BY <1>3 DEF Heard
  <2>2. At(Protocol, sent[Len(handled) + 1], Len(sent[Len(handled) + 1].bytes), parser')
        /\ Understood(Protocol, sent[Len(handled) + 1], parser')
    BY <2>1 DEF ReadWhole
  <2> QED  BY <2>2 DEF At
<1>4. sent[Len(handled) + 1].kind = IF Protocol = "auth" THEN "login" ELSE "request"
  <2>1. Protocol \in {"auth", "request"}  BY DEF Protocol
  <2>2. Protocol = "auth" => sent[Len(handled) + 1].kind = "login"  BY <1>1 DEF OfProtocol
  <2>3. Protocol = "request" => sent[Len(handled) + 1].kind = "request"  BY <1>1, RequestKind DEF OfProtocol
  <2> QED  BY <2>1, <2>2, <2>3
<1> QED  BY <1>1, <1>2, <1>3, <1>4

\* What is remembered of a message that was handled.
LEMMA HandleNotes ==
  ASSUME NEW seen, NEW v, Handle(seen, v)
  PROVE  \E x : x.seen = seen /\ Noted(x, v) /\ handled' = Append(handled, x)
<1>1. PICK x : /\ x = [seen |-> seen, by |-> user, counter |-> v, users |-> users, settings |-> settings,
                       nextUsers |-> users', nextSettings |-> settings']
               /\ handled' = Append(handled, x)
  BY DEF Handle
<1>2. /\ x.seen = seen /\ x.by = user /\ x.counter = v /\ x.users = users /\ x.settings = settings
      /\ x.nextUsers = users' /\ x.nextSettings = settings'
  BY <1>1
<1> QED  BY <1>1, <1>2 DEF Noted

LEMMA LoginIsRead ==
  ASSUME Inv, IInv', Heard, Done(parser'), LogIn(parser'), state \in {"AUTH_ARRIVAL", "AUTHENTICATING"},
         UNCHANGED <<users, settings>>
  PROVE  Inv'
<1>m. PICK m : m = sent[Len(handled) + 1]  OBVIOUS
<1>1. Protocol = "auth" /\ Understood("auth", m, parser') /\ m.kind = "login"
  BY <1>m, HeardMessage
<1>2. parser'.args = m.seen  BY SMTT(30), <1>1 DEF Understood
<1>3. PICK status \in 0 .. 2 : /\ reply' = Answer(AuthVersion, status, <<>>)
                               /\ state' = IF status = 0 THEN "AUTH_ACK" ELSE "AUTH_ERROR"
                               /\ interest' = "WRITE"
  BY SMTT(40) DEF LogIn
<1>4. Fresh(reply')
  <2>1. status \in Byte /\ AuthVersion \in Byte  BY DEF Byte, AuthVersion
  <2>2. <<>> \in Seq(Byte)  BY EmptySeq
  <2> QED  BY <1>3, <2>1, <2>2, FreshAnswer
<1>5. Leaves  BY <1>4 DEF Leaves, Inv, Typed
<1>6. state' \in {"AUTH_ACK", "AUTH_ERROR", "METHOD_RESPONSE"}  BY <1>3
<1>7. PICK x : x.seen = m.seen /\ Noted(x, 0) /\ handled' = Append(handled, x)
  <2>1. Handle(parser'.args, 0)  BY DEF LogIn
  <2> QED  BY <1>2, <2>1, HandleNotes
<1>8. Whole(reply') \in Answers(m, x)  BY <1>1, <1>7, LoginAnswered
<1> QED  BY <1>m, <1>3, <1>5, <1>6, <1>7, <1>8, WholeKeeps

LEMMA RequestIsRead ==
  ASSUME Inv, IInv', Heard, Done(parser'), state \in {"METHOD_ARRIVAL", "METHOD"},
         state' = "METHOD_RESPONSE", interest' = "WRITE",
         NEW v \in Statistic, Execute(parser', v), Handle(<<parser'.type, parser'.cmd, parser'.args>>, v)
  PROVE  Inv'
<1>m. PICK m : m = sent[Len(handled) + 1]  OBVIOUS
<1>1. /\ Protocol = "request" /\ parser' \in RequestParser
      /\ Understood("request", m, parser') /\ m.kind = "request"
  BY <1>m, HeardMessage
<1>2. m.seen = <<parser'.type, parser'.cmd, parser'.args>>  BY <1>1 DEF Understood
<1>3. Commanded(parser')
  <2>1. Understandable(parser')  BY <1>1 DEF Understood
  <2>2. user \in DOMAIN users  BY DEF Inv, IInv, ServedByAdmin, Exists
  <2> QED  BY <1>1, <2>1, <2>2 DEF Commanded, Inv, Typed
<1>4. Leaves  BY <1>3, ExecuteLeaves
<1>5. PICK x : x.seen = m.seen /\ Noted(x, v) /\ handled' = Append(handled, x)
  BY <1>2, HandleNotes
<1>6. state' \in {"AUTH_ACK", "AUTH_ERROR", "METHOD_RESPONSE"}  OBVIOUS
<1>7. Whole(reply') \in Answers(m, x)
  <2>1. Asked(parser', m)  BY <1>1, <1>2 DEF Asked
  <2> QED  BY <1>3, <1>5, <2>1, ExecuteAnswered
<1> QED  BY <1>m, <1>4, <1>5, <1>6, <1>7, WholeKeeps

\* What a receive consumed, the handlers find.
LEMMA Hears ==
  ASSUME Inv, interest = "READ", state \in Asking, NEW n \in 1 .. Len(wire), n <= Room(input, InSize),
         wire' = SubSeq(wire, n + 1, Len(wire)),
         NEW in, in = [input EXCEPT !.held = @ \o SubSeq(wire, 1, n)],
         NEW c \in Consume(Protocol, Begun, in), parser' = c.p, input' = c.in,
         UNCHANGED <<output, sent, gone, answers>>
  PROVE  Heard
<1>1. Consumed(n, c, wire')  BY DEF Consumed
<1>2. n \in Nat  OBVIOUS
<1>3. /\ gone # "reset" /\ Len(handled) < Len(sent) /\ wire' \in Seq(Byte) /\ BufferOK(c.in, InSize)
      /\ IF Done(c.p) THEN ReadWhole(sent[Len(handled) + 1], c.p, c.in.held, wire')
                      ELSE StillReading(sent[Len(handled) + 1], c.p, c.in.held, wire')
  BY <1>1, <1>2, Receive DEF Inv
<1>4. c.in.held \in Seq(Byte)  BY <1>3 DEF BufferOK
<1> QED  BY <1>3, <1>4 DEF Heard

LEMMA AuthReadKeeps ==
  ASSUME Inv, IInv', interest = "READ", NEW n \in 1 .. Len(wire), n <= Room(input, InSize),
         wire' = SubSeq(wire, n + 1, Len(wire)),
         NEW in, in = [input EXCEPT !.held = @ \o SubSeq(wire, 1, n)], AuthRead(in),
         UNCHANGED <<output, sent, gone, answers>>
  PROVE  Inv'
<1>1. state \in {"AUTH_ARRIVAL", "AUTHENTICATING"} /\ UNCHANGED <<users, settings>>  BY DEF AuthRead
<1>2. Protocol = "auth" /\ state \in Asking  BY <1>1 DEF Inv, Turn, Protocol, Asking
<1>3. Parser("AUTH_ARRIVAL", "VERSION") = Begun  BY <1>1, <1>2 DEF Parser, Begun, First
<1>4. PICK c \in Consume(Protocol, Begun, in) :
        /\ parser' = c.p /\ input' = c.in
        /\ IF Done(c.p) THEN LogIn(c.p)
           ELSE /\ state' = "AUTHENTICATING"
                /\ UNCHANGED <<user, interest, reply, handled>>
  BY <1>2, <1>3 DEF AuthRead
<1>5. Heard  BY <1>2, <1>4, Hears
<1>6. CASE Done(parser')
  <2>1. LogIn(parser')  BY <1>4, <1>6
  <2> QED  BY <1>1, <1>5, <1>6, <2>1, LoginIsRead
<1>7. CASE ~Done(parser')
  <2>1. state' = "AUTHENTICATING" /\ UNCHANGED <<interest, reply, handled>>  BY <1>4, <1>7
  <2> QED  BY <1>1, <1>5, <1>7, <2>1, PartKeeps
<1> QED  BY <1>6, <1>7

LEMMA RequestReadKeeps ==
  ASSUME Inv, IInv', interest = "READ", NEW n \in 1 .. Len(wire), n <= Room(input, InSize),
         wire' = SubSeq(wire, n + 1, Len(wire)),
         NEW in, in = [input EXCEPT !.held = @ \o SubSeq(wire, 1, n)], RequestRead(in),
         UNCHANGED <<output, sent, gone, answers>>
  PROVE  Inv'
<1>1. state \in {"METHOD_ARRIVAL", "METHOD"}  BY DEF RequestRead
<1>2. Protocol = "request" /\ state \in Asking  BY <1>1 DEF Inv, Turn, Protocol, Asking
<1>3. Parser("METHOD_ARRIVAL", "TYPE") = Begun  BY <1>1, <1>2 DEF Parser, Begun, First
<1>4. PICK c \in Consume(Protocol, Begun, in) :
        /\ parser' = c.p /\ input' = c.in
        /\ IF Done(c.p)
           THEN /\ \E v \in Statistic :
                     Execute(c.p, v) /\ Handle(<<c.p.type, c.p.cmd, c.p.args>>, v)
                /\ state' = "METHOD_RESPONSE" /\ interest' = "WRITE"
           ELSE /\ state' = "METHOD"
                /\ UNCHANGED <<interest, reply, handled, lists>> /\ NoEffect
  BY <1>2, <1>3 DEF RequestRead
<1>5. Heard  BY <1>2, <1>4, Hears
<1>6. CASE Done(parser')
  <2>1. state' = "METHOD_RESPONSE" /\ interest' = "WRITE"  BY <1>4, <1>6
  <2>2. PICK v \in Statistic : Execute(parser', v) /\ Handle(<<parser'.type, parser'.cmd, parser'.args>>, v)
    BY <1>4, <1>6
  <2> QED  BY <1>1, <1>5, <1>6, <2>1, <2>2, RequestIsRead
<1>7. CASE ~Done(parser')
  <2>1. state' = "METHOD" /\ UNCHANGED <<interest, reply, handled, users, settings>>
    BY <1>4, <1>7 DEF NoEffect
  <2>2. state \notin {"AUTH_ARRIVAL", "AUTHENTICATING"}  BY <1>1
  <2> QED  BY <1>5, <1>7, <2>1, <2>2, PartKeeps
<1> QED  BY <1>6, <1>7

LEMMA ReadKeeps == ASSUME Inv, Read  PROVE Inv'
<1>1. IInv' /\ interest = "READ" /\ UNCHANGED <<output, sent, gone, answers>>
  BY Reads DEF Inv, Read
<1>2. CASE Close /\ UNCHANGED <<reply, input, users, settings, handled>>
  <2>1. IsUsers(users')  BY <1>2 DEF Inv, Typed
  <2> QED  BY <1>1, <1>2, <2>1, Leaving
<1>3. CASE \E n \in 1 .. Len(wire) :
             /\ n <= Room(input, InSize)
             /\ wire' = SubSeq(wire, n + 1, Len(wire))
             /\ LET in == [input EXCEPT !.held = @ \o SubSeq(wire, 1, n)]
                IN  AuthRead(in) \/ RequestRead(in)
  <2>1. PICK n \in 1 .. Len(wire) :
             /\ n <= Room(input, InSize)
             /\ wire' = SubSeq(wire, n + 1, Len(wire))
             /\ \/ AuthRead([input EXCEPT !.held = @ \o SubSeq(wire, 1, n)])
                \/ RequestRead([input EXCEPT !.held = @ \o SubSeq(wire, 1, n)])
    BY <1>3
  <2>2. PICK in : /\ in = [input EXCEPT !.held = @ \o SubSeq(wire, 1, n)]
                  /\ AuthRead(in) \/ RequestRead(in)
    BY <2>1
  <2> QED  BY <1>1, <2>1, <2>2, AuthReadKeeps, RequestReadKeeps
<1> QED  BY <1>2, <1>3 DEF Read

-----------------------------------------------------------------------------
LEMMA RoomNat ==
  ASSUME NEW b, NEW size \in Nat, BufferOK(b, size)
  PROVE  /\ b.held \in Seq(Byte) /\ Len(b.held) \in Nat /\ b.off \in Nat
         /\ Room(b, size) \in 0 .. size /\ Room(b, size) \in Nat
         /\ b.off + Len(b.held) + Room(b, size) = size
<1>1. b.held \in Seq(Byte) /\ b.off \in Nat /\ b.off + Len(b.held) <= size  BY DEF BufferOK
<1>2. PICK l \in Nat, o \in Nat : l = Len(b.held) /\ o = b.off /\ o + l <= size  BY <1>1, LenProperties
<1>3. Room(b, size) = size - o - l  BY <1>2 DEF Room
<1>4. PICK room \in Nat : room = size - o - l  BY <1>2
<1>5. o + l <= size  BY <1>2
<1>6. room <= size /\ o + l + room = size  BY <1>4, <1>5
<1> QED  BY <1>1, <1>2, <1>3, <1>4, <1>6

LEMMA BufferParts ==
  ASSUME NEW o \in Nat, NEW h \in Seq(Byte), NEW b, b = [off |-> o, held |-> h]
  PROVE  b.off = o /\ b.held = h /\ b \in [off : Nat, held : Seq(Byte)]
OBVIOUS

\* The builder fills what room there is.
LEMMA Filled ==
  ASSUME NEW out, NEW size \in Nat, BufferOK(out, size), NEW s \in Seq(Byte), Len(s) <= Room(out, size),
         NEW next, next = [out EXCEPT !.held = @ \o s]
  PROVE  BufferOK(next, size) /\ next.held = out.held \o s
<1>1. PICK h \in Seq(Byte), o \in Nat, l \in Nat, ls \in Nat :
        /\ out = [off |-> o, held |-> h] /\ l = Len(h) /\ ls = Len(s) /\ o + l + ls <= size
  <2>1. out = [off |-> out.off, held |-> out.held]  BY DEF BufferOK
  <2>2. PICK room \in Nat : room = Room(out, size) /\ out.off + Len(out.held) + room = size
    BY RoomNat
  <2>3. /\ out.held \in Seq(Byte) /\ out.off \in Nat /\ Len(out.held) \in Nat /\ Len(s) \in Nat
        /\ Len(s) <= room
    BY <2>2, RoomNat, LenProperties
  <2> QED  BY SMTT(40), <2>1, <2>2, <2>3
<1>3. PICK hs \in Seq(Byte) : hs = h \o s /\ Len(hs) = l + ls  BY <1>1, ConcatParts
<1>2. next = [off |-> o, held |-> hs]
  <2>1. out.held \o s = hs  BY <1>1, <1>3
  <2>2. next = [out EXCEPT !.held = hs]  BY <2>1
  <2>3. [[off |-> o, held |-> h] EXCEPT !.held = hs] = [off |-> o, held |-> hs]  OBVIOUS
  <2> QED  BY <1>1, <2>2, <2>3
<1>4. next.off = o /\ next.held = hs /\ next \in [off : Nat, held : Seq(Byte)]  BY <1>2, BufferParts
<1>5. next.off + Len(next.held) <= size  BY <1>1, <1>3, <1>4
<1> QED  BY <1>1, <1>3, <1>4, <1>5 DEF BufferOK

LEMMA PostWriteKeeps ==
  ASSUME Inv, interest = "WRITE", NEW out, BufferOK(out, OutSize), NEW received \in Seq(Byte),
         received \o out.held = got \o output.held, PostWrite(out, received),
         UNCHANGED <<user, parser, input, users, settings, window, gone, sent, handled>>
  PROVE  Inv'
<1>b. PICK b \in Build(reply, Room(out, OutSize)) :
        LET next == [out EXCEPT !.held = @ \o b.bytes]
            resumed == cut \/ (reply.list /\ reply.cur > 3 /\ b.bytes # <<>>)
        IN  /\ reply' = b.r /\ output' = next
            /\ IF ~Sent(b.r, next)
               THEN /\ got' = received /\ cut' = resumed
                    /\ UNCHANGED <<state, interest, wire, told>>
               ELSE /\ told' = Append(told, [bytes |-> received, cut |-> resumed])
                    /\ got' = <<>> /\ cut' = FALSE
                    /\ \/ state = "AUTH_ERROR" /\ Close
                       \/ /\ state # "AUTH_ERROR" /\ state' = "METHOD_ARRIVAL" /\ interest' = "READ"
                          /\ UNCHANGED wire
  BY DEF PostWrite
<1>1. PICK next, resumed :
        /\ next = [out EXCEPT !.held = @ \o b.bytes]
        /\ resumed = (cut \/ (reply.list /\ reply.cur > 3 /\ b.bytes # <<>>))
        /\ reply' = b.r /\ output' = next
        /\ IF ~Sent(b.r, next)
           THEN /\ got' = received /\ cut' = resumed
                /\ UNCHANGED <<state, interest, wire, told>>
           ELSE /\ told' = Append(told, [bytes |-> received, cut |-> resumed])
                /\ got' = <<>> /\ cut' = FALSE
                /\ \/ state = "AUTH_ERROR" /\ state' = "CLOSED" /\ interest' = "NONE" /\ wire' = <<>>
                   \/ /\ state # "AUTH_ERROR" /\ state' = "METHOD_ARRIVAL" /\ interest' = "READ"
                      /\ UNCHANGED wire
  BY <1>b DEF Close
<1>r. resumed \in BOOLEAN
  <2>1. (cut \/ (reply.list /\ reply.cur > 3 /\ b.bytes # <<>>)) \in BOOLEAN
    <3>1. CASE cut \/ (reply.list /\ reply.cur > 3 /\ b.bytes # <<>>)  BY Zenon, <3>1
    <3>2. CASE ~(cut \/ (reply.list /\ reply.cur > 3 /\ b.bytes # <<>>))  BY Zenon, <3>2
    <3> QED  BY <3>1, <3>2
  <2> QED  BY Zenon, <1>1, <2>1
<1>2. Builds(reply, Room(out, OutSize), b)
  <2>1. Reply(reply) /\ Room(out, OutSize) \in Nat  BY RoomNat, SizesAssumption DEF Inv, Typed
  <2> QED  BY <1>1, <2>1, BuildReply
<1>3. BufferOK(next, OutSize) /\ next.held = out.held \o b.bytes /\ b.bytes \in Seq(Byte)
  <2>1. b.bytes \in Seq(Byte) /\ Len(b.bytes) <= Room(out, OutSize)  BY <1>2 DEF Builds
  <2> QED  BY ZenonT(60), <1>1, <2>1, Filled, SizesAssumption
<1>4. IInv'
  <2>1. UNCHANGED <<user, users>>  OBVIOUS
  <2> QED  BY <2>1, PostWrites DEF Inv
<1>5. Typed'
  <2>1. Reply(reply')  BY <1>1, <1>2 DEF Builds
  <2>2. wire' \in Seq(Byte) /\ got' \in Seq(Byte)  BY <1>1, EmptySeq DEF Inv, Typed
  <2> QED  BY <1>1, <1>3, <2>1, <2>2 DEF Inv, Typed
<1>6. Script' /\ Handled'  BY SentSame DEF Inv
<1>7. state \in {"AUTH_ACK", "AUTH_ERROR", "METHOD_RESPONSE"}  BY DEF Inv, IInv, Watched
<1>8. Turn'  BY <1>1, <1>7 DEF Inv, Turn
<1>9. Stream'
  <2>1. CASE state' = "CLOSED"  BY <2>1 DEF Stream
  <2>2. CASE UNCHANGED wire /\ (state' = state \/ state' = "METHOD_ARRIVAL")
    <3>1. {state, state'} \cap {"AUTHENTICATING", "METHOD"} = {} /\ state # "CLOSED"  BY <1>7, <2>2
    <3> QED  BY <2>2, <3>1, StreamSame DEF Inv
  <2> QED  BY <1>1, <2>1, <2>2
<1>10. PICK k \in Nat : k = Len(handled) /\ handled' = handled  BY HandledType DEF Inv
<1>11. told \in Seq(Telling) /\ Len(told) \in Nat /\ Len(told) = k - 1
  BY <1>10, LenProperties DEF Inv, Replied, Told
<1>12. ASSUME ~resumed  PROVE (received \o next.held) \o Rest(b.r) \in Owed(k)
  <2>1. ~cut /\ ~(reply.list /\ reply.cur > 3 /\ b.bytes # <<>>)  BY <1>1, <1>12
  <2>2. (got \o output.held) \o Rest(reply) \in Owed(k)  BY <1>10, <2>1 DEF Inv, Replied
  <2>3. b.bytes \o Rest(b.r) = Rest(reply) /\ Rest(b.r) \in Seq(Byte)  BY <1>2, <2>1 DEF Builds
  <2>4. out.held \in Seq(Byte)  BY DEF BufferOK
  <2>5. PICK g \in Seq(Byte), h \in Seq(Byte), t \in Seq(Byte), z \in Seq(Byte) :
          g = received /\ h = out.held /\ t = b.bytes /\ z = Rest(b.r)
    BY <1>3, <2>3, <2>4
  <2>6. (g \o (h \o t)) \o z = (g \o h) \o (t \o z)
    <3>1. g \o h \in Seq(Byte)  BY ConcatParts
    <3>2. g \o (h \o t) = (g \o h) \o t  BY SMTT(60), ConcatAssociative
    <3>3. ((g \o h) \o t) \o z = (g \o h) \o (t \o z)  BY SMTT(60), <3>1, ConcatAssociative
    <3> QED  BY <3>2, <3>3
  <2>7. (received \o (out.held \o b.bytes)) \o Rest(b.r) = (received \o out.held) \o (b.bytes \o Rest(b.r))
    BY <2>5, <2>6
  <2>8. (received \o next.held) \o Rest(b.r) = (got \o output.held) \o Rest(reply)
    BY <1>3, <2>3, <2>7
  <2> QED  BY <2>2, <2>8
<1>13. Owed(Len(handled))' = Owed(k) /\ \A i : Owed(i)' = Owed(i)  BY <1>10 DEF Owed
<1>14. CASE ~Sent(b.r, next)
  <2>1. got' = received /\ cut' = resumed /\ UNCHANGED <<state, interest, told>>  BY <1>1, <1>14
  <2>2. Told'
    <3>1. cut' \in BOOLEAN  BY <1>r, <2>1
    <3>2. /\ told' \in Seq(Telling) /\ Len(told') <= Len(handled')
          /\ \A i \in 1 .. Len(told') : told'[i].cut \/ told'[i].bytes \in Owed(i)'
      BY <1>10, <1>13, <2>1 DEF Inv, Replied, Told
    <3> QED  BY <3>1, <3>2 DEF Told
  <2>3. cut' \/ (got' \o output'.held) \o Rest(reply') \in Owed(Len(handled))'
    BY <1>1, <1>12, <1>13, <2>1
  <2>4. Len(told') = Len(handled') - 1  BY <1>10, <1>11, <2>1
  <2>5. Replied'  BY <2>1, <2>2, <2>3, <2>4 DEF Replied
  <2> QED  BY <1>4, <1>5, <1>6, <1>8, <1>9, <2>5 DEF Inv
<1>15. CASE Sent(b.r, next)
  <2>1. PICK tell : tell = [bytes |-> received, cut |-> resumed]  OBVIOUS
  <2>2. /\ told' = Append(told, tell) /\ got' = <<>> /\ cut' = FALSE /\ interest' \in {"READ", "NONE"}
        /\ tell \in Telling /\ tell.cut = resumed /\ tell.bytes = received
    BY <1>1, <1>r, <1>15, <2>1 DEF Telling
  <2>3. next.held = <<>> /\ Built(b.r)  BY <1>15 DEF Sent
  <2>4. resumed \/ received \in Owed(k)
    <3>1. Rest(b.r) = <<>>  BY <1>2, <2>3 DEF Builds
    <3>2. received \o <<>> = received  BY ConcatEmptySeq
    <3> QED  BY <1>12, <2>3, <3>1, <3>2
  <2>5. /\ told' \in Seq(Telling) /\ Len(told') = k /\ told'[k] = tell
        /\ \A i \in 1 .. k - 1 : told'[i] = told[i]
    <3>1. PICK l \in Nat : l = Len(told) /\ l + 1 = k /\ k - 1 = l  BY <1>11
    <3>2. /\ Append(told, tell) \in Seq(Telling) /\ Len(Append(told, tell)) = l + 1
          /\ Append(told, tell)[l + 1] = tell
          /\ \A i \in 1 .. l : Append(told, tell)[i] = told[i]
      BY <1>11, <2>2, <3>1, AppendProperties
    <3> QED  BY <2>2, <3>1, <3>2
  <2>6. ASSUME NEW i \in 1 .. k  PROVE told'[i].cut \/ told'[i].bytes \in Owed(i)
    <3>1. CASE i = k  BY <2>2, <2>4, <2>5, <3>1
    <3>2. CASE i # k
      <4>1. i \in 1 .. k - 1 /\ i \in 1 .. Len(told)  BY <1>11, <3>2
      <4> QED  BY <2>5, <4>1 DEF Inv, Replied, Told
    <3> QED  BY <3>1, <3>2
  <2>7. Told'
    <3>1. \A i \in 1 .. Len(told') : told'[i].cut \/ told'[i].bytes \in Owed(i)'  BY <1>13, <2>5, <2>6
    <3>2. cut' \in BOOLEAN  BY <2>2
    <3>3. Len(told') <= Len(handled')  BY <1>10, <2>5
    <3> QED  BY <2>5, <3>1, <3>2, <3>3 DEF Told
  <2>8. Replied'  BY <1>1, <1>10, <2>2, <2>3, <2>5, <2>7 DEF Replied
  <2> QED  BY <1>4, <1>5, <1>6, <1>8, <1>9, <2>8 DEF Inv
<1> QED  BY <1>14, <1>15

LEMMA CutJoined ==
  ASSUME NEW h \in Seq(Byte), NEW n \in 0 .. Len(h), NEW l, l = Len(h)
  PROVE  SubSeq(h, 1, n) \o SubSeq(h, n + 1, l) = h
<1>1. PICK k \in Nat : k = l  BY LenProperties
<1>2. PICK m \in 1 .. k + 1 : m = 1 /\ n \in m - 1 .. k /\ k \in n .. k  BY <1>1
<1>m. m \in 1 .. Len(h) + 1 /\ n \in m - 1 .. Len(h) /\ k \in n .. Len(h)  BY <1>1, <1>2
<1>s. SubSeq(h, m, n) \o SubSeq(h, n + 1, k) = SubSeq(h, m, k)  BY <1>m, ConcatAdjacentSubSeq
<1>3. SubSeq(h, 1, n) \o SubSeq(h, n + 1, k) = SubSeq(h, 1, k)  BY <1>2, <1>s
<1>4. SubSeq(h, 1, k) = h
  <2>1. \A i \in 1 .. k : 1 - 1 + i = i  OBVIOUS
  <2>2. k = 1 + k - 1 /\ 1 \in Nat \ {0} /\ k \in Int  OBVIOUS
  <2>3. \A i \in 1 .. Len(h) : h[1 - 1 + i] = h[i]  BY <1>1, <2>1
  <2> QED  BY <1>1, <2>2, <2>3, SubSeqIs
<1> QED  BY <1>1, <1>3, <1>4

LEMMA WriteKeeps == ASSUME Inv, Write  PROVE Inv'
<1>1. /\ interest = "WRITE"
      /\ UNCHANGED <<user, parser, input, users, settings, window, gone, sent, handled>>
  BY DEF Write
<1>2. BufferOK(output, OutSize) /\ got \in Seq(Byte) /\ output.held \in Seq(Byte)
  BY DEF Inv, Typed, BufferOK
<1>3. CASE output.held = <<>> /\ PostWrite(output, got)
  BY <1>1, <1>2, <1>3, PostWriteKeeps
<1>4. ASSUME NEW n \in 1 .. Len(output.held),
             PostWrite(Advance(output, n), got \o SubSeq(output.held, 1, n))
      PROVE  Inv'
  <2>1. PICK h \in Seq(Byte), l \in Nat, o \in Nat :
          /\ h = output.held /\ l = Len(h) /\ o = output.off /\ n \in 1 .. l /\ o + l <= OutSize
    <3>1. output.off \in Nat /\ output.off + Len(output.held) <= OutSize /\ Len(output.held) \in Nat
      BY <1>2, LenProperties DEF BufferOK
    <3> QED  BY <1>2, <3>1
  <2>2. PICK a \in Seq(Byte), z \in Seq(Byte) :
          /\ a = SubSeq(h, 1, n) /\ z = SubSeq(h, n + 1, l) /\ Len(z) = l - n /\ a \o z = h
    <3>1. n \in 0 .. Len(h)  BY <2>1
    <3>2. /\ SubSeq(h, 1, n) \in Seq(Byte) /\ SubSeq(h, n + 1, l) \in Seq(Byte)
          /\ Len(SubSeq(h, n + 1, l)) = l - n
      BY <2>1, <3>1, Cut
    <3>3. SubSeq(h, 1, n) \o SubSeq(h, n + 1, l) = h  BY <2>1, <3>1, CutJoined
    <3> QED  BY <3>2, <3>3
  <2>3. PICK out : out = Advance(output, n)  OBVIOUS
  <2>4. out = [off |-> IF n = l THEN 0 ELSE o + n, held |-> z]  BY <2>1, <2>2, <2>3 DEF Advance
  <2>5. BufferOK(out, OutSize) /\ out.held = z
    <3>1. PICK off \in Nat, lz \in Nat : off = (IF n = l THEN 0 ELSE o + n) /\ lz = l - n /\ off + lz <= OutSize
      <4>1. OutSize \in Nat  BY SizesAssumption
      <4>2. CASE n = l  BY <4>1, <4>2
      <4>3. CASE n # l
        <5>1. o + n \in Nat /\ l - n \in Nat /\ (o + n) + (l - n) <= OutSize  BY SMTT(40), <2>1, <4>1
        <5> QED  BY <4>3, <5>1
      <4> QED  BY <4>2, <4>3
    <3>2. out.off = off /\ out.held = z /\ out \in [off : Nat, held : Seq(Byte)]  BY <2>4, <3>1
    <3>3. out.off + Len(out.held) = off + lz  BY <2>2, <3>1, <3>2
    <3> QED  BY <3>1, <3>2, <3>3 DEF BufferOK
  <2>6. PICK received \in Seq(Byte) : /\ received = got \o SubSeq(output.held, 1, n)
                                      /\ received \o out.held = got \o output.held
    <3>1. got \o SubSeq(output.held, 1, n) = got \o a  BY <2>1, <2>2
    <3>2. (got \o a) \o z = got \o (a \o z)  BY SMTT(60), <1>2, ConcatAssociative
    <3>3. got \o a \in Seq(Byte)  BY <1>2, ConcatParts
    <3> QED  BY <2>1, <2>2, <2>5, <3>1, <3>2, <3>3
  <2>7. PostWrite(out, received)  BY <1>4, <2>3, <2>6
  <2> QED  BY <1>1, <2>5, <2>6, <2>7, PostWriteKeeps
<1>5. CASE Close /\ UNCHANGED <<reply, output, answers>>
  <2>1. IsUsers(users')  BY <1>1 DEF Inv, Typed
  <2> QED  BY <1>1, <1>5, <2>1, Leaving
<1> QED  BY <1>3, <1>4, <1>5 DEF Write

\* The history of the client, with one message more.
LEMMA SentMore ==
  ASSUME Script, Handled, UNCHANGED handled, NEW m,
         m \in IF sent = <<>> THEN Logins ELSE Requests, sent' = Append(sent, m)
  PROVE  /\ Script' /\ Handled' /\ Len(sent') = Len(sent) + 1
         /\ \A i \in 1 .. Len(sent) : sent'[i] = sent[i]
         /\ sent'[Len(sent) + 1] = m /\ m.bytes \in Seq(Byte)
<1>1. PICK n \in Nat : n = Len(sent) /\ (n = 0 <=> sent = <<>>)  BY SentMessages, EmptySeq DEF Script
<1>2. m \in Logins \cup Requests  OBVIOUS
<1>3. PICK S : S = Logins \cup Requests  OBVIOUS
<1>4. sent \in Seq(S) /\ m \in S  BY <1>2, <1>3 DEF Script
<1>5. /\ Append(sent, m) \in Seq(S) /\ Len(Append(sent, m)) = n + 1
      /\ \A i \in 1 .. n : Append(sent, m)[i] = sent[i]
      /\ Append(sent, m)[n + 1] = m
  BY <1>1, <1>4, AppendProperties
<1>6. ASSUME NEW i \in 1 .. n + 1
      PROVE  IF i = 1 THEN sent'[i] \in Logins ELSE sent'[i] \in Requests
  <2>1. CASE i \in 1 .. n
    <3>1. sent'[i] = sent[i]  BY <1>5, <2>1
    <3> QED  BY <1>1, <2>1, <3>1 DEF Script
  <2>2. CASE i = n + 1
    <3>1. sent'[i] = m /\ (i = 1 <=> n = 0)  BY <1>5, <2>2
    <3> QED  BY <1>1, <3>1
  <2> QED  BY <1>1, <2>1, <2>2
<1>7. Script'
  <2>1. sent' \in Seq(Logins \cup Requests)  BY <1>3, <1>5
  <2>2. \A i \in 1 .. Len(sent') : IF i = 1 THEN sent'[i] \in Logins ELSE sent'[i] \in Requests
    BY <1>5, <1>6
  <2> QED  BY <2>1, <2>2 DEF Script
<1>8. Handled'
  <2>1. PICK k \in Nat : k = Len(handled) /\ k <= n  BY <1>1, HandledType DEF Handled
  <2>2. k <= n + 1 /\ \A i \in 1 .. k : i \in 1 .. n  BY <2>1
  <2>3. \A i \in 1 .. k : handled[i].seen = sent[i].seen  BY <2>1 DEF Handled
  <2>4. \A i \in 1 .. k : handled[i].seen = sent'[i].seen  BY <1>5, <2>2, <2>3
  <2>5. Len(handled) <= Len(sent')  BY <1>5, <2>1, <2>2
  <2>6. \E Z : handled' \in Seq(Z)  BY DEF Handled
  <2> QED  BY <2>1, <2>4, <2>5, <2>6 DEF Handled
<1>9. m.bytes \in Seq(Byte)
  <2>1. OfProtocol(IF sent = <<>> THEN "auth" ELSE "request", m)  BY MessagesAssumption DEF OfProtocol
  <2> QED  BY <2>1, ReadsBytes
<1> QED  BY <1>1, <1>5, <1>7, <1>8, <1>9

LEMMA MessagesMore ==
  ASSUME NEW s, Messages(s), NEW m, m.bytes \in Seq(Byte)
  PROVE  Messages(Append(s, m))
<1>1. PICK n \in Nat : /\ n = Len(s) /\ DOMAIN s = 1 .. n /\ s \in Seq(Range(s))
                       /\ \A i \in 1 .. n : s[i].bytes \in Seq(Byte)
  BY MessageBytes DEF Messages
<1>2. PICK more : more = Append(s, m)  OBVIOUS
<1>3. PICK S : S = Range(s) \cup {m}  OBVIOUS
<1>4. \A i \in 1 .. n : s[i] \in S  BY <1>1, <1>3, ElementOfSeq
<1>5. s \in Seq(S) /\ m \in S
  <2>1. s = [i \in 1 .. n |-> s[i]]  BY <1>1, LenProperties
  <2>2. s \in [1 .. n -> S]  BY <1>4, <2>1
  <2> QED  BY <1>3, <2>2
<1>6. /\ more \in Seq(S) /\ Len(more) = n + 1 /\ more[n + 1] = m
      /\ \A i \in 1 .. n : more[i] = s[i]
  BY <1>1, <1>2, <1>5, AppendProperties
<1>7. DOMAIN more = 1 .. n + 1  BY <1>6, LenProperties
<1>8. \A i \in 1 .. n + 1 : i \in 1 .. n \/ i = n + 1  OBVIOUS
<1>9. \A i \in DOMAIN more : more[i].bytes \in Seq(Byte)  BY <1>1, <1>6, <1>7, <1>8
<1>10. more \in Seq(Range(more))
  <2>1. \A i \in 1 .. n + 1 : more[i] \in Range(more)  BY <1>7 DEF Range
  <2>2. more = [i \in 1 .. n + 1 |-> more[i]]  BY <1>6, <1>7, LenProperties
  <2>3. more \in [1 .. n + 1 -> Range(more)]  BY <2>1, <2>2
  <2> QED  BY <2>3
<1> QED  BY <1>2, <1>9, <1>10 DEF Messages

LEMMA AheadMore ==
  ASSUME Script, Handled, UNCHANGED handled, NEW m,
         m \in IF sent = <<>> THEN Logins ELSE Requests, sent' = Append(sent, m)
  PROVE  Ahead' = Ahead \o m.bytes
<1>1. /\ Script' /\ Len(sent') = Len(sent) + 1 /\ sent'[Len(sent) + 1] = m
      /\ m.bytes \in Seq(Byte) /\ \A i \in 1 .. Len(sent) : sent'[i] = sent[i]
  BY SentMore
<1>2. PICK k \in Nat, n \in Nat : k = Len(handled) /\ n = Len(sent) /\ k <= n  BY AheadType
<1>3. PICK s : s = sent'  OBVIOUS
<1>4. Messages(s) /\ Len(s) = n + 1 /\ s[n + 1] = m /\ \A i \in 1 .. n : s[i] = sent[i]
  <2>1. Messages(sent)  BY SentMessages
  <2>2. Messages(Append(sent, m))  BY <2>1, <1>1, MessagesMore
  <2> QED  BY <1>1, <1>2, <1>3, <2>2
<1>5. PICK e \in k + 1 .. Len(s) : e = n + 1 /\ e - 1 = n
  <2>1. n + 1 \in k + 1 .. n + 1 /\ n + 1 - 1 = n  BY <1>2
  <2> QED  BY <1>4, <2>1
<1>6. BytesOf(s, k, e) = BytesOf(s, k, e - 1) \o s[e].bytes  BY <1>4, <1>5, BytesOfLast
<1>7. BytesOf(s, k, n) = BytesOf(sent, k, n)
  <2>1. \A i \in 1 .. n - k : k + i \in 1 .. n  BY <1>2
  <2>2. \A i \in 1 .. n - k : s[k + i].bytes = sent[k + i].bytes  BY <1>4, <2>1
  <2>3. [i \in 1 .. n - k |-> s[k + i].bytes] = [i \in 1 .. n - k |-> sent[k + i].bytes]  BY <2>2
  <2> QED  BY <2>3 DEF BytesOf
<1>8. Ahead' = BytesOf(s, k, e)  BY <1>2, <1>3, <1>4, <1>5 DEF Ahead
<1>9. Ahead = BytesOf(sent, k, n)  BY <1>2 DEF Ahead
<1> QED  BY <1>4, <1>5, <1>6, <1>7, <1>8, <1>9

LEMMA ClientSendKeeps == ASSUME Inv, ClientSend  PROVE Inv'
<1>1. PICK m : /\ m \in IF sent = <<>> THEN Logins ELSE Requests
               /\ sent' = Append(sent, m) /\ wire' = wire \o m.bytes
  BY DEF ClientSend
<1>2. /\ state # "CLOSED" /\ gone = "no"
      /\ UNCHANGED <<state, interest, user, parser, reply, input, output, users, settings, gone, lists,
                     handled, told, got, cut>>
  BY DEF ClientSend, session, answers
<1>3. /\ Script' /\ Handled' /\ Len(sent') = Len(sent) + 1 /\ m.bytes \in Seq(Byte)
      /\ \A i \in 1 .. Len(sent) : sent'[i] = sent[i]
  BY <1>1, <1>2, SentMore DEF Inv
<1>4. IInv'  BY <1>2, Stutters DEF Inv
<1>5. wire \in Seq(Byte) /\ wire' \in Seq(Byte)
  <2>1. wire \in Seq(Byte)  BY DEF Inv, Typed
  <2> QED  BY <1>1, <1>3, <2>1, ConcatParts
<1>6. Typed'  BY <1>2, <1>5 DEF Inv, Typed
<1>7. Turn'  BY <1>2 DEF Inv, Turn
<1>9. Replied'
  <2>1. PICK k \in Nat, n \in Nat : k = Len(handled) /\ n = Len(sent) /\ k <= n  BY AheadType DEF Inv
  <2>2. \A i \in 1 .. k : i \in 1 .. n  BY <2>1
  <2>3. \A i \in 1 .. k : sent'[i] = sent[i]  BY <1>3, <2>1, <2>2
  <2> QED  BY <1>2, <2>1, <2>3, RepliedSame DEF Inv
<1>8. Stream'
  <2>1. PICK t \in Seq(Byte), b \in Seq(Byte), w \in Seq(Byte) : t = Ahead /\ b = m.bytes /\ w = wire
    BY <1>3, <1>5, AheadType DEF Inv
  <2>2. Ahead' = t \o b  BY <1>1, <1>2, <2>1, AheadMore DEF Inv
  <2>3. PICK u \in 0 .. Len(t) : Split(u) /\ Using(u)  BY <1>2, <2>1 DEF Inv, Stream
  <2>4. PICK l \in Nat, lt \in Nat, lw \in Nat, lb \in Nat :
          l = Len(input.held) /\ lt = Len(t) /\ lw = Len(w) /\ lb = Len(b)
    <3>1. input.held \in Seq(Byte)  BY DEF Inv, Typed, BufferOK
    <3> QED  BY <3>1, LenProperties
  <2>u. u \in Nat  OBVIOUS
  <2>5. Lies(input.held, t, u) /\ Lies(w, t, u + l) /\ lt = u + l + lw
    BY <1>2, <2>1, <2>3, <2>4 DEF Split
  <2>6. Lies(input.held, t \o b, u)  BY <2>u, <2>5, LiesBefore
  <2>v. PICK v \in Nat : v = u + l  BY <2>u
  <2>7. Lies(w, t \o b, v) /\ Lies(b, t \o b, lt) /\ v + lw = lt /\ Len(t \o b) = lt + lb /\ t \o b \in Seq(Byte)
    <3>1. Lies(w, t \o b, v)  BY <2>5, <2>v, LiesBefore
    <3>2. Lies(b, t \o b, Len(t)) /\ Len(t \o b) = Len(t) + Len(b)  BY LiesAfter
    <3>3. t \o b \in Seq(Byte)  BY ConcatParts
    <3>4. v + lw = lt  BY <2>u, <2>5, <2>v
    <3> QED  BY <2>4, <3>1, <3>2, <3>3, <3>4
  <2>8. Lies(w \o b, t \o b, v) /\ Len(w \o b) = lw + lb
    <3>1. Lies(b, t \o b, v + Len(w))  BY <2>4, <2>7
    <3> QED  BY <2>4, <2>7, <3>1, LiesJoin
  <2>a. lt = u + l + lw  BY <2>5
  <2>9. lt + lb = u + l + (lw + lb)  BY <2>a, <2>u
  <2>10. Split(u)'
    <3>1. wire' = w \o b /\ input' = input /\ gone' # "reset" /\ u + l = v  BY <1>1, <1>2, <2>1, <2>v
    <3> QED  BY <2>2, <2>4, <2>6, <2>7, <2>8, <2>9, <3>1 DEF Split
  <2>11. u \in 0 .. Len(t \o b)
    <3>1. u <= lt + lb /\ u >= 0  BY <2>4, <2>5, <2>u
    <3> QED  BY <2>7, <2>u, <3>1
  <2>12. Using(u)'
    <3>1. CASE state \in {"AUTHENTICATING", "METHOD"}
      <4>1. PICK k \in Nat, n \in Nat : k = Len(handled) /\ n = Len(sent)  BY AheadType DEF Inv
      <4>2. k < n /\ u < Len(sent[k + 1].bytes) /\ At(Protocol, sent[k + 1], u, parser)
        BY <2>3, <3>1, <4>1 DEF Using
      <4>3. k + 1 \in 1 .. n /\ k < n + 1  BY <4>2
      <4>4. sent'[k + 1] = sent[k + 1] /\ Len(sent') = n + 1  BY <1>3, <4>1, <4>3
      <4>5. Protocol' = Protocol  BY <1>2 DEF Protocol
      <4> QED  BY <1>2, <3>1, <4>1, <4>2, <4>3, <4>4, <4>5 DEF Using
    <3>2. CASE state \notin {"AUTHENTICATING", "METHOD"}  BY <1>2, <2>3, <3>2 DEF Using
    <3> QED  BY <3>1, <3>2
  <2> QED  BY <2>2, <2>10, <2>11, <2>12 DEF Stream
<1> QED  BY <1>3, <1>4, <1>6, <1>7, <1>8, <1>9 DEF Inv

LEMMA ClientGoneKeeps == ASSUME Inv, ClientGone  PROVE Inv'
<1>1. /\ state # "CLOSED" /\ gone = "no"
      /\ UNCHANGED <<state, interest, user, parser, reply, input, output, users, settings, sent, lists,
                     handled, told, got, cut>>
      /\ \/ gone' = "fin" /\ wire' = wire
         \/ gone' = "reset" /\ wire' = <<>>
  BY DEF ClientGone, session, answers
<1>2. IInv'  BY <1>1, Stutters DEF Inv
<1>3. Typed'  BY <1>1, EmptySeq DEF Inv, Typed
<1>4. Script' /\ Handled'  BY <1>1, SentSame DEF Inv
<1>5. Turn' /\ Replied'  BY <1>1, RepliedSame DEF Inv, Turn
<1>6. Stream'
  <2>1. PICK u \in 0 .. Len(Ahead) : Split(u) /\ Using(u)  BY <1>1 DEF Inv, Stream
  <2>2. Ahead' = Ahead /\ Protocol' = Protocol  BY <1>1 DEF Ahead, Protocol
  <2>3. Split(u)'  BY <1>1, <2>1, <2>2 DEF Split
  <2>4. Using(u)'  BY <1>1, <2>1, <2>2 DEF Using
  <2> QED  BY <2>1, <2>2, <2>3, <2>4 DEF Stream
<1> QED  BY <1>2, <1>3, <1>4, <1>5, <1>6 DEF Inv

\* Nothing of the session changes but perhaps the users.
LEMMA SessionSame ==
  ASSUME Inv, IInv', UNCHANGED <<session, settings, wire, gone, sent, handled, answers>>, IsUsers(users')
  PROVE  Inv'
<1>1. UNCHANGED <<state, interest, user, parser, reply, input, output>>  BY DEF session
<1>2. Typed'  BY <1>1 DEF Inv, Typed, answers
<1>3. Script' /\ Handled'  BY SentSame DEF Inv
<1>4. Turn' /\ Replied'  BY <1>1, RepliedSame DEF Inv, Turn, answers
<1>5. Stream'
  <2>1. CASE state = "CLOSED"  BY <1>1, <2>1 DEF Stream
  <2>2. CASE state # "CLOSED"  BY <1>1, <2>2, StreamSame DEF Inv
  <2> QED  BY <2>1, <2>2
<1> QED  BY <1>2, <1>3, <1>4, <1>5 DEF Inv

LEMMA OthersKeep == ASSUME Inv, OtherAdds \/ OtherRemoves  PROVE Inv'
<1>1. IInv'  BY OthersAdminister DEF Inv
<1>u. IsUsers(users)  BY DEF Inv, Typed
<1>2. CASE OtherAdds
  <2>a. PICK admin \in 0 .. 1 : admin = 1  OBVIOUS
  <2>b. PICK new : new = [pass |-> Visitor, admin |-> admin]  OBVIOUS
  <2>1. new = [pass |-> Visitor, admin |-> 1] /\ new.admin \in 0 .. 1  BY <2>a, <2>b
  <2>2. /\ Visitor \notin DOMAIN users /\ Cardinality(DOMAIN users) < MaxUsers
        /\ users' = [n \in DOMAIN users \cup {Visitor} |-> IF n = Visitor THEN new ELSE users[n]]
    BY <1>2, <2>1 DEF OtherAdds, Exists
  <2>3. IsUsers(users')  BY SMTT(40), <1>u, <2>1, <2>2, OneUserMore, UsersAssumption
  <2> QED  BY <1>1, <1>2, <2>3, SessionSame DEF OtherAdds
<1>3. CASE OtherRemoves
  <2>1. IsUsers(users')
    <3>1. users' = [n \in DOMAIN users \ {Visitor} |-> users[n]]  BY <1>3 DEF OtherRemoves, Without
    <3> QED  BY <1>u, <3>1, OneUserLess
  <2>2. UNCHANGED <<user, parser, reply, input, output, settings, gone, sent, handled, answers>>
    BY <1>3 DEF OtherRemoves
  <2>3. CASE Close  BY <2>1, <2>2, <2>3, Leaving
  <2>4. CASE UNCHANGED <<state, interest, wire>>
    <3>1. UNCHANGED session  BY <2>2, <2>4 DEF session
    <3> QED  BY <1>1, <2>1, <2>2, <2>4, <3>1, SessionSame
  <2> QED  BY <1>3, <2>3, <2>4 DEF OtherRemoves
<1> QED  BY <1>2, <1>3

LEMMA NothingKeeps == ASSUME Inv, UNCHANGED vars  PROVE Inv'
<1>1. UNCHANGED <<session, users, settings, wire, gone, sent, handled, answers, lists>>  BY DEF vars
<1>2. UNCHANGED <<state, interest, user, reply>>  BY <1>1 DEF session
<1>3. IInv'  BY <1>1, <1>2, Stutters DEF Inv
<1>4. IsUsers(users')  BY <1>1 DEF Inv, Typed
<1> QED  BY <1>1, <1>3, <1>4, SessionSame

LEMMA InitInv == ASSUME Init, IInv  PROVE Inv
<1>1. /\ state = "AUTH_ARRIVAL" /\ interest = "READ" /\ input = [off |-> 0, held |-> <<>>]
      /\ output = [off |-> 0, held |-> <<>>] /\ users = InitUsers
      /\ wire = <<>> /\ gone = "no" /\ sent = <<>> /\ handled = <<>>
      /\ told = <<>> /\ got = <<>> /\ cut = FALSE
  BY DEF Init
<1>e. <<>> \in Seq(Byte) /\ Len(<<>>) = 0  BY EmptySeq
<1>2. BufferOK(input, InSize) /\ BufferOK(output, OutSize)
  <2>1. PICK e \in Seq(Byte) : e = <<>> /\ Len(e) = 0  BY <1>e
  <2>2. PICK b : b = [off |-> 0, held |-> e]  OBVIOUS
  <2>3. b.off = 0 /\ b.held = e /\ b \in [off : Nat, held : Seq(Byte)]  BY <2>2
  <2>4. 0 + Len(e) <= InSize /\ 0 + Len(e) <= OutSize  BY <2>1, SizesAssumption
  <2>5. BufferOK(b, InSize) /\ BufferOK(b, OutSize)  BY <2>3, <2>4 DEF BufferOK
  <2> QED  BY <1>1, <2>1, <2>2, <2>5
<1>3. Reply(reply)
  <2>1. Invalid \in Byte  BY DEF Invalid, Byte
  <2>2. reply = Answer(Invalid, Invalid, <<>>)  BY DEF Init
  <2>3. Fresh(Answer(Invalid, Invalid, <<>>))  BY <1>e, <2>1, FreshAnswer
  <2> QED  BY <2>2, <2>3 DEF Fresh
<1>4. SettingsOK(settings)
  <2>1. MaxBuffer \in Nat /\ MaxBuffer >= 1024 * 1024  BY SMT DEF MaxBuffer
  <2>2. PICK size \in MinBuffer .. MaxBuffer : size = 4096  BY SMT, <2>1 DEF MinBuffer
  <2>3. PICK on \in 0 .. 1, s \in 1 .. 255, t \in 1 .. 255 : on = 1 /\ s = 7 /\ t = 15
    <3>1. 1 \in 0 .. 1 /\ 7 \in 1 .. 255 /\ 15 \in 1 .. 255  OBVIOUS
    <3> QED  BY <3>1
  <2>4. settings = [spoofing |-> on, cleanup |-> on, buffer |-> size, select |-> s, inactivity |-> t]
    BY SMT, <2>2, <2>3 DEF Init
  <2> QED  BY <2>4 DEF SettingsOK
<1>5. Typed  BY <1>1, <1>2, <1>3, <1>4, <1>e, UsersAssumption DEF Typed
<1>6. Script  BY <1>1, EmptySeq DEF Script
<1>7. Handled  BY <1>1, EmptySeq DEF Handled
<1>8. Turn  BY <1>1, <1>e DEF Turn
<1>9. Stream
  <2>1. Ahead = <<>> /\ Ahead \in Seq(Byte) /\ Len(Ahead) = 0
    <3>1. PICK k \in Nat : k = Len(handled) /\ k = Len(sent)  BY <1>1, <1>e
    <3>2. Ahead = <<>>  BY <3>1, BytesOfNone DEF Ahead
    <3> QED  BY <1>e, <3>2
  <2>2. input.held = <<>> /\ wire = <<>> /\ gone # "reset"  BY <1>1
  <2>t. PICK t \in Seq(Byte) : t = Ahead /\ Len(t) = 0  BY <2>1
  <2>z. PICK zero \in Nat : zero = 0  OBVIOUS
  <2>a. t = Ahead /\ zero = 0 /\ zero <= Len(t)  BY <2>t, <2>z
  <2>b. Lies(input.held, t, zero) /\ Lies(wire, t, zero)  BY <2>2, <2>a, LiesNone
  <2>3. Lies(input.held, Ahead, 0) /\ Lies(wire, Ahead, 0)  BY <2>a, <2>b
  <2>4. Len(input.held) = 0 /\ Len(wire) = 0  BY <1>e, <2>2
  <2>5. Split(0)  BY <2>1, <2>2, <2>3, <2>4 DEF Split
  <2>6. Using(0)  BY <1>1 DEF Using
  <2>7. 0 \in 0 .. Len(Ahead)  BY <2>1
  <2> QED  BY <2>5, <2>6, <2>7 DEF Stream
<1>10. Replied
  <2>1. Told
    <3>1. told \in Seq(Telling) /\ cut \in BOOLEAN /\ Len(told) = 0 /\ Len(handled) = 0
      BY <1>1, EmptySeq
    <3> QED  BY <3>1 DEF Told
  <2> QED  BY <1>1, <2>1 DEF Replied
<1> QED  BY <1>5, <1>6, <1>7, <1>8, <1>9, <1>10 DEF Inv

LEMMA InvAlways == Spec => []Inv
<1>2. Init => Inv  BY Starts, InitInv
<1>3. Inv /\ [Next]_vars => Inv'
  <2> SUFFICES ASSUME Inv, [Next]_vars  PROVE Inv'
    OBVIOUS
  <2>1. CASE Read  BY <2>1, ReadKeeps
  <2>2. CASE Write  BY <2>2, WriteKeeps
  <2>3. CASE OtherAdds \/ OtherRemoves  BY <2>3, OthersKeep
  <2>4. CASE ClientSend  BY <2>4, ClientSendKeeps
  <2>5. CASE ClientGone  BY <2>5, ClientGoneKeeps
  <2>6. CASE UNCHANGED vars  BY <2>6, NothingKeeps
  <2> QED  BY <2>1, <2>2, <2>3, <2>4, <2>5, <2>6 DEF Next, Environment, Over
<1> QED  BY <1>2, <1>3, PTL DEF Spec

-----------------------------------------------------------------------------
\* The copy of the users that a list command allocates is freed exactly once on
\* every way out of METHOD_RESPONSE: the answer is complete, the client left, or
\* the session's user was removed meanwhile (administration_close).
THEOREM ListsNotLeaked == Spec => []ListsFreed
<1>1. IInv => ListsFreed  BY DEF IInv
<1> QED  BY <1>1, Inductive, PTL

\* From AUTH_ACK on, the user of the session exists and is an administrator,
\* whatever commands this session and the others execute.
THEOREM ServesAdmins == Spec => []ServedByAdmin
<1>1. IInv => ServedByAdmin  BY DEF IInv
<1> QED  BY <1>1, Inductive, PTL

\* The buffers respect their sizes whatever the client sends and takes, the
\* settings stay in the ranges that the setters promise, the users within their
\* maximum, and the selector watches an open session for what its state waits
\* for (administration.c, userHandler.c).
THEOREM AdministrationTypeOK == Spec => []TypeOK
<1>1. Inv => TypeOK
  <2> SUFFICES ASSUME Inv  PROVE TypeOK
    OBVIOUS
  <2>1. state \in States  BY DEF Inv, IInv, Watched
  <2>2. interest = CASE state = "CLOSED" -> "NONE"
                     [] state \in {"AUTH_ACK", "AUTH_ERROR", "METHOD_RESPONSE"} -> "WRITE"
                     [] OTHER -> "READ"
    <3>1. CASE state = "CLOSED"  BY <3>1 DEF Inv, IInv, Watched
    <3>2. CASE state \in {"AUTH_ACK", "AUTH_ERROR", "METHOD_RESPONSE"}  BY <3>2 DEF Inv, IInv, Watched
    <3>3. CASE state \in {"AUTH_ARRIVAL", "AUTHENTICATING", "METHOD_ARRIVAL", "METHOD"}
      BY <3>3 DEF Inv, IInv, Watched
    <3> QED  BY <2>1, <3>1, <3>2, <3>3 DEF States
  <2>3. BufferOK(input, InSize) /\ BufferOK(output, OutSize)  BY DEF Inv, Typed
  <2>4. /\ input.held \in Seq(Byte) /\ Room(input, InSize) \in 0 .. InSize
        /\ output.held \in Seq(Byte) /\ Room(output, OutSize) \in 0 .. OutSize
    BY <2>3, RoomNat, SizesAssumption
  <2>5. Cardinality(DOMAIN users) <= MaxUsers  BY DEF Inv, Typed, IsUsers
  <2>6. SettingsOK(settings)  BY DEF Inv, Typed
  <2> QED  BY <2>1, <2>2, <2>4, <2>5, <2>6 DEF TypeOK, SettingsOK
<1> QED  BY <1>1, InvAlways, PTL

\* However the bytes are cut on their way in and out, the requests executed are
\* those that were sent, in their order, and the client receives for each, whole
\* and in order, an answer that pipoProtocol.txt gives, of the users, settings and
\* counters as they were then; but for the connections of a user, whose two bytes
\* and whose zero for nobody the document does not have, and for a list of users
\* that was resumed inside an entry, of which nothing is said and which leaves the
\* answers after it right (admin_request_parser_consume, admin_request_query_process,
\* admin_request_modification_process, admin_response_builder).
THEOREM AnswersAreExact == Spec => []RepliesExact
<1>1. Inv => RepliesExact
  <2> SUFFICES ASSUME Inv  PROVE RepliesExact
    OBVIOUS
  <2>1. PICK k \in Nat, n \in Nat : k = Len(handled) /\ n = Len(sent) /\ k <= n  BY AheadType DEF Inv
  <2>2. \A i \in 1 .. Len(handled) : i <= Len(sent) /\ handled[i].seen = sent[i].seen
    <3>1. \A i \in 1 .. k : i <= n  BY <2>1
    <3> QED  BY <2>1, <3>1 DEF Inv, Handled
  <2>3. \A i \in 1 .. Len(told) : i <= Len(handled) /\ (told[i].cut \/ told[i].bytes \in Owed(i))
    <3>1. PICK t \in Nat : t = Len(told) /\ t <= k  BY <2>1, LenProperties DEF Inv, Replied, Told
    <3>2. \A i \in 1 .. t : i <= k  BY <3>1
    <3> QED  BY <2>1, <3>1, <3>2 DEF Inv, Replied, Told
  <2>4. ASSUME interest = "WRITE", ~cut  PROVE \E w \in Owed(k) : IsPrefix(got \o output.held, w)
    <3>1. (got \o output.held) \o Rest(reply) \in Owed(k)  BY <2>1, <2>4 DEF Inv, Replied
    <3>2. got \o output.held \in Seq(Byte)
      <4>1. got \in Seq(Byte) /\ output.held \in Seq(Byte)  BY DEF Inv, Typed, BufferOK
      <4> QED  BY <4>1, ConcatParts
    <3>3. Rest(reply) \in Seq(Byte)  BY RestBytes DEF Inv, Typed
    <3>4. PICK w : w = (got \o output.held) \o Rest(reply)  OBVIOUS
    <3>5. IsPrefix(got \o output.held, w)  BY <3>2, <3>3, <3>4, PrefixIs
    <3> QED  BY <3>1, <3>4, <3>5
  <2>5. /\ interest = "READ" => Len(told) = Len(handled) /\ got = <<>> /\ output.held = <<>>
        /\ interest = "WRITE" => Len(told) = Len(handled) - 1
    BY DEF Inv, Replied
  <2> QED  BY <2>1, <2>2, <2>3, <2>4, <2>5 DEF RepliesExact
<1> QED  BY <1>1, InvAlways, PTL
=============================================================================
