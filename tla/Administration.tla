--------------------------- MODULE Administration ---------------------------
(* One session of the administration protocol, byte by byte: the two        *)
(* parsers, the commands, the response builders and the session's handlers  *)
(* (socks5/administration/, parsers/adminRequestParser/, parsers/authRequest).*)
(* The client sends whole messages; every receive and every send may cut    *)
(* them anywhere.  The users are shared with other administrators.          *)
(* Allocations succeed.                                                     *)
EXTENDS ByteParsers, SequencesExt, FiniteSets

CONSTANTS
  InSize, OutSize,     \* DEFAULT_INPUT_BUFFER_SIZE, DEFAULT_OUTPUT_BUFFER_SIZE
  Logins, Requests,    \* what the client may send first, and then
  InitUsers,           \* name -> [pass, admin], with the anonymous user
  Anonymous,           \* ANONYMOUS_USER_CREDENTIALS
  Visitor,             \* a user other administrators add and remove
  MaxUsers,            \* MAX_USER_COUNT
  Statistic,           \* values a counter of statistics.c may have
  Junk,                \* a byte past the end of a copied user name
  MaxMessages,         \* bound: messages of the client
  MaxWindow            \* bound: messages sent without their answers

ASSUME SizesAssumption == InSize \in Nat \ {0} /\ OutSize \in Nat \ {0}
\* names are unique, and total_users of a list is a byte
IsUsers(u) ==
  /\ IsFiniteSet(DOMAIN u) /\ Cardinality(DOMAIN u) <= MaxUsers
  /\ \A name \in DOMAIN u : IsString(name) /\ u[name].admin \in 0 .. 1
ASSUME UsersAssumption ==
  /\ MaxUsers \in Byte /\ IsUsers(InitUsers)
  /\ Anonymous \in DOMAIN InitUsers /\ IsString(Visitor) /\ Visitor # Anonymous
ASSUME NumbersAssumption == Statistic \subseteq Nat /\ Statistic # {} /\ Junk \in Byte

VARIABLES
  state, interest,     \* currentState, and what the selector watches
  user,                \* the user of the session, <<>> for none
  parser,              \* adminHeader: the parser of the login or the request
  reply,               \* adminHeader: the response builder
  input, output,       \* Buffer: off is the read offset, held the bytes after it
  users, settings,     \* userMap; what the commands set
  window,              \* messages this client sends without their answers
  wire, gone,          \* sent to the daemon and not received; FIN or reset
  lists,               \* user lists that are allocated
  sent, handled, told, \* history: messages sent, parsed, and their answers
  got, cut             \* history: received of the next answer, and if it is a user
                       \* list that was resumed inside an entry

session == <<state, interest, user, parser, reply, input, output>>
answers == <<told, got, cut>>
vars == <<session, users, settings, window, wire, gone, lists, sent, handled, answers>>

-----------------------------------------------------------------------------
(* Messages of the protocol, as bytes                                      *)

Query == 0
Modification == 1
InvalidParameter == 254
Invalid == 255

Request(type, cmd, bytes, args) ==
  [kind |-> "request", bytes |-> <<type, cmd>> \o bytes, seen |-> <<type, cmd, args>>]

Weight == <<16777216, 65536, 256, 1>>
BigEndian(v, width) == [i \in 1 .. width |-> (v \div Weight[4 - width + i]) % 256]
Value32(s) == ((s[1] * 256 + s[2]) * 256 + s[3]) * 256 + s[4]
\* a 64-bit counter; bound: the counters of the model stay below 2^31
Word(v, width) == IF width = 8 THEN BigEndian(0, 4) \o BigEndian(v, 4) ELSE BigEndian(v, width)

-----------------------------------------------------------------------------
(* The parsers                                                             *)

NewParser(first) == [state |-> first, type |-> Invalid, cmd |-> Invalid, len |-> -1,
                     str |-> <<>>, args |-> <<>>]

(* admin_request_parser_feed.  ArgState: the arguments of each command.     *)
ArgState(type, cmd) ==
  CASE type = Query /\ cmd \in 0 .. 10 -> "DONE"
    [] type = Query /\ cmd = 11 -> "STRING"
    [] type = Modification /\ cmd = 0 -> "ADD_USER"
    [] type = Modification /\ cmd = 1 -> "STRING"
    [] type = Modification /\ cmd \in {2, 3, 5, 6} -> "UINT_8"
    [] type = Modification /\ cmd = 4 -> "UINT_32"
    [] OTHER -> "BAD_COMMAND"

\* a length, then that many characters, possibly none
\* (a slip: the end is looked for after a character only)
StringArgNonEmpty(p, b, next) ==
  IF p.len = -1 THEN [p EXCEPT !.len = b, !.str = <<>>]
  ELSE LET s == Append(p.str, b)
       IN  IF Len(s) = p.len
           THEN [p EXCEPT !.state = next, !.len = -1, !.args = Append(@, s)]
           ELSE [p EXCEPT !.str = s]
StringArg(p, b, next) ==
  LET q == IF p.len = -1 THEN [p EXCEPT !.len = b, !.str = <<>>]
                         ELSE [p EXCEPT !.str = Append(@, b)]
  IN  IF Len(q.str) = q.len
      THEN [q EXCEPT !.state = next, !.len = -1, !.args = Append(@, q.str)] ELSE q

RequestFeed(p, b) ==
  CASE p.state = "TYPE" ->
         IF b \in {Query, Modification} THEN [p EXCEPT !.type = b, !.state = "COMMAND"]
                                        ELSE [p EXCEPT !.state = "BAD_TYPE"]
    [] p.state = "COMMAND" -> [p EXCEPT !.cmd = b, !.state = ArgState(p.type, b)]
    [] p.state = "STRING" -> StringArg(p, b, "DONE")
    [] p.state = "ADD_USER" -> StringArg(p, b, "ADD_PASS")
    [] p.state = "ADD_PASS" -> StringArg(p, b, "ADD_PRIV")
    [] p.state \in {"UINT_8", "ADD_PRIV"} -> [p EXCEPT !.args = Append(@, b), !.state = "DONE"]
    [] p.state = "UINT_32" ->
         LET q == [p EXCEPT !.str = Append(@, b)]
         IN  IF Len(q.str) = 4
             THEN [q EXCEPT !.state = "DONE",
                            !.args = <<Value32(q.str)>>]
             ELSE q

Done(p) == p.state \in {"DONE", "BAD_VERSION", "BAD_LENGTH", "BAD_TYPE", "BAD_COMMAND"}

Feed(protocol, p, b) == IF protocol = "auth" THEN AuthFeed(p, b) ELSE RequestFeed(p, b)

\* *_parser_consume, on a buffer that was received into: its parser and what it
\* used, after each byte, and the set of its outcome.  It feeds until the parser
\* is done; buffer_read rewinds the buffer when it is drained.
Fed(protocol, start, held) ==
  LET fed[k \in 0 .. Len(held)] ==
        IF k = 0 THEN [p |-> start, n |-> 0]
        ELSE LET a == fed[k - 1]
             IN  IF Done(a.p) THEN a ELSE [p |-> Feed(protocol, a.p, held[k]), n |-> a.n + 1]
  IN  fed
Consume(protocol, start, in) ==
  {[p |-> a.p, in |-> Advance(in, a.n)] : a \in {Fed(protocol, start, in.held)[Len(in.held)]}}

-----------------------------------------------------------------------------
(* adminResponseBuilder.c: a reply is its header and the bytes or the users *)
(* that follow; cur is currByte, entry is currentUser.                      *)

Answer(type, cmd, body) ==
  [list |-> FALSE, head |-> <<type, cmd>>, body |-> body, cur |-> 0, entry |-> 1]
UserList(type, cmd, body) ==
  [list |-> TRUE, head |-> <<type, cmd, Len(body)>>, body |-> body, cur |-> 0, entry |-> 1]

Entry(u) == Str(u.name) \o <<u.admin>>
Whole(r) == r.head \o (IF r.list THEN FlattenSeq([i \in DOMAIN r.body |-> Entry(r.body[i])])
                                 ELSE r.body)
Built(r) == IF r.list THEN r.entry > Len(r.body) ELSE r.cur = Len(r.head \o r.body)

\* One byte of a list.  a.put is the local putUlen.  The characters after a
\* name are what the copied array holds: its NUL, then anything up to a NUL
\* (bound: one byte).
Chars(name, at) == CASE at \in DOMAIN name -> {<<name[at]>>}
                     [] at = Len(name) + 2 -> {<<>>, <<Junk>>}
                     [] OTHER -> {<<>>}
ListByte(r, a) ==
  LET u == r.body[a.entry]
      Put(bytes, put) == [cur |-> a.cur + 1, entry |-> a.entry, put |-> put, bytes |-> a.bytes \o bytes]
  IN  IF a.cur < 3 THEN {Put(<<r.head[a.cur + 1]>>, a.put)}
      ELSE IF a.put THEN {Put(<<Len(u.name)>>, FALSE)}
      ELSE {IF c # <<>> THEN Put(c, FALSE)
            ELSE [cur |-> 3, entry |-> a.entry + 1, put |-> TRUE, bytes |-> a.bytes \o <<u.admin>>] :
              c \in Chars(u.name, a.cur - 3)}

\* the outcomes after each byte there is room for
Listed(r, room) ==
  LET listed[k \in 0 .. room] ==
        IF k = 0 THEN {[cur |-> r.cur, entry |-> r.entry, put |-> TRUE, bytes |-> <<>>]}
        ELSE UNION {IF a.entry > Len(r.body) THEN {a} ELSE ListByte(r, a) : a \in listed[k - 1]}
  IN  listed
ListBytes(r, room) == Listed(r, room)[room]

\* The builder, called with room for some bytes.
Build(r, room) ==
  IF r.list
  THEN {[r |-> [r EXCEPT !.cur = a.cur, !.entry = a.entry], bytes |-> a.bytes] :
          a \in ListBytes(r, room)}
  ELSE LET w == r.head \o r.body
       IN  {[r |-> [r EXCEPT !.cur = to], bytes |-> SubSeq(w, r.cur + 1, to)] :
              to \in {IF r.cur + room < Len(w) THEN r.cur + room ELSE Len(w)}}

-----------------------------------------------------------------------------
(* The commands.  Each leaves its answer in reply.                          *)

Exists(name) == name \in DOMAIN users
Status(p, s) == reply' = Answer(p.type, p.cmd, <<s>>)
NoEffect == UNCHANGED <<users, settings>>

\* the width of the answer of each query with a number, and the number, if v is
\* what its counter has
Width == <<8, 2, 2, 8, 8, 1, 1, 4, 1, 1, 2>>
Value(p, v) ==
  CASE p.cmd = 7 -> Cardinality(DOMAIN users)
    [] p.cmd = 8 -> settings.buffer
    [] p.cmd = 9 -> settings.select
    [] p.cmd = 10 -> settings.inactivity
    [] p.cmd = 11 -> IF Exists(p.args[1]) THEN v ELSE 0
    [] OTHER -> v

ListUsers(p) ==
  /\ p.type = Query /\ p.cmd = 0
  /\ LET names == SetToSeq(DOMAIN users)
     IN  reply' = UserList(p.type, p.cmd,
                    [i \in DOMAIN names |-> [name |-> names[i], admin |-> users[names[i]].admin]])
  /\ lists' = lists + 1
  /\ NoEffect

Number(p, v) ==
  /\ p.type = Query /\ p.cmd > 0
  /\ reply' = Answer(p.type, p.cmd, Word(Value(p, v), Width[p.cmd]))
  /\ NoEffect /\ UNCHANGED lists

AddUser(p) ==
  /\ p.type = Modification /\ p.cmd = 0
  /\ LET name == p.args[1]
         pass == p.args[2]
         admin == p.args[3]
         wrong == CASE admin > 1 \/ name = <<>> \/ pass = <<>> -> InvalidParameter
                    [] Exists(name) -> 1
                    [] Cardinality(DOMAIN users) >= MaxUsers -> 2
                    [] OTHER -> 0
     IN  /\ Status(p, wrong)
         /\ users' = IF wrong # 0 THEN users
                     ELSE [n \in DOMAIN users \cup {name} |->
                             IF n = name THEN [pass |-> pass, admin |-> admin] ELSE users[n]]
  /\ UNCHANGED <<settings, lists>>

Without(name) == [n \in DOMAIN users \ {name} |-> users[n]]

\* admin_request_read clears the name of the session's own user first
\* (a slip: it is compared with the anonymous user only)
MayRemoveOwn(name) == name \notin {<<>>, Anonymous}
MayRemove(name) == name \notin {<<>>, Anonymous, user}
RemoveUser(p) ==
  /\ p.type = Modification /\ p.cmd = 1
  /\ LET name == p.args[1]
         wrong == CASE ~MayRemove(name) -> InvalidParameter
                    [] ~Exists(name) -> 1
                    [] OTHER -> 0
     IN  /\ Status(p, wrong)
         /\ users' = IF wrong = 0 THEN Without(name) ELSE users
  /\ UNCHANGED <<settings, lists>>

MinBuffer == 50
MaxBuffer == 1024 * 1024

\* the setting a command changes, the values it accepts, its status otherwise
\* (a slip: a zero timeout is accepted)
AcceptedZero(cmd) == IF cmd = 4 THEN MinBuffer .. MaxBuffer ELSE IF cmd < 4 THEN 0 .. 1 ELSE 0 .. 255
Setting(cmd) == CASE cmd = 2 -> "spoofing" [] cmd = 3 -> "cleanup" [] cmd = 4 -> "buffer"
                  [] cmd = 5 -> "select" [] cmd = 6 -> "inactivity"
Accepted(cmd) == IF cmd = 4 THEN MinBuffer .. MaxBuffer ELSE IF cmd < 4 THEN 0 .. 1 ELSE 1 .. 255
Set(p) ==
  /\ p.type = Modification /\ p.cmd > 1
  /\ IF p.args[1] \in Accepted(p.cmd)
     THEN /\ Status(p, 0)
          /\ settings' = [settings EXCEPT ![Setting(p.cmd)] = p.args[1]]
     ELSE /\ Status(p, IF p.cmd < 4 THEN InvalidParameter ELSE 1)
          /\ UNCHANGED settings
  /\ UNCHANGED <<users, lists>>

Refuse(p) ==
  /\ reply' = Answer(IF p.state = "BAD_TYPE" THEN Invalid ELSE p.type, Invalid, <<>>)
  /\ NoEffect /\ UNCHANGED lists

Execute(p, v) ==
  IF p.state = "DONE"
  THEN ListUsers(p) \/ Number(p, v) \/ AddUser(p) \/ RemoveUser(p) \/ Set(p)
  ELSE Refuse(p)

-----------------------------------------------------------------------------
(* The session's handlers (administration.c)                               *)

Holding == state = "METHOD_RESPONSE" /\ reply.list
\* administration_close
\* (a slip: the answer's data is not freed)
CloseKeepsList ==
  /\ state' = "CLOSED" /\ interest' = "NONE" /\ wire' = <<>> /\ UNCHANGED lists
Close ==
  /\ state' = "CLOSED" /\ interest' = "NONE" /\ wire' = <<>>
  /\ lists' = IF Holding THEN lists - 1 ELSE lists

Init ==
  /\ state = "AUTH_ARRIVAL" /\ interest = "READ" /\ user = <<>>
  /\ parser = NewParser("VERSION")
  /\ reply = Answer(Invalid, Invalid, <<>>)
  /\ input = [off |-> 0, held |-> <<>>] /\ output = [off |-> 0, held |-> <<>>]
  /\ users = InitUsers
  /\ settings = [spoofing |-> 1, cleanup |-> 1, buffer |-> 4096, select |-> 7, inactivity |-> 15]
  /\ window \in 1 .. MaxWindow
  /\ wire = <<>> /\ gone = "no" /\ lists = 0
  /\ sent = <<>> /\ handled = <<>> /\ told = <<>> /\ got = <<>> /\ cut = FALSE

\* A message was parsed: what it says, and what is true then and after it.
Handle(seen, v) ==
  handled' = Append(handled, [seen |-> seen, by |-> user, counter |-> v,
                              users |-> users, settings |-> settings,
                              nextUsers |-> users', nextSettings |-> settings'])

\* admin_auth_read, after the parser is done
LogIn(p) ==
  LET found == p.state = "DONE" /\ Exists(p.args[1])
      status == CASE p.state = "BAD_VERSION" -> 2
                  [] found /\ users[p.args[1]].pass = p.args[2]
                           /\ users[p.args[1]].admin = 1 -> 0
                  [] OTHER -> 1
  IN  /\ user' = IF found THEN p.args[1] ELSE user
      /\ state' = IF status = 0 THEN "AUTH_ACK" ELSE "AUTH_ERROR"
      /\ interest' = "WRITE"
      /\ reply' = Answer(AuthVersion, status, <<>>)
      /\ Handle(p.args, 0)

\* the *_arrival functions begin a parser, later reads go on with it
Parser(arrival, first) == IF state = arrival THEN NewParser(first) ELSE parser

AuthRead(in) ==
  /\ state \in {"AUTH_ARRIVAL", "AUTHENTICATING"}
  /\ UNCHANGED <<users, settings, lists>>
  /\ \E c \in Consume("auth", Parser("AUTH_ARRIVAL", "VERSION"), in) :
       /\ parser' = c.p /\ input' = c.in
       /\ IF Done(c.p) THEN LogIn(c.p)
          ELSE /\ state' = "AUTHENTICATING"
               /\ UNCHANGED <<user, interest, reply, handled>>

\* admin_request_read
RequestRead(in) ==
  /\ state \in {"METHOD_ARRIVAL", "METHOD"}
  /\ \E c \in Consume("request", Parser("METHOD_ARRIVAL", "TYPE"), in) :
       /\ parser' = c.p /\ input' = c.in
       /\ IF Done(c.p)
          THEN /\ \E v \in Statistic :
                    Execute(c.p, v) /\ Handle(<<c.p.type, c.p.cmd, c.p.args>>, v)
               /\ state' = "METHOD_RESPONSE" /\ interest' = "WRITE"
          ELSE /\ state' = "METHOD"
               /\ UNCHANGED <<interest, reply, handled, lists>> /\ NoEffect
  /\ UNCHANGED user

Read ==
  /\ interest = "READ"
  /\ \/ /\ Full(input, InSize) /\ (wire # <<>> \/ gone # "no")
        /\ Close
        /\ UNCHANGED <<user, parser, reply, input, users, settings, handled>>
     \/ /\ ~Full(input, InSize) /\ wire # <<>>
        /\ \E n \in 1 .. Len(wire) :
             /\ n <= Room(input, InSize)
             /\ wire' = SubSeq(wire, n + 1, Len(wire))
             /\ LET in == [input EXCEPT !.held = @ \o SubSeq(wire, 1, n)]
                IN  AuthRead(in) \/ RequestRead(in)
     \/ /\ ~Full(input, InSize) /\ wire = <<>> /\ gone # "no"
        /\ Close
        /\ UNCHANGED <<user, parser, reply, input, users, settings, handled>>
  /\ UNCHANGED <<output, window, gone, sent, answers>>

\* (a slip: bytes still to be sent are not looked at)
SentUnchecked(r, out) == Built(r)
Sent(r, out) == Built(r) /\ out.held = <<>>
\* admin_post_write_handler: the builder is called again after every send;
\* received is what the client has then of the answer.
PostWrite(out, received) ==
  \E b \in Build(reply, Room(out, OutSize)) :
    LET next == [out EXCEPT !.held = @ \o b.bytes]
        resumed == cut \/ (reply.list /\ reply.cur > 3 /\ b.bytes # <<>>)
    IN  /\ reply' = b.r
        /\ output' = next
        /\ IF ~Sent(b.r, next)
           THEN /\ got' = received /\ cut' = resumed
                /\ UNCHANGED <<state, interest, wire, lists, told>>
           ELSE /\ told' = Append(told, [bytes |-> received, cut |-> resumed])
                /\ got' = <<>> /\ cut' = FALSE
                /\ IF state = "AUTH_ERROR" THEN Close
                   ELSE /\ state' = "METHOD_ARRIVAL" /\ interest' = "READ"
                        /\ lists' = IF Holding THEN lists - 1 ELSE lists
                        /\ UNCHANGED wire

Write ==
  /\ interest = "WRITE"
  /\ \/ /\ output.held = <<>>
        /\ PostWrite(output, got)
     \/ \E n \in 1 .. Len(output.held) :
          /\ gone # "reset"
          /\ PostWrite(Advance(output, n), got \o SubSeq(output.held, 1, n))
     \/ /\ output.held # <<>> /\ gone = "reset"
        /\ Close
        /\ UNCHANGED <<reply, output, answers>>
  /\ UNCHANGED <<user, parser, input, users, settings, window, gone, sent, handled>>

-----------------------------------------------------------------------------
(* The client and the other administrators                                 *)

\* What is a request: one byte that is no type, or a type and a command with what
\* its state reads.
Arguments(awaited, args, bytes) ==
  CASE awaited = "STRING" ->
         Len(args) = 1 /\ args = <<args[1]>> /\ IsString(args[1]) /\ bytes = Str(args[1])
    [] awaited = "ADD_USER" ->
         /\ Len(args) = 3 /\ args = <<args[1], args[2], args[3]>>
         /\ IsString(args[1]) /\ IsString(args[2]) /\ args[3] \in Byte
         /\ bytes = Str(args[1]) \o Str(args[2]) \o <<args[3]>>
    [] awaited = "UINT_8" -> Len(args) = 1 /\ args = <<args[1]>> /\ args[1] \in Byte /\ bytes = args
    [] awaited = "UINT_32" -> bytes \in Seq(Byte) /\ Len(bytes) = 4 /\ args = <<Value32(bytes)>>
    [] OTHER -> args = <<>> /\ bytes = <<>>
IsRequest(m) ==
  IF Len(m.bytes) = 1
  THEN \E b \in Byte \ {Query, Modification} :
         m = [kind |-> "request", bytes |-> <<b>>, seen |-> <<Invalid, Invalid, <<>>>>]
  ELSE \E type \in {Query, Modification} : \E cmd \in Byte :
         LET bytes == SubSeq(m.bytes, 3, Len(m.bytes))
             args == m.seen[3]
         IN  /\ m.seen[1] = type /\ m.seen[2] = cmd
             /\ Arguments(ArgState(type, cmd), args, bytes) /\ m = Request(type, cmd, bytes, args)
ASSUME MessagesAssumption ==
  /\ \A m \in Logins : m.kind = "login" /\ m.bytes \in Seq(Byte) /\ IsLogin(m)
  /\ \A m \in Requests : IsRequest(m)

ClientSend ==
  /\ state # "CLOSED" /\ gone = "no"
  /\ Len(sent) < MaxMessages /\ Len(sent) - Len(told) < window
  /\ \E m \in IF sent = <<>> THEN Logins ELSE Requests :
       /\ sent' = Append(sent, m)
       /\ wire' = wire \o m.bytes
  /\ UNCHANGED <<session, users, settings, window, gone, lists, handled, answers>>

ClientGone ==
  /\ state # "CLOSED" /\ gone = "no"
  /\ \/ gone' = "fin" /\ UNCHANGED wire
     \/ gone' = "reset" /\ wire' = <<>>
  /\ UNCHANGED <<session, users, settings, window, lists, sent, handled, answers>>

\* user_handler_add_user, asked by another session
OtherAdds ==
  /\ ~Exists(Visitor) /\ Cardinality(DOMAIN users) < MaxUsers
  /\ users' = [n \in DOMAIN users \cup {Visitor} |->
                 IF n = Visitor THEN [pass |-> Visitor, admin |-> 1] ELSE users[n]]
  /\ UNCHANGED <<session, settings, window, wire, gone, lists, sent, handled, answers>>

\* user_handler_delete_user: the sessions of the user are closed first
OtherRemoves ==
  /\ Exists(Visitor)
  /\ users' = Without(Visitor)
  /\ IF user = Visitor /\ state # "CLOSED" THEN Close ELSE UNCHANGED <<state, interest, wire, lists>>
  /\ UNCHANGED <<user, parser, reply, input, output, settings, window, gone, sent, handled, answers>>

\* a session that was closed is gone
Over == state = "CLOSED" /\ UNCHANGED vars

Environment == ClientSend \/ ClientGone \/ OtherAdds \/ OtherRemoves
Next == Read \/ Write \/ Environment \/ Over

Spec == Init /\ [][Next]_vars /\ WF_vars(Read) /\ WF_vars(Write)

-----------------------------------------------------------------------------
(* What src/pipoProtocol.txt answers, to a message m that was handled in    *)
(* the circumstances h: a set of answers, because it leaves the order of a  *)
(* list open, and which of two true reasons is given for a refusal.         *)

\* 2.2
LoginAnswers(m, h) ==
  LET knows == /\ Len(m.seen) = 2 /\ m.seen[1] \in DOMAIN h.users
               /\ h.users[m.seen[1]].pass = m.seen[2] /\ h.users[m.seen[1]].admin = 1
  IN  {<<AuthVersion, IF m.bytes[1] # AuthVersion THEN 2 ELSE IF knows THEN 0 ELSE 1>>}

\* 5.2.1
Orders(S) == {f \in [1 .. Cardinality(S) -> S] : \A i, j \in DOMAIN f : f[i] = f[j] => i = j}
UserLists(u) ==
  {<<Query, 0, Cardinality(DOMAIN u)>>
     \o FlattenSeq([i \in DOMAIN f |-> Str(f[i]) \o <<u[f[i]].admin>>]) : f \in Orders(DOMAIN u)}

\* 5.2.2 to 5.2.13
Sizes == <<8, 2, 2, 8, 8, 1, 1, 4, 1, 1, 1>>
Reported(cmd, h) == CASE cmd = 7 -> Cardinality(DOMAIN h.users)
                      [] cmd = 8 -> h.settings.buffer
                      [] cmd = 9 -> h.settings.select
                      [] cmd = 10 -> h.settings.inactivity
                      [] OTHER -> h.counter
QueryErrors == {<<Query, 254, 254>>, <<Query, 254, 255>>}
QueryAnswers(cmd, args, h) ==
  IF cmd = 0 THEN UserLists(h.users)
  ELSE IF cmd = 11 /\ args[1] \notin DOMAIN h.users THEN QueryErrors
  ELSE {<<Query, cmd>> \o Word(Reported(cmd, h), Sizes[cmd])}

\* 4.2: a status that is true of what became of the users and the settings
Same(h) == h.nextUsers = h.users /\ h.nextSettings = h.settings
AddStatus(args, h) ==
  LET name == args[1]
      wrong == args[3] > 1 \/ name = <<>> \/ args[2] = <<>>
  IN  {s \in {0, 1, 2, 254} :
         CASE s = 0 -> /\ ~wrong /\ name \notin DOMAIN h.users
                       /\ DOMAIN h.nextUsers = DOMAIN h.users \cup {name}
                       /\ h.nextUsers[name] = [pass |-> args[2], admin |-> args[3]]
                       /\ \A n \in DOMAIN h.users : h.nextUsers[n] = h.users[n]
                       /\ h.nextSettings = h.settings
           [] s = 1 -> Same(h) /\ name \in DOMAIN h.users
           [] s = 2 -> Same(h) /\ Cardinality(DOMAIN h.users) >= MaxUsers
           [] s = 254 -> Same(h) /\ wrong}
RemoveStatus(name, h) ==
  {s \in {0, 1, 254} :
     CASE s = 0 -> /\ name \in DOMAIN h.users
                   /\ DOMAIN h.nextUsers = DOMAIN h.users \ {name}
                   /\ \A n \in DOMAIN h.nextUsers : h.nextUsers[n] = h.users[n]
                   /\ h.nextSettings = h.settings
       [] s = 1 -> Same(h) /\ name \notin DOMAIN h.users
       [] s = 254 -> Same(h) /\ name \in {<<>>, Anonymous, h.by}}
Subject == <<"", "spoofing", "cleanup", "buffer", "select", "inactivity">>
SetStatus(cmd, v, h) ==
  {s \in {0, 1, 254} :
     CASE s = 0 -> /\ h.nextUsers = h.users
                   /\ h.nextSettings = [h.settings EXCEPT ![Subject[cmd]] = v]
                   /\ IF cmd < 4 THEN v \in 0 .. 1 ELSE v > 0
       [] s = 1 -> Same(h) /\ cmd > 3 /\ (v = 0 \/ (cmd = 4 /\ v \notin MinBuffer .. MaxBuffer))
       [] s = 254 -> Same(h) /\ IF cmd < 4 THEN v > 1 ELSE v = 0}
ModificationAnswers(cmd, args, h) ==
  {<<Modification, cmd, s>> : s \in CASE cmd = 0 -> AddStatus(args, h)
                                      [] cmd = 1 -> RemoveStatus(args[1], h)
                                      [] cmd \in 2 .. 6 -> SetStatus(cmd, args[1], h)}

\* 3
Documented(m, h) ==
  IF m.kind = "login" THEN LoginAnswers(m, h)
  ELSE LET type == m.seen[1]
           cmd == m.seen[2]
       IN  CASE type = Query /\ cmd \in 0 .. 11 -> QueryAnswers(cmd, m.seen[3], h)
             [] type = Modification /\ cmd \in 0 .. 6 -> ModificationAnswers(cmd, m.seen[3], h)
             [] OTHER -> {<<IF type \in {Query, Modification} THEN type ELSE Invalid, Invalid>>}

IsQuery(m, cmd) == m.kind = "request" /\ m.seen[1] = Query /\ m.seen[2] = cmd
\* What the code answers otherwise: the connections of a user, in two bytes, and
\* those of a user that there is not.
Disputed(m, h) ==
  IF IsQuery(m, 11)
  THEN {<<Query, 11>> \o BigEndian(IF m.seen[3][1] \in DOMAIN h.users THEN h.counter ELSE 0, 2)}
  ELSE {}

-----------------------------------------------------------------------------
(* Properties                                                              *)

States == {"AUTH_ARRIVAL", "AUTHENTICATING", "AUTH_ACK", "AUTH_ERROR", "METHOD_ARRIVAL",
           "METHOD", "METHOD_RESPONSE", "CLOSED"}

\* The buffers respect their sizes, the settings are in the ranges that the
\* setters promise, and the selector watches an open session for exactly what
\* its state waits for.
TypeOK ==
  /\ state \in States
  /\ interest = CASE state = "CLOSED" -> "NONE"
                  [] state \in {"AUTH_ACK", "AUTH_ERROR", "METHOD_RESPONSE"} -> "WRITE"
                  [] OTHER -> "READ"
  /\ input.held \in Seq(Byte) /\ Room(input, InSize) \in 0 .. InSize
  /\ output.held \in Seq(Byte) /\ Room(output, OutSize) \in 0 .. OutSize
  /\ Cardinality(DOMAIN users) <= MaxUsers
  /\ settings \in [spoofing : 0 .. 1, cleanup : 0 .. 1, buffer : MinBuffer .. MaxBuffer,
                   select : 1 .. 255, inactivity : 1 .. 255]

\* However the bytes arrive, the requests executed are those that were sent, in
\* their order: consuming stops at the end of a request and the rest waits in
\* the input buffer (admin_request_parser_consume).  What the client receives
\* is the answer that the protocol has for each, whole and in order, about the
\* users, settings and counters as they were when it was executed, whatever
\* changes while it is sent; a status is true of what the command did; and none is
\* parsed before the answer to the one before is out.  What the code answers
\* otherwise than the document, Disputed and cut, is in the property below.
Owed(i) == Documented(sent[i], handled[i]) \cup Disputed(sent[i], handled[i])
RepliesExact ==
  /\ \A i \in 1 .. Len(handled) : i <= Len(sent) /\ handled[i].seen = sent[i].seen
  /\ \A i \in 1 .. Len(told) : i <= Len(handled) /\ (told[i].cut \/ told[i].bytes \in Owed(i))
  /\ interest = "READ" => Len(told) = Len(handled) /\ got = <<>> /\ output.held = <<>>
  /\ interest = "WRITE" =>
       /\ Len(told) = Len(handled) - 1
       /\ cut \/ \E w \in Owed(Len(handled)) : IsPrefix(got \o output.held, w)

\* Every answer is one that the protocol has.  The code does not keep it, in what
\* RepliesExact leaves out: a list of the users that does not fit the buffer is
\* resumed inside an entry, whose length is sent again (5.2.1,
\* admin_response_builder_user_list), and the connections of a user are told in
\* two bytes for one (5.2.12), and as 0 of a user that there is not (5.2.13).
AnswersDocumented == \A i \in 1 .. Len(told) : told[i].bytes \in Documented(sent[i], handled[i])

\* The copy of the users is allocated exactly while the list that shows it is
\* being answered: no way out of the session leaks it or frees it twice.
ListsFreed == lists = IF Holding THEN 1 ELSE 0

\* The user of a session that is served exists and is an administrator: no
\* command removes the user of its own session, and removing it elsewhere
\* closes the session in whatever state it is.
ServedByAdmin ==
  state \in {"AUTH_ACK", "METHOD_ARRIVAL", "METHOD", "METHOD_RESPONSE"} =>
    Exists(user) /\ users[user].admin = 1

Answered(n) == Len(told) >= n \/ state = "CLOSED"

\* Every message of a client that waits for its answers is answered, and its
\* session is closed only when the client left, its login was refused or its
\* user was removed: never because the input buffer is full, however long the
\* messages are.
EveryRequestAnswered ==
  /\ \A n \in 1 .. MaxMessages : window = 1 /\ Len(sent) >= n ~> Answered(n)
  /\ [][window = 1 /\ state # "CLOSED" /\ state' = "CLOSED" =>
          gone # "no" \/ state = "AUTH_ERROR" \/ (Exists(user) /\ user \notin DOMAIN users')]_vars

\* The same of a client that does not wait (pipoProtocol.txt, section 6).  The
\* code does not keep it: a request that arrived with another stays in the
\* input buffer until more bytes come (admin_post_write_handler).
PipelinedAnswered == \A n \in 1 .. MaxMessages : Len(sent) >= n ~> Answered(n)

=============================================================================
