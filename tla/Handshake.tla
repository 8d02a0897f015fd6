----------------------------- MODULE Handshake -----------------------------
(* The handshake of one proxy session, byte by byte, from the accepted       *)
(* connection to FORWARDING: the hello, login and request parsers, the       *)
(* replies, and the connection to the requested server (states/hello to      *)
(* states/ipConnect, states/errorStates, parsers/).  Every receive may cut    *)
(* the client's messages anywhere.  The resolution of a domain is one step   *)
(* here (module DnsResolution has its own), time-outs and removed users are  *)
(* in Accounts, what follows FORWARDING is in Relay.  Allocations succeed.   *)
EXTENDS ByteParsers, SequencesExt

CONSTANTS
  InSize, OutSize,     \* sessionInputBufferSize, sessionOutputBufferSize
  Scripts,             \* what a client may send: hello, login, request, data
  Users,               \* name -> password
  Anonymous,           \* ANONYMOUS_USER_CREDENTIALS
  MaxMessages,         \* bound: messages of a script
  MaxWindow            \* bound: messages sent without their answers

ReplySize == 10        \* RU_REPLY_SIZE
\* MIN_IO_BUFFER_SIZE is 50: a reply fits an empty buffer
ASSUME SizesAssumption == InSize \in Nat \ {0} /\ OutSize \in Nat /\ OutSize >= ReplySize
ASSUME UsersAssumption == Anonymous \in DOMAIN Users

VARIABLES
  state,               \* sessionStateMachine.current
  parser,              \* socksHeader: the parser of the state
  method, user, rep,   \* clientInfo.authMethod, clientInfo.user, requestHeader.rep
  bytes,               \* bytes of the reply that were marshalled
  input, output,       \* Buffer: off is the read offset, held the bytes after it
  server,              \* the server's socket: "none", "connecting", "up" or an errno
  script, window,      \* what this client sends, and how far ahead of the answers
  wire, gone,          \* sent to the daemon and not received; FIN or reset
  sent, answered,      \* messages sent by the client, answered by the daemon
  got, delivered,      \* history: bytes received by the client, by the server
  handled              \* history: messages as they were parsed

header == <<parser, method, user, rep, bytes>>
client == <<script, window, gone, sent>>
vars == <<state, header, input, output, server, client, wire, answered, got, delivered, handled>>

-----------------------------------------------------------------------------
(* Messages of RFC 1928 and 1929, as bytes, with what they ask              *)

Version == 5
NoAuthentication == 0
UserPassword == 2
NoAcceptable == 255
Connect == 1
Ip4 == 1
DomainName == 3
Ip6 == 4

Best(methods) == IF UserPassword \in Range(methods) THEN UserPassword
                 ELSE IF NoAuthentication \in Range(methods) THEN NoAuthentication ELSE NoAcceptable
Hello(v, methods) == [kind |-> "hello", bytes |-> <<v>> \o Str(methods), seen |-> <<v, Best(methods)>>]
Request(v, cmd, type, address, port) ==
  [kind |-> "request",
   bytes |-> <<v, cmd, 0, type>> \o (IF type = DomainName THEN Str(address) ELSE address) \o port,
   seen |-> IF type \in {Ip4, DomainName, Ip6} THEN <<v, cmd, type, address, port>> ELSE <<type>>]
Data(b) == [kind |-> "data", bytes |-> b, seen |-> <<>>]

\* What is a message of each kind: a request may stop at a type of address that
\* there is not.
IsHello(m) ==
  LET methods == SubSeq(m.bytes, 3, Len(m.bytes))
  IN  methods \in Seq(Byte) /\ Len(methods) \in Byte /\ \E v \in Byte : m = Hello(v, methods)
AddressOf(type, s) ==
  /\ type \in {Ip4, DomainName, Ip6} /\ s \in Seq(Byte)
  /\ Len(s) \in (IF type = Ip4 THEN {4} ELSE IF type = Ip6 THEN {16} ELSE Byte)
IsRequest(m) ==
  \/ /\ Len(m.seen) = 5 /\ m.seen[1] \in Byte /\ m.seen[2] \in Byte
     /\ AddressOf(m.seen[3], m.seen[4]) /\ m.seen[5] \in Byte \X Byte
     /\ m = Request(m.seen[1], m.seen[2], m.seen[3], m.seen[4], m.seen[5])
  \/ \E v, cmd \in Byte : \E type \in Byte \ {Ip4, DomainName, Ip6} : m = Request(v, cmd, type, <<>>, <<>>)

\* The messages a script begins with are those the daemon waits for.
Turns(s) == IF s[1].seen[2] = UserPassword THEN <<"hello", "login", "request">> ELSE <<"hello", "request">>
IsMessage(m) == /\ m.bytes \in Seq(Byte)
                /\ m.kind = "hello" => IsHello(m)
                /\ m.kind = "login" => IsLogin(m)
                /\ m.kind = "request" => IsRequest(m)
ASSUME ScriptsAssumption ==
  \A s \in Scripts : s \in Seq(Range(s)) /\ \A i \in DOMAIN s :
                      IsMessage(s[i]) /\ (i \in DOMAIN Turns(s) => s[i].kind = Turns(s)[i])

-----------------------------------------------------------------------------
(* The parsers                                                             *)

NewParser == [state |-> "VERSION", version |-> 0, cmd |-> 0, type |-> 0, len |-> 0,
              method |-> NoAcceptable, str |-> <<>>, args |-> <<>>]

\* on_auth_method: the later in methodPriorityList wins
\* (a slip: the last method the client names)
Priority == <<NoAcceptable, NoAuthentication, UserPassword>>
Rank(m) == IF m \in Range(Priority) THEN CHOOSE i \in DOMAIN Priority : Priority[i] = m ELSE 1
OnAuthMethodLast(previous, m) == IF Rank(m) > 1 THEN m ELSE previous
OnAuthMethod(previous, m) == IF Rank(previous) < Rank(m) THEN m ELSE previous

\* hello_parser_feed; len is methods_remaining
\* (a slip: the end is looked for before the method is counted)
MethodsLeftBefore(p) == p.len
MethodsLeft(p) == p.len - 1
HelloFeed(p, b) ==
  CASE p.state = "VERSION" -> [p EXCEPT !.version = b, !.state = "NMETHODS"]
    [] p.state = "NMETHODS" -> [p EXCEPT !.len = b, !.state = IF b > 0 THEN "METHODS" ELSE "DONE"]
    [] p.state = "METHODS" -> [p EXCEPT !.method = OnAuthMethod(@, b), !.len = @ - 1,
                                        !.state = IF MethodsLeft(p) = 0 THEN "DONE" ELSE "METHODS"]

Address(p, len) == [p EXCEPT !.len = len, !.str = <<>>, !.state = "ADDRESS"]
\* (a slip: an empty name waits for its first character)
DomainLengthWaits(p, b) == Address(p, b)
DomainLength(p, b) ==
  IF b > 0 THEN Address(p, b) ELSE [p EXCEPT !.args = <<<<>>>>, !.state = "PORT_HIGH"]

RequestFeed(p, b) ==
  CASE p.state = "VERSION" -> [p EXCEPT !.version = b, !.state = "COMMAND"]
    [] p.state = "COMMAND" -> [p EXCEPT !.cmd = b, !.state = "RESERVED"]
    [] p.state = "RESERVED" -> [p EXCEPT !.state = "ADD_TYPE"]
    [] p.state = "ADD_TYPE" ->
         LET q == [p EXCEPT !.type = b]
         IN  CASE b = DomainName -> [q EXCEPT !.state = "DOMAIN_LENGTH"]
               [] b = Ip4 -> Address(q, 4)
               [] b = Ip6 -> Address(q, 16)
               [] OTHER -> [q EXCEPT !.state = "BAD_TYPE"]
    [] p.state = "DOMAIN_LENGTH" -> DomainLength(p, b)
    [] p.state = "ADDRESS" -> Char(p, b, "PORT_HIGH")
    [] p.state = "PORT_HIGH" -> [p EXCEPT !.str = <<b>>, !.state = "PORT_LOW"]
    [] p.state = "PORT_LOW" -> [p EXCEPT !.args = Append(@, Append(p.str, b)), !.state = "DONE"]

Done(p) == p.state \in {"DONE", "BAD_VERSION", "BAD_LENGTH", "BAD_TYPE"}
Feed(p, b) == CASE state = "HELLO" -> HelloFeed(p, b)
                [] state = "AUTH_REQUEST" -> AuthFeed(p, b)
                [] state = "REQUEST" -> RequestFeed(p, b)

\* *_parser_consume, on a buffer that was received into: its parser and what it
\* used, after each byte, and the set of its outcome
Fed(held) ==
  LET fed[k \in 0 .. Len(held)] ==
        IF k = 0 THEN [p |-> parser, n |-> 0]
        ELSE LET a == fed[k - 1]
             IN  IF Done(a.p) THEN a ELSE [p |-> Feed(a.p, held[k]), n |-> a.n + 1]
  IN  fed
Consume(in) == {[p |-> a.p, in |-> Advance(in, a.n)] : a \in {Fed(in.held)[Len(in.held)]}}

-----------------------------------------------------------------------------
(* Replies: a state that answers marshals its reply on arrival, and what did *)
(* not fit after every send.                                                *)

Failures == {"HELLO_ERROR", "AUTH_ERROR", "REQUEST_ERROR"}
Answers == Failures \cup {"AUTH_METHOD_ANNOUNCEMENT", "AUTH_SUCCESSFUL", "REQUEST_SUCCESSFUL"}

Reply(s, m, r) ==
  CASE s = "AUTH_METHOD_ANNOUNCEMENT" -> <<Version, m>>
    [] s = "AUTH_SUCCESSFUL" -> <<Version, 0>>
    [] s \in {"HELLO_ERROR", "AUTH_ERROR"} -> <<Version, 255>>
    [] OTHER -> <<Version, r, 0, Ip4, 0, 0, 0, 0, 0, 0>>

\* the reply continued after n bytes
Marshall(reply, n, out) ==
  LET to == IF n + Room(out, OutSize) < Len(reply) THEN n + Room(out, OutSize) ELSE Len(reply)
  IN  [bytes |-> to, out |-> [out EXCEPT !.held = @ \o SubSeq(reply, n + 1, to)]]

\* (a slip: before the handler noted what it answers)
ArriveBefore(s) ==
  LET a == Marshall(Reply(s, method, rep), 0, output)
  IN  state' = s /\ bytes' = a.bytes /\ output' = a.out
Arrive(s) ==
  LET a == Marshall(Reply(s, method', rep'), 0, output)
  IN  state' = s /\ bytes' = a.bytes /\ output' = a.out

\* request_get_reply_value_from_errno
ReplyValue(errno) == CASE errno = "ENETUNREACH" -> 3
                       [] errno = "EHOSTUNREACH" -> 4
                       [] errno = "ECONNREFUSED" -> 5
                       [] OTHER -> 1
Errnos == {"ENETUNREACH", "EHOSTUNREACH", "ECONNREFUSED", "ETIMEDOUT"}

-----------------------------------------------------------------------------
(* Reading                                                                 *)

Init ==
  /\ state = "HELLO" /\ parser = NewParser
  /\ method = NoAcceptable /\ user = <<>> /\ rep = 0 /\ bytes = 0
  /\ input = [off |-> 0, held |-> <<>>] /\ output = [off |-> 0, held |-> <<>>]
  /\ server = "none"
  /\ script \in Scripts /\ window \in 1 .. MaxWindow
  /\ wire = <<>> /\ gone = "no" /\ sent = 0 /\ answered = 0
  /\ got = <<>> /\ delivered = <<>> /\ handled = <<>>

\* socks5_client_close
Close == state' = "CLOSED" /\ wire' = <<>>

HelloRead(p) ==
  /\ state = "HELLO"
  /\ method' = p.method
  /\ handled' = Append(handled, <<p.version, p.method>>)
  /\ Arrive(IF p.version # Version \/ p.method = NoAcceptable
            THEN "HELLO_ERROR" ELSE "AUTH_METHOD_ANNOUNCEMENT")
  /\ UNCHANGED <<user, rep, server>>

\* (a slip: the password is not compared)
AcceptedByName(p) == p.state = "DONE" /\ p.args[1] \in DOMAIN Users
Accepted(p) == p.state = "DONE" /\ p.args[1] \in DOMAIN Users /\ Users[p.args[1]] = p.args[2]
AuthRead(p) ==
  /\ state = "AUTH_REQUEST"
  /\ handled' = Append(handled, p.args)
  /\ IF Accepted(p) THEN user' = p.args[1] /\ Arrive("AUTH_SUCCESSFUL")
                    ELSE UNCHANGED user /\ Arrive("AUTH_ERROR")
  /\ UNCHANGED <<method, rep, server>>

Refuse(r) == rep' = r /\ Arrive("REQUEST_ERROR")
\* ip_connection_handling: connect fails at once or goes on
Connecting(s) == state' = s /\ server' = "connecting" /\ UNCHANGED <<rep, bytes, output>>
Fails == \E e \in Errnos : server' = e /\ Refuse(ReplyValue(e))
IpConnection ==
  \/ Fails
  \/ Connecting("IP_CONNECT")
\* dns_connection_handling
DnsConnection ==
  /\ UNCHANGED server
  /\ \/ Refuse(1)
     \/ state' = "RESOLVING" /\ UNCHANGED <<rep, bytes, output>>

RequestRead(p) ==
  /\ state = "REQUEST"
  /\ handled' = Append(handled, IF p.state = "BAD_TYPE" THEN <<p.type>>
                                ELSE <<p.version, p.cmd, p.type>> \o p.args)
  /\ CASE p.state # "DONE" \/ p.version # Version -> Refuse(1) /\ UNCHANGED server
       [] p.state = "DONE" /\ p.version = Version /\ p.cmd # Connect -> Refuse(7) /\ UNCHANGED server
       [] OTHER -> IF p.type = DomainName THEN DnsConnection ELSE IpConnection
  /\ UNCHANGED <<method, user>>

\* socks5_client_read
Read ==
  /\ state \in {"HELLO", "AUTH_REQUEST", "REQUEST"}
  /\ wire # <<>> \/ gone # "no"
  /\ IF Full(input, InSize) \/ wire = <<>>
     THEN Close /\ UNCHANGED <<header, input, output, server, handled>>
     ELSE \E n \in 1 .. Len(wire) :
            /\ n <= Room(input, InSize)
            /\ wire' = SubSeq(wire, n + 1, Len(wire))
            /\ \E c \in Consume([input EXCEPT !.held = @ \o SubSeq(wire, 1, n)]) :
                 /\ parser' = c.p /\ input' = c.in
                 /\ IF Done(c.p) THEN HelloRead(c.p) \/ AuthRead(c.p) \/ RequestRead(c.p)
                    ELSE UNCHANGED <<state, method, user, rep, bytes, output, server, handled>>
  /\ UNCHANGED <<client, answered, got, delivered>>

-----------------------------------------------------------------------------
(* Writing                                                                 *)

\* A state's on_write is done when its reply is out; those of a request are as
\* soon as it is marshalled.
Sent(out) == bytes = 2 /\ out.held = <<>>
Short == state \in Answers \ {"REQUEST_SUCCESSFUL", "REQUEST_ERROR"}

\* The state after an answer, with its arrival.
Proceed ==
  /\ answered' = answered + 1
  /\ CASE state \in Failures -> Close /\ UNCHANGED <<parser, user>>
       [] state = "REQUEST_SUCCESSFUL" -> state' = "FORWARDING" /\ UNCHANGED <<parser, user, wire>>
       [] state = "AUTH_METHOD_ANNOUNCEMENT" /\ method = UserPassword ->
            state' = "AUTH_REQUEST" /\ parser' = NewParser /\ UNCHANGED <<user, wire>>
       [] state = "AUTH_METHOD_ANNOUNCEMENT" /\ method # UserPassword ->
            state' = "REQUEST" /\ parser' = NewParser /\ user' = Anonymous /\ UNCHANGED wire
       [] state = "AUTH_SUCCESSFUL" ->
            state' = "REQUEST" /\ parser' = NewParser /\ UNCHANGED <<user, wire>>

OnWrite(out) ==
  LET a == Marshall(Reply(state, method, rep), bytes, out)
      done == IF Short THEN Sent(out) ELSE a.bytes = ReplySize
  IN  /\ bytes' = a.bytes /\ output' = a.out
      /\ IF done THEN Proceed ELSE UNCHANGED <<state, parser, user, wire, answered>>

\* socks5_client_write.  The accepted socket is a blocking one: a send takes
\* all of the buffer.
Write ==
  /\ state \in Answers
  /\ IF output.held # <<>> /\ gone = "reset"
     THEN Close /\ UNCHANGED <<parser, user, bytes, output, answered, got>>
     ELSE got' = got \o output.held /\ OnWrite(Advance(output, Len(output.held)))
  /\ UNCHANGED <<method, rep, input, server, client, delivered, handled>>

\* What ends a resolution (module DnsResolution): an error, the first
\* connection, or the end of the session.
Resolve ==
  /\ state = "RESOLVING"
  /\ \/ Fails /\ UNCHANGED wire
     \/ Connecting("DNS_CONNECT") /\ UNCHANGED wire
     \/ Close /\ UNCHANGED <<rep, bytes, output, server>>
  /\ UNCHANGED <<parser, method, user, input, client, answered, got, delivered, handled>>

\* ip_connect_on_write and dns_connect_on_write, of the last address
ConnectOnWrite ==
  IF server = "up" THEN rep' = 0 /\ Arrive("REQUEST_SUCCESSFUL") ELSE Refuse(ReplyValue(server))

\* socks5_server_write: what the client sent behind its request goes first,
\* and a connection that failed fails there
\* (a slip: what was not sent is dropped)
TakenWhole(in, n) == Advance(in, Len(in.held))
Taken(in, n) == Advance(in, n)
ServerWrite ==
  /\ state \in {"IP_CONNECT", "DNS_CONNECT"} /\ server # "connecting"
  /\ CASE input.held = <<>> -> ConnectOnWrite /\ UNCHANGED <<input, delivered, wire>>
       [] input.held # <<>> /\ server = "up" ->
            /\ \E n \in 1 .. Len(input.held) :
                 /\ delivered' = delivered \o SubSeq(input.held, 1, n)
                 /\ input' = Taken(input, n)
            /\ ConnectOnWrite /\ UNCHANGED wire
       [] OTHER -> Close /\ UNCHANGED <<rep, bytes, input, output, delivered>>
  /\ UNCHANGED <<parser, method, user, server, client, answered, got, handled>>

-----------------------------------------------------------------------------
(* The client and the network                                              *)

Settle ==
  /\ server = "connecting"
  /\ server' \in {"up"} \cup Errnos
  /\ UNCHANGED <<state, header, input, output, client, wire, answered, got, delivered, handled>>

ClientSend ==
  /\ state # "CLOSED" /\ gone = "no"
  /\ sent < Len(script) /\ sent - answered < window
  /\ sent' = sent + 1
  /\ wire' = wire \o script[sent'].bytes
  /\ UNCHANGED <<state, header, input, output, server, script, window, gone, answered, got,
                 delivered, handled>>

ClientGone ==
  /\ state # "CLOSED" /\ gone # "reset"
  /\ \/ gone = "no" /\ gone' = "fin" /\ UNCHANGED wire
     \/ gone' = "reset" /\ wire' = <<>>
  /\ UNCHANGED <<state, header, input, output, server, script, window, sent, answered, got,
                 delivered, handled>>

\* the handshake is over, and with it this module
Over == state \in {"FORWARDING", "CLOSED"} /\ UNCHANGED vars

Daemon == Read \/ Write \/ ServerWrite
Next == Daemon \/ Resolve \/ Settle \/ ClientSend \/ ClientGone \/ Over

Spec == Init /\ [][Next]_vars /\ WF_vars(Daemon) /\ WF_vars(Settle) /\ WF_vars(Resolve)

-----------------------------------------------------------------------------
(* Properties                                                              *)

States == Answers \cup {"HELLO", "AUTH_REQUEST", "REQUEST", "RESOLVING", "IP_CONNECT",
                        "DNS_CONNECT", "FORWARDING", "CLOSED"}
Served == {"REQUEST", "RESOLVING", "IP_CONNECT", "DNS_CONNECT", "REQUEST_SUCCESSFUL",
           "REQUEST_ERROR", "FORWARDING"}

\* The buffers respect their sizes, the eight-bit count of a parser does not
\* wrap, and a session past its login has a user.
TypeOK ==
  /\ state \in States
  /\ input.held \in Seq(Byte) /\ Room(input, InSize) \in 0 .. InSize
  /\ output.held \in Seq(Byte) /\ Room(output, OutSize) \in 0 .. OutSize
  /\ server \in {"none", "connecting", "up"} \cup Errnos
  /\ parser.len \in Byte /\ bytes \in 0 .. ReplySize /\ rep \in 0 .. 8
  /\ state \in Served => user \in DOMAIN Users

\* The answers of RFC 1928 and 1929.  The documents, or the code, say what version
\* the answer to a login has, and what an address of no known type is told.  (A
\* refused login is told 255, of all that is not 0, and a connection that is up
\* the address 0.0.0.0:0.)
AddressTypeNotSupported == 8
GeneralFailure == 1
Code(m, unsupported) ==
  CASE server = "up" -> 0
    [] server = "ENETUNREACH" -> 3
    [] server = "EHOSTUNREACH" -> 4
    [] server = "ECONNREFUSED" -> 5
    [] server = "none" /\ Len(m.seen) = 1 -> unsupported
    [] server = "none" /\ Len(m.seen) > 1 /\ m.seen[1] = Version /\ m.seen[2] # Connect -> 7
    [] OTHER -> GeneralFailure
Wanted(m, version, unsupported) ==
  CASE m.kind = "hello" -> <<Version, IF m.seen[1] = Version THEN m.seen[2] ELSE NoAcceptable>>
    [] m.kind = "login" -> <<version, IF \E n \in DOMAIN Users : m.seen = <<n, Users[n]>> THEN 0 ELSE 255>>
    [] m.kind = "request" -> IF state \in {"RESOLVING", "IP_CONNECT", "DNS_CONNECT"} THEN <<>>
                             ELSE <<Version, Code(m, unsupported), 0, Ip4, 0, 0, 0, 0, 0, 0>>

\* What the client receives is, whole and in order, the answer to each of its
\* messages: the method it offered that the daemon prefers, the outcome of its
\* login, and for the request success exactly when the server is connected, or
\* the reason; and nothing is read, and nothing relayed, before it is out.  What
\* the code answers otherwise than the documents is in the property below; those
\* two bytes may be either's here.
RepliesAre(version, unsupported) ==
  LET wanted == FlattenSeq([i \in DOMAIN handled |-> Wanted(script[i], version, unsupported)])
  IN  /\ IsPrefix(got \o output.held, wanted)
      /\ state \notin Answers => got = wanted
RepliesExact ==
  state # "CLOSED" =>
    \E version \in {AuthVersion, Version}, unsupported \in {AddressTypeNotSupported, GeneralFailure} :
      RepliesAre(version, unsupported)

\* Those answers are what the documents say: to a login, in the version of its
\* negotiation, which is AUTH_VERSION (RFC 1929), and to a type of address that
\* there is not, the reason that ip_connection_handling has for it.  The code keeps
\* neither: both answers to a login begin with SOCKS_VERSION (auth_marshall,
\* auth_error_marshall), and the parser gives such a request up before, as a
\* general failure.
RepliesDocumented == state # "CLOSED" => RepliesAre(AuthVersion, AddressTypeNotSupported)

\* A session is served to the user whose password its client sent, and to the
\* anonymous user only if the client did not offer a password: cutting or
\* pipelining messages does not take it past its login.
ServedIsAllowed ==
  state \in Served =>
    IF script[1].seen[2] = UserPassword THEN script[2].seen = <<user, Users[user]>>
                                        ELSE user = Anonymous

\* Every byte of the client is used once and in order, however it cuts its
\* messages and however many it sends at once: each message is parsed as it was
\* sent, by the parser of its turn, and bytes behind the request have reached
\* the server or wait in the input buffer for the relay.
StreamExact ==
  /\ \A i \in DOMAIN handled : i <= sent /\ handled[i] = script[i].seen
  /\ state \in {"IP_CONNECT", "DNS_CONNECT", "REQUEST_SUCCESSFUL", "FORWARDING"} /\ gone # "reset" =>
       delivered \o input.held \o wire =
         FlattenSeq([i \in 1 .. sent - Len(handled) |-> script[Len(handled) + i].bytes])

\* Every message of a client that waits for its answers is answered, and its
\* session is closed only when the client left, when it was told why, or by its
\* resolution: never for the size of its messages.
EveryMessageAnswered ==
  /\ \A n \in 1 .. MaxMessages :
       window = 1 /\ sent >= n /\ script[n].kind # "data" ~> answered >= n \/ state = "CLOSED"
  /\ [][window = 1 /\ state # "CLOSED" /\ state' = "CLOSED" =>
          gone # "no" \/ state = "RESOLVING" \/ (state \in Failures /\ output'.held = <<>>)]_vars
=============================================================================
