------------------------------ MODULE Spoofing ------------------------------
(***************************************************************************)
(* The credential reader of the forwarding state: forwarding_on_read shows *)
(* spoofing_parser_spoof every piece of either stream as it was received,  *)
(* and logs the user and the password of a POP3 or HTTP login that the     *)
(* server accepted.  It follows one conversation of two peers, byte by     *)
(* byte with the sender, and never touches the bytes.                      *)
(*                                                                         *)
(* A conversation is described by a record, of which Pieces makes what is  *)
(* sent, each a sender with its bytes, and Accepted the login it holds.     *)
(* An 8-bit byte is 128 or more, as for __isascii.  The credentials of a   *)
(* talk fit their buffers, and an HTTP login holds a colon.                *)
(***************************************************************************)
EXTENDS TextMatch, SequencesExt

CONSTANTS
  Talks,     \* the conversations
  MaxShown   \* bound: a receive brings this many bytes or fewer, or all of a piece

VARIABLES
  talk,    \* the description of the conversation
  said,    \* what has not been received of it, as pieces
  sp,      \* SpoofingParser
  logged   \* log_credential_spoofing: the pairs written to the log

spoofVars == <<talk, said, sp, logged>>

CLIENT == "SPOOF_CLIENT"
SERVER == "SPOOF_SERVER"
Ascii(b) == b < 128
NoPair == <<>>
-----------------------------------------------------------------------------
(* Conversations.  Strings are abbreviated as TextMatch says.              *)

Plus == 43
Minus == 45
Ok == <<Plus, 79>>                 \* "+OK"
User == <<85, 83>>                 \* "USER "
Pass == <<80, 83>>                 \* "PASS "
Http1 == <<72, 84>>                \* "HTTP/1."
Authorization == <<65, 97, 122>>   \* "Authorization: "
Basic == <<66, 105>>               \* "Basic "
Status11 == <<72, 49, 50>>         \* "HTTP/1.1 2"
Status10 == <<72, 48, 50>>         \* "HTTP/1.0 2"
Blank == 32
Colon == 58

\* base64 of short texts, a character for each, and its decoding
Base64Char == 97 .. 122
Encode(text) == [i \in DOMAIN text |-> 97 + (IF text[i] = Colon THEN 0 ELSE text[i])]
Decode(code) == [i \in DOMAIN code |-> IF code[i] = 97 THEN Colon ELSE code[i] - 97]

Says(who, bytes) == [who |-> who, bytes |-> bytes]

\* POP3: a greeting, then commands, each followed by its reply.  A client that
\* pipelines sends more ahead of the last one.
Greeting == Says(SERVER, Ok \o <<1, CR, LF>>)
Command(c) == Says(CLIENT, c.string \o c.arg \o <<CR, LF>> \o c.ahead)
Reply(c) == Says(SERVER, <<c.reply, 111, CR, LF>>)
PopPieces(t) ==
  [i \in 1 .. 2 * Len(t.commands) + 1 |->
    IF i = 1 THEN Greeting
    ELSE IF i % 2 = 0 THEN Command(t.commands[i \div 2]) ELSE Reply(t.commands[i \div 2])]

\* The server holds the user of the last USER it accepted until a USER or a
\* PASS is refused; the first PASS accepted then is a login with that user.
Accepts(c, string) == c.string = string /\ c.reply = Plus /\ c.ahead = <<>>
Logins(cs) ==
  {l \in (1 .. Len(cs)) \X (1 .. Len(cs)) :
     /\ l[1] < l[2] /\ Accepts(cs[l[1]], User) /\ Accepts(cs[l[2]], Pass)
     /\ \A i \in l[1] + 1 .. l[2] - 1 : cs[i].string \notin {User, Pass}}
PopLogin(t) ==
  IF Logins(t.commands) = {} THEN NoPair
  ELSE LET first == CHOOSE l \in Logins(t.commands) : \A m \in Logins(t.commands) : l[2] <= m[2]
       IN  <<t.commands[first[1]].arg, t.commands[first[2]].arg>>

Character == 0 .. 127 \ {CR, LF}
IsPop(t) ==
  /\ t.commands \in Seq([string : Seq(Character), arg : Seq(Character), reply : {Plus, Minus}, ahead : Seq(0 .. 255)])
  /\ \A i \in DOMAIN t.commands :
       /\ Len(t.commands[i].string) = 2
       /\ t.commands[i].ahead # <<>> => i = Len(t.commands) /\ t.commands[i].string \in {User, Pass}

\* HTTP: a head, in it perhaps a line with credentials, whatever follows, and
\* the reply.
Stands(string, bytes, i) ==
  i + Len(string) - 1 <= Len(bytes) /\ \A k \in DOMAIN string : bytes[i + k - 1] = string[k]
Code(l) == Encode(l.user \o <<Colon>> \o l.pass)
Header(l) == Authorization \o l.lead \o l.scheme \o l.gap \o Code(l)
RequestStart == <<71, 72, Blank>> \o Http1
Request(t) ==
  RequestStart \o t.head \o (IF t.auth = <<>> THEN <<CR, LF>> ELSE Header(t.auth[1])) \o t.rest
HttpPieces(t) == <<Says(CLIENT, Request(t)), Says(SERVER, t.status)>>

Grants(status) == Len(status) > 2 /\ SubSeq(status, 1, 3) \in {Status10, Status11}
HttpLogin(t) ==
  IF t.auth # <<>> /\ t.auth[1].scheme = Basic /\ Grants(t.status)
  THEN <<t.auth[1].user, t.auth[1].pass>> ELSE NoPair

\* Lines that end, none of them empty, and none with credentials.
IsHead(h) ==
  /\ h \in Seq(0 .. 127) /\ Len(h) > 1 /\ h[1] # LF /\ h[Len(h)] = LF
  /\ \A i \in 1 .. Len(h) - 1 : h[i] = CR <=> h[i + 1] = LF
  /\ \A i \in DOMAIN h : ~Stands(EmptyLine, h, i) /\ ~Stands(Authorization, h, i)
IsLine(l) ==
  /\ l.lead \in Seq({Blank}) /\ l.gap \in Seq({Blank})
  /\ l.scheme \in Seq(0 .. 127) /\ Len(l.scheme) = 2 /\ l.scheme[1] # Blank
  /\ l.user \in Seq(1 .. 25) /\ l.pass \in Seq(1 .. 25 \cup {Colon})
IsHttp(t) ==
  /\ IsHead(t.head) /\ t.rest \in Seq(0 .. 255) /\ t.status \in Seq(0 .. 255) /\ t.status # <<>>
  /\ t.auth # <<>> => /\ Len(t.auth) = 1 /\ IsLine(t.auth[1])
                      /\ t.rest # <<>> /\ t.rest[1] \in {Blank, CR, LF}

\* Neither: a server that does not greet as POP3, or a client whose first line is not HTTP.
IsOther(t) ==
  LET first == t.pieces[1]
  IN  /\ t.pieces \in Seq([who : {CLIENT, SERVER}, bytes : Seq(0 .. 255)]) /\ t.pieces # <<>>
      /\ \A i \in DOMAIN t.pieces : t.pieces[i].bytes # <<>>
      /\ \/ /\ first.who = SERVER /\ Len(first.bytes) > 1 /\ ~Stands(Ok, first.bytes, 1)
         \/ /\ first.who = CLIENT
            /\ \E n \in DOMAIN first.bytes : /\ ~Ascii(first.bytes[n]) \/ first.bytes[n] = LF
                                             /\ \A i \in 1 .. n - 2 : ~Stands(Http1, first.bytes, i)

Pieces(t) == CASE t.kind = "pop" -> PopPieces(t)
               [] t.kind = "http" -> HttpPieces(t)
               [] t.kind = "other" -> t.pieces
Accepted(t) == CASE t.kind = "pop" -> PopLogin(t)
                 [] t.kind = "http" -> HttpLogin(t)
                 [] t.kind = "other" -> NoPair
IsTalk(t) == CASE t.kind = "pop" -> IsPop(t)
               [] t.kind = "http" -> IsHttp(t)
               [] t.kind = "other" -> IsOther(t)

ASSUME TalksAssumption == MaxShown \in Nat /\ \A t \in Talks : t.kind \in {"pop", "http", "other"} /\ IsTalk(t)
-----------------------------------------------------------------------------
(* The states.  sender and b are the byte; a state that only changes the   *)
(* state and has the byte looked at again is named with its successor.     *)

Goto(p, state) == [p EXCEPT !.state = state]
\* areStringParsersInitialized = false: the next comparisons start over.
\* (a slip: they go on where the last ones ended)
FreshKept(p, state) == [p EXCEPT !.state = state]
Fresh(p, state) == [p EXCEPT !.state = state, !.k1 = 0, !.k2 = 0]
Finish(p) == Goto(p, "FINISH")

\* spoofing_state_confirm_pop
ConfirmPop(p, sender, b) ==
  LET k == Compare(Ok, p.k1, b)
  IN  IF sender = CLIENT \/ ~Ascii(b) \/ k = NEQ THEN Finish(p)
      ELSE IF EQ(Ok, k) THEN Fresh(p, "USER_SERVER_CONSUME")
      ELSE [p EXCEPT !.k1 = k]

\* spoofing_state_pop_checking_user
CheckingUser(p, sender, b) ==
  LET k == Compare(User, p.k1, b)
  IN  IF ~Ascii(b) THEN Finish(p)
      ELSE IF sender = SERVER THEN Fresh(p, "USER_SERVER_CONSUME")
      ELSE IF EQ(User, k) THEN Fresh(p, "EXTRACTING_USER")
      ELSE IF k = NEQ THEN Fresh(p, "USER_CLIENT_CONSUME")
      ELSE [p EXCEPT !.k1 = k]

\* spoofing_state_pop_checking_pass
CheckingPass(p, sender, b) ==
  LET k1 == Compare(Pass, p.k1, b)
      k2 == Compare(User, p.k2, b)
  IN  IF ~Ascii(b) THEN Finish(p)
      ELSE IF sender = SERVER THEN Fresh(p, "PASS_SERVER_CONSUME")
      ELSE IF EQ(Pass, k1) THEN Fresh(p, "EXTRACTING_PASS")
      ELSE IF EQ(User, k2) THEN Fresh(p, "EXTRACTING_USER")
      ELSE IF k1 = NEQ /\ k2 = NEQ THEN Fresh(p, "PASS_CLIENT_CONSUME")
      ELSE [p EXCEPT !.k1 = k1, !.k2 = k2]

\* spoofing_state_pop_extracting_user and _pass: field is user or pass
Extracting(p, sender, b, field, next) ==
  IF sender = SERVER \/ ~Ascii(b) THEN Finish(p)
  ELSE IF b = CR THEN p
  ELSE IF b = LF THEN [p EXCEPT !.state = next, ![field] = p.text, !.text = <<>>]
  ELSE [p EXCEPT !.text = Append(@, b)]

\* spoofing_state_pop_checking_user_response
UserResponse(p, sender, b) ==
  IF sender = CLIENT THEN Finish(p)
  ELSE IF b = Plus THEN Goto(p, "PASS_SERVER_CONSUME")
  ELSE IF b = Minus THEN Goto(p, "USER_SERVER_CONSUME")
  ELSE Finish(p)

\* spoofing_state_pop_checking_pass_response
PassResponse(p, sender, b) ==
  IF sender = CLIENT THEN Finish(p)
  ELSE IF b = Plus THEN [p EXCEPT !.success = TRUE, !.state = "FINISH"]
  ELSE IF b = Minus THEN Goto(p, "USER_SERVER_CONSUME")
  ELSE Finish(p)

\* spoofing_state_confirm_http: in the first line
ConfirmHttp(p, sender, b) ==
  LET k == Compare(Http1, p.k1, b)
  IN  IF sender = SERVER \/ ~Ascii(b) \/ b = LF THEN Finish(p)
      ELSE IF EQ(Http1, k) THEN Fresh(p, "SEARCHING_AUTH")
      ELSE [p EXCEPT !.k1 = Restarted(k)]

\* spoofing_state_http_searching_auth
SearchingAuth(p, sender, b) ==
  LET k1 == Compare(Authorization, p.k1, b)
      k2 == Compare(EmptyLine, p.k2, b)
  IN  IF sender = SERVER \/ ~Ascii(b) THEN Finish(p)
      ELSE IF EQ(Authorization, k1)
      THEN [Fresh(p, "CONFIRM_BASIC") EXCEPT !.spaces = TRUE]
      ELSE IF EQ(EmptyLine, k2) THEN Finish(p)
      ELSE [p EXCEPT !.k1 = Restarted(k1), !.k2 = Restarted(k2)]

\* spoofing_state_http_confirm_basic_scheme
ConfirmBasic(p, sender, b) ==
  LET k == Compare(Basic, p.k1, b)
  IN  IF sender = SERVER \/ ~Ascii(b) THEN Finish(p)
      ELSE IF p.spaces /\ b = Blank THEN p
      ELSE IF EQ(Basic, k) THEN [Fresh(p, "CREDENTIALS") EXCEPT !.spaces = TRUE]
      ELSE IF k = NEQ THEN Finish(p)
      ELSE [p EXCEPT !.spaces = FALSE, !.k1 = k]

\* spoofing_state_http_extracting_credentials: decoded, then cut at the colon
Credentials(p, sender, b) ==
  IF sender = SERVER \/ ~Ascii(b) THEN Finish(p)
  ELSE IF p.spaces /\ b = Blank THEN p
  ELSE IF b \in {Blank, LF, CR}
  THEN LET text == Decode(p.text)
           i    == SelectInSeq(text, LAMBDA x : x = Colon)
       IN  [p EXCEPT !.state = "CLIENT_CONFIRMATION", !.spaces = FALSE, !.text = <<>>,
                     !.user = SubSeq(text, 1, i - 1), !.pass = SubSeq(text, i + 1, Len(text))]
  ELSE IF b \in Base64Char THEN [p EXCEPT !.spaces = FALSE, !.text = Append(@, b)]
  ELSE Finish(p)

\* spoofing_state_http_credential_confirmation
CredentialConfirmation(p, sender, b) ==
  LET k1 == Compare(Status11, p.k1, b)
      k2 == Compare(Status10, p.k2, b)
  IN  IF sender = CLIENT \/ ~Ascii(b) THEN Finish(p)
      ELSE IF EQ(Status11, k1) \/ EQ(Status10, k2)
      THEN [Fresh(p, "FINISH") EXCEPT !.success = TRUE]
      ELSE IF k1 = NEQ /\ k2 = NEQ THEN Finish(p)
      ELSE [p EXCEPT !.k1 = k1, !.k2 = k2]

\* The states that wait for the other side to speak, and what they become.
Waiting == [USER_SERVER_CONSUME |-> CLIENT, USER_CLIENT_CONSUME |-> SERVER,
            PASS_SERVER_CONSUME |-> CLIENT, PASS_CLIENT_CONSUME |-> SERVER,
            CLIENT_CONFIRMATION |-> SERVER]
Awoken == [USER_SERVER_CONSUME |-> "CHECKING_USER", USER_CLIENT_CONSUME |-> "USER_SERVER_CONSUME",
           PASS_SERVER_CONSUME |-> "CHECKING_PASS", PASS_CLIENT_CONSUME |-> "PASS_SERVER_CONSUME",
           CLIENT_CONFIRMATION |-> "CONFIRMATION"]
Handed(p, sender) ==
  CASE p.state = "INIT" -> Goto(p, IF sender = CLIENT THEN "CONFIRM_HTTP" ELSE "CONFIRM_POP")
    [] p.state \in DOMAIN Waiting /\ Waiting[p.state] = sender -> Goto(p, Awoken[p.state])
    [] OTHER -> p

\* spoofing_parser_spoof_byte
SpoofByte(p0, sender, b) ==
  LET p == Handed(p0, sender)
  IN  CASE p.state \in DOMAIN Waiting \cup {"FINISH"} -> p
        [] p.state = "CONFIRM_POP" -> ConfirmPop(p, sender, b)
        [] p.state = "CHECKING_USER" -> CheckingUser(p, sender, b)
        [] p.state = "EXTRACTING_USER" -> Extracting(p, sender, b, "user", "USER_RESPONSE")
        [] p.state = "USER_RESPONSE" -> UserResponse(p, sender, b)
        [] p.state = "CHECKING_PASS" -> CheckingPass(p, sender, b)
        [] p.state = "EXTRACTING_PASS" -> Extracting(p, sender, b, "pass", "PASS_RESPONSE")
        [] p.state = "PASS_RESPONSE" -> PassResponse(p, sender, b)
        [] p.state = "CONFIRM_HTTP" -> ConfirmHttp(p, sender, b)
        [] p.state = "SEARCHING_AUTH" -> SearchingAuth(p, sender, b)
        [] p.state = "CONFIRM_BASIC" -> ConfirmBasic(p, sender, b)
        [] p.state = "CREDENTIALS" -> Credentials(p, sender, b)
        [] p.state = "CONFIRMATION" -> CredentialConfirmation(p, sender, b)
-----------------------------------------------------------------------------
SpoofInit ==
  /\ talk \in Talks
  /\ said = Pieces(talk)
  /\ sp = [state |-> "INIT", success |-> FALSE, k1 |-> 0, k2 |-> 0, spaces |-> FALSE,
           text |-> <<>>, user |-> <<>>, pass |-> <<>>]
  /\ logged = <<>>

\* spoofing_parser_spoof: the parser after each byte
Spoofed(start, who, bytes) ==
  LET spoofed[k \in 0 .. Len(bytes)] ==
        IF k = 0 THEN {start} ELSE {SpoofByte(p, who, bytes[k]) : p \in spoofed[k - 1]}
  IN  spoofed

\* forwarding_on_read after a receive of n bytes of one side
Relayed ==
  /\ said # <<>> /\ sp.state # "FINISH"
  /\ \E n \in {k \in 1 .. Len(Head(said).bytes) : k <= MaxShown \/ k = Len(Head(said).bytes)} :
       LET piece == Head(said)
           more  == SubSeq(piece.bytes, n + 1, Len(piece.bytes))
       IN  /\ sp' \in Spoofed(sp, piece.who, SubSeq(piece.bytes, 1, n))[n]
           /\ said' = IF more = <<>> THEN Tail(said)
                      ELSE <<Says(piece.who, more)>> \o Tail(said)
  /\ logged' = IF sp'.state = "FINISH" /\ sp'.success
               THEN Append(logged, <<sp'.user, sp'.pass>>) ELSE logged
  /\ UNCHANGED talk

SpoofOver == (said = <<>> \/ sp.state = "FINISH") /\ UNCHANGED spoofVars

SpoofNext == Relayed \/ SpoofOver
SpoofSpec == SpoofInit /\ [][SpoofNext]_spoofVars
-----------------------------------------------------------------------------
(* Properties.                                                             *)

\* However the streams are cut, what is logged is the login that the server
\* accepted, once, and nothing when it accepted none; a login in a
\* conversation without pipelining is not missed.
LoggedExact ==
  /\ logged # <<>> => logged = <<Accepted(talk)>>
  /\ (said = <<>> \/ sp.state = "FINISH") /\ Accepted(talk) # NoPair => logged # <<>>
=============================================================================
