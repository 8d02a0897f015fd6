----------------------------- MODULE DohAnswer ------------------------------
(***************************************************************************)
(* The answer of the DoH server to one query, as response_dns_on_read has  *)
(* it parsed: an HTTP head of which only the status, the presence of a     *)
(* Content-Length and the empty line matter (httpDnsParser.c), then a DNS  *)
(* message whose addresses become the list that the session tries          *)
(* (dnsParser.c).  Both machines take a byte at a time and keep all they   *)
(* know in their structs.                                                  *)
(*                                                                         *)
(* An answer is described by a record, of which Wire makes the bytes and   *)
(* Expected the addresses.  Characters of the head are numbers.            *)
(***************************************************************************)
EXTENDS TextMatch, FiniteSets, SequencesExt

CONSTANTS
  Answers,     \* the answers the server may give
  CountMod,    \* 2^8: the counts of the message are kept in one byte
  MaxReceive   \* bound: a receive brings this many bytes or fewer, or all that is left

VARIABLES
  answer,   \* the description of what the server sends
  rest,     \* what has not been received of it
  http,     \* HttpDnsParser: state and the comparison under way
  response, \* ResponseDnsParser
  verdict   \* what response_dns_on_read made of it: none yet, good, bad, broken

dohVars == <<answer, rest, http, response, verdict>>
-----------------------------------------------------------------------------
(* The answers.                                                            *)

C == 67
Status200 == <<50, 75>>          \* "200 OK"
ContentLength == <<C, 76>>       \* "Content-Length: "
A == 1
CNAME == 5
AAAA == 28

Count(n) == <<n \div CountMod, n % CountMod>>
Owner(o) == CASE o = "pointer" -> <<192, 12>>
              [] o = "labels" -> <<2, 97, 98, 1, 99, 0>>
              [] o = "root" -> <<0>>
RecordBytes(r) ==
  Owner(r.owner) \o <<0, r.type, 0, 1, 0, 0, 1, 44, 0, Len(r.data)>> \o r.data
Message(a) ==
  <<7, 7, 129, 128>> \o Count(a.questions) \o Count(a.count) \o <<0, 0, 0, 0>>
    \o (IF a.questions = 0 THEN <<>> ELSE Owner("labels") \o <<0, 1, 0, 1>>)
    \o FlattenSeq([i \in DOMAIN a.records |-> RecordBytes(a.records[i])])
Wire(a) == FlattenSeq([i \in DOMAIN a.head |-> a.head[i] \o <<CR, LF>>])
             \o <<CR, LF>> \o Message(a)

\* The addresses among the first records, as many as a byte can count.
Address(r) == (r.type = A /\ Len(r.data) = 4) \/ (r.type = AAAA /\ Len(r.data) = 16)
Found(a, n) == FlattenSeq([i \in 1 .. n |-> IF Address(a.records[i]) THEN <<a.records[i].data>> ELSE <<>>])
Expected(a) == Found(a, a.count % CountMod)

\* The head says what http_dns_parser looks for, in its own lines.
GoodStatus(line) == Len(line) > 1 /\ SubSeq(line, Len(line) - 1, Len(line)) = Status200
LengthLine(line) == Len(line) > 1 /\ SubSeq(line, 1, 2) = ContentLength
Acceptable(a) ==
  GoodStatus(a.head[1]) /\ \E i \in 2 .. Len(a.head) : LengthLine(a.head[i])

\* What a resolver answers to the daemon's query: one question, and no record
\* that is empty or, but for the first, owned by the root.
Regular(a) ==
  /\ a.questions = 1
  /\ \A i \in DOMAIN a.records :
       Len(a.records[i].data) > 0 /\ (i > 1 => a.records[i].owner # "root")

\* What an answer is: its head has lines of which only the first may be empty, its
\* message has the records that it counts, in the widths of their fields.
IsAnswer(a) ==
  /\ a.head \in Seq(Seq(0 .. 255 \ {CR, LF})) /\ Len(a.head) > 0
  /\ \A i \in 2 .. Len(a.head) : a.head[i] # <<>>
  /\ a.questions \in 0 .. CountMod * CountMod - 1 /\ a.count \in 0 .. CountMod * CountMod - 1
  /\ a.count % CountMod <= Len(a.records)
  /\ a.records \in Seq([type : 0 .. 255, data : Seq(0 .. 255), owner : {"pointer", "labels", "root"}])
  /\ \A i \in DOMAIN a.records : Len(a.records[i].data) < 256

\* The strings that are searched for stand where they mean something: the status
\* ends the first line and is not run into, Content-Length starts a line, and
\* neither is in an answer that lacks it there.
At(string, bytes, i) == i < Len(bytes) /\ bytes[i] = string[1] /\ bytes[i + 1] = string[2]
Plain(a) ==
  LET first == a.head[1]
      wire == Wire(a)
  IN  /\ \A i \in DOMAIN first : At(Status200, first, i) => i + 1 = Len(first)
      /\ GoodStatus(first) /\ Len(first) > 2 => first[Len(first) - 2] # Status200[1]
      /\ \A l \in 2 .. Len(a.head) : \A i \in 2 .. Len(a.head[l]) : ~At(ContentLength, a.head[l], i)
      /\ \A i \in DOMAIN wire :
           /\ At(Status200, wire, i) => GoodStatus(first)
           /\ At(ContentLength, wire, i) => \E l \in 2 .. Len(a.head) : LengthLine(a.head[l])

ASSUME CountAssumption == CountMod \in 2 .. 256 /\ MaxReceive \in Nat
ASSUME AnswersAssumption == \A a \in Answers : IsAnswer(a) /\ Plain(a)
-----------------------------------------------------------------------------
(* http_dns_parser_feed                                                    *)

\* searching: a mismatch starts over
Search(h, b, string, found) ==
  LET k == Compare(string, h.k, b)
  IN  IF EQ(string, k) THEN [state |-> found, k |-> 0] ELSE [h EXCEPT !.k = Restarted(k)]

\* the number is not used
HttpFeed(h, b) ==
  CASE h.state = "STATUS_CODE_FIRST" -> Search(h, b, Status200, "CONTENT_LENGTH")
    [] h.state = "CONTENT_LENGTH" -> Search(h, b, ContentLength, "NUMBER")
    [] h.state = "NUMBER" -> [h EXCEPT !.state = IF b # CR THEN @ ELSE "FINISH"]
    [] h.state = "FINISH" -> [h EXCEPT !.state = IF b # LF THEN "ERROR" ELSE "SECOND_LINE"]
    [] h.state = "SECOND_LINE" ->
         [h EXCEPT !.state = IF b # CR THEN "PAYLOAD_DELIMITER" ELSE "LAST_CHARACTER"]
    [] h.state = "LAST_CHARACTER" ->
         [h EXCEPT !.state = IF b # LF THEN "PAYLOAD_DELIMITER" ELSE "DONE"]
    [] h.state = "PAYLOAD_DELIMITER" -> Search(h, b, EmptyLine, "DONE")
-----------------------------------------------------------------------------
(* response_dns_parser_feed.  Fields of two bytes end with the state named *)
(* after them; of a count, a type or a length the high byte is lost.       *)

After == [TRANSACTION |-> "FLAGS", FLAGS |-> "QUESTIONS_HIGH", AUTHORITY |-> "ADITIONAL",
          ADITIONAL |-> "QUERIES_NAME", QUERIES_TYPE |-> "QUERIES_CLASS",
          QUERIES_CLASS |-> "ANSWERS_NAME", ANSWERS_CLASS |-> "ANSWERS_TTL"]

TwoBytes(p) ==
  IF p.written = 0 THEN [p EXCEPT !.written = 1]
                   ELSE [p EXCEPT !.written = 0, !.state = After[p.state]]

\* the first byte of a name or of one of its labels
Name(p, b, pointer, label, end) ==
  IF b >= 192 THEN [p EXCEPT !.state = pointer]
  ELSE IF b = 0 THEN [p EXCEPT !.state = end]
  ELSE [p EXCEPT !.written = b, !.state = label]
Label(p, first) ==
  [p EXCEPT !.written = @ - 1, !.state = IF p.written = 1 THEN first ELSE @]

\* currentAnswers is Len(list) between two records.
\* (slips: one record more is expected; a record of another type still counts)
NextRecordTooMany(p) ==
  IF Len(p.list) <= p.answers THEN [p EXCEPT !.state = "ANSWERS_NAME"]
                              ELSE [p EXCEPT !.state = "DONE"]
NextRecord(p) ==
  IF Len(p.list) # p.answers THEN [p EXCEPT !.state = "ANSWERS_NAME"]
                             ELSE [p EXCEPT !.state = "DONE"]

DataLengthStillCounts(p, b) ==
  IF (b = 4 /\ p.type = A) \/ (b = 16 /\ p.type = AAAA)
  THEN [p EXCEPT !.state = "ADDRESS", !.counter = b, !.list = Append(@, <<>>)]
  ELSE [p EXCEPT !.state = "CNAME", !.len = b]
DataLength(p, b) ==
  IF (b = 4 /\ p.type = A) \/ (b = 16 /\ p.type = AAAA)
  THEN [p EXCEPT !.state = "ADDRESS", !.counter = b, !.list = Append(@, <<>>)]
  ELSE [p EXCEPT !.state = "CNAME", !.len = b, !.answers = @ - 1]

\* IPV4_ADDRESS and IPV6_ADDRESS
AddressByte(p, b) ==
  LET q == [p EXCEPT !.counter = @ - 1, !.list[Len(p.list)] = Append(@, b)]
  IN  IF q.counter = 0 THEN NextRecord(q) ELSE q

DnsFeed(p, b) ==
  CASE p.state \in DOMAIN After -> TwoBytes(p)
    [] p.state = "QUESTIONS_HIGH" -> [p EXCEPT !.state = "QUESTIONS_LOW"]
    [] p.state = "QUESTIONS_LOW" -> [p EXCEPT !.questions = b, !.state = "ANSWERS_HIGH"]
    [] p.state = "ANSWERS_HIGH" -> [p EXCEPT !.state = "ANSWERS_LOW"]
    [] p.state = "ANSWERS_LOW" ->
         [p EXCEPT !.answers = b, !.room = b, !.state = IF b = 0 THEN "DONE" ELSE "AUTHORITY"]
    [] p.state = "QUERIES_NAME" -> Name(p, b, "QUERIES_POINTER", "QUERIES_LABEL", "QUERIES_TYPE")
    [] p.state = "QUERIES_POINTER" -> [p EXCEPT !.state = "QUERIES_TYPE"]
    [] p.state = "QUERIES_LABEL" -> Label(p, "QUERIES_NAME")
    [] p.state = "ANSWERS_NAME" -> Name(p, b, "REFERENCE", "ANSWERS_LABEL", "TYPE_HIGH")
    [] p.state = "REFERENCE" -> [p EXCEPT !.written = 0, !.state = "TYPE_HIGH"]
    [] p.state = "ANSWERS_LABEL" -> Label(p, "ANSWERS_NAME")
    [] p.state = "TYPE_HIGH" -> [p EXCEPT !.state = "TYPE_LOW"]
    [] p.state = "TYPE_LOW" -> [p EXCEPT !.type = b, !.state = "ANSWERS_CLASS"]
    [] p.state = "ANSWERS_TTL" ->
         IF p.written = 3 THEN [p EXCEPT !.state = "LENGTH_HIGH"] ELSE [p EXCEPT !.written = @ + 1]
    [] p.state = "LENGTH_HIGH" -> [p EXCEPT !.state = "LENGTH_LOW"]
    [] p.state = "LENGTH_LOW" -> DataLength(p, b)
    [] p.state = "CNAME" -> IF p.len > 1 THEN [p EXCEPT !.len = @ - 1] ELSE NextRecord(p)
    [] p.state = "ADDRESS" -> AddressByte(p, b)
-----------------------------------------------------------------------------
DohInit ==
  /\ answer \in Answers
  /\ rest = Wire(answer)
  /\ http = [state |-> "STATUS_CODE_FIRST", k |-> 0]
  /\ response = [state |-> "TRANSACTION", written |-> 0, questions |-> 0, answers |-> 0,
                 room |-> 0, type |-> 0, len |-> 0, counter |-> 0, list |-> <<>>]
  /\ verdict = "none"

\* http_dns_parser_consume, then response_dns_parser_consume: each takes bytes
\* until it is done.
Parsed(m, b) ==
  IF m.http.state \notin {"DONE", "ERROR"} THEN [m EXCEPT !.http = HttpFeed(@, b)]
  ELSE IF m.http.state = "DONE" /\ m.dns.state # "DONE" THEN [m EXCEPT !.dns = DnsFeed(@, b)]
  ELSE m

\* the two machines after each byte
Fed(start, bytes) ==
  LET fed[k \in 0 .. Len(bytes)] ==
        IF k = 0 THEN {start} ELSE {Parsed(m, bytes[k]) : m \in fed[k - 1]}
  IN  fed

Verdict(m) ==
  IF m.http.state = "ERROR" THEN "bad"
  ELSE IF m.dns.state # "DONE" THEN "none"
  ELSE IF m.dns.questions = 0 \/ m.dns.answers = 0 THEN "bad" ELSE "good"

\* socks5_dns_read and response_dns_on_read; the connection is closed once
\* there is a verdict
Receive ==
  /\ verdict = "none" /\ rest # <<>>
  /\ \E n \in {i \in 1 .. Len(rest) : i <= MaxReceive \/ i = Len(rest)} :
       \E m \in Fed([http |-> http, dns |-> response], SubSeq(rest, 1, n))[n] :
           /\ http' = m.http /\ response' = m.dns
           /\ verdict' = Verdict(m)
           /\ rest' = SubSeq(rest, n + 1, Len(rest))
  /\ UNCHANGED answer

\* the connection ends before there is one
Broken ==
  /\ verdict = "none" /\ verdict' = "broken"
  /\ UNCHANGED <<answer, rest, http, response>>

DohOver == verdict # "none" /\ UNCHANGED dohVars

DohNext == Receive \/ Broken \/ DohOver
DohSpec == DohInit /\ [][DohNext]_dohVars
-----------------------------------------------------------------------------
(* Properties.                                                             *)

\* The list never outgrows the memory that was allocated for the announced
\* number of records, whatever the message holds.
DohTypeOK ==
  /\ http.k \in 0 .. 3
  /\ response.questions \in 0 .. 255 /\ response.answers \in 0 .. response.room
  /\ Len(response.list) <= response.answers /\ response.written \in 0 .. 255
  /\ verdict \in {"none", "good", "bad", "broken"}

\* However it is cut, an answer that a resolver gives to the daemon's query
\* yields the addresses in it and no others, in order and whole, and yields
\* them with its last counted byte: with an accepted head nothing is waited
\* for that does not come, and a list without addresses is refused.
AnswerExact ==
  Regular(answer) =>
    /\ verdict = "good" => Acceptable(answer) /\ response.list = Expected(answer)
    /\ verdict = "bad" => Acceptable(answer) /\ Expected(answer) = <<>>
    /\ rest = <<>> /\ verdict = "none" => ~Acceptable(answer)
=============================================================================
