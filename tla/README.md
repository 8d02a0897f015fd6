# socks5Daemon in TLA+

A verification project for the SOCKS5 daemon of this repository (`src/src/`): one thread, one
`pselect()` loop, one finite machine of states per session. Paths below are relative to
`src/src/` unless they start with `src/`. The modules model the control of the code (every
guard, early return and order of state changes) and abstract its data; `PROJECT.json` maps each
definition to the lines it stands for.

## 1. Inventory

| Component | Keeps | Operations | Talks to |
|---|---|---|---|
| server (`server.c`) | the loop, `done` | select, then close idle sessions | selector, socks5, administration |
| selector (`selector/`) | `fds[]` items (fd, interest, handler, data), master and slave fd_sets, `max_fd` | register, unregister, set/add/remove interest, select, `handle_iteration` | every handler, by callback |
| state machine (`stateMachine/`, `socks5/stateMachineBuilder/`) | `current` | on_arrival/on_read/on_write/on_departure, `jump` | the states |
| buffer (`buffer/`) | `data`, `read`, `write`, `limit` | read, write, advance, compact, reset | recv/send, parsers |
| session handlers (`socks5/socks5.c`) | the session: two connections, two buffers, DNS container, user, `lastInteraction` | accept, client/server/DNS read and write, close, clean-up, close by user | selector, state machine, statistics |
| relay states (`states/forwarding`, `states/close`) | the connections' states, the interests | relay, half-close, flush | selector |
| handshake and error states (`states/hello` ... `states/ipConnect`, `states/errorStates`) | parser of the state, user, method | parse, answer, connect | parsers, user handler |
| DNS states (`states/generateDnsQuery`, `responseDns`, `dnsConnect`) | two resolver sockets, their buffers, two address lists | query both families, race the answers, try the addresses | selector, DoH parsers |
| user handler (`userHandler/`) | `userMap` | add/replace, delete, find, count | administration, authentication |
| statistics (`statistics/`) | connections, users, bytes | inc, dec | socks5, administration |
| administration (`socks5/administration/`, `parsers/adminRequestParser/`) | administration sessions | authenticate, query, modify, answer | user handler, statistics, socks5 |
| parsers (`parsers/`) | one byte machine each | feed a byte | states |
| parsers of the answer (`parsers/dns/`) | the state of two byte machines, the list of addresses | feed a byte of the HTTP head, of the DNS message | responseDns |
| spoofing parser (`parsers/spoofing/`, `parsers/reference/`) | one machine per relayed session, its string comparisons, the credentials | show it a piece of either stream | forwarding, logger |
| logger, argsHandler, netutils, client, khash | | output, start-up, a separate program, libraries | |

Hard behaviours, and where they are treated:

* two sockets of a session, each handled by its own callbacks, recompute each other's interests
  (`forwarding.c:82`, `flushCloser.c`, `flushClosy.c`) — **Relay**;
* half-closes in either order while data is buffered, partial sends, full buffers, resets,
  inactivity — **Relay**;
* pointers into a buffer after partial reads and compaction — **Buffer**;
* a user removed while sessions in any phase of their handshake hold its pointer, counters that
  must follow every way a session can end — **Accounts**;
* two resolver connections and a server connection of one session, answered in any order, with
  descriptors closed and reused — **DnsResolution**;
* a handshake cut anywhere or sent ahead of its answers, three parsers on one buffer, data behind
  the request — **Handshake**;
* readiness computed before the handlers of an iteration ran, with descriptors closed, reused, or
  too large for an fd_set meanwhile — **Selector**;
* an answer of the resolver cut anywhere, with records of other types, counts of one byte and a
  search that restarts — **DohAnswer**;
* two streams cut anywhere that feed one login reader — **Spoofing**;
* administration messages and answers cut anywhere, pipelined requests, users that change while a
  list of them is being sent — **Administration**.

There are no locks or threads in the daemon (the selector's job list is never used), and nothing
is persisted: a crash has no recovery to check.

What makes each component correct: a session's two streams reach the other side complete, in
order and with their ends (relay); interest is set iff there is work (relay, DNS); every way out
of a session closes exactly its descriptors and gives back exactly what it counted (socks5,
statistics); no freed user is used (user handler); a resolution ends, with a connection whenever
some address works (DNS); a request is answered once, in order (administration); readiness is
never applied to another socket (selector).

## 2. How the project is laid out

| Module | Models | Composes | Proofs |
|---|---|---|---|
| HalfClosePipe | what a relay promises: two lossless streams, each with its own end | | |
| Relay | forwarding and flush states, both sockets, selector, clean-up, peers | implements HalfClosePipe | RelayProofs |
| ByteQueue, Buffer | the byte buffer | Buffer implements ByteQueue | BufferProofs |
| Accounts | users, sessions of both kinds that hold them, the counters | | AccountsProofs |
| ReadyEvents | what handlers may rely on when the selector calls them | | |
| Selector | item table, fd_sets, `max_fd`, one iteration over numbers that are reused, who owns a socket | implements ReadyEvents | SelectorProofs |
| DnsResolution | a request for a domain, with its three descriptors | hands over to Relay at FORWARDING | DnsProofs |
| Administration | one administration session, byte by byte | shares its commands with Accounts | AdministrationProofs |
| ByteParsers, Handshake | the hello, login and request parsers, the replies, the connection to the server | hands over to Relay at FORWARDING; the login parser is Administration's too | HandshakeProofs |
| TextMatch, DohAnswer | HTTP and DNS answer parsers, address lists | what DnsResolution takes as an answer | DnsProofs |
| TextMatch, Spoofing | the POP3/HTTP credential parsers over relayed bytes | fed by the relay | RelayProofs |

The modules were written in that order of importance: first what moves a user's bytes, then who
is served, then the shared machinery, then the parsers. The specifications are written so that
they can be proved about: parameters are CONSTANTS with named assumptions, an action is a
handler, and no module declares a RECURSIVE operator.

What a next step would take up: POP3 clients that pipeline elsewhere than ahead of their last command,
and credentials that do not fit the login reader's buffers, both outside of what Spoofing describes.

## 3. The modules

A comment beginning *a slip* marks a definition that is not the code's: it is the plausible
mistake next to it, used to see that a property would notice it.

### HalfClosePipe and Relay

`HalfClosePipe` says what a user of the proxy relies on: each side writes and ends its stream,
the relay transfers bytes in order, shows a side the end of the other's stream only after all of
its bytes, and finishes when both ends were shown; it may cut a session short at any moment.

`Relay` is one session from FORWARDING on. A direction is named by its source, so `buf["client"]`
is `session->input`. Bytes are counts, because a stream is described by how many of its bytes are
at each stage; that the bytes themselves are kept is `Buffer`'s subject.

| Model | Code |
|---|---|
| `Select` | `pselect` and the copy of its fd_sets: `ready` is what is ready and watched |
| `Turn`, `low` | `handle_iteration`: by descriptor number, reading before writing |
| `ReadEvent` | `socks5_client_read`, `socks5_server_read`: the no-room close, end of stream, bytes |
| `ServerWrite`, `ClientWrite`, `SendFails` | `socks5_server_write`, `socks5_client_write` and a failing `send` |
| `ClientWrite` / `ResumeSend` with `pending` | the client's socket is a blocking one: its `send` copies what fits and waits, and the daemon with it |
| `AfterRead`, `AfterWrite` | `forwarding_on_read/write`, `flush_closer_*`, `flush_closy_*`, with the jumps and the interests they set |
| `RelayEof` | `shutdown(SHUT_WR)` and the CLOSED state |
| `Cleanup`, `Tick` | `socks5_cleanup_session` and the age of `lastInteraction` |
| `PeerSend`, `PeerFin`, `PeerReset`, `PeerRead` | the two remote programs and the kernel's buffers |

The session may start with client bytes already in its input buffer, sent behind the request.

### ByteQueue and Buffer

`Buffer` has the four fields of `struct buffer`; `ReceiveInto` and `Send` are the pairs the handlers
use (`buffer_write_ptr` + `recv` + `buffer_write_adv`, and the same for reading), `WriteByte` and
`ReadByte` the single-byte functions, `CompactNow` and `ResetNow` the other two. `out` is what the
last call returned. `ByteQueue` is a bounded FIFO whose room is not the buffer's: it promises
order and content, not that compaction happens.

### Accounts

The sessions of the proxy and of the administration, as far as they hold a user or a count.
`sess[s].state` is the current state of the machine up to FORWARDING (which here stands for all
that Relay does), and one action enters each state with what its arrival does. `CloseSessions`
is `socks5_close_user_sessions` and `close_session`: the counters are given back by the state each
session is in. `RemoveUser` is the whole of the command, so that the closing of the sessions, the
removal and the remover's own answer are one step, as they are in the single-threaded daemon.
The connections that `statistics.c` counts are the sockets of the sessions (`ConnectionsExact`). The
count of each user and that of the users are not those of the open sessions, as the protocol has
them (`CountsConcurrent` is violated): a session that ends in AUTH_SUCCESSFUL gives back what it
never took. `early` and `drifted` are history and remember those, so that `OnlyEarlyEndsMiscount` can
say that nothing else goes wrong with the counts; it describes the defect and does not excuse it. `CountersFollow`
joins the two.

Requests for domains and registrations that fail because a descriptor does not fit the fd_set are
left to DnsResolution and to Selector.

### DnsResolution

`table` is the process's descriptor table together with the selector's items, `dns[f]` the header
of a family (with the descriptor number it keeps after its close, which the code compares with),
`srv` the connection to the requested server. Actions are the socket handlers by descriptor:
`DnsWrite`, `DnsRead`, `ServerWrite`, `ServerRead`, `ClientWrite`, each with the state's own
handler inside (`GenerateOnWrite`, `ResponseOnWrite`, `GoodAnswer`, `BadAnswer`, `BrokenAnswer`,
`ConnectOnWrite`), and `Enter`/`Arrived` with the arrival of the state jumped to. `ForeignOpen`
and `ForeignClose` are the other sessions of the daemon taking and returning numbers, in their
turn of an iteration. An iteration handles what was ready when it began, by number.

Nothing of an answer but the addresses it leaves matters here: `left` counts those untried. What
the server sends before FORWARDING is bounded by `MaxData`, below the size of the buffer.

### Administration

One session byte by byte. `AuthFeed` (in ByteParsers) and `RequestFeed` are the parsers with their states; a
client sends whole messages and `Read` receives any part of them. `Execute` is the handler of the
request, `Build` the response builder called with the room that is left, `PostWrite` what
follows every send. `Fed` and `Listed` are the parser and the list builder after each byte, as
recursive functions, which the proofs speak of. `users` and `settings` are what commands change.
`OtherAdds` and `OtherRemoves` are other administration sessions; the latter closes this one if it
belongs to the removed user. `window` says how many messages the client sends without waiting.

The answers are compared with a reading of `src/pipoProtocol.txt` and not with the builder.
`handled` is history: a message as it was parsed (`Handle`), with the users, settings and counter of that
moment and what the command left of them; `told` has what the client received of each answer, and if it
was a list resumed inside an entry. `Documented` gives the answers that the document allows to a message
in such circumstances: any order of the users, any status that is true. `Disputed` adds the one answer
for which the code and the document differ at every use, that about a user's connections. `RepliesExact`
holds the answers against both, but for lists that were resumed inside an entry; `AnswersDocumented` holds
every answer against the document alone, and is violated.

`IsRequest`, with `Arguments`, says what a client may send: a type that is no type, or a type and a
command, known or not, followed by the arguments that the parser will await for it. `IsUsers` is what
`userMap` may hold: at most `MAX_USER_COUNT` names, which a byte counts, and the anonymous user is one
of them from the start.

Allocations succeed. A string has no NUL inside: the code copies and compares up to it, here and in
the handshake. Past the end of a copied name one unspecified byte is modelled, counters
stay below 2^31, and sends may be partial, more often than a blocking socket makes them.

### ByteParsers and Handshake

`ByteParsers` holds what the two protocols share: a buffer as a read offset and the bytes behind
it, and the username/password message of `parsers/authRequest`. `Handshake` is one proxy session
from its accept to FORWARDING. `HelloFeed` and `RequestFeed` are the other two parsers; `Consume`
is each parser's loop, which stops behind a message and leaves the rest in the buffer; `Fed` is its
parser after each byte, which is what the proofs speak of.

| Model | Code |
|---|---|
| `Read`, with `HelloRead`, `AuthRead`, `RequestRead` | `socks5_client_read` and the `on_read` of HELLO, AUTH_REQUEST, REQUEST |
| `Arrive`, `Marshall` | the arrival of a state that answers, and its `*_marshall` |
| `Write`, `OnWrite`, `Proceed` | `socks5_client_write`, the `on_write` of the six answers, and the arrival of the state after it |
| `IpConnection`, `DnsConnection`, `Resolve` | the two branches of a request; a resolution is one step here and a module in DnsResolution |
| `ServerWrite`, `ConnectOnWrite` | `socks5_server_write` with `ip_connect_on_write` or `dns_connect_on_write` of the last address |
| `Settle`, `ClientSend`, `ClientGone` | the kernel's connection, the client |

The accepted socket is blocking, so a send takes the whole buffer. REQUEST_SUCCESSFUL and
REQUEST_ERROR depend on it: they go on when the reply is marshalled. They also depend on the reply
fitting the rewound buffer, which `SizesAssumption` takes from `MIN_IO_BUFFER_SIZE`
(`socks5.c:23`). `window` says how many messages the client sends without waiting. Data sent
behind a request for a domain is sent to the server at the end of its resolution.

`Wanted` are the answers of RFC 1928 and 1929, whose codes are in `socksDefs.h`. The version of the answer to a
login and the code for an unknown type of address are parameters of it: `RepliesExact` lets
each be the RFC's or the code's, always the same, and `RepliesDocumented`, which is violated, asks for the
RFC's. Where the RFCs leave a choice the answer is the code's: 255 for a refused login,
0.0.0.0:0 for the bound address, a general failure for a wrong version.

### ReadyEvents and Selector

`ReadyEvents` is the contract of `selector.h` as the handlers use it: an event concerns a
registered descriptor and an interest it has, and was seen ready of the socket that has the number
now; the one exception is a connection just begun, which may be called for writing once early.

`Selector` has the item table (`items`), the prototype sets (`master`), what `pselect` left and the
iteration has not passed (`slave`), `max_fd`, the key handed to callbacks (`turn`), and above them
the sockets of the kernel (`kind`) and of the sessions (`sess`). `seen` is history: what of `slave`
was seen of the socket that holds the number now.

| Model | Code |
|---|---|
| `Register`, `Unregister`, `SetInterest` | `selector_register` with `ensure_capacity`, `selector_unregister_fd` with `items_max_fd`, `selector_set_interest` and its variants |
| `Select`, `Call`, `Return`, `Finished` | `selector_select` and `handle_iteration`, with `key.data` read before the read handler and used for the write handler |
| `Accept`, `OpenRemote`, `CloseRemote`, `CloseOwn`, `CloseUser` | the calls of the handlers of socks5.c, administration.c and the states |
| `Cleanup` | `socks5_selector_cleanup` |

A handler may make any call that the code of its kind of socket makes, since what it decides is
the other modules' subject: so the properties hold for every such handler.

### TextMatch, DohAnswer and Spoofing

`TextMatch` is the comparison of a stream with a string that both readers use. A string is written
as its first character, which does not come back in the rest unless it does in the code's, and one
or two that stand for the rest: what matters is where a comparison fails and restarts.

`DohAnswer` is what `response_dns_on_read` does with the bytes of one answer: `HttpFeed` is
`http_dns_parser_feed`, `DnsFeed` `response_dns_parser_feed`, `Parsed` the two consume loops on one
buffer and `Fed` what they leave after each byte, `Receive` one receive of up to `MaxReceive` bytes or of
all the rest. Answers are records, `Wire` makes their bytes and `Expected` their addresses, so the
property compares the parser with a definition that does not parse. `IsAnswer` says what such
records are, and `Plain` that the two strings that the head's parser looks for stand only where they
mean something. `Regular` names what a resolver sends to this query; outside of it the parser is off
(section 9).

`Spoofing` is the login reader of the forwarding state: `Relayed` shows it one piece of one stream
as received, up to `MaxShown` bytes or all of it; `SpoofByte` is the machine, one operator a state, and
`Spoofed` the parser after each byte. A conversation is described by a record: POP3 commands, each
with its reply (a client may send more ahead of the last one); an HTTP head, perhaps a line
with credentials, whatever follows, and the reply; or pieces of neither protocol. `Pieces` makes
what is sent of it and `Accepted` the login it holds, by the rules of those protocols and not by the
reader's, so the property compares the parser with a definition that does not parse. `IsTalk` says
what such records are: no string that the reader looks for in a head stands where it means nothing.

## 4. Runs

| Run | Module | Shows |
|---|---|---|
| relay | Relay | interests follow the buffered work, no byte is lost, ends come after data; Relay implements HalfClosePipe; with peers that read, every end of stream gets across or the session is gone; with the clean-up, an inactive session ends whatever the server does |
| relay_flush_overflow | Relay | violation: see findings |
| accounts | MCAccounts | no freed user is held, the remover survives, the connections exact, the users' counts wrong by nothing but early ends |
| accounts_count | MCAccounts | violation: see findings |
| dns | DnsResolution | descriptors owned once, other sessions untouched, lists used up, one reply; a resolution ends when the resolver answers or closes |
| dns_stuck | DnsResolution | violation: see findings |
| administration | MCAdministration | requests in order, answers in order and as the protocol has them, lists freed, a waiting client answered |
| administration_document | MCAdministration | violation: see findings |
| administration_pipelined | MCAdministration | violation: see findings |
| handshake | MCHandshake | messages parsed as sent, answers as the RFCs have them, nobody served past a failed login, early data kept, a waiting client answered |
| handshake_document | MCHandshake | violation: see findings |
| parts | MCParts | Buffer: pointers in order, a drained buffer rewound, bytes as from a FIFO. Selector: nothing watched is closed, every socket but those past the table has one owner, a handler gets the session that holds the descriptor; Selector implements ReadyEvents. DohAnswer: exactly the addresses of an answer are used. Spoofing: exactly the accepted login is logged |

`parts` checks four specifications at once: they share no variable, so in a behaviour of `MCParts` one of
them runs and the others keep their first state, and each property is about one.

Bounds, and why they are enough:

* **relay**: `BufSize` 2 and `SockCap` 1, so a buffer can be empty, partly read without being
  compacted, and full, and a send can be partial; `MaxBytes` 3 is as
  much as a buffer and a socket hold together. `MaxClientBytes` 2 is enough of the client, since a
  behaviour may begin with a buffer of its bytes partly read: there too a byte can wait
  before a full buffer. Each direction can fill up while the other is closing. `relay_flush_overflow` has 3 of both.
* **parts, the buffer**: four bytes of capacity and three values, so that a compaction moves an overlapping
  block and a lost or duplicated byte shows. The daemon itself compacts only drained buffers; the
  module promises more.
* **accounts**: two sessions of each kind and three users (one anonymous): a remover, a removed,
  and a bystander. `CountMod` 3 stands for the wrap of the unsigned `connectionCount`, `ConnMax`
  and `UserCountMax` for the widths that two sessions cannot reach. `MaxEarly` 1 is a constraint
  on how often sessions end before they are counted. The view drops the authentication method
  once it is no longer read; sessions, administrators and ordinary users are interchangeable
  (the run checks no liveness).
* **dns**: a session has at most three descriptors at a time (client, two resolvers; an answer
  closes its own connection before the server's is opened). With four numbers there is at least
  one for other sessions to take and to reuse, and the server's socket can take another number
  than the one just closed. Two addresses in a list is the least for which
  the second attempt differs from the first. `dns_stuck` has five numbers and one address.
* **administration**: an input buffer of 3 bytes is shorter than most messages and an output
  buffer of 6 shorter than the user list and than the 64-bit answers, so both are filled and
  resumed. Names have one or two characters. Three messages are a login and two requests. In
  `administration_document` the output buffer ends inside the second entry of the list. In
  `administration_pipelined` the input buffer holds two messages, to show that their waiting is
  not an effect of its size.
* **handshake**: an input buffer of 5 bytes is shorter than every login and request, so each is
  received in several parts, and longer than a hello, so the next message can follow it in one
  receive. An output buffer of 10 bytes is the least that holds a reply, and shows that it is
  rewound. Each script is a dialogue that reaches one way of accepting or refusing a message, with
  every request behind an open and a protected login; three messages ahead is all of a dialogue.
* **parts, the selector**: five numbers of which the last does not fit the table (`SetSize` 4), one listener,
  two proxy sessions with an outgoing socket each and an administrator: together five sockets
  and a listener, so numbers run out, are reused inside an iteration, and are past the table.
* **parts, the parsers**: every list of up to two records over seven kinds (both families, another type, both
  shapes of a name, empty and one-byte data), lists of three over three kinds, and lists of four,
  which a count modulo 4 wraps at; every count up to a list's length; heads with and without what the matcher looks for and
  with false starts of it. Dialogues of none to three POP3 commands over seven (and four between a
  first USER and a last PASS), or two of which the second is pipelined; HTTP requests with and without
  lines before and behind the credentials, with another scheme and with no credentials; and
  conversations of neither protocol. Receives are of one byte, of two (`MaxReceive`) or of three
  (`MaxShown`), or of all the rest, which together cut everywhere.

Deadlock is checked in every run: a session that ended stutters by an action of its own (`Over`,
`Ended`), so a state that stops otherwise would be reported.

## 5. Fairness

Safety needs none. For liveness:

* the daemon's loop (`WF` of `Daemon`; of `Select \/ Handler`; of `Read` and `Write`): `main`
  calls `selector_select` for ever, and select reports what is ready;
* time passes (`Tick`) and the loop cleans up after each iteration (`Cleanup`), where the run
  enables the clean-up;
* a peer owes nothing, except what a run says: `FairSpec` of Relay has the client read what was
  sent to it, because a client that does not read blocks the daemon (section 9). What else a
  property needs is written in it: `HalfCloseRelayed` is for a server that reads too,
  `IdleSessionEnds` for time that passes and a clean-up that runs. No peer ever has to send, to
  end its stream or to close;
* in DnsResolution connections settle and acknowledge (`TCP_SYNCNT` bounds a connection attempt),
  and in `AnsweringSpec` the resolver sends its answer and completes it or closes. These are
  `SF` because the network acts between two iterations only in the model; the code's network
  acts at any time. `Cleanup` is enabled in `dns` because a session muted as in the finding
  `dns_stuck` ends by nothing else;
* in Handshake the loop runs (`WF` of `Daemon`), a connection settles and a resolution ends, which
  are `ResolutionEnds` of DnsResolution and the bound on connection attempts;
* in Administration the client goes on reading its answers; a client that does not blocks the
  daemon, like one of the proxy.

## 6. What is proved

`tlapm` checks the following for every value of the constants that satisfies the module's
assumption.

**RelayProofs** (assuming `RelayAssumption`: positive capacities). `Invariance` shows
`IInv == Machine /\ Counts /\ Flags`. The properties are not inductive by themselves: that an
interest matches the work depends on which state the machine is in (`Phases`, `Ends`:
FORWARDING iff both sides are open, and so on), on the buffer pointers being ordered
(`BufferOrder`), and on FORWARDING having recomputed the interests from both buffers
(`ForwardingWatches`). `Machine` collects these; `Counts` says where every byte is, with the blocked
send (`BlockedSend`) and the socket's room (`RoomLeft`); `Ends` relates `shut` and `fin` to the
connection states, and `Flags` holds the types of the rest. There is one lemma per handler. `TypeCorrect`, `InterestSound`,
`NoByteLost`, `FlushHasWork`, `ForwardingNeverFull`, `EofIsLast` and `FinishComplete` follow.
`RelayImplementsPipe` shows that the initial states map to initial states and that each step maps
to a transfer, an end, a cut or a stutter of HalfClosePipe.

RelayProofs has the login reader too (Spoofing), assuming `TalksAssumption`: receives bounded by any
number, and any conversations as `IsTalk` says, with any commands, lines, credentials and replies of any
length. `LoggedExact` alone is not inductive, since it says nothing before the end. `SpoofIInv` adds
`Following`: some i and n exist such that n bytes of piece i were taken, what is left is the rest
(`Remains`), and the parser is where that much takes it (`Tracks`). `SpoofIInv` also says that a pair is in
the log exactly when the parser finished with success.

* *Positions.* `Tracks(t, i, n, p)` goes from the description to the state, because a state that waits
  for the other side does not say how much it skipped. For POP3, `After(cs, c, p)` says what the parser
  holds behind c commands and their replies: which command's user, if any, the server still accepts
  (`Holding`), or that a login was seen; `Within` where it is inside a command. For HTTP, `RequestAt` has the
  first line, the head, the credentials' line (`LineAt`) or what follows, `AnsweredAt` the status. For
  neither protocol, `OtherAt` has the first line until the parser gives up.
* *One byte.* One lemma a state says what a byte does (`CheckingUser` has `UserFirst` and `UserSecond`, and
  so on), and `PopStep`, `HttpStep` and `OtherStep` move a position by a byte; `TracksTurn` says that the
  end of a piece is the beginning of the next.
* *One receive.* `SpoofedTracks` carries it over any number of bytes of one piece, and `Received` over the
  action: the bytes shown are those before what is left.
* *The end.* A parser that finished with success holds the login of the conversation (`TracksTold`), and one
  that finished or took everything without success was in one that held none (`TracksSilent`).

`SpoofFollows` is the invariant and `LoginLogged` its consequence, `LoggedExact`.

**BufferProofs** (assuming `BufferAssumption`: a positive capacity). `WellFormed`:
pointer order and rewinding are inductive together. `BufferIsFifo`: each operation is a step of
ByteQueue on the bytes between the pointers; the lemmas say what storing, compacting and
advancing do to those bytes (`StoreAppends`, `CompactKeepsHeld`, `ReadAdvTakes`).

**AccountsProofs** (assuming `AccountsAssumption`: finitely many sessions, the anonymous user is a
user, `NoUser` is not). `Invariance` shows `Tables` (types, no dangling user, the anonymous user,
whoever is served holds a user) with the ranges of the counters. `NoneDangles`, `AnonymousStays`,
`ServedHasUser`, and the action property `RemoverSurvives`, follow. The four parts of `Tables`
need each other: a session that is let in holds a user because the one it found exists, and a
removed user is held by nobody because every holder is closed, whatever its state.

`CountersStay` rests on that and on `Ledger`: a session has a user exactly in the states behind
its authentication and a server socket exactly while it connects and after (`Phases`), so the
sockets and the sessions of a user are cardinalities of sets of sessions (`SocketCount`,
`SubsetRemoved`), and a handler that closes every session of a user subtracts as many as it
removes from those sets (`SocketsClosed`, `UserUncounted`). It assumes `CountersAssumption` too:
counters do not saturate or wrap over sessions that are open at once. Two registered descriptors a
session, below FD_SETSIZE, and `MAX_USER_COUNT` give it for the widths of the code. The counts of
users are remainders, and stay what `CountBalance` says of them however often early ends made them wrap.
That the users' counts are right is not a theorem: it is false (`accounts_count`). `OnlyEarlyEndsMiscount`
bounds how wrong they are.

**SelectorProofs** (assuming `SelectorAssumption`: at least one passive socket, all of them inside
the table, and a first capacity of at least FD_SETSIZE, which `next_capacity` gives for
`SELECTOR_MAX_ENTRIES`). `Inductive` shows `IInv`. The properties need each other and more:
`LargeEnough` (the table was made for every number that passes INVALID_FD, so it never grows and no
item is outside its memory), `Held` (what is registered is open and registered for a live session
that holds it), `Passives` (the listeners are the lowest numbers and stay registered), `Apart` (a
closed session holds nothing), `KeySound` (the data of the key is that of the descriptor it stands
on, although it was read before another handler ran), `UntilReuse` and `Stale` (readiness nobody saw is
only of connections just begun, because an iteration accepts before it handles any session's
socket: the listeners come first). From it follow `TableStaysSound`, `NoneBad`, `OwnedOrTooBig`,
`HolderCalled` and `SelectorImplementsReady`: initial states map to initial states, and each step to
an observation, a dispatch, a call of a handler, a return or a stutter of ReadyEvents.

**DnsProofs** (assuming `DnsAssumption`: finitely many descriptor numbers, lists of any positive
length). `Inductive` shows `IInv == TypeOK /\ Own /\ Phase`. `Own` is `DescriptorsOwned` with what
makes it inductive: a header keeps the number of a connection after it is closed, and a handler
finds its header by comparing numbers (`Me`), so the two headers never have the same number
unless neither ever had one. `Phase` says what is open and what is watched in each state, which is
needed because a handler runs whatever the state is: nobody reads the client after REQUEST and
nobody writes to it during a resolution (`ClientMuted`), answers come only in RESPONSE_DNS
(`AnswersAwaited`), a query sent in GENERATE_DNS_QUERY mutes its connection, a family that offered an
address in RESPONSE_DNS is closed and the server's connection is open (`Asks`), and from DNS_CONNECT on
no resolver connection is left (`BothClosed`). `Entered` proves it once for every jump with its
arrival, `Freed` for every end of the session, and one lemma per handler shows that it leaves behind
what these need. From it follow `TypeCorrect`, `OwnedOnce`, `OthersKept` and `NoneUntried`.
`RepliedOnce` needs one more invariant, `Answer`: there is no reply until DNS_CONNECT ends, then one, and
the server is not watched until it is sent. What the server said during a resolution may stand before it.

DnsProofs has the answer too (DohAnswer), assuming `CountAssumption`: counts of two up to 256, which is
2^8 in the code, and receives bounded by any number; and `AnswersAssumption`: every answer is one as
`IsAnswer` and `Plain` say, with any lines, any records of any type, owner and data, and any counts. No
bound is put on their lengths but those of their fields.

* *Types.* `Fits` is `DohTypeOK` with what makes it inductive for any byte in any state: the list is one
  longer than the whole records only inside an address, and a record of another type is taken off the
  count before its data are.
* *Positions.* `Tracks(a, p, m)` says what the two machines hold behind the first p bytes of an answer.
  The search for a string restarts, so a state does not say how much was taken, and this is said the
  other way round, from the description: in the first line (`HeadAt`), in a later one (`LineAt`) or at the
  empty line (`EmptyAt`), in the header of the message (`HeaderAt`), and in the owner, the ten bytes
  after it or the data of a record (`OwnerAt`, `TenAt`, `DataAt`, together `RecordAt`); or the head is not
  one that is accepted (`Unaccepted`), or the last counted byte was taken (`Complete`).
* *One byte.* `LineStep`, `HeadStep`, `HeaderStep` and `RecordStep` move each of these by a byte, and
  `DnsStep` and `TracksStep` join them, with where the parts of a message begin and end (`DnsEnds`).
* *One receive.* `FedTracks` carries it over any number of bytes, so a cut cannot matter, and `DohInductive`
  over the behaviour: the bytes taken are those before `rest`.

`DohTypeCorrect` and `AnswersExact` follow: a complete message has the addresses of its counted records
(`Found`), and an answer that is not accepted never leaves the head.

**HandshakeProofs** (assuming `SizesAssumption`, that the anonymous user exists, and
`ScriptsAssumption`: a client sends messages of RFC 1928 and 1929 in the order of a dialogue, with any
bytes in any of their fields, up to the field where a message may be refused, and any bytes behind
the request). A client that breaks off in a message is one that sends the whole of it and leaves: the daemon may
receive any part. `HandshakeInvariant` shows
`Inv == Typed /\ Out /\ Turn /\ Handled /\ Stream`, by three layers of lemmas.

* *One message.* `HelloAt`, `LoginAt` and `RequestAt` say what a parser holds after j bytes of a
  message. `HelloStep` and its like prove that a byte takes it from j to j + 1 without being done, `HelloEnd`
  and its like that the last byte, and no other, makes it done with what the message says.
* *One receive.* `Receive` joins these over a buffer (`FedReads`): the parser is still inside the
  message and took all, or done and took up to its end, and the rest is behind it. `Lies(s, t, u)` says
  that s is what stands behind the first u elements of t, and the lemmas about it cut and join streams.
* *The dialogue.* `Stream` is the heart: of the bytes sent and not handled, u are in the parser (or
  reached the server), then come those in the buffer, then those on the wire. `Turn` says which
  message each state waits for, and whose session it is. `Out` says that a reply waits whole,
  which `Refuse` and the short states rely on (`REQUEST_SUCCESSFUL` goes on when it is marshalled).

From `Inv` follow `HandshakeTypeOK`, `ServedIsAllowedAlways` and `StreamStaysExact`. `RepliesStayExact` adds
`Told` (what the client received are the outcomes of the messages handled before) and `Reached`
(how far the server's connection is in each state, which decides the code of a request's reply). It holds the
reply against the RFCs but for the two bytes that `handshake_document` is about.

Induction over bytes and messages is needed here (`FeedsExist`, `FedReads`), in ByteLemmas
(`JoinExists`, `JoinUnique`), in DnsProofs (`FedTracks`), in RelayProofs
(`SpoofsExist`, `SpoofedTracks`) and in AdministrationProofs (the same two, `ListsExist`, `ListedRight`). The
prover has no schema for it, so each takes the least counterexample, which `LeastExists` of ByteLemmas
provides, and refutes it with the step below it.

**AdministrationProofs** (assuming `SizesAssumption`: positive sizes of the two buffers;
`UsersAssumption`: a first set of users as `IsUsers` says, the anonymous one among them;
`NumbersAssumption`: statistics are naturals and what lies behind a name is a byte; and
`MessagesAssumption`: a client sends a login of RFC 1929 and then requests as `IsRequest` says).

The first invariant takes nothing from what the parsers compute. `Inductive` shows
`IInv == Watched /\ IsReply(reply) /\ ListsFreed /\ ServedByAdmin`. `Watched` ties what the selector
watches to the state: it is how a send that completes is known to be of a login that succeeded or
of a request, never of one that is still being parsed, so that METHOD_ARRIVAL inherits a user who is served.
`IsReply` says the response builder holds a list or not, which no builder changes (`BuildKeeps`).
`Executes` is the heart: whatever the parser yields, a command allocates a list exactly when its
answer is one, and leaves the user of its own session among the users with its rights. `Closes`
covers every way out at once. From it follow `ListsNotLeaked` and `ServesAdmins`.

The second needs all of it: `Inv == IInv /\ Typed /\ Script /\ Handled /\ Turn /\ Stream /\ Replied`,
by these layers of lemmas.

* *One message.* `ArgumentsAt` and `RequestAt` say what the parser holds after j bytes of a request;
  `ArgumentsStep` and `RequestStep` that a byte takes it from j to j + 1 without being done,
  `RequestEnd` that the last byte, and no other, makes it done with the type, command and arguments sent.
  The login is that of ByteLemmas.
* *One receive.* `Receive`, as in HandshakeProofs, with a buffer that may be shorter than the message:
  then nothing waits behind what the parser took, so there is always room.
* *One command.* `ExecuteLeaves`: the answer is fresh, of bytes, and what is to be written of it is the
  whole; the users stay what `userMap` may hold and the settings stay in their ranges, of which the
  buffer size is the one that `Accepted` bounds. `ExecuteAnswered`: that answer is in `Answers`, the document's
  and the disputed ones, with a lemma per command that goes from what the command did to the status that is
  true of it; for a list, `UsersInOrder` shows that every user is in it once. `LoginAnswered` is for the login.
* *One call of a builder.* `Rest(r)` is what the builder has still to write of a reply. `ListByteRight` shows
  that a byte moves the place in the list, and that what it wrote followed by what remains is what
  remained before, provided that the list was not resumed inside an entry (`Right`). `BuildReply` says it of
  whole calls of either builder, for any room.
* *The dialogue.* `Stream` splits what was sent and not handled into the bytes in the parser, in the
  buffer and on the wire. `Told` says that every answer received is one owed, and `Replied` that what the
  client has of the next, what the output buffer has and what the builder has still to write are together
  one of those owed to the last message handled; while the session reads, the three are empty.

From `Inv` follow `AdministrationTypeOK` and `AnswersAreExact`. The latter says of a list that was resumed
inside an entry (`cut`) only that it is one answer and that those behind it are right: its content is what
`administration_document` shows to be wrong. The other exceptions are the answers of `Disputed`.

ByteLemmas has the facts that several of these share: about numbers (a nonempty set of naturals has a
least element: the kernel's lowest free descriptor, the least counterexample of an induction; and
remainders add up: the counters that wrap), about sequences put together, cut and flattened, about strings with their lengths (`StringGrows`,
`FieldParts`), and about the login, which the proxy and the administration read with the same parser
(`LoginStep`, `LoginEnd`, with `CoreUpdates` for a parser that has more fields than the login uses).

Two theorems of RelayProofs and two of AccountsProofs state facts that no run lists because the
listed ones say more on an instance: `EofIsLast`, `FinishComplete`, `ServedHasUser`,
`AnonymousStays`.

## 7. What is only model-checked

* Liveness (`HalfCloseRelayed`, `IdleSessionEnds`, `ResolutionEnds`, `EveryRequestAnswered`,
  `EveryMessageAnswered`): the prover has no rule for fairness and ENABLED.
* The violations.

Every safety invariant and every safety action property that a passing run checks is a theorem.

## 8. Findings

Six runs show a disagreement between the code and what the repository says of it:

* **relay_flush_overflow**. In FLUSH_CLOSER the side still open is given OP_READ when there is
  room and never loses it. When the buffer is full its next read event closes the session, with
  bytes that were never delivered; `socksStateMachine.dot:101` ends a flush when no data is left.
* **dns_stuck**. A family that has made its query mutes its socket and waits for the other one;
  if the other's connection then fails, nothing of the session is watched any more. Only the
  clean-up, if it is enabled, ends it. `request.c:142-143` says one connection is enough.
* **administration_pipelined**. `src/pipoProtocol.txt:590` requires pipelining. A second request that
  was received with the first stays in the input buffer, unparsed, until more bytes come.
* **accounts_count**. `src/pipoProtocol.txt:399-400` promises the concurrent connections of a user, and
  `:374-375` the users connected. A session that ends between its login and its request gives back a
  count that it never took (`socks5.c:567`, `request.c:26-31`): one connection too few, or 65535.
* **administration_document**. Three answers are not what the protocol says. The run's trace is the first; with
  only the request for the connections of an existing or of an unknown user in `Disputes`, TLC
  shows each of the others.
  The user-list builder keeps `putUlen` in a local (`adminResponseBuilder.c:109`): a list that is longer
  than the output buffer's room is resumed inside an entry, whose length is sent again and which loses a
  character, where `src/pipoProtocol.txt:414-428` has one length, name and privilege for each user.
  The connections of a user are sent in two bytes (`adminRequestQueryHandlers.c:157`), where
  `src/pipoProtocol.txt:568` has one. And those of a user that does not exist are told as 0
  (`adminRequestQueryHandlers.c:156`), where `src/pipoProtocol.txt:573-575` asks for a Query Error.
* **handshake_document**. Two replies are not what the RFCs say. A request for an unknown type of address is told 1, a
  general failure, because the parser refuses it first (`request.c:48`): `request.c:177` has 8 for it, which is never
  reached, and `src/enunciado.txt:62-63` asks to report failures with all that the protocol has. With scripts that all
  begin with a login, TLC shows the other: the answer to it begins with 5, the version of SOCKS (`authSuccessful.c:41`,
  `authError.c:39`), where `src/enunciado.txt:45` asks for RFC 1929, which has 1, the code's `AUTH_VERSION`.

## 9. Seen while modelling

Behaviour the models contain, about which the repository says nothing that a run could refute, or
which needs no run to see:

* the accepted client socket is blocking (`socks5.c:136`), so a client that does not read stops
  the daemon in `send` (`socks5.c:369`); the selector's header asks for non-blocking descriptors
  (`selector.h:21-22`). Relay models it (`pending`);
* in REQUEST_ERROR the server connection stays watched with OP_WRITE, and its event may end the
  session before the error is sent (`requestError.c:21`);
* while the second resolver answer is awaited, `response_dns_on_write` sets OP_READ on the server's
  socket (`responseDns.c:209`); what the server says then enters the client's buffer before the
  SOCKS reply does (`socks5.c:234`). DnsResolution has the step (`ServerRead`);
* data sent behind a request is sent to the server before its SO_ERROR is read (`socks5.c:284`): if
  the connection failed, the session is closed without a reply and other addresses are not tried;
* bytes of a handshake that were received with the message before are parsed only when more come,
  as in the administration (`socks5.c:348-384` sends and changes state, but parses nothing);
* buffers and address lists can be left allocated when DNS_CONNECT gives way (`dnsConnect.c:76`);
* after a broken-off answer, addresses that were never received (zero) are tried, because
  `counter` counts the announced ones (`dnsConnect.c:34`);
* a writable server socket in RESPONSE_DNS refreshes `lastInteraction` in every iteration
  (`socks5.c:267`): with a silent resolver the session never becomes idle and the loop never
  sleeps, although `src/pipoProtocol.txt:394-395` describes the time-out of idle connections;
* `response_dns_on_write` lacks the test of `connected` (`responseDns.c:198-200`): a failing second
  query fails the request although a connection to an address of the other family is under way
  (`socksStateMachine.dot:83`);
* the first write event of a connection decides that it is up when SO_ERROR is 0; if its number was
  reused inside the iteration and the event was the former socket's, the connection is taken for
  established while it is still under way (`selector.c:548`, `ipConnect.c:22`). `ReadyEvents`
  makes the exception explicit, and accepted sockets, which block, are shown never to meet it;
* `selector_register` is called without looking at its result (`socks5.c:163`): past the table a session is
  leaked with its descriptor. `OwnedUnlessTooBig` says that nothing else leaks;
* `accept` failing for lack of descriptors leaves the listener readable: the loop turns without
  waiting until one is closed (`socks5.c:129`);
* an HTTP head without a reason phrase, or `Content-Length:` without a space, is never accepted, and the
  session waits for the resolver to close (`httpDnsParser.c:33`);
* a record of the answer without data, or a later one owned by the root, shifts the parser
  by one byte (`dnsParser.c:272`); `Regular` excludes them;
* `serverConnection.fd = 1` for an unknown family of an address (`responseDns.c:145`) is not reached:
  the lists hold the two families only;
* data sent behind a request, and data that comes after a half-close, are never shown to the login
  reader (`forwarding.c:82` is the only caller);
* an administrator that removes its own user is answered as for an invalid parameter
  (`administration.c:361-365`).

## 10. Not modelled

* The administration client (`client/`): a separate, sequential, interactive program.
* Argument parsing, address text (`utilities/netutils`), start-up and signal handling: I/O before
  the loop or beside it. khash is vendored; Accounts uses it as a finite map.
* The logger: output. The query builder (`dohBuilder.c`) formats one message and keeps no state.
* `selector_notify_block` and its job list: no code of the daemon calls it.
* Output buffers that are full during a resolution (what the server says early is bounded by
  `MaxData`), POP3 clients that pipeline elsewhere than ahead of their last command, credentials
  longer than their buffers and HTTP credentials without a colon, allocation failures
  of the administration, strings with a NUL inside.
