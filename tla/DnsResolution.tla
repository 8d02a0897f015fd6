--------------------------- MODULE DnsResolution ---------------------------
(***************************************************************************)
(* One session whose request names a domain: from REQUEST through          *)
(* GENERATE_DNS_QUERY, RESPONSE_DNS and DNS_CONNECT to FORWARDING, or to   *)
(* the error reply.  It asks a DoH server for both families on two         *)
(* sockets, opens a third one to the first address that answers, and all   *)
(* of them close and take descriptor numbers that the kernel hands out     *)
(* lowest first and that other sessions of the daemon open and close too.  *)
(*                                                                         *)
(* table is the process's descriptors together with the selector's items;  *)
(* dns[f].fd keeps its number after the socket is closed, as in the code.  *)
(* An iteration of the selector handles what was ready when it began, by   *)
(* number, whoever holds the descriptor by then.                           *)
(***************************************************************************)
EXTENDS Integers, FiniteSets, Sequences

CONSTANTS
  Fd,              \* descriptor numbers
  MaxAddr,         \* bound: addresses in an answer
  MaxData,         \* bound: pieces of data the server sends before FORWARDING
  CleanupEnabled   \* args.cleanupEnable

ASSUME DnsAssumption ==
  /\ Fd \in SUBSET Nat /\ IsFiniteSet(Fd)
  /\ MaxAddr \in Nat \ {0} /\ MaxData \in Nat
  /\ CleanupEnabled \in BOOLEAN

VARIABLES
  st,        \* sessionStateMachine.current, "GONE" once the session is freed
  client,    \* clientConnection.fd
  dns,       \* dns[f]: DnsHeader: fd, whether its state is OPEN, buffer, connected,
             \*         and left, the addresses of its list from counter on
  srv,       \* serverConnection: fd and whether it is not INVALID
  table,     \* table[fd]: who holds it, the interest in it, its connection
  ready,     \* ready[fd]: rest of the slave fd_sets of this iteration
  input,     \* the client sent data behind its request, still buffered
  output,    \* what session->output holds for the client
  seen,      \* what the client was sent
  idle       \* lastInteraction is older than maxSessionInactivity

vars == <<st, client, dns, srv, table, ready, input, output, seen, idle>>

Families == {"ipv4", "ipv6"}
Other(f) == IF f = "ipv4" THEN "ipv6" ELSE "ipv4"
Ours == {"client", "server"} \cup Families
-----------------------------------------------------------------------------
(* Descriptors and selector items.                                         *)

Free    == [owner |-> "free", ops |-> {}, link |-> "none"]
Foreign == [owner |-> "foreign", ops |-> {"WRITE"}, link |-> "up"]
Nobody  == [fd \in Fd |-> {}]

Lowest(t) ==
  CHOOSE fd \in Fd : /\ t[fd].owner = "free"
                     /\ \A g \in Fd : t[g].owner = "free" => fd <= g
HasRoom(t, n) == Cardinality({fd \in Fd : t[fd].owner = "free"}) >= n

\* new_ipv4_socket, new_ipv6_socket, then selector_register with OP_WRITE
Connecting(t, owner) ==
  [t EXCEPT ![Lowest(t)] = [owner |-> owner, ops |-> {"WRITE"}, link |-> "connecting"]]
\* the number new_ipv4_socket or new_ipv6_socket returned for it
Holder(t, owner) == CHOOSE fd \in Fd : t[fd].owner = owner
\* selector_unregister_fd and the close of its handler
Closed(t, fd) == [t EXCEPT ![fd] = Free]
\* selector_set_interest: nothing happens to a descriptor that is not registered.
Watch(t, fd, ops) ==
  IF fd \notin Fd \/ t[fd].owner = "free" THEN t ELSE [t EXCEPT ![fd].ops = ops]

\* the comparison every handler of a resolver connection starts with
Me(fd) == IF dns["ipv4"].fd = fd THEN "ipv4" ELSE "ipv6"
\* socks5_dns_close
DnsClosed(d, fd) == [d EXCEPT ![Me(fd)].open = FALSE]

\* (a slip: the number of a socket that could not be opened is 0)
NoHeaderZero(f) == [fd |-> 0, open |-> FALSE, buf |-> "none", connected |-> FALSE,
                    left |-> 0]
\* the -1 of a socket that could not be opened, or no container
NoHeader(f) == [fd |-> -1, open |-> FALSE, buf |-> "none", connected |-> FALSE,
                left |-> 0]
NoContainer == [f \in Families |-> NoHeader(f)]

NoSocket == [srv EXCEPT !.fd = -1, !.open = FALSE]

Drained(d, f) == d[f].buf \in {"none", "idle"}
-----------------------------------------------------------------------------
(* jump(): the state entered and its on_arrival.  d, s and t are the       *)
(* container, the server connection and the table as the handler left them.*)

Asking(t, d, f) == IF d[f].open THEN Watch(t, d[f].fd, {"WRITE"}) ELSE t

Arrived(next, d, s, t) ==
  CASE next = "GENERATE_DNS_QUERY" ->
         Watch(Asking(Asking(t, d, "ipv4"), d, "ipv6"), client, {})
    [] next = "RESPONSE_DNS" -> Asking(Asking(t, d, "ipv4"), d, "ipv6")
    [] next = "DNS_CONNECT" -> Watch(Watch(t, client, {}), s.fd, {"WRITE"})
    [] next = "REQUEST_SUCCESSFUL" -> Watch(Watch(t, client, {"WRITE"}), s.fd, {})
    [] next = "REQUEST_ERROR" -> Watch(t, client, {"WRITE"})
    [] OTHER -> t

Headers(next, d) ==
  IF next = "RESPONSE_DNS"
  THEN [f \in Families |-> IF d[f].open THEN [d[f] EXCEPT !.connected = FALSE] ELSE d[f]]
  ELSE d

Replies(next) == IF next \in {"REQUEST_SUCCESSFUL", "REQUEST_ERROR"}
                 THEN <<"reply">> ELSE <<>>

Enter(next, d, s, t, out) ==
  /\ st' = next
  /\ dns' = Headers(next, d)
  /\ srv' = s
  /\ table' = Arrived(next, d, s, t)
  /\ output' = out \o Replies(next)

Stay(d, s, t, out) ==
  /\ st' = st /\ dns' = d /\ srv' = s /\ table' = t /\ output' = out

\* socks5_client_close
\* (slips: the resolver connections are forgotten; closed by number, open or not)
OpenFdsForgotten == {client} \cup (IF srv.open THEN {srv.fd} ELSE {})
OpenFdsByNumber == (OpenFdsForgotten \cup {dns[f].fd : f \in Families}) \cap Fd
OpenFds == {client} \cup {dns[f].fd : f \in {g \in Families : dns[g].open}}
                    \cup (IF srv.open THEN {srv.fd} ELSE {})
EndSession ==
  /\ st' = "GONE"
  /\ table' = [fd \in Fd |-> IF fd \in OpenFds THEN Free ELSE table[fd]]
  /\ dns' = NoContainer
  /\ srv' = [srv EXCEPT !.open = FALSE]
  /\ output' = <<>>
-----------------------------------------------------------------------------
Init ==
  /\ st = "REQUEST"
  /\ client \in Fd
  /\ dns = NoContainer
  /\ srv = [fd |-> 0, open |-> FALSE]
  /\ \E F \in SUBSET (Fd \ {client}) :
        table = [fd \in Fd |->
          IF fd = client THEN [owner |-> "client", ops |-> {"READ"}, link |-> "data"]
          ELSE IF fd \in F THEN Foreign ELSE Free]
  /\ ready = Nobody
  /\ input \in BOOLEAN
  /\ output = <<>>
  /\ seen = <<>>
  /\ idle = FALSE
-----------------------------------------------------------------------------
(* The selector: pselect(), then the ready descriptors from the lowest.    *)

Running == st \notin {"GONE", "FORWARDING"}

Is(fd, op) ==
  \/ table[fd].link = "failed"
  \/ op = "READ" /\ table[fd].link = "data"
  \/ op = "WRITE" /\ table[fd].link \in {"up", "data"}

\* Other sessions' descriptors may be ready or not.  It matters while this
\* session is in REQUEST: later it opens a socket only after closing the one
\* whose turn it is, and gets that number or one already passed.
Select ==
  /\ Running /\ ready = Nobody
  /\ \E F \in SUBSET {fd \in Fd : st = "REQUEST" /\ table[fd].owner = "foreign"} :
       ready' = [fd \in Fd |-> IF table[fd].owner = "foreign" /\ fd \notin F THEN {}
                               ELSE {op \in table[fd].ops : Is(fd, op)}]
  /\ ready' # Nobody
  /\ UNCHANGED <<st, client, dns, srv, table, input, output, seen, idle>>

Turn(fd, op) ==
  /\ Running
  /\ op \in ready[fd] /\ (op = "WRITE" => "READ" \notin ready[fd])
  /\ \A g \in Fd : ready[g] # {} => fd <= g

\* The handler of owner is called: the interest is looked at again, not the
\* readiness.
Event(fd, owner, op) ==
  table[fd].owner = owner /\ op \in table[fd].ops /\ Turn(fd, op)

Passed(fd, op) == ready' = [ready EXCEPT ![fd] = @ \ {op}]

\* Nobody of this session, or no interest any more.
Skip ==
  /\ \E fd \in Fd, op \in {"READ", "WRITE"} :
       /\ Turn(fd, op) /\ Passed(fd, op)
       /\ table[fd].owner \in {"free", "foreign"} \/ op \notin table[fd].ops
  /\ UNCHANGED <<st, client, dns, srv, table, input, output, seen, idle>>

Handled(fd, op) == Passed(fd, op) /\ idle' = FALSE /\ UNCHANGED client
-----------------------------------------------------------------------------
(* GENERATE_DNS_QUERY                                                      *)

\* the container after both sockets were tried
Resolvers(ok, t) ==
  [f \in Families |-> IF f \notin ok THEN NoHeader(f)
                     ELSE [NoHeader(f) EXCEPT !.open = TRUE, !.fd = Holder(t, f)]]

\* Families in ok get a socket whose connection is under way; the others fail
\* at once (also for lack of memory or descriptors).
Resolve ==
  /\ \E fd \in Fd : Event(fd, "client", "READ") /\ Handled(fd, "READ")
  /\ \E ok \in SUBSET Families :
       LET t4 == IF "ipv4" \in ok THEN Connecting(table, "ipv4") ELSE table
           t6 == IF "ipv6" \in ok THEN Connecting(t4, "ipv6") ELSE t4
           d  == Resolvers(ok, t6)
       IN  /\ HasRoom(table, Cardinality(ok))
           /\ IF ok = {} THEN Enter("REQUEST_ERROR", d, srv, table, output)
                         ELSE Enter("GENERATE_DNS_QUERY", d, srv, t6, output)
  /\ UNCHANGED <<input, seen>>

\* built: doh_builder_build made the query
GenerateOnWrite(fd, d, t, out) ==
  LET me == Me(fd)
      other == Other(me)
  IN  \E built \in BOOLEAN :
        IF ~built \/ ~d[me].open \/ t[fd].link = "failed"
        THEN IF ~d[other].open
             THEN Enter("REQUEST_ERROR", d, srv, t, out)
             ELSE Stay([DnsClosed(d, fd) EXCEPT ![me].buf = "none"], srv, Closed(t, fd), out)
        ELSE LET asked == [d EXCEPT ![me].buf = "query", ![me].connected = TRUE]
             IN  IF d[other].open /\ ~d[other].connected
                 THEN Stay(asked, srv, Watch(t, fd, {}), out)
                 ELSE Enter("RESPONSE_DNS", asked, srv, t, out)
-----------------------------------------------------------------------------
(* RESPONSE_DNS                                                            *)

\* (a slip: nothing is read after the query was sent)
ResponseOnWriteDeaf(fd, d, t, out) == Stay(d, srv, t, out)
ResponseOnWrite(fd, d, t, out) ==
  LET me == Me(fd)
  IN  IF ~d[me].open
      THEN IF ~d[Other(me)].open THEN Enter("REQUEST_ERROR", d, srv, t, out)
                                 ELSE Stay(d, srv, t, out)
      ELSE Stay(d, srv, IF Drained(d, me) THEN Watch(t, fd, {"READ"}) ELSE t, out)

\* me has nothing to offer: the other family may, now or later
GiveWay(me, d, t, out) ==
  IF d[Other(me)].connected THEN Enter("DNS_CONNECT", d, srv, t, out)
  ELSE IF ~d[Other(me)].open THEN Enter("REQUEST_ERROR", d, srv, t, out)
  ELSE Stay([d EXCEPT ![me].buf = "none", ![me].left = 0], srv, t, out)

\* The connection with the resolver ended; the list stays as the parser has
\* it: counter also counts the bytes of an address, so any rest is possible.
BrokenAnswer(fd) ==
  \E n \in 0 .. MaxAddr :
     GiveWay(Me(fd), [DnsClosed(dns, fd) EXCEPT ![Me(fd)].left = n],
             Closed(table, fd), output)

\* A malformed answer, or one without addresses or without a question.
BadAnswer(fd) ==
  \E n \in 0 .. MaxAddr :
     GiveWay(Me(fd), [DnsClosed(dns, fd) EXCEPT ![Me(fd)].left = n, ![Me(fd)].buf = "none"],
             Closed(table, fd), output)

\* The first address that lets a connection begin is the server's; the number
\* of the socket may be the one just closed.
GoodAnswer(fd) ==
  LET me == Me(fd)
      other == Other(me)
      done == [DnsClosed(dns, fd) EXCEPT ![me].buf = "none"]
      t == Closed(table, fd)
  IN  \E n \in 1 .. MaxAddr :
        IF dns[other].connected
        THEN Enter("DNS_CONNECT", [done EXCEPT ![me].left = n], srv, t, output)
        ELSE \/ \E k \in 1 .. n :
                  LET d  == [done EXCEPT ![me].left = n - k, ![me].connected = TRUE]
                      s  == [fd |-> Lowest(t), open |-> TRUE]
                      tt == Watch(Connecting(t, "server"), fd, {})
                  IN  IF d[other].open THEN Stay(d, s, tt, output)
                                       ELSE Enter("DNS_CONNECT", d, s, tt, output)
             \/ IF ~dns[other].open
                THEN Enter("REQUEST_ERROR", done, NoSocket, t, output)
                ELSE Stay(done, NoSocket, t, output)

-----------------------------------------------------------------------------
(* DNS_CONNECT                                                             *)

\* The next address that lets a connection begin, of the IPv4 list and then of
\* the other; the rest of the lists after it is n4, n6.
Untried(d, n4, n6) == [d EXCEPT !["ipv4"].left = n4, !["ipv6"].left = n6]
Opened(d, t, out) ==
  Stay(d, [fd |-> Lowest(t), open |-> TRUE], Connecting(t, "server"), out)
\* (a slip: only the addresses of one family are tried again)
NextAddressIPv4(d, t, out) ==
  \/ \E n \in 0 .. d["ipv4"].left - 1 : Opened(Untried(d, n, d["ipv6"].left), t, out)
  \/ Enter("REQUEST_ERROR", Untried(d, 0, d["ipv6"].left), NoSocket, t, out)
NextAddress(d, t, out) ==
  \/ \E n \in 0 .. d["ipv4"].left - 1 : Opened(Untried(d, n, d["ipv6"].left), t, out)
  \/ \E n \in 0 .. d["ipv6"].left - 1 : Opened(Untried(d, 0, n), t, out)
  \/ Enter("REQUEST_ERROR", Untried(d, 0, 0),
           IF \A f \in Families : d[f].left = 0 THEN [srv EXCEPT !.open = FALSE] ELSE NoSocket,
           t, out)

\* On success the container is freed.
\* (a slip: the reply is skipped)
ConnectOnWriteUnreplied(fd, d, t, out) ==
  IF t[fd].link = "failed"
  THEN NextAddress(d, Closed(t, fd), out)
  ELSE Enter("FORWARDING", NoContainer, srv, t, out)
ConnectOnWrite(fd, d, t, out) ==
  IF t[fd].link = "failed"
  THEN NextAddress(d, Closed(t, fd), out)
  ELSE Enter("REQUEST_SUCCESSFUL", NoContainer, srv, t, out)
-----------------------------------------------------------------------------
(* selector_state_machine_proccess_write after a handler left d, t and out.*)

OnWrite(fd, d, t, out) ==
  CASE st = "GENERATE_DNS_QUERY" -> GenerateOnWrite(fd, d, t, out)
    [] st = "RESPONSE_DNS" -> ResponseOnWrite(fd, d, t, out)
    [] st = "DNS_CONNECT" -> ConnectOnWrite(fd, d, t, out)
    [] st = "REQUEST_SUCCESSFUL" -> Enter("FORWARDING", d, srv, t, out)
    [] st = "REQUEST_ERROR" -> Enter("FINISH", d, srv, t, out)
    [] OTHER -> Stay(d, srv, t, out)

\* The handlers of the client and of the server close the session at FINISH;
\* those of the resolver connections drop the result.
OnWriteOrClose(fd, d, t, out) ==
  IF st \in {"REQUEST_ERROR", "FINISH"} THEN EndSession ELSE OnWrite(fd, d, t, out)

-----------------------------------------------------------------------------
(* The socket handlers of socks5.c                                         *)

\* socks5_dns_write; a send that takes part of the query fills the socket
DnsWrite(f) ==
  \E fd \in Fd :
    /\ Event(fd, f, "WRITE") /\ Handled(fd, "WRITE")
    /\ IF Drained(dns, Me(fd))
       THEN IF dns[Me(fd)].connected THEN EndSession ELSE OnWrite(fd, dns, table, output)
       ELSE IF table[fd].link \notin {"up", "data"}
       THEN OnWrite(fd, DnsClosed(dns, fd), Closed(table, fd), output)
       ELSE \/ OnWrite(fd, [dns EXCEPT ![Me(fd)].buf = "idle"], table, output)
            \/ /\ dns[Me(fd)].buf = "query"
               /\ OnWrite(fd, [dns EXCEPT ![Me(fd)].buf = "rest"],
                          [table EXCEPT ![fd].link = "full"], output)
    /\ UNCHANGED <<input, seen>>

\* socks5_dns_read of the connection's end, of the rest of the answer, or of
\* bytes that do not complete it
DnsRead(f) ==
  \E fd \in Fd :
    /\ Event(fd, f, "READ") /\ Handled(fd, "READ")
    /\ IF table[fd].link = "failed" THEN BrokenAnswer(fd)
       ELSE \/ BadAnswer(fd)
            \/ GoodAnswer(fd)
            \/ Stay(dns, srv, [table EXCEPT ![fd].link = "up"], output)
    /\ UNCHANGED <<input, seen>>

\* socks5_server_write: data the client sent early goes first
ServerWrite ==
  \E fd \in Fd :
    /\ Event(fd, "server", "WRITE") /\ Handled(fd, "WRITE")
    /\ IF input /\ table[fd].link = "failed" THEN EndSession
       ELSE OnWriteOrClose(fd, dns, table, output)
    /\ input' = FALSE
    /\ UNCHANGED seen

\* socks5_server_read: what the server says is put behind the output, and the
\* state runs its on_read, which only RESPONSE_DNS has
ServerRead ==
  \E fd \in Fd :
    /\ Event(fd, "server", "READ") /\ Handled(fd, "READ")
    /\ IF table[fd].link = "failed" THEN EndSession
       ELSE LET out == Append(output, "data")
                t   == [table EXCEPT ![fd].link = "up"]
            IN  IF st = "RESPONSE_DNS" /\ ~dns[Me(fd)].open
                THEN GiveWay(Me(fd), dns, t, out)
                ELSE Stay(dns, srv, t, out)
    /\ UNCHANGED <<input, seen>>

\* socks5_client_write
ClientWrite ==
  \E fd \in Fd :
    /\ Event(fd, "client", "WRITE") /\ Handled(fd, "WRITE")
    /\ OnWriteOrClose(fd, dns, table, <<>>)
    /\ seen' = seen \o output
    /\ UNCHANGED input

\* send() to a client that is gone
ClientLost ==
  /\ \E fd \in Fd : Event(fd, "client", "WRITE") /\ Handled(fd, "WRITE")
  /\ EndSession
  /\ UNCHANGED <<input, seen>>

\* socks5_cleanup_session, between two iterations
Cleanup ==
  /\ CleanupEnabled /\ idle
  /\ Running /\ ready = Nobody
  /\ EndSession
  /\ UNCHANGED <<client, ready, input, seen, idle>>
-----------------------------------------------------------------------------
(* The network, the clock and the rest of the daemon.  A handler looks at  *)
(* no connection but its own, so what happens to a connection during an    *)
(* iteration may as well have happened before it, or after.                *)

unmoved == <<st, client, dns, srv, ready, input, output, seen>>

Between == Running /\ ready = Nobody

Link(owner, from, to) ==
  /\ Between
  /\ \E fd \in Fd :
       /\ table[fd].owner = owner /\ table[fd].link \in from
       /\ \E link \in to : table' = [table EXCEPT ![fd].link = link]
  /\ UNCHANGED <<unmoved, idle>>

Settle(owner)  == Link(owner, {"connecting"}, {"up", "failed"})
Break(owner)   == Link(owner, {"up", "full", "data"}, {"failed"})
Acknowledge(f) == Link(f, {"full"}, {"up"})
\* the resolver answers a query it has whole, the server may speak first
Deliver(owner) ==
  /\ owner = "server" => Len(SelectSeq(output, LAMBDA x : x = "data")) < MaxData
  /\ owner \in Families => dns[owner].buf = "idle"
  /\ Link(owner, {"up"}, {"data"})

Tick ==
  /\ Between /\ ~idle /\ idle' = TRUE
  /\ UNCHANGED <<unmoved, table>>

\* Other sessions: their handlers run in their turn, accept and clean-up
\* between iterations.
ForeignTurn ==
  Between \/ \E fd \in Fd : Turn(fd, "WRITE") /\ table[fd].owner = "foreign"

ForeignOpen ==
  /\ ForeignTurn /\ HasRoom(table, 1)
  /\ table' = [table EXCEPT ![Lowest(table)] = Foreign]
  /\ UNCHANGED <<unmoved, idle>>

ForeignClose ==
  /\ ForeignTurn
  /\ \E fd \in Fd : table[fd].owner = "foreign" /\ table' = [table EXCEPT ![fd] = Free]
  /\ UNCHANGED <<unmoved, idle>>

\* the session is freed, or relays (module Relay)
Ended == ~Running /\ UNCHANGED vars

Handler ==
  \/ Skip
  \/ Resolve
  \/ \E f \in Families : DnsWrite(f) \/ DnsRead(f)
  \/ ServerWrite
  \/ ServerRead
  \/ ClientWrite
  \/ ClientLost

Network(owner) == Settle(owner) \/ Break(owner) \/ Deliver(owner)

Environment ==
  \/ \E owner \in {"server"} \cup Families : Network(owner)
  \/ \E f \in Families : Acknowledge(f)
  \/ Tick
  \/ ForeignOpen
  \/ ForeignClose
  \/ Ended

Next == Select \/ Handler \/ Cleanup \/ Environment

Spec == Init /\ [][Next]_vars
-----------------------------------------------------------------------------
(* Fairness: the main loop goes on, connections settle (TCP_SYNCNT) and    *)
(* take what they are sent, time passes.  What the network and the clock   *)
(* owe is strong because Between is a matter of the model.  Each network   *)
(* step happens finitely often to a connection: one condition serves all.  *)

Settled ==
  \/ \E owner \in {"server"} \cup Families : Settle(owner)
  \/ \E f \in Families : Acknowledge(f)

Scheduled ==
  /\ WF_vars(Select \/ Handler) /\ WF_vars(Cleanup)
  /\ SF_vars(Tick) /\ SF_vars(Settled)

\* the resolver completes its answers or closes
Answered == \E f \in Families : DnsRead(f) /\ ~dns'[f].open

AnsweringSpec ==
  /\ Spec /\ Scheduled
  /\ SF_vars(\E f \in Families : Deliver(f)) /\ SF_vars(Answered)
-----------------------------------------------------------------------------
(* Properties.                                                             *)

TypeOK ==
  /\ st \in {"REQUEST", "GENERATE_DNS_QUERY", "RESPONSE_DNS", "DNS_CONNECT",
             "REQUEST_SUCCESSFUL", "REQUEST_ERROR", "FINISH", "FORWARDING", "GONE"}
  /\ client \in Fd
  /\ dns \in [Families -> [fd : Fd \cup {-1}, open : BOOLEAN,
                           buf : {"none", "query", "rest", "idle"},
                           connected : BOOLEAN, left : 0 .. MaxAddr]]
  /\ srv \in [fd : Fd \cup {0, -1}, open : BOOLEAN]
  /\ table \in [Fd -> [owner : Ours \cup {"free", "foreign"},
                       ops : SUBSET {"READ", "WRITE"},
                       link : {"none", "connecting", "up", "full", "data", "failed"}]]
  /\ ready \in [Fd -> SUBSET {"READ", "WRITE"}]
  /\ input \in BOOLEAN /\ idle \in BOOLEAN
  /\ output \in Seq({"reply", "data"}) /\ seen \in Seq({"reply", "data"})

\* The connections a session believes open are exactly the descriptors it
\* holds: none is leaked, closed twice or shared, although numbers are reused
\* and the container keeps those of closed connections.  From DNS_CONNECT on
\* those are the client and the server: no resolver connection is left, whose
\* events would use the container that dns_connect_on_write frees.
DescriptorsOwned ==
  /\ \A fd \in Fd :
       /\ table[fd].owner = "client" <=> (st # "GONE" /\ fd = client)
       /\ \A f \in Families : table[fd].owner = f <=> (dns[f].open /\ dns[f].fd = fd)
       /\ table[fd].owner = "server" <=> (srv.open /\ srv.fd = fd)
  /\ st \in {"DNS_CONNECT", "REQUEST_SUCCESSFUL", "FORWARDING"} =>
       srv.open /\ \A f \in Families : ~dns[f].open

\* No handler of the session touches a descriptor of another session.
OthersUntouched ==
  [][\A fd \in Fd : table[fd].owner = "foreign" =>
        table'[fd] = table[fd] \/ ForeignClose]_vars

\* Giving up in DNS_CONNECT means that no address of either list is untried.
AllTried ==
  [][st = "DNS_CONNECT" /\ st' = "REQUEST_ERROR" =>
        \A f \in Families : dns'[f].left = 0]_vars

\* A session is let into FORWARDING only with a reply sent before, and one.
RepliesIn(text) == {i \in 1 .. Len(text) : text[i] = "reply"}
OneReply == st = "FORWARDING" => Cardinality(RepliesIn(seen)) = 1

\* Under AnsweringSpec a resolution ends: the session forwards or is closed.
ResolutionEnds == <>(st \in {"FORWARDING", "GONE"})

\* request.c: if one of the two connections was obtained, it is to be used for
\* the query.  A failed one leaves the other muted, with nothing watched.
StillAsking ==
  st = "GENERATE_DNS_QUERY" =>
    \E f \in Families : dns[f].open /\ "WRITE" \in table[dns[f].fd].ops
=============================================================================
