----------------------------- MODULE DnsProofs ------------------------------
(***************************************************************************)
(* The descriptors of a resolution, for any number of descriptors, any     *)
(* lists of addresses and any other sessions: they are owned once, other   *)
(* sessions' are left alone, no address is given up untried, and whoever   *)
(* is let through was sent one reply.  Behind them, the answer that such   *)
(* a resolution waits for, for any answer cut anywhere: what is read is    *)
(* what it says.                                                           *)
(***************************************************************************)
EXTENDS DnsResolution, DohAnswer, ByteLemmas, FiniteSetTheorems, TLAPS

Header == [fd : Fd \cup {-1}, open : BOOLEAN, buf : {"none", "query", "rest", "idle"},
           connected : BOOLEAN, left : 0 .. MaxAddr]
Container == [Families -> Header]
Server == [fd : Fd \cup {0, -1}, open : BOOLEAN]
Entry == [owner : Ours \cup {"free", "foreign"}, ops : SUBSET {"READ", "WRITE"},
          link : {"none", "connecting", "up", "full", "data", "failed"}]
Table == [Fd -> Entry]
Text == Seq({"reply", "data"})

\* Whoever the session believes to have a descriptor has it.  A number that a
\* header keeps is never the other's, so Me tells the two connections apart.
Own(alive, d, s, t) ==
  /\ \A fd \in Fd :
       /\ t[fd].owner = "client" <=> (alive /\ fd = client)
       /\ \A f \in Families : t[fd].owner = f <=> (d[f].open /\ d[f].fd = fd)
       /\ t[fd].owner = "server" <=> (s.open /\ s.fd = fd)
  /\ \A f \in Families : d[f].open => d[f].fd \in Fd
  /\ s.open => s.fd \in Fd
  /\ d["ipv4"].fd = d["ipv6"].fd => d["ipv4"].fd = -1

BothClosed(d) == \A f \in Families : ~d[f].open

\* What is open, and what is watched, in each state of the machine.
Asks(x, d, s, t) ==
  /\ x = "REQUEST" => d = NoContainer /\ ~s.open
  /\ x = "GENERATE_DNS_QUERY" =>
       /\ ~s.open
       /\ \A f \in Families : d[f].connected => d[f].open /\ t[d[f].fd].ops = {}
  /\ x = "RESPONSE_DNS" =>
       /\ \A f \in Families : d[f].connected => ~d[f].open /\ s.open
       /\ s.open => \E f \in Families : d[f].connected
  /\ x \in {"DNS_CONNECT", "REQUEST_SUCCESSFUL", "FORWARDING"} => s.open /\ BothClosed(d)
ClientMuted(x, t) ==
  /\ x # "REQUEST" => "READ" \notin t[client].ops
  /\ x \in {"GENERATE_DNS_QUERY", "RESPONSE_DNS", "DNS_CONNECT"} => t[client].ops = {}
AnswersAwaited(x, d, t) ==
  x \in {"GENERATE_DNS_QUERY", "REQUEST_ERROR", "FINISH"} =>
    \A f \in Families : d[f].open => "READ" \notin t[d[f].fd].ops
Phase(x, d, s, t) == Asks(x, d, s, t) /\ ClientMuted(x, t) /\ AnswersAwaited(x, d, t)

IInv == TypeOK /\ Own(st # "GONE", dns, srv, table) /\ Phase(st, dns, srv, table)
-----------------------------------------------------------------------------
(* What the operations on the table do to it.                              *)

\* The owners of two tables are the same, so the same is owned.
LEMMA OwnersAgree ==
  ASSUME NEW a \in BOOLEAN, NEW d, NEW s, NEW t, NEW u, Own(a, d, s, t),
         \A fd \in Fd : u[fd].owner = t[fd].owner
  PROVE  Own(a, d, s, u)
BY DEF Own

LEMMA WatchFacts ==
  ASSUME NEW t \in Table, NEW fd, NEW ops \in SUBSET {"READ", "WRITE"}
  PROVE  /\ Watch(t, fd, ops) \in Table
         /\ \A g \in Fd : /\ Watch(t, fd, ops)[g].owner = t[g].owner
                          /\ Watch(t, fd, ops)[g].link = t[g].link
                          /\ g # fd => Watch(t, fd, ops)[g] = t[g]
         /\ fd \in Fd /\ t[fd].owner # "free" => Watch(t, fd, ops)[fd].ops = ops
         /\ fd \in Fd /\ t[fd].owner = "free" => Watch(t, fd, ops) = t
<1>1. CASE fd \notin Fd \/ t[fd].owner = "free"  BY <1>1 DEF Watch
<1>2. CASE fd \in Fd /\ t[fd].owner # "free"
  <2>1. Watch(t, fd, ops) = [t EXCEPT ![fd].ops = ops]  BY <1>2 DEF Watch
  <2>2. [t EXCEPT ![fd].ops = ops] = [t EXCEPT ![fd] = [t[fd] EXCEPT !.ops = ops]]
    BY <1>2 DEF Table
  <2>3. t[fd] \in Entry /\ [t[fd] EXCEPT !.ops = ops] \in Entry
    BY <1>2 DEF Table, Entry
  <2> QED  BY <1>2, <2>1, <2>2, <2>3 DEF Table, Entry
<1> QED  BY <1>1, <1>2

LEMMA FreeEntry == Free \in Entry /\ Free.owner = "free" /\ Free.ops = {}
BY DEF Free, Entry

LEMMA LowestFree ==
  ASSUME NEW t \in Table, NEW g \in Fd, t[g].owner = "free"
  PROVE  Lowest(t) \in Fd /\ t[Lowest(t)].owner = "free"
<1> DEFINE S == {fd \in Fd : t[fd].owner = "free"}
<1>1. S \in SUBSET Nat /\ S # {}  BY DnsAssumption
<1>2. PICK fd \in S : \A n \in S : fd <= n  BY <1>1, LeastExists
<1>3. \E n \in Fd : t[n].owner = "free" /\ \A m \in Fd : t[m].owner = "free" => n <= m
  BY <1>2
<1> QED  BY <1>3 DEF Lowest

LEMMA ConnectingFacts ==
  ASSUME NEW t \in Table, NEW g \in Fd, t[g].owner = "free",
         NEW owner \in Ours
  PROVE  /\ Connecting(t, owner) \in Table
         /\ Lowest(t) \in Fd /\ t[Lowest(t)].owner = "free"
         /\ Connecting(t, owner)[Lowest(t)].owner = owner
         /\ Connecting(t, owner)[Lowest(t)].ops = {"WRITE"}
         /\ \A n \in Fd \ {Lowest(t)} : Connecting(t, owner)[n] = t[n]
<1>1. Lowest(t) \in Fd /\ t[Lowest(t)].owner = "free"  BY LowestFree
<1>2. [owner |-> owner, ops |-> {"WRITE"}, link |-> "connecting"] \in Entry
  BY DEF Entry
<1> QED  BY <1>1, <1>2 DEF Connecting, Table
-----------------------------------------------------------------------------
(* What the handlers do with the descriptors of the session.               *)

\* A resolver connection is closed.
LEMMA HeaderClosed ==
  ASSUME NEW d \in Container, NEW s \in Server, NEW t \in Table, Own(TRUE, d, s, t),
         NEW f \in Families, d[f].open, NEW e \in Container,
         ~e[f].open, e[f].fd = d[f].fd, e[Other(f)].open = d[Other(f)].open,
         e[Other(f)].fd = d[Other(f)].fd
  PROVE  /\ Closed(t, d[f].fd) \in Table /\ Own(TRUE, e, s, Closed(t, d[f].fd))
         /\ Closed(t, d[f].fd)[d[f].fd] = Free
         /\ \A fd \in Fd \ {d[f].fd} : Closed(t, d[f].fd)[fd] = t[fd]
<1>1. d[f].fd \in Fd  BY DEF Own
<1>2. /\ Closed(t, d[f].fd) \in Table /\ Closed(t, d[f].fd)[d[f].fd] = Free
      /\ \A fd \in Fd \ {d[f].fd} : Closed(t, d[f].fd)[fd] = t[fd]
  BY <1>1, FreeEntry DEF Closed, Table
<1>3. t[d[f].fd].owner = f  BY <1>1 DEF Own
<1>4. Families = {f, Other(f)} /\ f # Other(f)  BY DEF Families, Other
<1>5. ASSUME NEW fd \in Fd
      PROVE  LET u == Closed(t, d[f].fd) IN
             /\ u[fd].owner = "client" <=> (TRUE /\ fd = client)
             /\ \A h \in Families : u[fd].owner = h <=> (e[h].open /\ e[h].fd = fd)
             /\ u[fd].owner = "server" <=> (s.open /\ s.fd = fd)
  <2>1. CASE fd = d[f].fd
    BY <1>1, <1>2, <1>3, <1>4, <2>1, FreeEntry DEF Own, Families
  <2>2. CASE fd # d[f].fd  BY <1>2, <1>4, <2>2 DEF Own
  <2> QED  BY <2>1, <2>2
<1>6. \A h \in Families : e[h].open => e[h].fd \in Fd  BY <1>1, <1>4 DEF Own
<1>7. e["ipv4"].fd = e["ipv6"].fd => e["ipv4"].fd = -1
  BY <1>4 DEF Own, Families
<1> QED  BY <1>2, <1>5, <1>6, <1>7 DEF Own

\* The server's connection is closed.
LEMMA ServerClosed ==
  ASSUME NEW d, NEW s \in Server, NEW t \in Table, Own(TRUE, d, s, t), s.open,
         NEW r \in Server, ~r.open
  PROVE  /\ Closed(t, s.fd) \in Table /\ Own(TRUE, d, r, Closed(t, s.fd))
         /\ s.fd \in Fd /\ Closed(t, s.fd)[s.fd] = Free
         /\ \A fd \in Fd \ {s.fd} : Closed(t, s.fd)[fd] = t[fd]
<1>1. s.fd \in Fd /\ t[s.fd].owner = "server"  BY DEF Own
<1>2. /\ Closed(t, s.fd) \in Table /\ Closed(t, s.fd)[s.fd] = Free
      /\ \A fd \in Fd \ {s.fd} : Closed(t, s.fd)[fd] = t[fd]
  BY <1>1, FreeEntry DEF Closed, Table
<1>3. \A fd \in Fd : fd = s.fd \/ Closed(t, s.fd)[fd] = t[fd]  BY <1>2
<1> QED  BY <1>1, <1>2, <1>3, FreeEntry DEF Own, Families

\* A connection with the server is begun.
LEMMA ServerOpened ==
  ASSUME NEW d, NEW s, NEW t \in Table, Own(TRUE, d, s, t), ~s.open,
         NEW g \in Fd, t[g].owner = "free"
  PROVE  LET r == [fd |-> Lowest(t), open |-> TRUE]
             u == Connecting(t, "server")
         IN  /\ r \in Server /\ u \in Table /\ Own(TRUE, d, r, u)
             /\ \A fd \in Fd : t[fd].owner # "free" => u[fd] = t[fd]
<1> DEFINE r == [fd |-> Lowest(t), open |-> TRUE]
           u == Connecting(t, "server")
<1>1. /\ u \in Table /\ Lowest(t) \in Fd /\ t[Lowest(t)].owner = "free"
      /\ u[Lowest(t)].owner = "server"
      /\ \A n \in Fd \ {Lowest(t)} : u[n] = t[n]
  BY ConnectingFacts DEF Ours
<1>2. r \in Server  BY <1>1 DEF Server
<1>3. r.open /\ r.fd = Lowest(t)  OBVIOUS
<1> HIDE DEF r, u
<1>4. ASSUME NEW fd \in Fd
      PROVE  /\ u[fd].owner = "client" <=> (TRUE /\ fd = client)
             /\ \A h \in Families : u[fd].owner = h <=> (d[h].open /\ d[h].fd = fd)
             /\ u[fd].owner = "server" <=> (r.open /\ r.fd = fd)
  <2>1. CASE fd = Lowest(t)  BY <1>1, <1>3, <2>1 DEF Own, Families
  <2>2. CASE fd # Lowest(t)  BY <1>1, <1>3, <2>2 DEF Own
  <2> QED  BY <2>1, <2>2
<1>5. Own(TRUE, d, r, u)  BY <1>1, <1>3, <1>4 DEF Own
<1>6. \A fd \in Fd : t[fd].owner # "free" => u[fd] = t[fd]  BY <1>1
<1> QED  BY <1>1, <1>2, <1>5, <1>6 DEF r, u
-----------------------------------------------------------------------------
(* What jump() does.                                                       *)

States == {"REQUEST", "GENERATE_DNS_QUERY", "RESPONSE_DNS", "DNS_CONNECT",
           "REQUEST_SUCCESSFUL", "REQUEST_ERROR", "FINISH", "FORWARDING", "GONE"}

\* Other sessions' descriptors are as they were.
Kept(t) == \A fd \in Fd : table[fd].owner = "foreign" => t[fd] = table[fd]

\* What a handler has to leave behind.
Left(d, s, t) ==
  d \in Container /\ s \in Server /\ t \in Table /\ Own(TRUE, d, s, t) /\ Kept(t)
Reached ==
  /\ st' \in States /\ dns' \in Container /\ srv' \in Server /\ table' \in Table
  /\ output' \in Text
  /\ Own(st' # "GONE", dns', srv', table') /\ Phase(st', dns', srv', table')
  /\ Kept(table')

\* What a state needs when it is jumped to.
Ready(x, d, s, t) ==
  /\ x = "GENERATE_DNS_QUERY" => ~s.open /\ \A f \in Families : ~d[f].connected
  /\ x = "RESPONSE_DNS" =>
       /\ ~s.open /\ t[client].ops = {}
       /\ \A f \in Families : ~d[f].open => ~d[f].connected
  /\ x \in {"DNS_CONNECT", "REQUEST_SUCCESSFUL", "FORWARDING"} => s.open /\ BothClosed(d)
  /\ x \in {"FINISH", "FORWARDING"} => "READ" \notin t[client].ops
  /\ x \in {"REQUEST_ERROR", "FINISH"} =>
       \A f \in Families : d[f].open => "READ" \notin t[d[f].fd].ops

LEMMA AskingFacts ==
  ASSUME NEW d \in Container, NEW s, NEW t \in Table, Own(TRUE, d, s, t),
         NEW f \in Families
  PROVE  /\ Asking(t, d, f) \in Table
         /\ \A g \in Fd : Asking(t, d, f)[g].owner = t[g].owner
         /\ \A g \in Fd : t[g].owner # f => Asking(t, d, f)[g] = t[g]
         /\ d[f].open => Asking(t, d, f)[d[f].fd].ops = {"WRITE"}
<1>1. CASE ~d[f].open  BY <1>1 DEF Asking
<1>2. CASE d[f].open
  <2>1. d[f].fd \in Fd /\ t[d[f].fd].owner = f  BY <1>2 DEF Own
  <2>2. f # "free"  BY DEF Families
  <2>3. Asking(t, d, f) = Watch(t, d[f].fd, {"WRITE"})  BY <1>2 DEF Asking
  <2> QED  BY <2>1, <2>2, <2>3, WatchFacts
<1> QED  BY <1>1, <1>2

LEMMA BothAsked ==
  ASSUME NEW d \in Container, NEW s, NEW t \in Table, Own(TRUE, d, s, t)
  PROVE  LET u == Asking(Asking(t, d, "ipv4"), d, "ipv6")
         IN  /\ u \in Table /\ \A g \in Fd : u[g].owner = t[g].owner
             /\ \A g \in Fd : t[g].owner \notin Families => u[g] = t[g]
             /\ \A f \in Families : d[f].open => u[d[f].fd].ops = {"WRITE"}
<1> DEFINE v == Asking(t, d, "ipv4")
           u == Asking(v, d, "ipv6")
<1>1. /\ v \in Table /\ \A g \in Fd : v[g].owner = t[g].owner
      /\ \A g \in Fd : t[g].owner # "ipv4" => v[g] = t[g]
      /\ d["ipv4"].open => v[d["ipv4"].fd].ops = {"WRITE"}
  BY ZenonT(40), AskingFacts DEF Families
<1>2. Own(TRUE, d, s, v)
  <2> HIDE DEF v
  <2> QED  BY <1>1, OwnersAgree
<1>3. /\ u \in Table /\ \A g \in Fd : u[g].owner = v[g].owner
      /\ \A g \in Fd : v[g].owner # "ipv6" => u[g] = v[g]
      /\ d["ipv6"].open => u[d["ipv6"].fd].ops = {"WRITE"}
  <2> HIDE DEF v
  <2>1. v \in Table /\ Own(TRUE, d, s, v) /\ "ipv6" \in Families  BY <1>1, <1>2 DEF Families
  <2> QED  BY ZenonT(90), <2>1, AskingFacts
<1> HIDE DEF u, v
<1>4. d["ipv4"].open => u[d["ipv4"].fd].ops = {"WRITE"}
  <2> SUFFICES ASSUME d["ipv4"].open  PROVE u[d["ipv4"].fd].ops = {"WRITE"}
    OBVIOUS
  <2>1. d["ipv4"].fd \in Fd /\ t[d["ipv4"].fd].owner = "ipv4"  BY DEF Own, Families
  <2> QED  BY <1>1, <1>3, <2>1
<1>5. u \in Table /\ \A g \in Fd : u[g].owner = t[g].owner  BY <1>1, <1>3
<1>6. \A g \in Fd : t[g].owner \notin Families => u[g] = t[g]
  BY <1>1, <1>3 DEF Families
<1>7. \A f \in Families : d[f].open => u[d[f].fd].ops = {"WRITE"}
  BY <1>3, <1>4 DEF Families
<1> QED  BY <1>5, <1>6, <1>7 DEF u, v

\* The arrivals watch descriptors of the session only.
LEMMA ArrivedFacts ==
  ASSUME client \in Fd, NEW d \in Container, NEW s \in Server, NEW t \in Table,
         Own(TRUE, d, s, t), NEW next \in States, Ready(next, d, s, t)
  PROVE  LET u == Arrived(next, d, s, t)
         IN  /\ u \in Table /\ \A g \in Fd : u[g].owner = t[g].owner
             /\ \A g \in Fd : t[g].owner = "foreign" => u[g] = t[g]
             /\ next \in {"GENERATE_DNS_QUERY", "RESPONSE_DNS", "DNS_CONNECT"} =>
                  u[client].ops = {}
             /\ next \notin {"REQUEST", "GONE"} => "READ" \notin u[client].ops
             /\ next \in {"GENERATE_DNS_QUERY", "REQUEST_ERROR", "FINISH"} =>
                  \A f \in Families : d[f].open => "READ" \notin u[d[f].fd].ops
<1> DEFINE a == Asking(Asking(t, d, "ipv4"), d, "ipv6")
           u == Arrived(next, d, s, t)
<1>1. t[client].owner = "client"  BY DEF Own
<1>2. /\ a \in Table /\ \A g \in Fd : a[g].owner = t[g].owner
      /\ \A g \in Fd : t[g].owner \notin Families => a[g] = t[g]
      /\ \A f \in Families : d[f].open => a[d[f].fd].ops = {"WRITE"}
  BY BothAsked
<1>3. \A f \in Families : d[f].open => d[f].fd \in Fd /\ d[f].fd # client
  BY <1>1 DEF Own, Families
<1> HIDE DEF a
<1>4. CASE next = "GENERATE_DNS_QUERY"
  <2>1. u = Watch(a, client, {})  BY <1>4 DEF Arrived, a
  <2>2. /\ u \in Table /\ \A g \in Fd : u[g].owner = a[g].owner /\ (g # client => u[g] = a[g])
        /\ u[client].ops = {}
    BY <1>1, <1>2, <2>1, WatchFacts
  <2>3. \A g \in Fd : t[g].owner = "foreign" => u[g] = t[g]
    BY <1>1, <1>2, <2>2 DEF Families
  <2> HIDE DEF u
  <2>4. \A f \in Families : d[f].open => u[d[f].fd].ops = {"WRITE"}  BY <1>2, <1>3, <2>2
  <2>5. u \in Table /\ \A g \in Fd : u[g].owner = t[g].owner  BY <1>2, <2>2
  <2> QED  BY <1>4, <2>2, <2>3, <2>4, <2>5 DEF u
<1>5. CASE next = "RESPONSE_DNS"
  <2>1. u = a  BY <1>5 DEF Arrived, a
  <2>2. u[client] = t[client] /\ t[client].ops = {}
    BY <1>1, <1>2, <1>5, <2>1 DEF Families, Ready
  <2> QED  BY <1>2, <1>5, <2>1, <2>2 DEF Families
<1>6. CASE next = "DNS_CONNECT"
  <2> DEFINE w == Watch(t, client, {})
  <2>1. /\ w \in Table /\ \A g \in Fd : w[g].owner = t[g].owner /\ (g # client => w[g] = t[g])
        /\ w[client].ops = {}
    BY <1>1, WatchFacts
  <2> HIDE DEF w
  <2>2. s.open /\ s.fd \in Fd /\ t[s.fd].owner = "server"  BY <1>6 DEF Ready, Own
  <2>3. u = Watch(w, s.fd, {"WRITE"})  BY <1>6 DEF Arrived, w
  <2>4. /\ u \in Table
        /\ \A g \in Fd : u[g].owner = w[g].owner /\ (g # s.fd => u[g] = w[g])
    BY <2>1, <2>3, WatchFacts
  <2> HIDE DEF u
  <2>5. u[client].ops = {}  BY <1>1, <2>1, <2>2, <2>4
  <2>6. \A g \in Fd : t[g].owner = "foreign" => u[g] = t[g]
    BY <1>1, <2>1, <2>2, <2>4
  <2>7. \A g \in Fd : u[g].owner = t[g].owner  BY <2>1, <2>4
  <2> QED  BY <1>6, <2>4, <2>5, <2>6, <2>7 DEF u
<1>7. CASE next = "REQUEST_SUCCESSFUL"
  <2> DEFINE w == Watch(t, client, {"WRITE"})
  <2>1. /\ w \in Table /\ \A g \in Fd : w[g].owner = t[g].owner /\ (g # client => w[g] = t[g])
        /\ w[client].ops = {"WRITE"}
    BY <1>1, WatchFacts
  <2> HIDE DEF w
  <2>2. s.open /\ s.fd \in Fd /\ t[s.fd].owner = "server"  BY <1>7 DEF Ready, Own
  <2>3. u = Watch(w, s.fd, {})  BY <1>7 DEF Arrived, w
  <2>4. /\ u \in Table
        /\ \A g \in Fd : u[g].owner = w[g].owner /\ (g # s.fd => u[g] = w[g])
    BY <2>1, <2>3, WatchFacts
  <2> HIDE DEF u
  <2>5. u[client].ops = {"WRITE"}  BY <1>1, <2>1, <2>2, <2>4
  <2>6. \A g \in Fd : t[g].owner = "foreign" => u[g] = t[g]
    BY <1>1, <2>1, <2>2, <2>4
  <2>7. \A g \in Fd : u[g].owner = t[g].owner  BY <2>1, <2>4
  <2> QED  BY <1>7, <2>4, <2>5, <2>6, <2>7 DEF u
<1>8. CASE next = "REQUEST_ERROR"
  <2>1. u = Watch(t, client, {"WRITE"})  BY <1>8 DEF Arrived
  <2>2. /\ u \in Table /\ \A g \in Fd : u[g].owner = t[g].owner /\ (g # client => u[g] = t[g])
        /\ u[client].ops = {"WRITE"}
    BY <1>1, <2>1, WatchFacts
  <2> HIDE DEF u
  <2>3. \A f \in Families : d[f].open => "READ" \notin u[d[f].fd].ops
    BY <1>3, <1>8, <2>2 DEF Ready
  <2>4. \A g \in Fd : t[g].owner = "foreign" => u[g] = t[g]  BY <1>1, <2>2
  <2> QED  BY <1>8, <2>2, <2>3, <2>4 DEF u
<1>9. CASE next \in {"REQUEST", "FINISH", "FORWARDING", "GONE"}
  <2>1. u = t  BY <1>9 DEF Arrived
  <2> QED  BY <1>9, <2>1 DEF Ready
<1> QED  BY <1>4, <1>5, <1>6, <1>7, <1>8, <1>9 DEF States

LEMMA Entered ==
  ASSUME TypeOK, NEW d, NEW s, NEW t, NEW out \in Text, NEW next \in States,
         next \notin {"REQUEST", "GONE"},
         Left(d, s, t), Ready(next, d, s, t), Enter(next, d, s, t, out)
  PROVE  Reached
<1> DEFINE u == Arrived(next, d, s, t)
           h == Headers(next, d)
<1>1. client \in Fd /\ d \in Container /\ s \in Server /\ t \in Table
      /\ Own(TRUE, d, s, t) /\ Kept(t)
  BY DEF Left, TypeOK
<1>2. /\ u \in Table /\ \A g \in Fd : u[g].owner = t[g].owner
      /\ \A g \in Fd : t[g].owner = "foreign" => u[g] = t[g]
      /\ next \in {"GENERATE_DNS_QUERY", "RESPONSE_DNS", "DNS_CONNECT"} => u[client].ops = {}
      /\ "READ" \notin u[client].ops
      /\ next \in {"GENERATE_DNS_QUERY", "REQUEST_ERROR", "FINISH"} =>
           \A f \in Families : d[f].open => "READ" \notin u[d[f].fd].ops
  <2>1. /\ u \in Table /\ \A g \in Fd : u[g].owner = t[g].owner
        /\ \A g \in Fd : t[g].owner = "foreign" => u[g] = t[g]
        /\ next \in {"GENERATE_DNS_QUERY", "RESPONSE_DNS", "DNS_CONNECT"} => u[client].ops = {}
        /\ next \notin {"REQUEST", "GONE"} => "READ" \notin u[client].ops
        /\ next \in {"GENERATE_DNS_QUERY", "REQUEST_ERROR", "FINISH"} =>
             \A f \in Families : d[f].open => "READ" \notin u[d[f].fd].ops
    BY <1>1, ArrivedFacts
  <2> HIDE DEF u
  <2> QED  BY <2>1
<1>3. st' = next /\ dns' = h /\ srv' = s /\ table' = u /\ output' = out \o Replies(next)
  BY DEF Enter
<1>4. /\ h \in Container
      /\ \A f \in Families : /\ h[f].fd = d[f].fd /\ h[f].open = d[f].open
                             /\ next = "RESPONSE_DNS" /\ d[f].open => ~h[f].connected
                             /\ next # "RESPONSE_DNS" \/ ~d[f].open =>
                                  h[f].connected = d[f].connected
  BY ZenonT(40), <1>1 DEF Headers, Container, Header
<1> HIDE DEF u, h
<1>5. Own(TRUE, d, s, u)  BY <1>1, <1>2, OwnersAgree
<1>6. Own(TRUE, h, s, u)  BY <1>4, <1>5 DEF Own, Families
<1>7. Asks(next, h, s, u)
  <2>1. CASE next = "GENERATE_DNS_QUERY"  BY <1>4, <2>1 DEF Asks, Ready
  <2>2. CASE next = "RESPONSE_DNS"  BY <1>4, <2>2 DEF Asks, Ready
  <2>3. CASE next \in {"DNS_CONNECT", "REQUEST_SUCCESSFUL", "FORWARDING"}
    BY <1>4, <2>3 DEF Asks, Ready, BothClosed
  <2>4. CASE next \in {"REQUEST_ERROR", "FINISH"}  BY <2>4 DEF Asks
  <2> QED  BY <2>1, <2>2, <2>3, <2>4 DEF States
<1>8. ClientMuted(next, u)  BY <1>2 DEF ClientMuted
<1>9. AnswersAwaited(next, h, u)  BY <1>2, <1>4 DEF AnswersAwaited
<1>10. Kept(u)  BY <1>1, <1>2 DEF Kept
<1>11. out \o Replies(next) \in Text
  <2>1. <<"reply">> \in Text /\ <<>> \in Text  BY DEF Text
  <2>2. Replies(next) \in Text  BY <2>1 DEF Replies
  <2> QED  BY <2>2 DEF Text
<1> QED  BY <1>1, <1>2, <1>3, <1>4, <1>6, <1>7, <1>8, <1>9, <1>10, <1>11
         DEF Reached, Phase

LEMMA Stayed ==
  ASSUME TypeOK, st # "GONE", NEW d, NEW s, NEW t, NEW out \in Text,
         Left(d, s, t), Phase(st, d, s, t), Stay(d, s, t, out)
  PROVE  Reached
BY DEF Stay, Left, Reached, TypeOK, States

\* Closing the session closes what it has and nothing else.
LEMMA Freed ==
  ASSUME IInv, st # "GONE", EndSession
  PROVE  Reached
<1>1. /\ st' = "GONE" /\ dns' = NoContainer /\ srv' = [srv EXCEPT !.open = FALSE]
      /\ output' = <<>>
      /\ table' = [fd \in Fd |-> IF fd \in OpenFds THEN Free ELSE table[fd]]
  BY DEF EndSession
<1>2. table \in Table /\ srv \in Server /\ dns \in Container /\ client \in Fd
      /\ Own(TRUE, dns, srv, table)
  BY DEF IInv, TypeOK, Table, Entry, Server, Container, Header
<1>3. \A fd \in Fd : fd \in OpenFds <=> table[fd].owner \in Ours
  BY <1>2 DEF OpenFds, Own, Ours, Families
<1>4. table' \in Table /\ \A fd \in Fd : table'[fd].owner \notin Ours
  BY <1>1, <1>2, <1>3, FreeEntry DEF Table, Ours, Families
<1>5. Kept(table')  BY <1>1, <1>3 DEF Kept, Ours, Families
<1>6. dns' \in Container /\ \A f \in Families : ~dns'[f].open /\ dns'[f].fd = -1
  BY <1>1, DnsAssumption DEF NoContainer, NoHeader, Container, Header
<1>7. srv' \in Server /\ ~srv'.open  BY <1>1, <1>2 DEF Server
<1>8. Own(FALSE, dns', srv', table')
  BY <1>4, <1>6, <1>7 DEF Own, Ours, Families
<1>9. table'[client].ops = {}  BY <1>1, <1>2, <1>3, FreeEntry DEF Own, Ours
<1>10. Phase(st', dns', srv', table')
  BY <1>1, <1>9 DEF Phase, Asks, ClientMuted, AnswersAwaited
<1>11. output' \in Text  BY <1>1 DEF Text
<1> QED  BY <1>1, <1>4, <1>5, <1>6, <1>7, <1>8, <1>10, <1>11 DEF Reached, States
-----------------------------------------------------------------------------
(* Events, and the handlers of the states.                                 *)

LEMMA Types ==
  ASSUME IInv
  PROVE  /\ st \in States /\ client \in Fd /\ dns \in Container /\ srv \in Server
         /\ table \in Table /\ output \in Text
         /\ st # "GONE" => Left(dns, srv, table)
BY DEF IInv, TypeOK, States, Container, Header, Server, Table, Entry, Text, Left, Kept

\* The comparison with which the handlers begin finds the right header.
LEMMA EventFacts ==
  ASSUME IInv, NEW fd \in Fd, NEW o \in Ours, NEW op, Event(fd, o, op)
  PROVE  /\ st \notin {"GONE", "FORWARDING"} /\ Left(dns, srv, table)
         /\ table[fd].owner = o /\ op \in table[fd].ops
         /\ o = "client" => fd = client
         /\ o = "server" => srv.open /\ srv.fd = fd
         /\ o \in Families => dns[o].open /\ dns[o].fd = fd /\ Me(fd) = o
<1>1. st \notin {"GONE", "FORWARDING"} /\ table[fd].owner = o /\ op \in table[fd].ops
  BY DEF Event, Turn, Running
<1>2. Left(dns, srv, table)  BY <1>1, Types
<1>3. o = "client" => fd = client  BY <1>1, <1>2 DEF Left, Own
<1>4. o = "server" => srv.open /\ srv.fd = fd  BY <1>1, <1>2 DEF Left, Own
<1>5. ASSUME o \in Families  PROVE dns[o].open /\ dns[o].fd = fd /\ Me(fd) = o
  <2>1. dns[o].open /\ dns[o].fd = fd  BY <1>1, <1>2, <1>5 DEF Left, Own
  <2>2. fd # -1  BY DnsAssumption
  <2> QED  BY <1>2, <1>5, <2>1, <2>2 DEF Left, Own, Me, Families
<1> QED  BY <1>1, <1>2, <1>3, <1>4, <1>5

LEMMA SameHeaders ==
  ASSUME NEW a \in BOOLEAN, NEW d, NEW e, NEW s, NEW t, Own(a, d, s, t),
         \A f \in Families : e[f].fd = d[f].fd /\ e[f].open = d[f].open
  PROVE  Own(a, e, s, t)
BY DEF Own, Families

LEMMA NoServer ==
  ASSUME NEW a \in BOOLEAN, NEW d, NEW s, NEW r, NEW t, Own(a, d, s, t), ~s.open, ~r.open
  PROVE  Own(a, d, r, t)
BY DEF Own

\* How a handler of the connection of family f finds things, which it may just
\* have closed.
Called(f, fd, d, t) ==
  /\ Left(d, srv, t) /\ Phase(st, d, srv, t)
  /\ Me(fd) = f /\ d[f].fd = fd
  /\ IF d[f].open THEN t[fd].owner = f ELSE t[fd] = Free
  /\ st = "GENERATE_DNS_QUERY" => ~d[f].connected

LEMMA GenerateSteps ==
  ASSUME IInv, st = "GENERATE_DNS_QUERY", NEW f \in Families, NEW fd \in Fd,
         NEW d, NEW t, NEW out \in Text, Called(f, fd, d, t),
         GenerateOnWrite(fd, d, t, out)
  PROVE  Reached
<1> DEFINE other == Other(f)
<1>1. TypeOK /\ Left(d, srv, t) /\ d \in Container /\ t \in Table /\ Own(TRUE, d, srv, t)
      /\ srv \in Server /\ Kept(t) /\ client \in Fd
  BY Types DEF IInv, Called, Left
<1>2. Me(fd) = f /\ d[f].fd = fd /\ ~d[f].connected
      /\ IF d[f].open THEN t[fd].owner = f ELSE t[fd] = Free
  BY DEF Called
<1>3. /\ ~srv.open /\ t[client].ops = {}
      /\ \A h \in Families : d[h].connected => d[h].open /\ t[d[h].fd].ops = {}
      /\ \A h \in Families : d[h].open => "READ" \notin t[d[h].fd].ops
  BY DEF Called, Phase, Asks, ClientMuted, AnswersAwaited
<1>4. Families = {f, other} /\ f # other  BY DEF Families, Other
<1>5. t[client].owner = "client" /\ client # fd
  BY <1>1, <1>2, <1>4, FreeEntry DEF Own, Families
<1>6. d[other].open => d[other].fd # fd
  BY <1>1, <1>2, <1>4, DnsAssumption DEF Own, Families
<1>7. table[fd].owner # "foreign"
  BY <1>1, <1>2, <1>4, FreeEntry DEF Kept, Free, Families
<1> HIDE DEF other
<1>8. PICK built \in BOOLEAN :
        IF ~built \/ ~d[f].open \/ t[fd].link = "failed"
        THEN IF ~d[other].open
             THEN Enter("REQUEST_ERROR", d, srv, t, out)
             ELSE Stay([DnsClosed(d, fd) EXCEPT ![f].buf = "none"], srv, Closed(t, fd), out)
        ELSE LET asked == [d EXCEPT ![f].buf = "query", ![f].connected = TRUE]
             IN  IF d[other].open /\ ~d[other].connected
                 THEN Stay(asked, srv, Watch(t, fd, {}), out)
                 ELSE Enter("RESPONSE_DNS", asked, srv, t, out)
  BY <1>2 DEF GenerateOnWrite, other
<1>9. CASE (~built \/ ~d[f].open \/ t[fd].link = "failed") /\ ~d[other].open
  <2>1. Ready("REQUEST_ERROR", d, srv, t)  BY <1>3 DEF Ready
  <2>2. Enter("REQUEST_ERROR", d, srv, t, out)  BY <1>8, <1>9
  <2> QED  BY <1>1, <2>1, <2>2, Entered DEF States
<1>10. CASE (~built \/ ~d[f].open \/ t[fd].link = "failed") /\ d[other].open
  <2> DEFINE e == [DnsClosed(d, fd) EXCEPT ![f].buf = "none"]
             u == Closed(t, fd)
  <2>1. /\ e \in Container /\ ~e[f].open /\ e[f].fd = d[f].fd /\ e[other] = d[other]
        /\ e[f].connected = d[f].connected
    BY ZenonT(60), <1>1, <1>2, <1>4 DEF DnsClosed, Container, Header
  <2> HIDE DEF e
  <2>2. u \in Table /\ Own(TRUE, e, srv, u) /\ \A g \in Fd \ {fd} : u[g] = t[g]
    <3>1. CASE d[f].open
      <4>1. /\ e \in Container /\ ~e[f].open /\ e[f].fd = d[f].fd
            /\ e[Other(f)].open = d[Other(f)].open /\ e[Other(f)].fd = d[Other(f)].fd
        BY <2>1 DEF other
      <4>2. /\ Closed(t, d[f].fd) \in Table /\ Own(TRUE, e, srv, Closed(t, d[f].fd))
            /\ \A g \in Fd \ {d[f].fd} : Closed(t, d[f].fd)[g] = t[g]
        <5>1. d \in Container /\ srv \in Server /\ t \in Table /\ Own(TRUE, d, srv, t)
          BY <1>1
        <5> QED  BY ONLY f \in Families, <5>1, <3>1, <4>1, HeaderClosed, ZenonT(60)
      <4> QED  BY <1>2, <4>2
    <3>2. CASE ~d[f].open
      <4>1. u = t  BY <1>1, <1>2, <3>2 DEF Closed, Table
      <4>2. \A h \in Families : e[h].fd = d[h].fd /\ e[h].open = d[h].open
        BY <1>1, <1>4, <2>1, <3>2 DEF Container, Header
      <4> QED  BY <1>1, <4>1, <4>2, SameHeaders
    <3> QED  BY <3>1, <3>2
  <2> HIDE DEF u
  <2>3. Kept(u)  BY <1>1, <1>7, <2>2 DEF Kept
  <2>4. d[other].open => d[other].fd \in Fd /\ u[d[other].fd] = t[d[other].fd]
    BY <1>1, <1>4, <1>6, <2>2 DEF Own
  <2>5. u[client] = t[client]  BY <1>1, <1>5, <2>2
  <2>6. Asks(st, e, srv, u)  BY <1>2, <1>3, <1>4, <2>1, <2>4 DEF Asks
  <2>7. ClientMuted(st, u)  BY <1>3, <2>5 DEF ClientMuted
  <2>8. AnswersAwaited(st, e, u)  BY <1>3, <1>4, <2>1, <2>4 DEF AnswersAwaited
  <2>9. Stay(e, srv, u, out)  BY <1>8, <1>10 DEF e, u
  <2>10. Left(e, srv, u) /\ Phase(st, e, srv, u)
    BY <1>1, <2>1, <2>2, <2>3, <2>6, <2>7, <2>8 DEF Left, Phase
  <2> QED  BY <1>1, <2>9, <2>10, Stayed
<1>11. CASE ~(~built \/ ~d[f].open \/ t[fd].link = "failed")
  <2> DEFINE e == [d EXCEPT ![f].buf = "query", ![f].connected = TRUE]
  <2>1. e \in Container /\ e[f].open = d[f].open /\ e[f].fd = d[f].fd /\ e[other] = d[other]
    BY ZenonT(60), <1>1, <1>4 DEF Container, Header
  <2>2. Own(TRUE, e, srv, t)  BY <1>1, <1>4, <2>1, SameHeaders
  <2> HIDE DEF e
  <2>3. CASE d[other].open /\ ~d[other].connected
    <3> DEFINE u == Watch(t, fd, {})
    <3>1. /\ u \in Table /\ \A g \in Fd : u[g].owner = t[g].owner /\ (g # fd => u[g] = t[g])
          /\ u[fd].ops = {}
      BY <1>1, <1>2, <1>4, <1>11, WatchFacts DEF Families
    <3> HIDE DEF u
    <3>2. Own(TRUE, e, srv, u)  BY <2>2, <3>1, OwnersAgree
    <3>3. Kept(u)  BY <1>1, <1>7, <3>1 DEF Kept
    <3>4. u[client] = t[client]  BY <1>1, <1>5, <3>1
    <3>5. d[other].fd \in Fd /\ u[d[other].fd] = t[d[other].fd]
      BY <1>1, <1>4, <1>6, <2>3, <3>1 DEF Own
    <3>6. Asks(st, e, srv, u)  BY <1>2, <1>3, <1>4, <1>11, <2>1, <2>3, <3>1 DEF Asks
    <3>7. ClientMuted(st, u)  BY <1>3, <3>4 DEF ClientMuted
    <3>8. AnswersAwaited(st, e, u)
      BY <1>2, <1>3, <1>4, <2>1, <2>3, <3>1, <3>5 DEF AnswersAwaited
    <3>9. Stay(e, srv, u, out)  BY <1>8, <1>11, <2>3 DEF e, u
    <3>10. Left(e, srv, u) /\ Phase(st, e, srv, u)
      BY <1>1, <2>1, <3>1, <3>2, <3>3, <3>6, <3>7, <3>8 DEF Left, Phase
    <3> QED  BY <1>1, <3>9, <3>10, Stayed
  <2>4. CASE ~(d[other].open /\ ~d[other].connected)
    <3>1. Ready("RESPONSE_DNS", e, srv, t)  BY <1>3, <1>4, <1>11, <2>1 DEF Ready
    <3>2. Left(e, srv, t)  BY <1>1, <2>1, <2>2 DEF Left
    <3>3. Enter("RESPONSE_DNS", e, srv, t, out)  BY <1>8, <1>11, <2>4 DEF e
    <3> QED  BY <1>1, <3>1, <3>2, <3>3, Entered DEF States
  <2> QED  BY <2>3, <2>4
<1> QED  BY <1>9, <1>10, <1>11

LEMMA ResponseSteps ==
  ASSUME IInv, st = "RESPONSE_DNS", NEW fd \in Fd, NEW d, NEW t, NEW out \in Text,
         Left(d, srv, t), Phase(st, d, srv, t),
         table[fd].owner \in Families \cup {"server"},
         ResponseOnWrite(fd, d, t, out)
  PROVE  Reached
<1> DEFINE me == Me(fd)
<1>1. TypeOK /\ d \in Container /\ t \in Table /\ Own(TRUE, d, srv, t) /\ srv \in Server
      /\ Kept(t) /\ client \in Fd
  BY Types DEF IInv, Left
<1>2. me \in Families /\ Families = {me, Other(me)}  BY DEF Me, Families, Other
<1> HIDE DEF me
<1>3. CASE ~d[me].open /\ ~d[Other(me)].open
  <2>1. Enter("REQUEST_ERROR", d, srv, t, out)  BY <1>3 DEF ResponseOnWrite, me
  <2>2. Ready("REQUEST_ERROR", d, srv, t)  BY <1>2, <1>3 DEF Ready
  <2> QED  BY <1>1, <2>1, <2>2, Entered DEF States
<1>4. CASE ~d[me].open /\ d[Other(me)].open
  <2>1. Stay(d, srv, t, out)  BY <1>4 DEF ResponseOnWrite, me
  <2> QED  BY <1>1, <2>1, Stayed
<1>5. CASE d[me].open
  <2>1. PICK u \in {t, Watch(t, fd, {"READ"})} : Stay(d, srv, u, out)
    BY <1>5 DEF ResponseOnWrite, me
  <2>2. u \in Table /\ \A g \in Fd : u[g].owner = t[g].owner /\ (g # fd => u[g] = t[g])
    <3>1. CASE u = t  BY <1>1, <3>1
    <3>2. CASE u = Watch(t, fd, {"READ"})  BY <1>1, <3>2, WatchFacts
    <3> QED  BY <3>1, <3>2
  <2>3. Own(TRUE, d, srv, u)  BY <1>1, <2>2, OwnersAgree
  <2>4. Kept(u)  BY <1>1, <2>2 DEF Kept, Families
  <2>5. fd # client
    <3>1. table[client].owner = "client"  BY <1>1 DEF IInv, Own
    <3> QED  BY <3>1 DEF Families
  <2>6. Phase(st, d, srv, u)
    BY <1>1, <2>2, <2>5 DEF Phase, Asks, ClientMuted, AnswersAwaited
  <2>7. Left(d, srv, u)  BY <1>1, <2>2, <2>3, <2>4 DEF Left
  <2> QED  BY <1>1, <2>1, <2>6, <2>7, Stayed
<1> QED  BY <1>3, <1>4, <1>5

LEMMA GiveWaySteps ==
  ASSUME IInv, st = "RESPONSE_DNS", NEW f \in Families, NEW d, NEW t, NEW out \in Text,
         Left(d, srv, t), Phase(st, d, srv, t), ~d[f].open, GiveWay(f, d, t, out)
  PROVE  Reached
<1>1. TypeOK /\ d \in Container /\ Own(TRUE, d, srv, t)  BY DEF IInv, Left
<1>2. Families = {f, Other(f)} /\ f # Other(f)  BY DEF Families, Other
<1>3. CASE d[Other(f)].connected
  <2>1. Enter("DNS_CONNECT", d, srv, t, out)  BY <1>3 DEF GiveWay
  <2>2. srv.open /\ BothClosed(d)  BY <1>2, <1>3 DEF Phase, Asks, BothClosed
  <2>3. Ready("DNS_CONNECT", d, srv, t)  BY <2>2 DEF Ready
  <2> QED  BY <1>1, <2>1, <2>3, Entered DEF States
<1>4. CASE ~d[Other(f)].connected /\ ~d[Other(f)].open
  <2>1. Enter("REQUEST_ERROR", d, srv, t, out)  BY <1>4 DEF GiveWay
  <2>2. Ready("REQUEST_ERROR", d, srv, t)  BY <1>2, <1>4 DEF Ready
  <2> QED  BY <1>1, <2>1, <2>2, Entered DEF States
<1>5. CASE ~d[Other(f)].connected /\ d[Other(f)].open
  <2> DEFINE e == [d EXCEPT ![f].buf = "none", ![f].left = 0]
  <2>1. Stay(e, srv, t, out)  BY <1>5 DEF GiveWay
  <2>2. /\ e \in Container
        /\ \A h \in Families : /\ e[h].fd = d[h].fd /\ e[h].open = d[h].open
                               /\ e[h].connected = d[h].connected
    <3>1. 0 \in 0 .. MaxAddr  BY DnsAssumption
    <3> QED  BY ZenonT(40), <1>1, <3>1 DEF Container, Header
  <2> HIDE DEF e
  <2>3. Own(TRUE, e, srv, t)  BY <1>1, <2>2, SameHeaders
  <2>4. Phase(st, e, srv, t)
    BY <2>2 DEF Phase, Asks, ClientMuted, AnswersAwaited
  <2>5. Left(e, srv, t)  BY <2>2, <2>3 DEF Left
  <2> QED  BY <1>1, <2>1, <2>4, <2>5, Stayed
<1> QED  BY <1>3, <1>4, <1>5

LEMMA HeaderSet ==
  ASSUME NEW d \in Container, NEW f \in Families, NEW h \in Header
  PROVE  LET e == [d EXCEPT ![f] = h]
         IN  e \in Container /\ e[f] = h /\ e[Other(f)] = d[Other(f)]
<1>1. Other(f) \in Families /\ Other(f) # f  BY DEF Other, Families
<1> QED  BY <1>1 DEF Container

LEMMA HeaderShut ==
  ASSUME NEW d \in Container, NEW f \in Families, NEW fd, Me(fd) = f
  PROVE  LET e == DnsClosed(d, fd)
         IN  /\ e \in Container /\ ~e[f].open /\ e[f].fd = d[f].fd
             /\ e[f].connected = d[f].connected /\ e[Other(f)] = d[Other(f)]
<1> DEFINE h == [d[f] EXCEPT !.open = FALSE]
<1>1. d[f] \in Header  BY DEF Container
<1>2. h \in Header /\ ~h.open /\ h.fd = d[f].fd /\ h.connected = d[f].connected
  BY <1>1 DEF Header
<1>3. DnsClosed(d, fd) = [d EXCEPT ![f] = h]  BY DEF DnsClosed
<1> DEFINE e == DnsClosed(d, fd)
<1> HIDE DEF h, e
<1>4. e \in Container /\ e[f] = h /\ e[Other(f)] = d[Other(f)]
  <2>1. h \in Header  BY <1>2
  <2>2. /\ [d EXCEPT ![f] = h] \in Container /\ [d EXCEPT ![f] = h][f] = h
        /\ [d EXCEPT ![f] = h][Other(f)] = d[Other(f)]
    BY <2>1, HeaderSet
  <2> QED  BY <1>3, <2>2 DEF e
<1>5. /\ e \in Container /\ ~e[f].open /\ e[f].fd = d[f].fd
      /\ e[f].connected = d[f].connected /\ e[Other(f)] = d[Other(f)]
  BY <1>2, <1>4
<1> QED  BY <1>5 DEF e

\* Only an answer closes a resolver connection in RESPONSE_DNS, whatever list
\* and buffer it leaves; the rest of the table is as it was.
LEMMA ConnectionClosed ==
  ASSUME IInv, NEW f \in Families, NEW fd \in Fd, NEW op, Event(fd, f, op),
         st # "GENERATE_DNS_QUERY" \/ ~dns[f].connected,
         NEW e \in Container, ~e[f].open, e[f].fd = dns[f].fd,
         e[f].connected = dns[f].connected, e[Other(f)] = dns[Other(f)]
  PROVE  /\ Left(e, srv, Closed(table, fd)) /\ Phase(st, e, srv, Closed(table, fd))
         /\ Closed(table, fd)[fd] = Free
         /\ \A g \in Fd \ {fd} : Closed(table, fd)[g] = table[g]
<1> DEFINE u == Closed(table, fd)
<1>1. /\ dns \in Container /\ srv \in Server /\ table \in Table /\ client \in Fd
      /\ Own(TRUE, dns, srv, table)
      /\ st \notin {"GONE", "FORWARDING"} /\ table[fd].owner = f
      /\ dns[f].open /\ dns[f].fd = fd
  BY EventFacts, Types DEF Left, Ours
<1>2. Phase(st, dns, srv, table)  BY DEF IInv
<1>3. /\ u \in Table /\ Own(TRUE, e, srv, u) /\ u[fd] = Free
      /\ \A g \in Fd \ {fd} : u[g] = table[g]
  <2>1. e[Other(f)].open = dns[Other(f)].open /\ e[Other(f)].fd = dns[Other(f)].fd
    OBVIOUS
  <2>2. /\ Closed(table, dns[f].fd) \in Table /\ Own(TRUE, e, srv, Closed(table, dns[f].fd))
        /\ Closed(table, dns[f].fd)[dns[f].fd] = Free
        /\ \A g \in Fd \ {dns[f].fd} : Closed(table, dns[f].fd)[g] = table[g]
    BY ZenonT(30), <1>1, <2>1, HeaderClosed
  <2> QED  BY <1>1, <2>2
<1> HIDE DEF u
<1>4. Kept(u)  BY <1>1, <1>3 DEF Kept, Families
<1>5. Families = {f, Other(f)} /\ f # Other(f)  BY DEF Families, Other
<1>6. u[client] = table[client]  BY <1>1, <1>3 DEF Own, Families
<1>7. dns[Other(f)].open => dns[Other(f)].fd \in Fd /\ u[dns[Other(f)].fd] = table[dns[Other(f)].fd]
  BY <1>1, <1>3, <1>5 DEF Own
<1>8. Asks(st, e, srv, u)
  <2>1. CASE st = "REQUEST"  BY <1>1, <1>2, <2>1 DEF Phase, Asks, NoContainer, NoHeader
  <2>2. CASE st = "GENERATE_DNS_QUERY"  BY <1>2, <1>5, <1>7, <2>2 DEF Phase, Asks
  <2>3. CASE st = "RESPONSE_DNS"  BY <1>2, <1>5, <2>3 DEF Phase, Asks
  <2>4. CASE st \in {"DNS_CONNECT", "REQUEST_SUCCESSFUL", "FORWARDING"}
    BY <1>1, <1>2, <2>4 DEF Phase, Asks, BothClosed
  <2>5. CASE st \in {"REQUEST_ERROR", "FINISH", "GONE"}  BY <2>5 DEF Asks
  <2> QED  BY <2>1, <2>2, <2>3, <2>4, <2>5, Types DEF States
<1>9. ClientMuted(st, u)  BY <1>2, <1>6 DEF Phase, ClientMuted
<1>10. AnswersAwaited(st, e, u)  BY <1>2, <1>5, <1>7 DEF Phase, AnswersAwaited
<1> QED  BY <1>1, <1>3, <1>4, <1>8, <1>9, <1>10 DEF Left, Phase, u

LEMMA GoodAnswerSteps ==
  ASSUME IInv, NEW f \in Families, NEW fd \in Fd, Event(fd, f, "READ"),
         st = "RESPONSE_DNS", GoodAnswer(fd)
  PROVE  Reached
<1> DEFINE done == [DnsClosed(dns, fd) EXCEPT ![f].buf = "none"]
           t == Closed(table, fd)
           other == Other(f)
<1>1. /\ TypeOK /\ dns \in Container /\ srv \in Server /\ table \in Table /\ client \in Fd
      /\ output \in Text /\ Own(TRUE, dns, srv, table) /\ Me(fd) = f
      /\ table[fd].owner = f /\ dns[f].open /\ dns[f].fd = fd
  BY ZenonT(40), EventFacts, Types DEF Left, Ours, IInv
<1>2. /\ \A h \in Families : dns[h].connected => ~dns[h].open /\ srv.open
      /\ srv.open => \E h \in Families : dns[h].connected
      /\ table[client].ops = {}
  BY DEF IInv, Phase, Asks, ClientMuted
<1>3. Families = {f, other} /\ f # other  BY DEF Families, Other
<1>4. /\ done \in Container /\ ~done[f].open /\ done[f].fd = dns[f].fd
      /\ ~done[f].connected /\ ~dns[f].connected /\ done[other] = dns[other]
  <2>1. ~dns[f].connected  BY <1>1, <1>2
  <2> DEFINE e == DnsClosed(dns, fd)
  <2>2. /\ e \in Container /\ ~e[f].open /\ e[f].fd = dns[f].fd
        /\ e[f].connected = dns[f].connected /\ e[Other(f)] = dns[Other(f)]
    BY <1>1, HeaderShut
  <2> HIDE DEF e
  <2> DEFINE h == [e[f] EXCEPT !.buf = "none"]
  <2>3. e[f] \in Header  BY <2>2 DEF Container
  <2>4. h \in Header /\ ~h.open /\ h.fd = dns[f].fd /\ h.connected = dns[f].connected
    BY <2>2, <2>3 DEF Header
  <2>5. done = [e EXCEPT ![f] = h]  BY DEF e
  <2> HIDE DEF h, done
  <2>6. done \in Container /\ done[f] = h /\ done[other] = dns[other]
    BY ZenonT(40), <2>2, <2>4, <2>5, HeaderSet
  <2> QED  BY <2>1, <2>4, <2>6
<1>5. PICK n \in 1 .. MaxAddr :
        IF dns[other].connected
        THEN Enter("DNS_CONNECT", [done EXCEPT ![f].left = n], srv, t, output)
        ELSE \/ \E k \in 1 .. n :
                  LET d  == [done EXCEPT ![f].left = n - k, ![f].connected = TRUE]
                      s  == [fd |-> Lowest(t), open |-> TRUE]
                      tt == Watch(Connecting(t, "server"), fd, {})
                  IN  IF d[other].open THEN Stay(d, s, tt, output)
                                       ELSE Enter("DNS_CONNECT", d, s, tt, output)
             \/ IF ~dns[other].open
                THEN Enter("REQUEST_ERROR", done, NoSocket, t, output)
                ELSE Stay(done, NoSocket, t, output)
  BY ZenonT(40), <1>1 DEF GoodAnswer
<1> HIDE DEF done, t
<1>6. /\ Left(done, srv, t) /\ Phase(st, done, srv, t) /\ t[fd] = Free
      /\ \A g \in Fd \ {fd} : t[g] = table[g]
  <2>1. done[f].connected = dns[f].connected  BY <1>1, <1>4 DEF Container, Header
  <2> QED  BY <1>4, <2>1, ConnectionClosed DEF t, other
<1>7. n \in 0 .. MaxAddr /\ \A k \in 1 .. n : n - k \in 0 .. MaxAddr  BY DnsAssumption
<1>8. CASE dns[other].connected
  <2> DEFINE d == [done EXCEPT ![f].left = n]
  <2>1. d \in Container /\ \A h \in Families : d[h].open = done[h].open /\ d[h].fd = done[h].fd
    BY <1>4, <1>7 DEF Container, Header
  <2>2. Enter("DNS_CONNECT", d, srv, t, output)  BY <1>5, <1>8
  <2> HIDE DEF d
  <2>3. srv.open /\ BothClosed(d)  BY <1>2, <1>3, <1>4, <1>8, <2>1 DEF BothClosed
  <2>4. Left(d, srv, t)  BY <1>6, <2>1, SameHeaders DEF Left
  <2>5. Ready("DNS_CONNECT", d, srv, t)  BY <2>3 DEF Ready
  <2> QED  BY <1>1, <2>2, <2>4, <2>5, Entered DEF States
<1>9. ~dns[other].connected => ~srv.open  BY <1>2, <1>3, <1>4
<1>10. ASSUME ~dns[other].connected, NEW k \in 1 .. n,
              LET d  == [done EXCEPT ![f].left = n - k, ![f].connected = TRUE]
                  s  == [fd |-> Lowest(t), open |-> TRUE]
                  tt == Watch(Connecting(t, "server"), fd, {})
              IN  IF d[other].open THEN Stay(d, s, tt, output)
                                   ELSE Enter("DNS_CONNECT", d, s, tt, output)
       PROVE  Reached
  <2> DEFINE d  == [done EXCEPT ![f].left = n - k, ![f].connected = TRUE]
             s  == [fd |-> Lowest(t), open |-> TRUE]
             c  == Connecting(t, "server")
             tt == Watch(c, fd, {})
  <2>1. /\ d \in Container /\ \A h \in Families : d[h].open = done[h].open /\ d[h].fd = done[h].fd
        /\ d[f].connected /\ d[other] = done[other]
    BY ZenonT(40), <1>3, <1>4, <1>7 DEF Container, Header
  <2>2. IF d[other].open THEN Stay(d, s, tt, output) ELSE Enter("DNS_CONNECT", d, s, tt, output)
    BY <1>10
  <2>3. s.open  OBVIOUS
  <2> HIDE DEF d
  <2>4. t \in Table /\ Own(TRUE, d, srv, t)  BY <1>6, <2>1, SameHeaders DEF Left
  <2>5. t[fd].owner = "free"  BY <1>6, FreeEntry
  <2>6. /\ s \in Server /\ c \in Table /\ Own(TRUE, d, s, c)
        /\ \A g \in Fd : t[g].owner # "free" => c[g] = t[g]
    BY <1>9, <1>10, <2>4, <2>5, ServerOpened
  <2> HIDE DEF s, c
  <2>7. tt \in Table /\ \A g \in Fd : tt[g].owner = c[g].owner /\ (g # fd => tt[g] = c[g])
    BY <2>6, WatchFacts
  <2> HIDE DEF tt
  <2>8. Own(TRUE, d, s, tt)  BY <2>6, <2>7, OwnersAgree
  <2>9. Kept(tt)  BY <1>1, <1>6, <2>6, <2>7 DEF Kept, Families
  <2>10. Left(d, s, tt)  BY <2>1, <2>6, <2>7, <2>8, <2>9 DEF Left
  <2>11. tt[client] = table[client]
    BY <1>1, <1>6, <2>6, <2>7 DEF Own, Families
  <2>12. CASE d[other].open
    <3>1. Asks(st, d, s, tt)  BY <1>3, <1>4, <1>10, <2>1, <2>3 DEF Asks
    <3>2. Phase(st, d, s, tt)  BY <1>2, <2>11, <3>1 DEF Phase, ClientMuted, AnswersAwaited
    <3> QED  BY <1>1, <2>2, <2>10, <2>12, <3>2, Stayed
  <2>13. CASE ~d[other].open
    <3>1. BothClosed(d)  BY <1>3, <1>4, <2>1, <2>13 DEF BothClosed
    <3>2. Ready("DNS_CONNECT", d, s, tt)  BY <2>3, <3>1 DEF Ready
    <3> QED  BY <1>1, <2>2, <2>10, <2>13, <3>2, Entered DEF States
  <2> QED  BY <2>12, <2>13
<1>11. ASSUME ~dns[other].connected,
              IF ~dns[other].open
              THEN Enter("REQUEST_ERROR", done, NoSocket, t, output)
              ELSE Stay(done, NoSocket, t, output)
       PROVE  Reached
  <2>1. NoSocket \in Server /\ ~NoSocket.open  BY <1>1 DEF NoSocket, Server
  <2>2. Left(done, NoSocket, t)  BY <1>6, <1>9, <1>11, <2>1, NoServer DEF Left
  <2>3. CASE ~dns[other].open
    <3>1. Ready("REQUEST_ERROR", done, NoSocket, t)  BY <1>3, <1>4, <2>3 DEF Ready
    <3> QED  BY <1>1, <1>11, <2>2, <2>3, <3>1, Entered DEF States
  <2>4. CASE dns[other].open
    <3>1. Phase(st, done, NoSocket, t)
      BY <1>3, <1>4, <1>6, <1>11, <2>1 DEF Phase, Asks, ClientMuted, AnswersAwaited
    <3> QED  BY <1>1, <1>11, <2>2, <2>4, <3>1, Stayed
  <2> QED  BY <2>3, <2>4
<1> QED  BY <1>5, <1>8, <1>10, <1>11

LEMMA UntriedFacts ==
  ASSUME NEW d \in Container, NEW n4 \in 0 .. MaxAddr, NEW n6 \in 0 .. MaxAddr
  PROVE  LET e == Untried(d, n4, n6)
         IN  /\ e \in Container /\ e["ipv4"].left = n4 /\ e["ipv6"].left = n6
             /\ \A f \in Families : e[f].open = d[f].open /\ e[f].fd = d[f].fd
<1> DEFINE h4 == [d["ipv4"] EXCEPT !.left = n4]
           h6 == [d["ipv6"] EXCEPT !.left = n6]
           e == Untried(d, n4, n6)
<1>1. d["ipv4"] \in Header /\ d["ipv6"] \in Header  BY DEF Container, Families
<1>2. /\ h4 \in Header /\ h4.left = n4 /\ h4.open = d["ipv4"].open /\ h4.fd = d["ipv4"].fd
      /\ h6 \in Header /\ h6.left = n6 /\ h6.open = d["ipv6"].open /\ h6.fd = d["ipv6"].fd
  BY <1>1 DEF Header
<1>3. e = [d EXCEPT !["ipv4"] = h4, !["ipv6"] = h6]  BY DEF Untried
<1> HIDE DEF h4, h6, e
<1>4. e \in Container /\ e["ipv4"] = h4 /\ e["ipv6"] = h6
  BY <1>2, <1>3 DEF Container, Families
<1>5. /\ e \in Container /\ e["ipv4"].left = n4 /\ e["ipv6"].left = n6
      /\ \A f \in Families : e[f].open = d[f].open /\ e[f].fd = d[f].fd
  BY <1>2, <1>4 DEF Families
<1> QED  BY <1>5 DEF e

LEMMA NextAddressSteps ==
  ASSUME IInv, st = "DNS_CONNECT", NEW fd \in Fd, NEW out \in Text,
         table[fd].owner = "server", NextAddress(dns, Closed(table, fd), out)
  PROVE  Reached /\ (st' = "REQUEST_ERROR" => \A f \in Families : dns'[f].left = 0)
<1> DEFINE t == Closed(table, fd)
           none == [srv EXCEPT !.open = FALSE]
<1>1. /\ TypeOK /\ dns \in Container /\ srv \in Server /\ table \in Table /\ client \in Fd
      /\ Own(TRUE, dns, srv, table)
  BY Types DEF Left, IInv
<1>2. srv.open /\ srv.fd = fd /\ BothClosed(dns) /\ table[client].ops = {}
  BY <1>1 DEF IInv, Own, Phase, Asks, ClientMuted
<1>3. none \in Server /\ ~none.open /\ none.fd = srv.fd  BY <1>1 DEF Server
<1> HIDE DEF none
<1>4. /\ t \in Table /\ Own(TRUE, dns, none, t) /\ t[fd] = Free
      /\ \A g \in Fd \ {fd} : t[g] = table[g]
  <2>1. ASSUME NEW r \in Server, ~r.open
        PROVE  /\ Closed(table, srv.fd) \in Table /\ Own(TRUE, dns, r, Closed(table, srv.fd))
               /\ Closed(table, srv.fd)[srv.fd] = Free
               /\ \A g \in Fd \ {srv.fd} : Closed(table, srv.fd)[g] = table[g]
    BY ZenonT(40), <1>1, <1>2, <2>1, ServerClosed
  <2> QED  BY <1>2, <1>3, <2>1
<1>5. NoSocket \in Server /\ ~NoSocket.open  BY <1>1 DEF NoSocket, Server
<1> HIDE DEF t
<1>6. Kept(t) /\ t[client] = table[client] /\ t[fd].owner = "free"
  BY <1>1, <1>4, FreeEntry DEF Kept, Own
<1>7. \A f \in Families : dns[f].left \in 0 .. MaxAddr  BY <1>1 DEF Container, Header
<1>8. 0 \in 0 .. MaxAddr /\ \A f \in Families : 0 .. dns[f].left - 1 \subseteq 0 .. MaxAddr
  BY <1>7, DnsAssumption
<1>9. ASSUME NEW n4 \in 0 .. MaxAddr, NEW n6 \in 0 .. MaxAddr,
             Opened(Untried(dns, n4, n6), t, out)
      PROVE  Reached /\ st' # "REQUEST_ERROR"
  <2> DEFINE d == Untried(dns, n4, n6)
             s == [fd |-> Lowest(t), open |-> TRUE]
             c == Connecting(t, "server")
  <2>1. d \in Container /\ \A f \in Families : d[f].open = dns[f].open /\ d[f].fd = dns[f].fd
    BY <1>1, UntriedFacts
  <2>2. Stay(d, s, c, out)  BY <1>9 DEF Opened
  <2>3. s.open  OBVIOUS
  <2> HIDE DEF d
  <2>4. Own(TRUE, d, none, t)  BY <1>4, <2>1, SameHeaders
  <2>5. /\ s \in Server /\ c \in Table /\ Own(TRUE, d, s, c)
        /\ \A g \in Fd : t[g].owner # "free" => c[g] = t[g]
    BY <1>3, <1>4, <1>6, <2>4, ServerOpened
  <2> HIDE DEF s, c
  <2>6. Kept(c)  BY <1>6, <2>5 DEF Kept
  <2>7. c[client].ops = {}  BY <1>1, <1>2, <1>6, <2>5 DEF Own
  <2>8. BothClosed(d)  BY <1>2, <2>1 DEF BothClosed
  <2>9. Phase(st, d, s, c)  BY <2>3, <2>7, <2>8 DEF Phase, Asks, ClientMuted, AnswersAwaited
  <2>10. Left(d, s, c)  BY <2>1, <2>5, <2>6 DEF Left
  <2>11. st' = st  BY <2>2 DEF Stay
  <2>12. Reached  BY <1>1, <2>2, <2>9, <2>10, Stayed
  <2> QED  BY <2>11, <2>12
<1>10. ASSUME NEW s \in {none, NoSocket}, Enter("REQUEST_ERROR", Untried(dns, 0, 0), s, t, out)
       PROVE  Reached /\ \A f \in Families : dns'[f].left = 0
  <2> DEFINE d == Untried(dns, 0, 0)
  <2>1. /\ d \in Container /\ \A f \in Families : d[f].open = dns[f].open /\ d[f].fd = dns[f].fd
        /\ d["ipv4"].left = 0 /\ d["ipv6"].left = 0
    BY <1>1, <1>8, UntriedFacts
  <2>2. dns' = d  BY <1>10 DEF Enter, Headers
  <2> HIDE DEF d
  <2>3. s \in Server /\ ~s.open  BY <1>3, <1>5, <1>10
  <2>4. Own(TRUE, d, none, t)  BY <1>4, <2>1, SameHeaders
  <2>5. Own(TRUE, d, s, t)  BY <1>3, <2>3, <2>4, NoServer
  <2>6. Left(d, s, t)  BY <1>4, <1>6, <2>1, <2>3, <2>5 DEF Left
  <2>7. Ready("REQUEST_ERROR", d, s, t)  BY <1>2, <2>1 DEF Ready, BothClosed
  <2>8. Enter("REQUEST_ERROR", d, s, t, out)  BY <1>10 DEF d
  <2>9. Reached  BY <1>1, <2>6, <2>7, <2>8, Entered DEF States
  <2> QED  BY <2>1, <2>2, <2>9 DEF Families
<1>11. \/ \E n \in 0 .. dns["ipv4"].left - 1 : Opened(Untried(dns, n, dns["ipv6"].left), t, out)
       \/ \E n \in 0 .. dns["ipv6"].left - 1 : Opened(Untried(dns, 0, n), t, out)
       \/ \E s \in {none, NoSocket} : Enter("REQUEST_ERROR", Untried(dns, 0, 0), s, t, out)
  BY DEF NextAddress, t, none
<1>12. CASE \E n \in 0 .. dns["ipv4"].left - 1 : Opened(Untried(dns, n, dns["ipv6"].left), t, out)
  <2>1. PICK n \in 0 .. dns["ipv4"].left - 1 : Opened(Untried(dns, n, dns["ipv6"].left), t, out)
    BY <1>12
  <2>2. n \in 0 .. MaxAddr /\ dns["ipv6"].left \in 0 .. MaxAddr  BY <1>7, <1>8 DEF Families
  <2> QED  BY <1>9, <2>1, <2>2
<1>13. CASE \E n \in 0 .. dns["ipv6"].left - 1 : Opened(Untried(dns, 0, n), t, out)
  <2>1. PICK n \in 0 .. dns["ipv6"].left - 1 : Opened(Untried(dns, 0, n), t, out)  BY <1>13
  <2>2. n \in 0 .. MaxAddr  BY <1>8 DEF Families
  <2> QED  BY <1>8, <1>9, <2>1, <2>2
<1>14. CASE \E s \in {none, NoSocket} : Enter("REQUEST_ERROR", Untried(dns, 0, 0), s, t, out)
  BY <1>10, <1>14
<1> QED  BY <1>11, <1>12, <1>13, <1>14

LEMMA ConnectSteps ==
  ASSUME IInv, st = "DNS_CONNECT", NEW fd \in Fd, NEW out \in Text,
         table[fd].owner = "server", ConnectOnWrite(fd, dns, table, out)
  PROVE  Reached /\ (st' = "REQUEST_ERROR" => \A f \in Families : dns'[f].left = 0)
<1>1. CASE table[fd].link = "failed"  BY <1>1, NextAddressSteps DEF ConnectOnWrite
<1>2. CASE table[fd].link # "failed"
  <2>1. /\ TypeOK /\ dns \in Container /\ srv \in Server /\ table \in Table
        /\ Own(TRUE, dns, srv, table) /\ Kept(table)
    BY Types DEF Left, IInv
  <2>2. srv.open /\ BothClosed(dns)  BY DEF IInv, Phase, Asks
  <2>3. Enter("REQUEST_SUCCESSFUL", NoContainer, srv, table, out)  BY <1>2 DEF ConnectOnWrite
  <2>4. NoContainer \in Container /\ \A f \in Families : ~NoContainer[f].open /\ NoContainer[f].fd = -1
    <3>1. 0 \in 0 .. MaxAddr  BY DnsAssumption
    <3> QED  BY <3>1 DEF NoContainer, NoHeader, Container, Header
  <2> HIDE DEF NoContainer
  <2>5. Own(TRUE, NoContainer, srv, table)
    BY <2>1, <2>2, <2>4 DEF Own, BothClosed, Families
  <2>6. Left(NoContainer, srv, table)  BY <2>1, <2>4, <2>5 DEF Left
  <2>7. Ready("REQUEST_SUCCESSFUL", NoContainer, srv, table)
    BY <2>2, <2>4 DEF Ready, BothClosed
  <2>8. Reached  BY <2>1, <2>3, <2>6, <2>7, Entered DEF States
  <2>9. st' # "REQUEST_ERROR"  BY <2>3 DEF Enter
  <2> QED  BY <2>8, <2>9
<1> QED  BY <1>1, <1>2
-----------------------------------------------------------------------------
(* The socket handlers.                                                    *)

LEMMA ResolverWrites ==
  ASSUME IInv, NEW f \in Families, NEW fd \in Fd, st \notin {"GONE", "FORWARDING"},
         table[fd].owner = f, NEW d, NEW t, NEW out \in Text, Called(f, fd, d, t),
         OnWrite(fd, d, t, out)
  PROVE  Reached
<1>1. TypeOK /\ st \in States /\ Left(d, srv, t) /\ Phase(st, d, srv, t)
  BY Types DEF IInv, Called
<1>2. dns[f].open  BY DEF IInv, Own
<1>3. st \notin {"REQUEST", "DNS_CONNECT", "REQUEST_SUCCESSFUL"}
  BY <1>2 DEF IInv, Phase, Asks, BothClosed, NoContainer, NoHeader
<1>4. CASE st = "GENERATE_DNS_QUERY"
  <2>1. GenerateOnWrite(fd, d, t, out)  BY <1>4 DEF OnWrite
  <2> QED  BY <1>4, <2>1, GenerateSteps
<1>5. CASE st = "RESPONSE_DNS"
  <2>1. ResponseOnWrite(fd, d, t, out)  BY <1>5 DEF OnWrite
  <2>2. table[fd].owner \in Families \cup {"server"}  OBVIOUS
  <2> QED  BY <1>1, <1>5, <2>1, <2>2, ResponseSteps
<1>6. CASE st = "REQUEST_ERROR"
  <2>1. Enter("FINISH", d, srv, t, out)  BY <1>6 DEF OnWrite
  <2>2. Ready("FINISH", d, srv, t)
    BY <1>1, <1>6 DEF Ready, Phase, ClientMuted, AnswersAwaited
  <2> QED  BY <1>1, <2>1, <2>2, Entered DEF States
<1>7. CASE st = "FINISH"
  <2>1. Stay(d, srv, t, out)  BY <1>7 DEF OnWrite
  <2> QED  BY <1>1, <1>7, <2>1, Stayed
<1> QED  BY <1>1, <1>3, <1>4, <1>5, <1>6, <1>7 DEF States

LEMMA DnsWriteReaches ==
  ASSUME IInv, NEW f \in Families, DnsWrite(f)
  PROVE  Reached
<1>1. PICK fd \in Fd :
        /\ Event(fd, f, "WRITE")
        /\ IF Drained(dns, Me(fd))
           THEN IF dns[Me(fd)].connected THEN EndSession ELSE OnWrite(fd, dns, table, output)
           ELSE IF table[fd].link \notin {"up", "data"}
           THEN OnWrite(fd, DnsClosed(dns, fd), Closed(table, fd), output)
           ELSE \/ OnWrite(fd, [dns EXCEPT ![Me(fd)].buf = "idle"], table, output)
                \/ /\ dns[Me(fd)].buf = "query"
                   /\ OnWrite(fd, [dns EXCEPT ![Me(fd)].buf = "rest"],
                              [table EXCEPT ![fd].link = "full"], output)
  BY DEF DnsWrite
<1>2. /\ st \notin {"GONE", "FORWARDING"} /\ Left(dns, srv, table)
      /\ table[fd].owner = f /\ "WRITE" \in table[fd].ops
      /\ dns[f].open /\ dns[f].fd = fd /\ Me(fd) = f
  BY <1>1, EventFacts DEF Ours
<1>3. /\ dns \in Container /\ srv \in Server /\ table \in Table /\ output \in Text
      /\ client \in Fd /\ Own(TRUE, dns, srv, table) /\ Kept(table)
      /\ Phase(st, dns, srv, table)
  BY <1>2, Types DEF Left, IInv
<1>4. st = "GENERATE_DNS_QUERY" => ~dns[f].connected
  BY <1>2, <1>3 DEF Phase, Asks
<1>5. Called(f, fd, dns, table)  BY <1>2, <1>3, <1>4 DEF Called
<1>6. CASE EndSession  BY <1>2, <1>6, Freed
<1>7. CASE OnWrite(fd, dns, table, output)
  BY <1>2, <1>3, <1>5, <1>7, ResolverWrites
<1>8. CASE OnWrite(fd, DnsClosed(dns, fd), Closed(table, fd), output)
  <2> DEFINE e == DnsClosed(dns, fd)
             u == Closed(table, fd)
  <2>1. /\ e \in Container /\ ~e[f].open /\ e[f].fd = dns[f].fd
        /\ e[f].connected = dns[f].connected /\ e[Other(f)] = dns[Other(f)]
    BY <1>2, <1>3, HeaderShut
  <2> HIDE DEF e
  <2>2. Left(e, srv, u) /\ Phase(st, e, srv, u) /\ u[fd] = Free
    BY <1>1, <1>4, <2>1, ConnectionClosed
  <2> HIDE DEF u
  <2>3. Called(f, fd, e, u)  BY <1>2, <1>4, <2>1, <2>2 DEF Called
  <2> QED  BY <1>2, <1>3, <1>8, <2>3, ResolverWrites DEF e, u
<1>9. ASSUME NEW b \in {"idle", "rest"}, NEW t \in Table,
             \A g \in Fd : t[g].owner = table[g].owner /\ t[g].ops = table[g].ops
                           /\ (g # fd => t[g] = table[g]),
             OnWrite(fd, [dns EXCEPT ![f].buf = b], t, output)
      PROVE  Reached
  <2> DEFINE h == [dns[f] EXCEPT !.buf = b]
             e == [dns EXCEPT ![f].buf = b]
  <2>1. dns[f] \in Header  BY <1>3 DEF Container
  <2>2. h \in Header /\ h.open = dns[f].open /\ h.fd = dns[f].fd
        /\ h.connected = dns[f].connected
    BY <2>1 DEF Header
  <2>3. e = [dns EXCEPT ![f] = h]  OBVIOUS
  <2> HIDE DEF h, e
  <2>4. e \in Container /\ e[f] = h /\ e[Other(f)] = dns[Other(f)]
    BY ZenonT(40), <1>3, <2>2, <2>3, HeaderSet
  <2>5. Families = {f, Other(f)}  BY DEF Families, Other
  <2>6. \A g \in Families : /\ e[g].open = dns[g].open /\ e[g].fd = dns[g].fd
                            /\ e[g].connected = dns[g].connected
    BY <2>2, <2>4, <2>5
  <2>7. Own(TRUE, e, srv, table)  BY <1>3, <2>6, SameHeaders
  <2>8. Own(TRUE, e, srv, t)  BY <1>9, <2>7, OwnersAgree
  <2>9. Kept(t)  BY <1>2, <1>9 DEF Kept, Families
  <2>10. Asks(st, e, srv, t)
    <3>1. st # "REQUEST"  BY <1>2, <1>3 DEF Phase, Asks, NoContainer, NoHeader
    <3>2. \A g \in Families : dns[g].open => dns[g].fd \in Fd  BY <1>3 DEF Own
    <3>3. CASE st = "GENERATE_DNS_QUERY"
      <4>1. \A g \in Families : dns[g].connected => dns[g].open /\ t[dns[g].fd].ops = {}
        BY <1>3, <1>9, <3>2, <3>3 DEF Phase, Asks
      <4> QED  BY <1>3, <2>6, <3>3, <4>1 DEF Phase, Asks
    <3>4. CASE st = "RESPONSE_DNS"  BY <1>3, <2>6, <3>4 DEF Phase, Asks
    <3>5. CASE st \notin {"GENERATE_DNS_QUERY", "RESPONSE_DNS"}
      BY <1>3, <2>6, <3>1, <3>5 DEF Phase, Asks, BothClosed
    <3> QED  BY <3>3, <3>4, <3>5
  <2>11. ClientMuted(st, t)  BY <1>3, <1>9 DEF Phase, ClientMuted
  <2>12. AnswersAwaited(st, e, t)
    <3>1. \A g \in Families : dns[g].open => dns[g].fd \in Fd  BY <1>3 DEF Own
    <3> QED  BY <1>3, <1>9, <2>6, <3>1 DEF Phase, AnswersAwaited
  <2>13. Left(e, srv, t)  BY <1>3, <1>9, <2>4, <2>8, <2>9 DEF Left
  <2>14. Called(f, fd, e, t)
    BY <1>2, <1>4, <1>9, <2>6, <2>10, <2>11, <2>12, <2>13 DEF Called, Phase
  <2> QED  BY <1>2, <1>3, <1>9, <2>14, ResolverWrites DEF e
<1>10. CASE OnWrite(fd, [dns EXCEPT ![f].buf = "idle"], table, output)
  BY <1>3, <1>9, <1>10
<1>11. CASE OnWrite(fd, [dns EXCEPT ![f].buf = "rest"], [table EXCEPT ![fd].link = "full"],
                    output)
  <2> DEFINE x == [table[fd] EXCEPT !.link = "full"]
             t == [table EXCEPT ![fd].link = "full"]
  <2>1. table[fd] \in Entry  BY <1>3 DEF Table
  <2>2. x \in Entry /\ x.owner = table[fd].owner /\ x.ops = table[fd].ops
    BY <2>1 DEF Entry
  <2>3. t = [table EXCEPT ![fd] = x]  OBVIOUS
  <2> HIDE DEF x, t
  <2>4. t \in Table /\ t[fd] = x /\ \A g \in Fd : g # fd => t[g] = table[g]
    BY <1>3, <2>2, <2>3 DEF Table
  <2>5. \A g \in Fd : t[g].owner = table[g].owner /\ t[g].ops = table[g].ops
                      /\ (g # fd => t[g] = table[g])
    BY <2>2, <2>4
  <2> QED  BY <1>9, <1>11, <2>4, <2>5 DEF t
<1> QED  BY <1>1, <1>2, <1>6, <1>7, <1>8, <1>10, <1>11

\* What happens to a connection is nobody else's.
LEMMA LinkChanged ==
  ASSUME IInv, st # "GONE", NEW fd \in Fd, table[fd].owner # "foreign",
         NEW link \in {"none", "connecting", "up", "full", "data", "failed"}
  PROVE  LET t == [table EXCEPT ![fd].link = link]
         IN  Left(dns, srv, t) /\ Phase(st, dns, srv, t)
<1> DEFINE x == [table[fd] EXCEPT !.link = link]
           t == [table EXCEPT ![fd].link = link]
<1>1. /\ dns \in Container /\ srv \in Server /\ table \in Table /\ client \in Fd
      /\ Own(TRUE, dns, srv, table) /\ Phase(st, dns, srv, table)
  BY Types DEF Left, IInv
<1>2. table[fd] \in Entry  BY <1>1 DEF Table
<1>3. x \in Entry /\ x.owner = table[fd].owner /\ x.ops = table[fd].ops  BY <1>2 DEF Entry
<1>4. t = [table EXCEPT ![fd] = x]  OBVIOUS
<1> HIDE DEF x, t
<1>5. t \in Table /\ t[fd] = x /\ \A g \in Fd : g # fd => t[g] = table[g]
  BY <1>1, <1>3, <1>4 DEF Table
<1>6. \A g \in Fd : t[g].owner = table[g].owner /\ t[g].ops = table[g].ops
  BY <1>3, <1>5
<1>7. Own(TRUE, dns, srv, t)  BY <1>1, <1>6, OwnersAgree
<1>8. Kept(t)  BY <1>5 DEF Kept
<1>9. \A g \in Families : dns[g].open => dns[g].fd \in Fd  BY <1>1 DEF Own
<1>10. Asks(st, dns, srv, t)
  <2>1. CASE st = "GENERATE_DNS_QUERY"
    <3>1. \A g \in Families : dns[g].connected => dns[g].open /\ t[dns[g].fd].ops = {}
      BY <1>1, <1>6, <1>9, <2>1 DEF Phase, Asks
    <3> QED  BY <1>1, <2>1, <3>1 DEF Phase, Asks
  <2>2. CASE st # "GENERATE_DNS_QUERY"  BY <1>1, <2>2 DEF Phase, Asks
  <2> QED  BY <2>1, <2>2
<1>11. ClientMuted(st, t)  BY <1>1, <1>6 DEF Phase, ClientMuted
<1>12. AnswersAwaited(st, dns, t)  BY <1>1, <1>6, <1>9 DEF Phase, AnswersAwaited
<1>13. Left(dns, srv, t) /\ Phase(st, dns, srv, t)
  BY <1>1, <1>5, <1>7, <1>8, <1>10, <1>11, <1>12 DEF Left, Phase
<1> QED  BY <1>13 DEF t

\* Answers are awaited in RESPONSE_DNS alone.
LEMMA AnswerInResponse ==
  ASSUME IInv, NEW f \in Families, NEW fd \in Fd, Event(fd, f, "READ")
  PROVE  st = "RESPONSE_DNS"
<1>1. /\ st \notin {"GONE", "FORWARDING"} /\ dns[f].open /\ dns[f].fd = fd
      /\ "READ" \in table[fd].ops
  BY EventFacts DEF Ours
<1>2. st \notin {"REQUEST", "DNS_CONNECT", "REQUEST_SUCCESSFUL"}
  BY <1>1 DEF IInv, Phase, Asks, BothClosed, NoContainer, NoHeader
<1>3. st \notin {"GENERATE_DNS_QUERY", "REQUEST_ERROR", "FINISH"}
  BY <1>1 DEF IInv, Phase, AnswersAwaited
<1> QED  BY <1>1, <1>2, <1>3, Types DEF States

LEMMA AnswerGivesWay ==
  ASSUME IInv, NEW f \in Families, NEW fd \in Fd, Event(fd, f, "READ"),
         NEW n \in 0 .. MaxAddr, NEW b \in {"none", "query", "rest", "idle"},
         NEW e, e = [DnsClosed(dns, fd) EXCEPT ![f] = [@ EXCEPT !.left = n, !.buf = b]],
         GiveWay(f, e, Closed(table, fd), output)
  PROVE  Reached
<1> DEFINE c == DnsClosed(dns, fd)
           h == [c[f] EXCEPT !.left = n, !.buf = b]
<1>1. dns \in Container /\ Me(fd) = f /\ output \in Text
  BY EventFacts, Types DEF Left, Ours
<1>2. /\ c \in Container /\ ~c[f].open /\ c[f].fd = dns[f].fd
      /\ c[f].connected = dns[f].connected /\ c[Other(f)] = dns[Other(f)]
  BY <1>1, HeaderShut
<1> HIDE DEF c
<1>3. c[f] \in Header  BY <1>2 DEF Container
<1>4. h \in Header /\ ~h.open /\ h.fd = dns[f].fd /\ h.connected = dns[f].connected
  BY <1>2, <1>3 DEF Header
<1>5. e = [c EXCEPT ![f] = h]  BY DEF c
<1> HIDE DEF h
<1>6. e \in Container /\ e[f] = h /\ e[Other(f)] = dns[Other(f)]
  <2>1. h \in Header  BY <1>4
  <2>2. /\ [c EXCEPT ![f] = h] \in Container /\ [c EXCEPT ![f] = h][f] = h
        /\ [c EXCEPT ![f] = h][Other(f)] = c[Other(f)]
    BY <1>2, <2>1, HeaderSet
  <2> QED  BY <1>2, <1>5, <2>2
<1>7. st = "RESPONSE_DNS"  BY AnswerInResponse
<1>8. ~e[f].open /\ e[f].fd = dns[f].fd /\ e[f].connected = dns[f].connected
  BY <1>4, <1>6
<1>9. Left(e, srv, Closed(table, fd)) /\ Phase(st, e, srv, Closed(table, fd))
  BY <1>6, <1>7, <1>8, ConnectionClosed
<1> QED  BY <1>1, <1>7, <1>8, <1>9, GiveWaySteps

LEMMA DnsReadReaches ==
  ASSUME IInv, NEW f \in Families, DnsRead(f)
  PROVE  Reached
<1>1. PICK fd \in Fd :
        /\ Event(fd, f, "READ")
        /\ IF table[fd].link = "failed" THEN BrokenAnswer(fd)
           ELSE \/ BadAnswer(fd)
                \/ GoodAnswer(fd)
                \/ Stay(dns, srv, [table EXCEPT ![fd].link = "up"], output)
  BY DEF DnsRead
<1>2. /\ st = "RESPONSE_DNS" /\ Me(fd) = f /\ table[fd].owner = f /\ dns \in Container
      /\ output \in Text /\ TypeOK
  BY ZenonT(40), <1>1, AnswerInResponse, EventFacts, Types DEF Left, Ours, IInv
<1> DEFINE c == DnsClosed(dns, fd)
<1>3. c[f] \in Header /\ c \in Container  BY <1>2, HeaderShut DEF Container
<1>4. ASSUME NEW n \in 0 .. MaxAddr
      PROVE  /\ [c EXCEPT ![f].left = n] =
                  [c EXCEPT ![f] = [@ EXCEPT !.left = n, !.buf = c[f].buf]]
             /\ [c EXCEPT ![f].left = n, ![f].buf = "none"] =
                  [c EXCEPT ![f] = [@ EXCEPT !.left = n, !.buf = "none"]]
  <2> HIDE DEF c
  <2>1. [c[f] EXCEPT !.left = n] = [c[f] EXCEPT !.left = n, !.buf = c[f].buf]
    BY <1>3 DEF Header
  <2>2. [c EXCEPT ![f].left = n] = [c EXCEPT ![f] = [@ EXCEPT !.left = n, !.buf = c[f].buf]]
    BY <2>1
  <2>3. [c EXCEPT ![f].left = n, ![f].buf = "none"] =
          [c EXCEPT ![f] = [@ EXCEPT !.left = n, !.buf = "none"]]
    BY <1>3, Zenon DEF Container
  <2> QED  BY <2>2, <2>3
<1>5. c[f].buf \in {"none", "query", "rest", "idle"}  BY <1>3 DEF Header
<1>6. CASE BrokenAnswer(fd)
  <2>1. PICK n \in 0 .. MaxAddr :
          GiveWay(f, [c EXCEPT ![f].left = n], Closed(table, fd), output)
    BY <1>2, <1>6 DEF BrokenAnswer
  <2> HIDE DEF c
  <2>2. PICK e : e = [c EXCEPT ![f].left = n]  BY Zenon
  <2>3. e = [c EXCEPT ![f] = [@ EXCEPT !.left = n, !.buf = c[f].buf]]  BY <1>4, <2>2, Zenon
  <2>4. GiveWay(f, e, Closed(table, fd), output)  BY <2>1, <2>2, Zenon
  <2> QED  BY <1>1, <1>5, <2>3, <2>4, AnswerGivesWay, Zenon DEF c
<1>7. CASE BadAnswer(fd)
  <2>1. PICK n \in 0 .. MaxAddr :
          GiveWay(f, [c EXCEPT ![f].left = n, ![f].buf = "none"], Closed(table, fd), output)
    BY <1>2, <1>7 DEF BadAnswer
  <2> HIDE DEF c
  <2>2. PICK e : e = [c EXCEPT ![f].left = n, ![f].buf = "none"]  BY Zenon
  <2>3. e = [c EXCEPT ![f] = [@ EXCEPT !.left = n, !.buf = "none"]]  BY <1>4, <2>2, Zenon
  <2>4. GiveWay(f, e, Closed(table, fd), output)  BY <2>1, <2>2, Zenon
  <2> QED  BY <1>1, <2>3, <2>4, AnswerGivesWay, Zenon DEF c
<1>8. CASE GoodAnswer(fd)  BY <1>1, <1>2, <1>8, GoodAnswerSteps
<1>9. CASE Stay(dns, srv, [table EXCEPT ![fd].link = "up"], output)
  <2> DEFINE t == [table EXCEPT ![fd].link = "up"]
  <2>1. Left(dns, srv, t) /\ Phase(st, dns, srv, t)
    BY <1>2, LinkChanged DEF Families
  <2> HIDE DEF t
  <2> QED  BY <1>2, <1>9, <2>1, Stayed DEF t
<1> QED  BY <1>1, <1>6, <1>7, <1>8, <1>9

LEMMA ServerReadReaches ==
  ASSUME IInv, ServerRead
  PROVE  Reached
<1>1. PICK fd \in Fd :
        /\ Event(fd, "server", "READ")
        /\ IF table[fd].link = "failed" THEN EndSession
           ELSE LET out == Append(output, "data")
                    t   == [table EXCEPT ![fd].link = "up"]
                IN  IF st = "RESPONSE_DNS" /\ ~dns[Me(fd)].open
                    THEN GiveWay(Me(fd), dns, t, out)
                    ELSE Stay(dns, srv, t, out)
  BY DEF ServerRead
<1>2. st # "GONE" /\ table[fd].owner = "server" /\ output \in Text /\ TypeOK
  BY <1>1, EventFacts, Types DEF Ours, IInv
<1> DEFINE t == [table EXCEPT ![fd].link = "up"]
           out == Append(output, "data")
<1>3. Left(dns, srv, t) /\ Phase(st, dns, srv, t)  BY <1>2, LinkChanged
<1>4. out \in Text  BY <1>2 DEF Text
<1>5. Me(fd) \in Families  BY DEF Me, Families
<1>6. \/ EndSession
      \/ st = "RESPONSE_DNS" /\ ~dns[Me(fd)].open /\ GiveWay(Me(fd), dns, t, out)
      \/ Stay(dns, srv, t, out)
  BY <1>1
<1> HIDE DEF t, out
<1>7. CASE EndSession  BY <1>2, <1>7, Freed
<1>8. CASE st = "RESPONSE_DNS" /\ ~dns[Me(fd)].open /\ GiveWay(Me(fd), dns, t, out)
  BY <1>3, <1>4, <1>5, <1>8, GiveWaySteps
<1>9. CASE Stay(dns, srv, t, out)  BY <1>2, <1>3, <1>4, <1>9, Stayed
<1> QED  BY <1>6, <1>7, <1>8, <1>9

\* Giving up in DNS_CONNECT leaves no address.
Exhausted == st = "DNS_CONNECT" /\ st' = "REQUEST_ERROR" => \A f \in Families : dns'[f].left = 0

LEMMA ServerWriteReaches ==
  ASSUME IInv, ServerWrite
  PROVE  Reached /\ Exhausted
<1>1. PICK fd \in Fd :
        /\ Event(fd, "server", "WRITE")
        /\ IF input /\ table[fd].link = "failed" THEN EndSession
           ELSE OnWriteOrClose(fd, dns, table, output)
  BY DEF ServerWrite
<1>2. /\ st \notin {"GONE", "FORWARDING"} /\ table[fd].owner = "server" /\ srv.open
      /\ Left(dns, srv, table) /\ output \in Text /\ TypeOK /\ st \in States
      /\ Phase(st, dns, srv, table)
  BY <1>1, EventFacts, Types DEF Ours, IInv
<1>3. CASE EndSession
  <2>1. Reached  BY <1>2, <1>3, Freed
  <2>2. st' = "GONE"  BY <1>3 DEF EndSession
  <2> QED  BY <2>1, <2>2 DEF Exhausted
<1>4. st \notin {"REQUEST", "GENERATE_DNS_QUERY"}  BY <1>2 DEF Phase, Asks
<1>5. CASE OnWriteOrClose(fd, dns, table, output) /\ st = "RESPONSE_DNS"
  <2>1. ResponseOnWrite(fd, dns, table, output)  BY <1>5 DEF OnWriteOrClose, OnWrite
  <2>2. table[fd].owner \in Families \cup {"server"}  BY <1>2
  <2>3. Reached  BY <1>2, <1>5, <2>1, <2>2, ResponseSteps
  <2> QED  BY <1>5, <2>3 DEF Exhausted
<1>6. CASE OnWriteOrClose(fd, dns, table, output) /\ st = "DNS_CONNECT"
  <2>1. ConnectOnWrite(fd, dns, table, output)  BY <1>6 DEF OnWriteOrClose, OnWrite
  <2> QED  BY <1>2, <1>6, <2>1, ConnectSteps DEF Exhausted
<1>7. CASE OnWriteOrClose(fd, dns, table, output) /\ st = "REQUEST_SUCCESSFUL"
  <2>1. Enter("FORWARDING", dns, srv, table, output)  BY <1>7 DEF OnWriteOrClose, OnWrite
  <2>2. Ready("FORWARDING", dns, srv, table)
    BY <1>2, <1>7 DEF Ready, Phase, Asks, ClientMuted
  <2>3. Reached  BY <1>2, <2>1, <2>2, Entered DEF States
  <2> QED  BY <1>7, <2>3 DEF Exhausted
<1>8. CASE OnWriteOrClose(fd, dns, table, output) /\ st \in {"REQUEST_ERROR", "FINISH"}
  BY <1>3, <1>8 DEF OnWriteOrClose
<1> QED  BY <1>1, <1>2, <1>3, <1>4, <1>5, <1>6, <1>7, <1>8 DEF States

\* Before REQUEST_SUCCESSFUL or an error the client is not written to.
LEMMA ClientWriteReaches ==
  ASSUME IInv, ClientWrite
  PROVE  Reached /\ Exhausted
<1>1. PICK fd \in Fd :
        Event(fd, "client", "WRITE") /\ OnWriteOrClose(fd, dns, table, <<>>)
  BY DEF ClientWrite
<1>2. /\ st \notin {"GONE", "FORWARDING"} /\ "WRITE" \in table[fd].ops /\ fd = client
      /\ Left(dns, srv, table) /\ TypeOK /\ st \in States
      /\ Phase(st, dns, srv, table)
  BY <1>1, EventFacts, Types DEF Ours, IInv
<1>3. st \notin {"GENERATE_DNS_QUERY", "RESPONSE_DNS", "DNS_CONNECT"}
  BY <1>2 DEF Phase, ClientMuted
<1>4. <<>> \in Text  BY DEF Text
<1>5. CASE st = "REQUEST"
  <2>1. Stay(dns, srv, table, <<>>)  BY <1>1, <1>5 DEF OnWriteOrClose, OnWrite
  <2>2. Reached  BY <1>2, <1>4, <2>1, Stayed
  <2> QED  BY <1>5, <2>2 DEF Exhausted
<1>6. CASE st = "REQUEST_SUCCESSFUL"
  <2>1. Enter("FORWARDING", dns, srv, table, <<>>)
    BY <1>1, <1>6 DEF OnWriteOrClose, OnWrite
  <2>2. Ready("FORWARDING", dns, srv, table)
    BY <1>2, <1>6 DEF Ready, Phase, Asks, ClientMuted
  <2>3. Reached  BY <1>2, <1>4, <2>1, <2>2, Entered DEF States
  <2> QED  BY <1>6, <2>3 DEF Exhausted
<1>7. CASE st \in {"REQUEST_ERROR", "FINISH"}
  <2>1. EndSession  BY <1>1, <1>7 DEF OnWriteOrClose
  <2>2. Reached  BY <1>2, <2>1, Freed
  <2> QED  BY <1>7, <2>2 DEF Exhausted
<1> QED  BY <1>2, <1>3, <1>5, <1>6, <1>7 DEF States

\* A socket of family f is opened.
LEMMA FamilyOpened ==
  ASSUME NEW d \in Container, NEW s, NEW t \in Table, Own(TRUE, d, s, t),
         NEW g \in Fd, t[g].owner = "free", NEW f \in Families, ~d[f].open,
         d[Other(f)].open \/ d[Other(f)].fd = -1,
         NEW e \in Container, e[f].open, e[f].fd = Lowest(t), e[Other(f)] = d[Other(f)]
  PROVE  /\ Connecting(t, f) \in Table /\ Own(TRUE, e, s, Connecting(t, f))
         /\ Lowest(t) \in Fd /\ t[Lowest(t)].owner = "free"
         /\ \A fd \in Fd \ {Lowest(t)} : Connecting(t, f)[fd] = t[fd]
<1> DEFINE u == Connecting(t, f)
<1>1. /\ u \in Table /\ Lowest(t) \in Fd /\ t[Lowest(t)].owner = "free"
      /\ u[Lowest(t)].owner = f
      /\ \A n \in Fd \ {Lowest(t)} : u[n] = t[n]
  <2>1. f \in Ours  BY DEF Ours
  <2> QED  BY <2>1, ConnectingFacts
<1> HIDE DEF u
<1>2. Families = {f, Other(f)} /\ f # Other(f)  BY DEF Families, Other
<1>3. d[Other(f)].fd # Lowest(t)
  <2>1. -1 \notin Fd  BY DnsAssumption
  <2>2. CASE d[Other(f)].open  BY <1>1, <1>2, <2>2 DEF Own, Families
  <2>3. CASE d[Other(f)].fd = -1  BY <1>1, <2>1, <2>3
  <2> QED  BY <2>2, <2>3
<1>4. ASSUME NEW fd \in Fd
      PROVE  /\ u[fd].owner = "client" <=> (TRUE /\ fd = client)
             /\ \A h \in Families : u[fd].owner = h <=> (e[h].open /\ e[h].fd = fd)
             /\ u[fd].owner = "server" <=> (s.open /\ s.fd = fd)
  <2>1. CASE fd = Lowest(t)
    <3>1. u[fd].owner = f /\ t[fd].owner = "free"  BY <1>1, <2>1
    <3>2. ~(TRUE /\ fd = client) /\ ~(s.open /\ s.fd = fd)  BY <3>1 DEF Own
    <3> QED  BY <1>2, <1>3, <2>1, <3>1, <3>2 DEF Families
  <2>2. CASE fd # Lowest(t)
    <3>1. u[fd] = t[fd]  BY <1>1, <2>2
    <3>2. u[fd].owner = f <=> (e[f].open /\ e[f].fd = fd)  BY <2>2, <3>1 DEF Own
    <3>3. u[fd].owner = Other(f) <=> (e[Other(f)].open /\ e[Other(f)].fd = fd)
      BY <1>2, <3>1 DEF Own
    <3> QED  BY <1>2, <3>1, <3>2, <3>3 DEF Own
  <2> QED  BY <2>1, <2>2
<1>5. \A h \in Families : e[h].open => e[h].fd \in Fd  BY <1>1, <1>2 DEF Own
<1>6. e["ipv4"].fd = e["ipv6"].fd => e["ipv4"].fd = -1  BY <1>2, <1>3 DEF Families
<1>7. s.open => s.fd \in Fd  BY DEF Own
<1>8. Own(TRUE, e, s, u)  BY <1>4, <1>5, <1>6, <1>7 DEF Own
<1> QED  BY <1>1, <1>8 DEF u

LEMMA RoomFacts ==
  ASSUME NEW t \in Table
  PROVE  /\ HasRoom(t, 1) => \E g \in Fd : t[g].owner = "free"
         /\ HasRoom(t, 2) => \A x : \E g \in Fd \ {x} : t[g].owner = "free"
<1> DEFINE S == {fd \in Fd : t[fd].owner = "free"}
<1>1. IsFiniteSet(S) /\ Cardinality(S) \in Nat
  BY DnsAssumption, FS_Subset, FS_CardinalityType
<1>2. Cardinality(S) >= 1 => S # {}  BY FS_EmptySet
<1>3. \A x : S = {x} => Cardinality(S) = 1  BY FS_Singleton
<1>4. Cardinality(S) >= 2 => S # {} /\ \A x : S # {x}
  <2> HIDE DEF S
  <2> QED  BY <1>1, <1>2, <1>3
<1>5. HasRoom(t, 1) => S # {}  BY <1>2 DEF HasRoom
<1>6. HasRoom(t, 2) => S # {} /\ \A x : S # {x}  BY <1>4 DEF HasRoom
<1> QED  BY <1>5, <1>6

LEMMA FamiliesCounted ==
  /\ Cardinality({"ipv4"}) = 1 /\ Cardinality({"ipv6"}) = 1
  /\ Cardinality(Families) = 2
<1>1. Cardinality({"ipv4"}) = 1 /\ Cardinality({"ipv6"}) = 1 /\ IsFiniteSet({"ipv4"})
  BY FS_Singleton
<1>2. Families = {"ipv4"} \cup {"ipv6"} /\ "ipv6" \notin {"ipv4"}  BY DEF Families
<1> QED  BY <1>1, <1>2, FS_AddElement

LEMMA NothingAsked ==
  /\ NoContainer \in Container
  /\ \A f \in Families : /\ NoContainer[f] = NoHeader(f) /\ ~NoContainer[f].open
                         /\ NoContainer[f].fd = -1 /\ ~NoContainer[f].connected
<1>1. 0 \in 0 .. MaxAddr  BY DnsAssumption
<1> QED  BY <1>1 DEF NoContainer, NoHeader, Container, Header

LEMMA HeaderOpened ==
  ASSUME NEW fd \in Fd, NEW f
  PROVE  LET h == [NoHeader(f) EXCEPT !.open = TRUE, !.fd = fd]
         IN  h \in Header /\ h.open /\ h.fd = fd /\ ~h.connected
<1>1. 0 \in 0 .. MaxAddr  BY DnsAssumption
<1> QED  BY <1>1 DEF NoHeader, Header

LEMMA SocketsOpened ==
  ASSUME IInv, st = "REQUEST", NEW ok \in SUBSET Families, ok # {},
         HasRoom(table, Cardinality(ok)), NEW t4, NEW t6,
         t4 = IF "ipv4" \in ok THEN Connecting(table, "ipv4") ELSE table,
         t6 = IF "ipv6" \in ok THEN Connecting(t4, "ipv6") ELSE t4
  PROVE  LET d == Resolvers(ok, t6)
         IN  Left(d, srv, t6) /\ \A f \in Families : ~d[f].connected
<1> DEFINE h4 == [NoHeader("ipv4") EXCEPT !.open = TRUE, !.fd = Lowest(table)]
           h6 == [NoHeader("ipv6") EXCEPT !.open = TRUE, !.fd = Lowest(t4)]
           d4 == IF "ipv4" \in ok THEN [NoContainer EXCEPT !["ipv4"] = h4] ELSE NoContainer
           d6 == IF "ipv6" \in ok THEN [d4 EXCEPT !["ipv6"] = h6] ELSE d4
           d  == Resolvers(ok, t6)
<1>1. /\ dns = NoContainer /\ srv \in Server /\ table \in Table
      /\ Own(TRUE, NoContainer, srv, table) /\ Kept(table)
  BY Types DEF Left, IInv, Phase, Asks
<1>2. /\ "ipv4" \in Families /\ "ipv6" \in Families
      /\ Other("ipv4") = "ipv6" /\ Other("ipv6") = "ipv4"
  BY DEF Families, Other
<1>3. ok = {"ipv4"} \/ ok = {"ipv6"} \/ ok = Families  BY DEF Families
<1>4. \E g \in Fd : table[g].owner = "free"
  BY ZenonT(40), <1>1, <1>3, FamiliesCounted, RoomFacts
<1>5. PICK g \in Fd : table[g].owner = "free"  BY <1>4
<1>6. ok = Families => \E x \in Fd \ {Lowest(table)} : table[x].owner = "free"
  BY <1>1, FamiliesCounted, RoomFacts
<1>7. "ipv4" \in ok =>
        /\ Lowest(table) \in Fd /\ table[Lowest(table)].owner = "free"
        /\ t4 \in Table /\ \A x \in Fd \ {Lowest(table)} : t4[x] = table[x]
        /\ h4 \in Header /\ h4.open /\ h4.fd = Lowest(table) /\ ~h4.connected
  <2>1. "ipv4" \in Ours  BY <1>2 DEF Ours
  <2>2. /\ Lowest(table) \in Fd /\ table[Lowest(table)].owner = "free"
        /\ Connecting(table, "ipv4") \in Table
        /\ \A x \in Fd \ {Lowest(table)} : Connecting(table, "ipv4")[x] = table[x]
    BY SMTT(40), <1>1, <1>5, <2>1, ConnectingFacts
  <2>3. h4 \in Header /\ h4.open /\ h4.fd = Lowest(table) /\ ~h4.connected
    BY <2>2, HeaderOpened
  <2> HIDE DEF h4
  <2> QED  BY <2>2, <2>3
<1>8. /\ t4 \in Table /\ d4 \in Container /\ Own(TRUE, d4, srv, t4) /\ Kept(t4)
      /\ d4["ipv6"] = NoHeader("ipv6") /\ ~d4["ipv6"].open /\ d4["ipv6"].fd = -1
      /\ IF "ipv4" \in ok THEN d4["ipv4"] = h4
                           ELSE d4["ipv4"] = NoHeader("ipv4") /\ d4["ipv4"].fd = -1
  <2>1. CASE "ipv4" \notin ok
    <3>1. d4 = NoContainer /\ t4 = table  BY <2>1
    <3> HIDE DEF d4
    <3> QED  BY <1>1, <1>2, <2>1, <3>1, NothingAsked
  <2>2. CASE "ipv4" \in ok
    <3> DEFINE e == [NoContainer EXCEPT !["ipv4"] = h4]
    <3>1. d4 = e /\ t4 = Connecting(table, "ipv4")  BY <2>2
    <3> HIDE DEF d4, h4
    <3>2. h4 \in Header /\ h4.open /\ h4.fd = Lowest(table)  BY <1>7, <2>2
    <3>3. e \in Container /\ e["ipv4"] = h4 /\ e["ipv6"] = NoContainer["ipv6"]
      <4>1. /\ e \in Container /\ e["ipv4"] = h4
            /\ e[Other("ipv4")] = NoContainer[Other("ipv4")]
        <5>1. NoContainer \in Container /\ "ipv4" \in Families /\ h4 \in Header
          BY <1>2, <3>2, NothingAsked
        <5> QED  BY <5>1, HeaderSet
      <4> QED  BY <1>2, <4>1
    <3> HIDE DEF e
    <3>4. /\ e["ipv4"].open /\ e["ipv4"].fd = Lowest(table)
          /\ e[Other("ipv4")] = NoContainer[Other("ipv4")]
          /\ ~NoContainer["ipv4"].open /\ NoContainer[Other("ipv4")].fd = -1
          /\ NoContainer \in Container
      BY <1>2, <3>2, <3>3, NothingAsked
    <3>5. Own(TRUE, e, srv, Connecting(table, "ipv4"))
      BY ZenonT(40), <1>1, <1>2, <1>5, <3>3, <3>4, FamilyOpened
    <3>6. Kept(t4)  BY <1>1, <1>7, <2>2 DEF Kept
    <3> QED  BY <1>2, <1>7, <2>2, <3>1, <3>3, <3>5, <3>6, NothingAsked
  <2> QED  BY <2>1, <2>2
<1> HIDE DEF d4, h4
<1>9. "ipv6" \in ok => \E x \in Fd : t4[x].owner = "free"
  <2>1. CASE "ipv4" \notin ok  BY <1>5, <2>1
  <2>2. CASE "ipv4" \in ok /\ "ipv6" \in ok
    <3>1. ok = Families  BY <2>2 DEF Families
    <3> QED  BY <1>6, <1>7, <2>2, <3>1
  <2> QED  BY <2>1, <2>2
<1>10. /\ t6 \in Table /\ d6 \in Container /\ Own(TRUE, d6, srv, t6) /\ Kept(t6)
       /\ d6["ipv4"] = d4["ipv4"]
       /\ IF "ipv6" \in ok THEN d6["ipv6"] = h6 ELSE d6["ipv6"] = NoHeader("ipv6")
  <2>1. CASE "ipv6" \notin ok
    <3>1. d6 = d4 /\ t6 = t4  BY <2>1
    <3> HIDE DEF d6
    <3> QED  BY <1>8, <2>1, <3>1
  <2>2. CASE "ipv6" \in ok
    <3> DEFINE e == [d4 EXCEPT !["ipv6"] = h6]
    <3>1. d6 = e /\ t6 = Connecting(t4, "ipv6")  BY <2>2
    <3>2. PICK x \in Fd : t4[x].owner = "free"  BY <1>9, <2>2
    <3>3. /\ Lowest(t4) \in Fd /\ t4[Lowest(t4)].owner = "free"
          /\ Connecting(t4, "ipv6") \in Table
          /\ \A y \in Fd \ {Lowest(t4)} : Connecting(t4, "ipv6")[y] = t4[y]
      BY <1>8, <3>2, ConnectingFacts DEF Ours, Families
    <3>4. h6 \in Header /\ h6.open /\ h6.fd = Lowest(t4)  BY <3>3, HeaderOpened
    <3> HIDE DEF d6, h6
    <3>5. e \in Container /\ e["ipv6"] = h6 /\ e["ipv4"] = d4["ipv4"]
      <4>1. e \in Container /\ e["ipv6"] = h6 /\ e[Other("ipv6")] = d4[Other("ipv6")]
        <5>1. d4 \in Container /\ "ipv6" \in Families /\ h6 \in Header  BY <1>2, <1>8, <3>4
        <5> QED  BY <5>1, HeaderSet
      <4> QED  BY <1>2, <4>1
    <3> HIDE DEF e
    <3>6. d4["ipv4"].open \/ d4["ipv4"].fd = -1  BY <1>7, <1>8
    <3>7. /\ e["ipv6"].open /\ e["ipv6"].fd = Lowest(t4)
          /\ e[Other("ipv6")] = d4[Other("ipv6")] /\ ~d4["ipv6"].open
          /\ d4[Other("ipv6")].open \/ d4[Other("ipv6")].fd = -1
      BY <1>2, <1>8, <3>4, <3>5, <3>6
    <3>8. Own(TRUE, e, srv, Connecting(t4, "ipv6"))
      BY ZenonT(90), <1>2, <1>8, <3>2, <3>5, <3>7, FamilyOpened
    <3>9. Kept(t6)  BY <1>8, <3>1, <3>3 DEF Kept
    <3> QED  BY <2>2, <3>1, <3>3, <3>5, <3>8, <3>9
  <2> QED  BY <2>1, <2>2
<1> HIDE DEF d6
<1>11. \A f \in ok : d6[f] = [NoHeader(f) EXCEPT !.open = TRUE, !.fd = d6[f].fd]
                    /\ d6[f].open /\ d6[f].fd \in Fd
  <2>1. "ipv4" \in ok => d6["ipv4"] = h4 /\ h4.open /\ h4.fd = Lowest(table)
                          /\ Lowest(table) \in Fd
    BY <1>7, <1>8, <1>10
  <2>2. "ipv4" \in ok => d6["ipv4"] = [NoHeader("ipv4") EXCEPT !.open = TRUE, !.fd = d6["ipv4"].fd]
    BY <2>1 DEF h4
  <2>3. "ipv6" \in ok => d6["ipv6"] = h6 /\ h6.open /\ h6.fd = Lowest(t4)
                          /\ Lowest(t4) \in Fd
    <3>1. "ipv6" \in ok => Lowest(t4) \in Fd  BY <1>9, LowestFree, <1>8
    <3> QED  BY <1>10, <3>1, HeaderOpened
  <2>4. "ipv6" \in ok => d6["ipv6"] = [NoHeader("ipv6") EXCEPT !.open = TRUE, !.fd = d6["ipv6"].fd]
    BY <2>3
  <2> HIDE DEF h6
  <2> QED  BY ZenonT(40), <2>1, <2>2, <2>3, <2>4 DEF Families
<1>12. \A f \in ok : Holder(t6, f) = d6[f].fd
  <2> SUFFICES ASSUME NEW f \in ok  PROVE Holder(t6, f) = d6[f].fd
    OBVIOUS
  <2>1. \A fd \in Fd, h \in Families : t6[fd].owner = h <=> (d6[h].open /\ d6[h].fd = fd)
    BY <1>10 DEF Own
  <2>2. \A fd \in Fd : t6[fd].owner = f <=> fd = d6[f].fd
    <3>1. f \in Families /\ d6[f].open  BY <1>11
    <3> QED  BY <2>1, <3>1
  <2> QED  BY <1>11, <2>2 DEF Holder
<1>13. \A f \in Families : d[f] = d6[f]
  <2> SUFFICES ASSUME NEW f \in Families  PROVE d[f] = d6[f]
    OBVIOUS
  <2>1. CASE f \in ok  BY <1>11, <1>12, <2>1 DEF Resolvers
  <2>2. CASE f \notin ok
    <3>1. d[f] = NoHeader(f)  BY <2>2 DEF Resolvers
    <3> QED  BY <1>8, <1>10, <2>2, <3>1 DEF Families
  <2> QED  BY <2>1, <2>2
<1>14. d = d6  BY <1>10, <1>13 DEF Container, Resolvers
<1>15. \A f \in Families : ~d[f].connected  BY DEF NoHeader, Resolvers
<1> HIDE DEF d
<1>16. Left(d6, srv, t6)  BY <1>1, <1>10 DEF Left
<1>17. Left(d, srv, t6) /\ \A f \in Families : ~d[f].connected  BY <1>14, <1>15, <1>16
<1> QED  BY <1>17 DEF d

LEMMA ResolveReaches ==
  ASSUME IInv, Resolve
  PROVE  Reached
<1>1. PICK fd \in Fd : Event(fd, "client", "READ")  BY DEF Resolve
<1>2. /\ st \notin {"GONE", "FORWARDING"} /\ "READ" \in table[fd].ops /\ fd = client
      /\ TypeOK /\ output \in Text /\ Left(dns, srv, table)
  BY <1>1, EventFacts, Types DEF Ours, IInv
<1>3. st = "REQUEST"  BY <1>2 DEF IInv, Phase, ClientMuted
<1>4. dns = NoContainer /\ ~srv.open  BY <1>3 DEF IInv, Phase, Asks
<1>5. PICK ok \in SUBSET Families :
        LET t4 == IF "ipv4" \in ok THEN Connecting(table, "ipv4") ELSE table
            t6 == IF "ipv6" \in ok THEN Connecting(t4, "ipv6") ELSE t4
            d  == Resolvers(ok, t6)
        IN  /\ HasRoom(table, Cardinality(ok))
            /\ IF ok = {} THEN Enter("REQUEST_ERROR", d, srv, table, output)
                          ELSE Enter("GENERATE_DNS_QUERY", d, srv, t6, output)
  BY DEF Resolve
<1> DEFINE t4 == IF "ipv4" \in ok THEN Connecting(table, "ipv4") ELSE table
           t6 == IF "ipv6" \in ok THEN Connecting(t4, "ipv6") ELSE t4
           d  == Resolvers(ok, t6)
<1>6. /\ HasRoom(table, Cardinality(ok))
      /\ IF ok = {} THEN Enter("REQUEST_ERROR", d, srv, table, output)
                    ELSE Enter("GENERATE_DNS_QUERY", d, srv, t6, output)
  BY <1>5
<1>7. CASE ok = {}
  <2>1. d = NoContainer  BY <1>7 DEF NoContainer, Resolvers
  <2> HIDE DEF d
  <2>2. Enter("REQUEST_ERROR", dns, srv, table, output)  BY <1>4, <1>6, <1>7, <2>1
  <2>3. Ready("REQUEST_ERROR", dns, srv, table)  BY <1>4, NothingAsked DEF Ready
  <2> QED  BY <1>2, <2>2, <2>3, Entered DEF States
<1>8. CASE ok # {}
  <2>1. Left(d, srv, t6) /\ \A f \in Families : ~d[f].connected
    <3>1. HasRoom(table, Cardinality(ok))  BY <1>6
    <3>2. t4 = IF "ipv4" \in ok THEN Connecting(table, "ipv4") ELSE table  OBVIOUS
    <3>3. t6 = IF "ipv6" \in ok THEN Connecting(t4, "ipv6") ELSE t4  OBVIOUS
    <3> HIDE DEF t4, t6
    <3> QED  BY <1>3, <1>8, <3>1, <3>2, <3>3, SocketsOpened
  <2> HIDE DEF d, t6
  <2>2. Ready("GENERATE_DNS_QUERY", d, srv, t6)  BY <1>4, <2>1 DEF Ready
  <2>3. Enter("GENERATE_DNS_QUERY", d, srv, t6, output)  BY <1>6, <1>8
  <2> QED  BY <1>2, <2>1, <2>2, <2>3, Entered DEF States
<1> QED  BY <1>7, <1>8
-----------------------------------------------------------------------------
(* The steps of the program and of its surroundings.                       *)

LEMMA Framed ==
  ASSUME IInv, st' \in States, dns' \in Container, srv' \in Server, table' \in Table,
         output' \in Text, Own(st' # "GONE", dns', srv', table'),
         Phase(st', dns', srv', table'), client' = client,
         ready' \in [Fd -> SUBSET {"READ", "WRITE"}], input' \in BOOLEAN,
         idle' \in BOOLEAN, seen' \in Text
  PROVE  IInv'
<1>1. client' \in Fd  BY Types
<1>2. TypeOK'
  BY <1>1 DEF TypeOK, States, Container, Header, Server, Table, Entry, Text
<1>3. Own(st' # "GONE", dns', srv', table') <=> Own(st # "GONE", dns, srv, table)'
  BY DEF Own
<1>4. Phase(st', dns', srv', table') <=> Phase(st, dns, srv, table)'
  BY DEF Phase, Asks, ClientMuted, AnswersAwaited
<1> QED  BY <1>2, <1>3, <1>4 DEF IInv

LEMMA OtherTypes ==
  ASSUME IInv
  PROVE  ready \in [Fd -> SUBSET {"READ", "WRITE"}] /\ input \in BOOLEAN
         /\ idle \in BOOLEAN /\ seen \in Text
BY DEF IInv, TypeOK, Text

LEMMA HandledTypes ==
  ASSUME IInv, NEW fd, NEW op, Handled(fd, op)
  PROVE  client' = client /\ ready' \in [Fd -> SUBSET {"READ", "WRITE"}]
         /\ idle' \in BOOLEAN
BY OtherTypes DEF Handled, Passed

\* The session's descriptors are not concerned by what others do.
LEMMA OutsideChanged ==
  ASSUME IInv, st # "GONE", NEW t \in Table,
         \A g \in Fd : \/ t[g] = table[g]
                       \/ table[g].owner \notin Ours /\ t[g].owner \notin Ours
  PROVE  Own(TRUE, dns, srv, t) /\ Phase(st, dns, srv, t)
<1>1. /\ client \in Fd /\ Own(TRUE, dns, srv, table) /\ Phase(st, dns, srv, table)
  BY Types DEF Left, IInv
<1>2. \A g \in Fd, o \in Ours : t[g].owner = o <=> table[g].owner = o  OBVIOUS
<1>3. "client" \in Ours /\ "server" \in Ours /\ Families \subseteq Ours  BY DEF Ours
<1>4. Own(TRUE, dns, srv, t)  BY <1>1, <1>2, <1>3 DEF Own
<1>5. t[client] = table[client]  BY <1>1, <1>3 DEF Own
<1>6. \A f \in Families : dns[f].open => dns[f].fd \in Fd /\ t[dns[f].fd] = table[dns[f].fd]
  BY <1>1, <1>3 DEF Own
<1>7. Asks(st, dns, srv, t)
  <2>1. CASE st = "GENERATE_DNS_QUERY"
    <3>1. \A f \in Families : dns[f].connected => dns[f].open /\ t[dns[f].fd].ops = {}
      BY <1>1, <1>6, <2>1 DEF Phase, Asks
    <3> QED  BY <1>1, <2>1, <3>1 DEF Phase, Asks
  <2>2. CASE st # "GENERATE_DNS_QUERY"  BY <1>1, <2>2 DEF Phase, Asks
  <2> QED  BY <2>1, <2>2
<1>8. ClientMuted(st, t)  BY <1>1, <1>5 DEF Phase, ClientMuted
<1>9. AnswersAwaited(st, dns, t)  BY <1>1, <1>6 DEF Phase, AnswersAwaited
<1> QED  BY <1>4, <1>7, <1>8, <1>9 DEF Phase

\* Outside DNS_CONNECT, or out of it to another state, nothing is given up.
LEMMA HandlerSteps ==
  ASSUME IInv, Handler
  PROVE  IInv' /\ Kept(table') /\ Exhausted
<1>1. ASSUME Skip  PROVE IInv' /\ Kept(table') /\ Exhausted
  <2>1. UNCHANGED <<st, client, dns, srv, table, input, output, seen, idle>>
        /\ ready' \in [Fd -> SUBSET {"READ", "WRITE"}]
    BY <1>1, OtherTypes DEF Skip, Passed
  <2>2. IInv'  BY <2>1, OtherTypes, Types, Framed DEF IInv
  <2> QED  BY <2>1, <2>2 DEF Kept, Exhausted
<1>2. ASSUME Reached, NEW fd, NEW op, Handled(fd, op), input' \in BOOLEAN, seen' \in Text
      PROVE  IInv' /\ Kept(table')
  BY <1>2, HandledTypes, Framed DEF Reached
<1>3. ASSUME st # "DNS_CONNECT" \/ st' # "REQUEST_ERROR"  PROVE Exhausted
  BY <1>3 DEF Exhausted
<1>4. ASSUME Resolve  PROVE IInv' /\ Kept(table') /\ Exhausted
  <2>1. PICK fd \in Fd : Event(fd, "client", "READ") /\ Handled(fd, "READ")
    BY <1>4 DEF Resolve
  <2>2. input' \in BOOLEAN /\ seen' \in Text  BY <1>4, OtherTypes DEF Resolve
  <2>3. st # "DNS_CONNECT"
    BY <2>1, EventFacts DEF IInv, Phase, ClientMuted, Ours
  <2> QED  BY <1>2, <1>3, <1>4, <2>1, <2>2, <2>3, ResolveReaches
<1>5. ASSUME NEW f \in Families, DnsWrite(f)  PROVE IInv' /\ Kept(table') /\ Exhausted
  <2>1. PICK fd \in Fd : Event(fd, f, "WRITE") /\ Handled(fd, "WRITE")
    BY <1>5 DEF DnsWrite
  <2>2. input' \in BOOLEAN /\ seen' \in Text  BY <1>5, OtherTypes DEF DnsWrite
  <2>3. dns[f].open  BY <2>1, EventFacts DEF Ours
  <2>4. st # "DNS_CONNECT"  BY <2>3 DEF IInv, Phase, Asks, BothClosed
  <2> QED  BY <1>2, <1>3, <1>5, <2>1, <2>2, <2>4, DnsWriteReaches
<1>6. ASSUME NEW f \in Families, DnsRead(f)  PROVE IInv' /\ Kept(table') /\ Exhausted
  <2>1. PICK fd \in Fd : Event(fd, f, "READ") /\ Handled(fd, "READ")
    BY <1>6 DEF DnsRead
  <2>2. input' \in BOOLEAN /\ seen' \in Text  BY <1>6, OtherTypes DEF DnsRead
  <2>3. st # "DNS_CONNECT"  BY <2>1, AnswerInResponse
  <2> QED  BY <1>2, <1>3, <1>6, <2>1, <2>2, <2>3, DnsReadReaches
<1>7. ASSUME ServerWrite  PROVE IInv' /\ Kept(table') /\ Exhausted
  <2>1. PICK fd \in Fd : Handled(fd, "WRITE")  BY <1>7 DEF ServerWrite
  <2>2. input' \in BOOLEAN /\ seen' \in Text  BY <1>7, OtherTypes DEF ServerWrite
  <2> QED  BY <1>2, <1>7, <2>1, <2>2, ServerWriteReaches
<1>8. ASSUME ServerRead  PROVE IInv' /\ Kept(table') /\ Exhausted
  <2>1. PICK fd \in Fd :
          /\ Handled(fd, "READ")
          /\ IF table[fd].link = "failed" THEN EndSession
             ELSE LET out == Append(output, "data")
                      t   == [table EXCEPT ![fd].link = "up"]
                  IN  IF st = "RESPONSE_DNS" /\ ~dns[Me(fd)].open
                      THEN GiveWay(Me(fd), dns, t, out)
                      ELSE Stay(dns, srv, t, out)
    BY <1>8 DEF ServerRead
  <2>2. input' \in BOOLEAN /\ seen' \in Text  BY <1>8, OtherTypes DEF ServerRead
  <2>3. st # "DNS_CONNECT" \/ st' # "REQUEST_ERROR"  BY <2>1 DEF Stay, EndSession
  <2> QED  BY <1>2, <1>3, <1>8, <2>1, <2>2, <2>3, ServerReadReaches
<1>9. ASSUME ClientWrite  PROVE IInv' /\ Kept(table') /\ Exhausted
  <2>1. PICK fd \in Fd : Handled(fd, "WRITE")  BY <1>9 DEF ClientWrite
  <2>2. output \in Text /\ seen \in Text /\ input \in BOOLEAN  BY OtherTypes, Types
  <2>3. input' \in BOOLEAN /\ seen' = seen \o output  BY <1>9, <2>2 DEF ClientWrite
  <2>4. seen' \in Text  BY <2>2, <2>3 DEF Text
  <2> QED  BY <1>2, <1>9, <2>1, <2>3, <2>4, ClientWriteReaches
<1>10. ASSUME ClientLost  PROVE IInv' /\ Kept(table') /\ Exhausted
  <2>1. PICK fd \in Fd : Event(fd, "client", "WRITE") /\ Handled(fd, "WRITE")
    BY <1>10 DEF ClientLost
  <2>2. st # "GONE" /\ EndSession /\ input' \in BOOLEAN /\ seen' \in Text
    BY <1>10, <2>1, OtherTypes DEF ClientLost, Event, Turn, Running
  <2>3. st' # "REQUEST_ERROR"  BY <2>2 DEF EndSession
  <2> QED  BY <1>2, <1>3, <2>1, <2>2, <2>3, Freed
<1> QED  BY <1>1, <1>4, <1>5, <1>6, <1>7, <1>8, <1>9, <1>10 DEF Handler

LEMMA CleanupSteps ==
  ASSUME IInv, Cleanup
  PROVE  IInv' /\ Kept(table') /\ Exhausted
<1>1. st # "GONE" /\ EndSession /\ UNCHANGED <<client, ready, input, seen, idle>>
  BY DEF Cleanup, Running
<1>2. Reached  BY <1>1, Freed
<1>3. IInv'  BY <1>1, <1>2, OtherTypes, Framed DEF Reached
<1>4. Exhausted  BY <1>1 DEF EndSession, Exhausted
<1> QED  BY <1>2, <1>3, <1>4 DEF Reached

LEMMA SelectSteps ==
  ASSUME IInv, Select
  PROVE  IInv' /\ Kept(table') /\ Exhausted
<1>1. UNCHANGED <<st, client, dns, srv, table, input, output, seen, idle>>  BY DEF Select
<1>2. table \in Table  BY Types
<1>3. \A g \in Fd : table[g].ops \in SUBSET {"READ", "WRITE"}  BY <1>2 DEF Table, Entry
<1>4. ready' \in [Fd -> SUBSET {"READ", "WRITE"}]  BY <1>3 DEF Select
<1>5. IInv'  BY <1>1, <1>4, OtherTypes, Types, Framed DEF IInv
<1> QED  BY <1>1, <1>5 DEF Kept, Exhausted

LEMMA LinkSteps ==
  ASSUME IInv, NEW owner \in Ours, NEW from, NEW to,
         to \subseteq {"none", "connecting", "up", "full", "data", "failed"},
         Link(owner, from, to)
  PROVE  IInv' /\ Kept(table') /\ Exhausted
<1>1. PICK fd \in Fd, link \in to :
        table[fd].owner = owner /\ table' = [table EXCEPT ![fd].link = link]
  BY DEF Link
<1>2. st # "GONE" /\ UNCHANGED <<st, client, dns, srv, ready, input, output, seen, idle>>
  BY DEF Link, Between, Running, unmoved
<1>3. owner # "foreign"  BY DEF Ours, Families
<1>4. Left(dns, srv, table') /\ Phase(st, dns, srv, table')
  BY <1>1, <1>2, <1>3, LinkChanged
<1>5. IInv'  BY <1>2, <1>4, OtherTypes, Types, Framed DEF Left
<1> QED  BY <1>2, <1>4, <1>5 DEF Left, Exhausted

LEMMA ForeignOpenSteps ==
  ASSUME IInv, ForeignOpen
  PROVE  IInv' /\ Kept(table') /\ Exhausted
<1>1. /\ st # "GONE" /\ UNCHANGED <<st, client, dns, srv, ready, input, output, seen, idle>>
      /\ HasRoom(table, 1) /\ table' = [table EXCEPT ![Lowest(table)] = Foreign]
  BY DEF ForeignOpen, ForeignTurn, Between, Turn, Running, unmoved
<1>2. table \in Table  BY Types
<1>3. Lowest(table) \in Fd /\ table[Lowest(table)].owner = "free"
  BY <1>1, <1>2, RoomFacts, LowestFree
<1>4. Foreign \in Entry /\ Foreign.owner \notin Ours /\ "free" \notin Ours
  BY DEF Foreign, Entry, Ours, Families
<1>5. /\ table' \in Table /\ table'[Lowest(table)] = Foreign
      /\ \A g \in Fd \ {Lowest(table)} : table'[g] = table[g]
  BY <1>1, <1>2, <1>3, <1>4 DEF Table
<1>6. Own(TRUE, dns, srv, table') /\ Phase(st, dns, srv, table')
  <2>1. \A g \in Fd : \/ table'[g] = table[g]
                      \/ table[g].owner \notin Ours /\ table'[g].owner \notin Ours
    BY <1>3, <1>4, <1>5
  <2> QED  BY <1>1, <1>5, <2>1, OutsideChanged
<1>7. IInv'  BY <1>1, <1>5, <1>6, OtherTypes, Types, Framed
<1>8. Kept(table')  BY <1>3, <1>5 DEF Kept
<1> QED  BY <1>1, <1>7, <1>8 DEF Exhausted

LEMMA ForeignCloseSteps ==
  ASSUME IInv, ForeignClose
  PROVE  IInv' /\ Exhausted
<1>1. st # "GONE" /\ UNCHANGED <<st, client, dns, srv, ready, input, output, seen, idle>>
  BY DEF ForeignClose, ForeignTurn, Between, Turn, Running, unmoved
<1>2. PICK fd \in Fd : table[fd].owner = "foreign" /\ table' = [table EXCEPT ![fd] = Free]
  BY DEF ForeignClose
<1>3. table \in Table  BY Types
<1>4. "foreign" \notin Ours /\ "free" \notin Ours  BY DEF Ours, Families
<1>5. table' \in Table /\ \A g \in Fd \ {fd} : table'[g] = table[g]
  BY <1>2, <1>3, FreeEntry DEF Table
<1>6. table'[fd] = Free  BY <1>2, <1>3 DEF Table
<1>7. Own(TRUE, dns, srv, table') /\ Phase(st, dns, srv, table')
  <2>1. \A g \in Fd : \/ table'[g] = table[g]
                      \/ table[g].owner \notin Ours /\ table'[g].owner \notin Ours
    BY <1>2, <1>4, <1>5, <1>6, FreeEntry
  <2> QED  BY <1>1, <1>5, <2>1, OutsideChanged
<1>8. IInv'  BY <1>1, <1>5, <1>7, OtherTypes, Types, Framed
<1> QED  BY <1>1, <1>8 DEF Exhausted

LEMMA QuietSteps ==
  ASSUME IInv, UNCHANGED <<st, client, dns, srv, table, ready, input, output, seen>>,
         idle' \in BOOLEAN
  PROVE  IInv' /\ Kept(table') /\ Exhausted
<1>1. IInv'  BY OtherTypes, Types, Framed DEF IInv
<1> QED  BY <1>1 DEF Kept, Exhausted
-----------------------------------------------------------------------------
(* The theorems.                                                           *)

LEMMA InitialState ==
  ASSUME Init
  PROVE  IInv
<1>1. /\ st = "REQUEST" /\ client \in Fd /\ dns = NoContainer
      /\ srv = [fd |-> 0, open |-> FALSE] /\ ready = Nobody /\ input \in BOOLEAN
      /\ output = <<>> /\ seen = <<>> /\ idle = FALSE
  BY DEF Init
<1> DEFINE Mine == [owner |-> "client", ops |-> {"READ"}, link |-> "data"]
<1>2. PICK F \in SUBSET (Fd \ {client}) :
        table = [fd \in Fd |-> IF fd = client THEN Mine
                               ELSE IF fd \in F THEN Foreign ELSE Free]
  BY DEF Init
<1>3. Mine \in Entry /\ Foreign \in Entry /\ Free \in Entry
  BY FreeEntry DEF Foreign, Entry, Ours
<1>4. Mine.owner = "client" /\ Foreign.owner = "foreign" /\ Free.owner = "free"
  BY DEF Foreign, Free
<1> HIDE DEF Mine
<1>5. table \in Table  BY <1>2, <1>3 DEF Table
<1>6. \A fd \in Fd : /\ table[fd].owner = "client" <=> fd = client
                     /\ table[fd].owner \notin Families \cup {"server"}
  BY <1>2, <1>4 DEF Families
<1>7. srv \in Server /\ ~srv.open  BY <1>1 DEF Server
<1>8. dns \in Container /\ \A f \in Families : ~dns[f].open /\ dns[f].fd = -1
  BY <1>1, NothingAsked
<1>9. Own(st # "GONE", dns, srv, table)  BY <1>1, <1>6, <1>7, <1>8 DEF Own, Families
<1>10. Phase(st, dns, srv, table)
  BY <1>1, <1>7 DEF Phase, Asks, ClientMuted, AnswersAwaited
<1>11. ready \in [Fd -> SUBSET {"READ", "WRITE"}]  BY <1>1 DEF Nobody
<1>12. TypeOK
  <2>1. st \in States /\ output \in Text /\ seen \in Text /\ input \in BOOLEAN
        /\ idle \in BOOLEAN
    <3>1. st \in States  BY <1>1 DEF States
    <3>2. <<>> \in Text  BY DEF Text
    <3> QED  BY <1>1, <3>1, <3>2
  <2>2. dns \in Container /\ srv \in Server /\ table \in Table  BY <1>5, <1>7, <1>8
  <2> QED
    BY <1>1, <1>11, <2>1, <2>2
       DEF TypeOK, States, Text, Container, Header, Server, Table, Entry
<1> QED  BY <1>9, <1>10, <1>12 DEF IInv

LEMMA EveryStep ==
  ASSUME IInv, [Next]_vars
  PROVE  IInv' /\ (Kept(table') \/ ForeignClose) /\ Exhausted
<1>1. CASE UNCHANGED vars  BY <1>1, OtherTypes, QuietSteps DEF vars
<1>2. CASE Select  BY <1>2, SelectSteps
<1>3. CASE Handler  BY <1>3, HandlerSteps
<1>4. CASE Cleanup  BY <1>4, CleanupSteps
<1>5. ASSUME NEW owner \in {"server"} \cup Families, Network(owner)
      PROVE  IInv' /\ Kept(table') /\ Exhausted
  <2>1. owner \in Ours  BY DEF Ours
  <2>2. CASE Settle(owner)  BY <2>1, <2>2, LinkSteps DEF Settle
  <2>3. CASE Break(owner)  BY <2>1, <2>3, LinkSteps DEF Break
  <2>4. CASE Deliver(owner)
    <3>1. Link(owner, {"up"}, {"data"})  BY <2>4 DEF Deliver
    <3> QED  BY <2>1, <3>1, LinkSteps
  <2> QED  BY <1>5, <2>2, <2>3, <2>4 DEF Network
<1>6. ASSUME NEW f \in Families, Acknowledge(f)
      PROVE  IInv' /\ Kept(table') /\ Exhausted
  BY <1>6, LinkSteps DEF Acknowledge, Ours
<1>7. CASE Tick
  <2>1. UNCHANGED <<st, client, dns, srv, table, ready, input, output, seen>>
        /\ idle' \in BOOLEAN
    BY <1>7 DEF Tick, unmoved
  <2> QED  BY <2>1, QuietSteps
<1>8. CASE ForeignOpen  BY <1>8, ForeignOpenSteps
<1>9. CASE ForeignClose  BY <1>9, ForeignCloseSteps
<1>10. CASE Ended
  <2>1. UNCHANGED vars  BY <1>10 DEF Ended
  <2> QED  BY <1>1, <2>1
<1> QED  BY <1>1, <1>2, <1>3, <1>4, <1>5, <1>6, <1>7, <1>8, <1>9, <1>10
         DEF Next, Environment

LEMMA Inductive == Spec => []IInv
<1>1. Init => IInv  BY InitialState
<1>2. IInv /\ [Next]_vars => IInv'  BY EveryStep
<1> QED  BY <1>1, <1>2, PTL DEF Spec

\* The states of the session, its connections and the table have their types,
\* with any number of descriptors and any lists of addresses (socks5.c,
\* request.c, dns.c).
THEOREM TypeCorrect == Spec => []TypeOK
<1>1. IInv => TypeOK  BY DEF IInv
<1> QED  BY <1>1, Inductive, PTL

\* The session holds exactly the descriptors it believes open, each once, while
\* sockets are opened and closed in dns.c, response_dns.c and dns_connect.c and
\* their numbers are taken again; from DNS_CONNECT on, those of the client and
\* of the server only.
THEOREM OwnedOnce == Spec => []DescriptorsOwned
<1>1. IInv => DescriptorsOwned
  <2> SUFFICES ASSUME IInv  PROVE DescriptorsOwned
    OBVIOUS
  <2>1. \A fd \in Fd :
          /\ table[fd].owner = "client" <=> (st # "GONE" /\ fd = client)
          /\ \A f \in Families : table[fd].owner = f <=> (dns[f].open /\ dns[f].fd = fd)
          /\ table[fd].owner = "server" <=> (srv.open /\ srv.fd = fd)
    BY DEF IInv, Own
  <2>2. st \in {"DNS_CONNECT", "REQUEST_SUCCESSFUL", "FORWARDING"} =>
          srv.open /\ \A f \in Families : ~dns[f].open
    BY DEF IInv, Phase, Asks, BothClosed
  <2> QED  BY <2>1, <2>2 DEF DescriptorsOwned
<1> QED  BY <1>1, Inductive, PTL

\* No handler, arrival or clean-up of the session closes, takes or watches a
\* descriptor of another session, whoever had its number before.
THEOREM OthersKept == Spec => OthersUntouched
<1>1. IInv /\ [Next]_vars =>
        [\A fd \in Fd : table[fd].owner = "foreign" =>
            table'[fd] = table[fd] \/ ForeignClose]_vars
  BY EveryStep DEF Kept
<1> QED  BY <1>1, Inductive, PTL DEF Spec, OthersUntouched

\* dns_connect_on_write gives up only with both lists of addresses used up.
THEOREM NoneUntried == Spec => AllTried
<1>1. IInv /\ [Next]_vars =>
        [st = "DNS_CONNECT" /\ st' = "REQUEST_ERROR" =>
            \A f \in Families : dns'[f].left = 0]_vars
  BY EveryStep DEF Exhausted
<1> QED  BY <1>1, Inductive, PTL DEF Spec, AllTried
-----------------------------------------------------------------------------
(* The reply.                                                              *)

Before == {"REQUEST", "GENERATE_DNS_QUERY", "RESPONSE_DNS", "DNS_CONNECT"}
None(text) == RepliesIn(text) = {}
Once(text) == \E i : RepliesIn(text) = {i}

\* Until DNS_CONNECT ends there is no reply, behind it there is one, and only
\* sending it leads on: the server is not watched meanwhile.
Answer ==
  /\ st \in Before => None(output) /\ None(seen)
  /\ st = "REQUEST_SUCCESSFUL" =>
       Once(output) /\ None(seen) /\ table[srv.fd].ops = {}
  /\ st = "FORWARDING" => Once(seen)

\* The session does not get on, and no reply is behind out.
Quiet(out) ==
  /\ st' \notin {"REQUEST_SUCCESSFUL", "FORWARDING"}
  /\ st' \in Before => st \in Before /\ output' = out

LEMMA TextFacts ==
  ASSUME NEW text \in Text
  PROVE  /\ text \o <<>> = text /\ None(<<>>)
         /\ None(text) => None(Append(text, "data")) /\ Once(text \o <<"reply">>)
<1>1. text \o <<>> = text /\ None(<<>>)  BY DEF Text, None, RepliesIn
<1>2. ASSUME None(text)  PROVE None(Append(text, "data"))
  BY <1>2 DEF Text, None, RepliesIn
<1>3. ASSUME None(text)  PROVE Once(text \o <<"reply">>)
  <2> DEFINE u == text \o <<"reply">>
  <2>1. /\ Len(u) = Len(text) + 1 /\ u[Len(text) + 1] = "reply"
        /\ \A i \in 1 .. Len(text) : u[i] = text[i] /\ Len(text) \in Nat
    BY DEF Text
  <2> HIDE DEF u
  <2>2. Len(text) \in Nat  BY DEF Text
  <2>3. RepliesIn(u) = {Len(text) + 1}  BY <1>3, <2>1, <2>2 DEF None, RepliesIn
  <2> QED  BY <2>3 DEF Once, u
<1> QED  BY <1>1, <1>2, <1>3

\* What is sent behind texts without a reply, or brings the only one.
LEMMA SentFacts ==
  ASSUME NEW text \in Text, NEW out \in Text, None(text)
  PROVE  /\ None(out) => None(text \o out)
         /\ Once(out) => Once(text \o out)
<1> DEFINE u == text \o out
           n == Len(text)
<1>1. /\ n \in Nat /\ Len(out) \in Nat /\ Len(u) = n + Len(out)
      /\ \A i \in 1 .. n : u[i] = text[i]
      /\ \A i \in 1 .. Len(out) : u[n + i] = out[i]
  BY DEF Text
<1> HIDE DEF u, n
<1>2. \A i \in 1 .. n : u[i] # "reply"  BY <1>1 DEF None, RepliesIn, n
<1>3. ASSUME NEW i \in RepliesIn(u)  PROVE i - n \in RepliesIn(out)
  <2>1. i \in 1 .. n + Len(out) /\ u[i] = "reply"  BY <1>1, <1>3 DEF RepliesIn
  <2>2. i \notin 1 .. n  BY <1>2, <2>1
  <2>3. i - n \in 1 .. Len(out) /\ n + (i - n) = i  BY <1>1, <2>1, <2>2
  <2>4. out[i - n] = "reply"  BY <1>1, <2>1, <2>3
  <2> QED  BY <2>3, <2>4 DEF RepliesIn
<1>4. ASSUME None(out)  PROVE None(u)  BY <1>3, <1>4 DEF None
<1>5. ASSUME Once(out)  PROVE Once(u)
  <2>1. PICK k : RepliesIn(out) = {k}  BY <1>5 DEF Once
  <2>2. k \in 1 .. Len(out) /\ out[k] = "reply"  BY <2>1 DEF RepliesIn
  <2>3. n + k \in RepliesIn(u)  BY <1>1, <2>2 DEF RepliesIn
  <2>4. ASSUME NEW i \in RepliesIn(u)  PROVE i = n + k
    <3>1. i - n = k  BY <1>3, <2>1
    <3>2. i \in Int  BY DEF RepliesIn
    <3> QED  BY <1>1, <3>1, <3>2
  <2> QED  BY <2>3, <2>4 DEF Once
<1> QED  BY <1>4, <1>5 DEF u

LEMMA QuietKeeps ==
  ASSUME Answer, NEW out, Quiet(out), None(output) => None(out), seen' = seen
  PROVE  Answer'
BY DEF Answer, Quiet

LEMMA EnterQuiet ==
  ASSUME NEW d, NEW s, NEW t, NEW out \in Text, NEW next, Enter(next, d, s, t, out),
         st \in Before \/ next \notin Before,
         next \notin {"REQUEST_SUCCESSFUL", "FORWARDING"}
  PROVE  Quiet(out)
<1>1. st' = next /\ output' = out \o Replies(next)  BY DEF Enter
<1>2. next \in Before => Replies(next) = <<>>  BY DEF Before, Replies
<1> QED  BY <1>1, <1>2, TextFacts DEF Quiet

LEMMA StayQuiet ==
  ASSUME NEW d, NEW s, NEW t, NEW out, Stay(d, s, t, out),
         st \notin {"REQUEST_SUCCESSFUL", "FORWARDING"}
  PROVE  Quiet(out)
BY DEF Stay, Quiet

LEMMA EndQuiet == EndSession => \A out : Quiet(out)
BY DEF EndSession, Quiet, Before

LEMMA GiveWayQuiet ==
  ASSUME NEW me, NEW d, NEW t, NEW out \in Text, st = "RESPONSE_DNS", GiveWay(me, d, t, out)
  PROVE  Quiet(out)
<1>1. \/ Enter("DNS_CONNECT", d, srv, t, out)
      \/ Enter("REQUEST_ERROR", d, srv, t, out)
      \/ Stay([d EXCEPT ![me].buf = "none", ![me].left = 0], srv, t, out)
  BY DEF GiveWay
<1> QED  BY <1>1, EnterQuiet, StayQuiet DEF Before

\* Of the states' on_write, only those of DNS_CONNECT and REQUEST_SUCCESSFUL
\* lead towards FORWARDING.
LEMMA OnWriteQuiet ==
  ASSUME NEW fd, NEW d, NEW t, NEW out \in Text, OnWrite(fd, d, t, out), st \in States,
         st \notin {"DNS_CONNECT", "REQUEST_SUCCESSFUL", "FORWARDING"}
  PROVE  Quiet(out)
<1>1. CASE st = "GENERATE_DNS_QUERY"
  <2>1. GenerateOnWrite(fd, d, t, out)  BY <1>1 DEF OnWrite
  <2>2. \E e, u : \/ Enter("REQUEST_ERROR", e, srv, u, out)
                  \/ Enter("RESPONSE_DNS", e, srv, u, out)
                  \/ Stay(e, srv, u, out)
    BY <2>1 DEF GenerateOnWrite
  <2> QED  BY <1>1, <2>2, EnterQuiet, StayQuiet DEF Before
<1>2. CASE st = "RESPONSE_DNS"
  <2>1. ResponseOnWrite(fd, d, t, out)  BY <1>2 DEF OnWrite
  <2>2. \E e, u : Enter("REQUEST_ERROR", e, srv, u, out) \/ Stay(e, srv, u, out)
    BY <2>1 DEF ResponseOnWrite
  <2> QED  BY <1>2, <2>2, EnterQuiet, StayQuiet DEF Before
<1>3. CASE st = "REQUEST_ERROR"
  <2>1. Enter("FINISH", d, srv, t, out)  BY <1>3 DEF OnWrite
  <2> QED  BY <2>1, EnterQuiet DEF Before
<1>4. CASE st \in {"REQUEST", "FINISH", "GONE"}
  <2>1. Stay(d, srv, t, out)  BY <1>4 DEF OnWrite
  <2> QED  BY <1>4, <2>1, StayQuiet
<1> QED  BY <1>1, <1>2, <1>3, <1>4 DEF States

LEMMA ResolveQuiet ==
  ASSUME IInv, Resolve
  PROVE  Quiet(output)
<1>1. PICK fd \in Fd : Event(fd, "client", "READ")  BY DEF Resolve
<1>2. st \notin {"GONE", "FORWARDING"} /\ "READ" \in table[client].ops /\ output \in Text
  BY <1>1, EventFacts, Types DEF Ours
<1>3. st = "REQUEST"  BY <1>2 DEF IInv, Phase, ClientMuted
<1>4. \E d, t : \/ Enter("REQUEST_ERROR", d, srv, t, output)
                \/ Enter("GENERATE_DNS_QUERY", d, srv, t, output)
  BY DEF Resolve
<1> QED  BY <1>2, <1>3, <1>4, EnterQuiet DEF Before

LEMMA DnsWriteQuiet ==
  ASSUME IInv, NEW f \in Families, DnsWrite(f)
  PROVE  Quiet(output)
<1>1. PICK fd \in Fd :
        /\ Event(fd, f, "WRITE")
        /\ EndSession \/ \E d, t : OnWrite(fd, d, t, output)
  BY DEF DnsWrite
<1>2. /\ st \notin {"GONE", "FORWARDING"} /\ dns[f].open
      /\ output \in Text /\ st \in States
  BY <1>1, EventFacts, Types DEF Ours
<1>3. st \notin {"DNS_CONNECT", "REQUEST_SUCCESSFUL"}
  BY <1>2 DEF IInv, Phase, Asks, BothClosed
<1> QED  BY <1>1, <1>2, <1>3, EndQuiet, OnWriteQuiet

LEMMA DnsReadQuiet ==
  ASSUME IInv, NEW f \in Families, DnsRead(f)
  PROVE  Quiet(output)
<1>1. PICK fd \in Fd :
        /\ Event(fd, f, "READ")
        /\ \/ BrokenAnswer(fd)
           \/ BadAnswer(fd)
           \/ GoodAnswer(fd)
           \/ Stay(dns, srv, [table EXCEPT ![fd].link = "up"], output)
  BY DEF DnsRead
<1>2. st = "RESPONSE_DNS" /\ output \in Text  BY <1>1, AnswerInResponse, Types
<1>3. CASE BrokenAnswer(fd)
  <2>1. \E me, d, t : GiveWay(me, d, t, output)  BY <1>3 DEF BrokenAnswer
  <2> QED  BY <1>2, <2>1, GiveWayQuiet
<1>4. CASE BadAnswer(fd)
  <2>1. \E me, d, t : GiveWay(me, d, t, output)  BY <1>4 DEF BadAnswer
  <2> QED  BY <1>2, <2>1, GiveWayQuiet
<1>5. CASE GoodAnswer(fd)
  <2>1. \E d, s, t : \/ Enter("DNS_CONNECT", d, s, t, output)
                     \/ Enter("REQUEST_ERROR", d, s, t, output)
                     \/ Stay(d, s, t, output)
    BY <1>5 DEF GoodAnswer
  <2> QED  BY <1>2, <2>1, EnterQuiet, StayQuiet DEF Before
<1>6. CASE Stay(dns, srv, [table EXCEPT ![fd].link = "up"], output)
  BY <1>2, <1>6, StayQuiet
<1> QED  BY <1>1, <1>3, <1>4, <1>5, <1>6

\* Before FORWARDING is entered the server is registered; its interest decides.
LEMMA ServerRegistered ==
  ASSUME IInv, st = "REQUEST_SUCCESSFUL"
  PROVE  srv.fd \in Fd /\ table[srv.fd].owner = "server"
BY DEF IInv, Own, Phase, Asks

LEMMA ServerReadAnswer ==
  ASSUME IInv, Answer, ServerRead
  PROVE  Answer'
<1>1. PICK fd \in Fd :
        /\ Event(fd, "server", "READ")
        /\ \/ EndSession
           \/ /\ st = "RESPONSE_DNS"
              /\ \E me, d, t : GiveWay(me, d, t, Append(output, "data"))
           \/ \E d, s, t : Stay(d, s, t, Append(output, "data"))
  BY DEF ServerRead
<1>2. /\ st \notin {"GONE", "FORWARDING"} /\ srv.fd = fd /\ "READ" \in table[fd].ops
      /\ output \in Text
  BY <1>1, EventFacts, Types DEF Ours
<1>3. st # "REQUEST_SUCCESSFUL" /\ seen' = seen  BY <1>2 DEF Answer, ServerRead
<1>4. Append(output, "data") \in Text  BY <1>2 DEF Text
<1>5. Quiet(Append(output, "data"))
  BY <1>1, <1>2, <1>3, <1>4, EndQuiet, GiveWayQuiet, StayQuiet
<1>6. None(output) => None(Append(output, "data"))  BY <1>2, TextFacts
<1> QED  BY <1>3, <1>5, <1>6, QuietKeeps

\* The only way into REQUEST_SUCCESSFUL: the connection is up.
LEMMA ConnectAnswer ==
  ASSUME IInv, Answer, st = "DNS_CONNECT", NEW fd, ConnectOnWrite(fd, dns, table, output),
         seen' = seen
  PROVE  Answer'
<1>1. output \in Text /\ None(output) /\ None(seen)  BY Types DEF Answer, Before
<1>2. CASE NextAddress(dns, Closed(table, fd), output)
  <2>1. \E d, s, t : Enter("REQUEST_ERROR", d, s, t, output) \/ Stay(d, s, t, output)
    BY <1>2 DEF NextAddress, Opened
  <2>2. Quiet(output)  BY <1>1, <2>1, EnterQuiet, StayQuiet DEF Before
  <2> QED  BY <2>2, QuietKeeps
<1>3. CASE Enter("REQUEST_SUCCESSFUL", NoContainer, srv, table, output)
  <2>1. /\ st' = "REQUEST_SUCCESSFUL" /\ srv' = srv /\ output' = output \o <<"reply">>
        /\ table' = Watch(Watch(table, client, {"WRITE"}), srv.fd, {})
    BY <1>3 DEF Enter, Arrived, Replies
  <2>2. srv.fd \in Fd /\ table[srv.fd].owner = "server" /\ table \in Table /\ client \in Fd
    BY Types DEF IInv, Own, Phase, Asks
  <2> DEFINE t == Watch(table, client, {"WRITE"})
  <2>3. t \in Table /\ t[srv.fd].owner = "server"  BY <2>2, WatchFacts
  <2> HIDE DEF t
  <2>4. Watch(t, srv.fd, {})[srv.fd].ops = {}  BY <2>2, <2>3, WatchFacts
  <2>5. table'[srv'.fd].ops = {}  BY <2>1, <2>4 DEF t
  <2>6. Once(output') /\ None(seen')
    <3>1. Once(output \o <<"reply">>)  BY <1>1, TextFacts
    <3> QED  BY <1>1, <2>1, <3>1
  <2> QED  BY <2>1, <2>5, <2>6 DEF Answer, Before
<1> QED  BY <1>2, <1>3 DEF ConnectOnWrite

LEMMA ServerWriteAnswer ==
  ASSUME IInv, Answer, ServerWrite
  PROVE  Answer'
<1>1. PICK fd \in Fd :
        /\ Event(fd, "server", "WRITE")
        /\ EndSession \/ (st \notin {"REQUEST_ERROR", "FINISH"} /\ OnWrite(fd, dns, table, output))
  BY DEF ServerWrite, OnWriteOrClose
<1>2. /\ st \notin {"GONE", "FORWARDING"} /\ srv.fd = fd /\ "WRITE" \in table[fd].ops
      /\ output \in Text /\ st \in States
  BY <1>1, EventFacts, Types DEF Ours
<1>3. st # "REQUEST_SUCCESSFUL" /\ seen' = seen  BY <1>2 DEF Answer, ServerWrite
<1>4. CASE EndSession  BY <1>3, <1>4, EndQuiet, QuietKeeps
<1>5. CASE OnWrite(fd, dns, table, output) /\ st # "DNS_CONNECT"
  BY <1>2, <1>3, <1>5, OnWriteQuiet, QuietKeeps
<1>6. CASE OnWrite(fd, dns, table, output) /\ st = "DNS_CONNECT"
  <2>1. ConnectOnWrite(fd, dns, table, output)  BY <1>6 DEF OnWrite
  <2> QED  BY <1>3, <1>6, <2>1, ConnectAnswer
<1> QED  BY <1>1, <1>4, <1>5, <1>6

\* request_successful_on_write: what was sent last held the reply.
LEMMA ClientWriteAnswer ==
  ASSUME IInv, Answer, ClientWrite
  PROVE  Answer'
<1>1. PICK fd \in Fd :
        /\ Event(fd, "client", "WRITE")
        /\ EndSession \/ (st \notin {"REQUEST_ERROR", "FINISH"} /\ OnWrite(fd, dns, table, <<>>))
  BY DEF ClientWrite, OnWriteOrClose
<1>2. /\ st \notin {"GONE", "FORWARDING"} /\ "WRITE" \in table[client].ops /\ st \in States
      /\ output \in Text /\ seen \in Text /\ seen' = seen \o output
  BY <1>1, EventFacts, Types, OtherTypes DEF Ours, ClientWrite
<1>3. st \notin {"GENERATE_DNS_QUERY", "RESPONSE_DNS", "DNS_CONNECT"}
  BY <1>2 DEF IInv, Phase, ClientMuted
<1>4. CASE EndSession
  BY <1>4 DEF EndSession, Answer, Before
<1>5. CASE OnWrite(fd, dns, table, <<>>) /\ st = "REQUEST"
  <2>1. st' = "REQUEST" /\ output' = <<>>  BY <1>5 DEF OnWrite, Stay
  <2>2. None(output') /\ None(seen')
    BY <1>2, <1>5, <2>1, TextFacts, SentFacts DEF Answer, Before
  <2> QED  BY <2>1, <2>2 DEF Answer
<1>6. CASE OnWrite(fd, dns, table, <<>>) /\ st = "REQUEST_SUCCESSFUL"
  <2>1. st' = "FORWARDING"  BY <1>6 DEF OnWrite, Enter
  <2>2. Once(seen')  BY <1>2, <1>6, SentFacts DEF Answer
  <2> QED  BY <2>1, <2>2 DEF Answer, Before
<1> QED  BY <1>1, <1>2, <1>3, <1>4, <1>5, <1>6 DEF States

\* The connections change, or others' descriptors; the session does not.
LEMMA UnmovedAnswer ==
  ASSUME IInv, Answer, UNCHANGED <<st, srv, output, seen>>,
         \A fd \in Fd : table[fd].owner = "server" => table'[fd].ops = table[fd].ops
  PROVE  Answer'
BY ServerRegistered DEF Answer

LEMMA LinkAnswer ==
  ASSUME IInv, Answer, NEW owner, NEW from, NEW to, Link(owner, from, to)
  PROVE  Answer'
<1>1. PICK fd \in Fd, link \in to : table' = [table EXCEPT ![fd].link = link]
  BY DEF Link
<1>2. table \in Table  BY Types
<1>3. ASSUME NEW g \in Fd  PROVE table'[g].ops = table[g].ops
  <2>1. table[g] \in Entry  BY <1>2 DEF Table
  <2>2. CASE g = fd
    <3>1. table'[g] = [table[g] EXCEPT !.link = link]  BY <1>1, <1>2, <2>2 DEF Table
    <3> QED  BY <2>1, <3>1 DEF Entry
  <2>3. CASE g # fd  BY <1>1, <1>2, <2>3 DEF Table
  <2> QED  BY <2>2, <2>3
<1> QED  BY <1>3, UnmovedAnswer DEF Link, unmoved

LEMMA ForeignAnswer ==
  ASSUME IInv, Answer, ForeignOpen \/ ForeignClose
  PROVE  Answer'
<1>1. table \in Table  BY Types
<1>2. CASE ForeignOpen
  <2>1. HasRoom(table, 1) /\ table' = [table EXCEPT ![Lowest(table)] = Foreign]
        /\ UNCHANGED <<st, srv, output, seen>>
    BY <1>2 DEF ForeignOpen, unmoved
  <2>2. Lowest(table) \in Fd /\ table[Lowest(table)].owner = "free"
    BY <1>1, <2>1, RoomFacts, LowestFree
  <2> QED  BY <1>1, <2>1, <2>2, UnmovedAnswer DEF Table
<1>3. CASE ForeignClose
  <2>1. PICK fd \in Fd : table[fd].owner = "foreign" /\ table' = [table EXCEPT ![fd] = Free]
    BY <1>3 DEF ForeignClose
  <2>2. UNCHANGED <<st, srv, output, seen>>  BY <1>3 DEF ForeignClose, unmoved
  <2> QED  BY <1>1, <2>1, <2>2, UnmovedAnswer DEF Table
<1> QED  BY <1>2, <1>3

LEMMA AnswerStep ==
  ASSUME IInv, Answer, [Next]_vars
  PROVE  Answer'
<1>1. ASSUME UNCHANGED <<st, srv, table, output, seen>>  PROVE Answer'
  BY <1>1, UnmovedAnswer
<1>2. CASE UNCHANGED vars \/ Select \/ Skip \/ Tick \/ Ended
  BY <1>1, <1>2 DEF vars, Select, Skip, Tick, Ended, unmoved
<1>3. CASE Resolve  BY <1>3, ResolveQuiet, QuietKeeps DEF Resolve
<1>4. ASSUME NEW f \in Families, DnsWrite(f)  PROVE Answer'
  BY <1>4, DnsWriteQuiet, QuietKeeps DEF DnsWrite
<1>5. ASSUME NEW f \in Families, DnsRead(f)  PROVE Answer'
  BY <1>5, DnsReadQuiet, QuietKeeps DEF DnsRead
<1>6. CASE ServerWrite  BY <1>6, ServerWriteAnswer
<1>7. CASE ServerRead  BY <1>7, ServerReadAnswer
<1>8. CASE ClientWrite  BY <1>8, ClientWriteAnswer
<1>9. CASE ClientLost \/ Cleanup
  BY <1>9, EndQuiet, QuietKeeps DEF ClientLost, Cleanup
<1>10. ASSUME NEW owner \in {"server"} \cup Families, Network(owner)  PROVE Answer'
  BY <1>10, LinkAnswer DEF Network, Settle, Break, Deliver
<1>11. ASSUME NEW f \in Families, Acknowledge(f)  PROVE Answer'
  BY <1>11, LinkAnswer DEF Acknowledge
<1>12. CASE ForeignOpen \/ ForeignClose  BY <1>12, ForeignAnswer
<1> QED
  BY <1>2, <1>3, <1>4, <1>5, <1>6, <1>7, <1>8, <1>9, <1>10, <1>11, <1>12
  DEF Next, Handler, Environment

\* Whoever is let into FORWARDING (request_successful_on_write) was sent the
\* reply, and once, whatever the server said before it.
THEOREM RepliedOnce == Spec => []OneReply
<1>1. Init => Answer
  <2> SUFFICES ASSUME Init  PROVE Answer
    OBVIOUS
  <2>1. st = "REQUEST" /\ output = <<>> /\ seen = <<>>  BY DEF Init
  <2>2. None(<<>>)  BY DEF None, RepliesIn
  <2> QED  BY <2>1, <2>2 DEF Answer
<1>2. IInv /\ Answer /\ [Next]_vars => Answer'  BY AnswerStep
<1>3. Answer => OneReply
  <2> SUFFICES ASSUME Answer, st = "FORWARDING"  PROVE Cardinality(RepliesIn(seen)) = 1
    BY DEF OneReply
  <2>1. PICK i : RepliesIn(seen) = {i}  BY DEF Answer, Once
  <2> QED  BY <2>1, FS_Singleton
<1> QED  BY <1>1, <1>2, <1>3, Inductive, PTL DEF Spec
-----------------------------------------------------------------------------
(***************************************************************************)
(* The types of the two machines, whatever bytes they are given            *)
(***************************************************************************)

HttpStates == {"STATUS_CODE_FIRST", "CONTENT_LENGTH", "NUMBER", "FINISH", "SECOND_LINE",
               "LAST_CHARACTER", "PAYLOAD_DELIMITER", "DONE", "ERROR"}
HttpParser == [state : HttpStates, k : 0 .. 3]

Fixed == {"TRANSACTION", "FLAGS", "QUESTIONS_HIGH", "QUESTIONS_LOW", "ANSWERS_HIGH", "ANSWERS_LOW"}
Reading == {"AUTHORITY", "ADITIONAL", "QUERIES_NAME", "QUERIES_POINTER", "QUERIES_LABEL", "QUERIES_TYPE",
            "QUERIES_CLASS", "ANSWERS_NAME", "REFERENCE", "ANSWERS_LABEL", "TYPE_HIGH", "TYPE_LOW",
            "ANSWERS_CLASS", "ANSWERS_TTL", "LENGTH_HIGH", "LENGTH_LOW"}
DnsParser == [state : Fixed \cup Reading \cup {"CNAME", "ADDRESS", "DONE"}, written : Byte, questions : Byte,
              answers : Byte, room : Byte, type : Byte, len : Byte, counter : Byte, list : Seq(Seq(Byte))]

\* The list is shorter than what is still announced until the last record that counts.
Fits(p) ==
  /\ p.state \in Fixed => p.list = <<>> /\ p.answers = 0
  /\ p.state \in Reading => Len(p.list) < p.answers
  /\ p.state = "ADDRESS" => Len(p.list) > 0
  /\ Len(p.list) <= p.answers /\ p.answers <= p.room
  /\ p.state \in {"QUERIES_LABEL", "ANSWERS_LABEL"} => p.written > 0
  /\ p.state = "ANSWERS_TTL" => p.written <= 3
  /\ p.state = "ADDRESS" => p.counter > 0

LEMMA ByteRange == \A x : x \in Byte <=> x \in Int /\ 0 <= x /\ x <= 255
BY DEF Byte

LEMMA SearchTyped ==
  ASSUME NEW h \in HttpParser, NEW b \in Byte, NEW string, string \in {Status200, ContentLength, EmptyLine},
         NEW found \in HttpStates
  PROVE  Search(h, b, string, found) \in HttpParser
<1>0. Len(string) \in 2 .. 4
  <2>1. Len(Status200) = 2 /\ Len(ContentLength) = 2 /\ Len(EmptyLine) = 4
    BY DEF Status200, ContentLength, EmptyLine
  <2> QED  BY <2>1
<1>1. PICK k : k = Compare(string, h.k, b)  OBVIOUS
<1>2. h.k \in 0 .. 3 /\ h.state \in HttpStates  BY DEF HttpParser
<1>3. (k = h.k + 1 /\ h.k <= Len(string) - 1) \/ k = NEQ
  BY <1>0, <1>1, <1>2 DEF Compare
<1>4. k # Len(string) => Restarted(k) \in 0 .. 3
  <2>1. PICK l \in 2 .. 4 : l = Len(string)  BY <1>0
  <2>2. (k = h.k + 1 /\ h.k <= l - 1) \/ k = -1  BY <1>3, <2>1 DEF NEQ
  <2>3. k # l => Restarted(k) \in 0 .. 3  BY <1>2, <2>2 DEF Restarted, NEQ
  <2> QED  BY <2>1, <2>3
<1>5. Search(h, b, string, found) = IF k = Len(string) THEN [state |-> found, k |-> 0] ELSE [h EXCEPT !.k = Restarted(k)]
  BY <1>1 DEF Search, EQ
<1> QED  BY <1>4, <1>5 DEF HttpParser

LEMMA HttpTyped ==
  ASSUME NEW h \in HttpParser, h.state \notin {"DONE", "ERROR"}, NEW b \in Byte
  PROVE  HttpFeed(h, b) \in HttpParser
<1>1. h.state \in HttpStates /\ h.k \in 0 .. 3  BY DEF HttpParser
<1>2. CASE h.state = "STATUS_CODE_FIRST"
  <2>1. HttpFeed(h, b) = Search(h, b, Status200, "CONTENT_LENGTH")  BY <1>2 DEF HttpFeed
  <2> QED  BY <2>1, SearchTyped DEF HttpStates
<1>3. CASE h.state = "CONTENT_LENGTH"
  <2>1. HttpFeed(h, b) = Search(h, b, ContentLength, "NUMBER")  BY <1>3 DEF HttpFeed
  <2> QED  BY <2>1, SearchTyped DEF HttpStates
<1>4. CASE h.state = "PAYLOAD_DELIMITER"
  <2>1. HttpFeed(h, b) = Search(h, b, EmptyLine, "DONE")  BY <1>4 DEF HttpFeed
  <2> QED  BY <2>1, SearchTyped DEF HttpStates
<1>5. CASE h.state \in {"NUMBER", "FINISH", "SECOND_LINE", "LAST_CHARACTER"}
  BY <1>5 DEF HttpFeed, HttpParser, HttpStates
<1> QED  BY <1>1, <1>2, <1>3, <1>4, <1>5 DEF HttpStates

LEMMA NextTyped ==
  ASSUME NEW p \in DnsParser, Len(p.list) <= p.answers, p.answers <= p.room
  PROVE  NextRecord(p) \in DnsParser /\ Fits(NextRecord(p)) /\ NextRecord(p).state \in {"ANSWERS_NAME", "DONE"}
<1>1. p.list \in Seq(Seq(Byte)) /\ Len(p.list) \in Nat /\ p.answers \in Nat
  <2>1. p.list \in Seq(Seq(Byte)) /\ p.answers \in Byte  BY DEF DnsParser
  <2>2. Len(p.list) \in Nat  BY <2>1, LenProperties
  <2> QED  BY <2>1, <2>2, ByteRange
<1>2. CASE Len(p.list) # p.answers
  <2>1. NextRecord(p) = [p EXCEPT !.state = "ANSWERS_NAME"]  BY <1>2 DEF NextRecord
  <2>2. NextRecord(p) \in DnsParser  BY <2>1 DEF DnsParser, Reading
  <2> QED  BY <1>1, <1>2, <2>1, <2>2 DEF Fits, DnsParser, Fixed, Reading
<1>3. CASE Len(p.list) = p.answers
  <2>1. NextRecord(p) = [p EXCEPT !.state = "DONE"]  BY <1>3 DEF NextRecord
  <2>2. NextRecord(p) \in DnsParser  BY <2>1 DEF DnsParser
  <2> QED  BY <1>1, <1>3, <2>1, <2>2 DEF Fits, DnsParser, Fixed, Reading
<1> QED  BY <1>2, <1>3

LEMMA DnsTyped ==
  ASSUME NEW p \in DnsParser, Fits(p), p.state # "DONE", NEW b \in Byte
  PROVE  DnsFeed(p, b) \in DnsParser /\ Fits(DnsFeed(p, b))
<1>1. p.list \in Seq(Seq(Byte)) /\ Len(p.list) \in Nat /\ p.answers \in Nat /\ p.answers \in Byte /\ p.room \in Byte
      /\ p.written \in Byte /\ p.len \in Byte /\ p.counter \in Byte
      /\ 0 \in Byte /\ 1 \in Byte
  <2>1. p.list \in Seq(Seq(Byte)) /\ p.answers \in Byte  BY DEF DnsParser
  <2>2. Len(p.list) \in Nat  BY <2>1, LenProperties
  <2> QED  BY SMTT(40), <2>1, <2>2, ByteRange DEF DnsParser
<1>2. CASE p.state \in {"TRANSACTION", "FLAGS", "AUTHORITY", "ADITIONAL", "QUERIES_TYPE", "QUERIES_CLASS", "ANSWERS_CLASS"}
  <2>1. DOMAIN After = {"TRANSACTION", "FLAGS", "AUTHORITY", "ADITIONAL", "QUERIES_TYPE", "QUERIES_CLASS", "ANSWERS_CLASS"}
    BY DEF After
  <2>2. DnsFeed(p, b) = TwoBytes(p)  BY <1>2, <2>1 DEF DnsFeed
  <2>3. CASE p.written = 0
    <3>1. DnsFeed(p, b) = [p EXCEPT !.written = 1]  BY <2>2, <2>3 DEF TwoBytes
    <3>2. DnsFeed(p, b) \in DnsParser  BY <1>1, <3>1 DEF DnsParser
    <3> QED  BY <1>1, <1>2, <3>1, <3>2 DEF Fits, DnsParser, Fixed, Reading
  <2>4. CASE p.written # 0
    <3>1. PICK next : next = After[p.state]  OBVIOUS
    <3>2. DnsFeed(p, b) = [p EXCEPT !.written = 0, !.state = next]  BY <2>2, <2>4, <3>1 DEF TwoBytes
    <3>3. /\ p.state = "TRANSACTION" => next = "FLAGS"
          /\ p.state = "FLAGS" => next = "QUESTIONS_HIGH"
          /\ p.state = "AUTHORITY" => next = "ADITIONAL"
          /\ p.state = "ADITIONAL" => next = "QUERIES_NAME"
          /\ p.state = "QUERIES_TYPE" => next = "QUERIES_CLASS"
          /\ p.state = "QUERIES_CLASS" => next = "ANSWERS_NAME"
          /\ p.state = "ANSWERS_CLASS" => next = "ANSWERS_TTL"
      BY <3>1 DEF After
    <3>4. next \in {"FLAGS", "QUESTIONS_HIGH", "ADITIONAL", "QUERIES_NAME", "QUERIES_CLASS", "ANSWERS_NAME", "ANSWERS_TTL"}
      BY <1>2, <3>3
    <3>5. DnsFeed(p, b) \in DnsParser  BY ZenonT(40), <1>1, <3>2, <3>4 DEF DnsParser, Fixed, Reading
    <3> QED  BY <1>1, <1>2, <3>2, <3>3, <3>5 DEF Fits, DnsParser, Fixed, Reading
  <2> QED  BY <2>3, <2>4
<1>3. CASE p.state \in {"QUESTIONS_HIGH", "QUESTIONS_LOW", "ANSWERS_HIGH", "ANSWERS_LOW"}
  <2>0. p.list = <<>> /\ Len(p.list) = 0 /\ p.answers = 0  BY <1>3 DEF Fits, Fixed
  <2>1. CASE p.state = "QUESTIONS_HIGH"
    <3>1. DnsFeed(p, b) = [p EXCEPT !.state = "QUESTIONS_LOW"]  BY <2>1 DEF DnsFeed, After
    <3> QED  BY <1>1, <2>0, <2>1, <3>1 DEF Fits, DnsParser, Fixed, Reading
  <2>2. CASE p.state = "QUESTIONS_LOW"
    <3>1. DnsFeed(p, b) = [p EXCEPT !.questions = b, !.state = "ANSWERS_HIGH"]  BY <2>2 DEF DnsFeed, After
    <3> QED  BY ZenonT(40), <1>1, <2>0, <2>2, <3>1 DEF Fits, DnsParser, Fixed, Reading
  <2>3. CASE p.state = "ANSWERS_HIGH"
    <3>1. DnsFeed(p, b) = [p EXCEPT !.state = "ANSWERS_LOW"]  BY <2>3 DEF DnsFeed, After
    <3> QED  BY <1>1, <2>0, <2>3, <3>1 DEF Fits, DnsParser, Fixed, Reading
  <2>4. CASE p.state = "ANSWERS_LOW"
    <3>1. DnsFeed(p, b) = [p EXCEPT !.answers = b, !.room = b, !.state = IF b = 0 THEN "DONE" ELSE "AUTHORITY"]
      BY <2>4 DEF DnsFeed, After
    <3>2. DnsFeed(p, b) \in DnsParser  BY ZenonT(40), <3>1 DEF DnsParser, Reading
    <3>3. b \in Int /\ b >= 0 /\ (b # 0 => 0 < b)  BY ByteRange
    <3> QED  BY <1>1, <2>0, <2>4, <3>1, <3>2, <3>3 DEF Fits, DnsParser, Fixed, Reading
  <2> QED  BY <1>3, <2>1, <2>2, <2>3, <2>4
<1>4. CASE p.state \in {"QUERIES_NAME", "ANSWERS_NAME"}
  <2>1. PICK pointer, label, end :
          /\ DnsFeed(p, b) = Name(p, b, pointer, label, end)
          /\ pointer \in {"QUERIES_POINTER", "REFERENCE"} /\ label \in {"QUERIES_LABEL", "ANSWERS_LABEL"}
          /\ end \in {"QUERIES_TYPE", "TYPE_HIGH"}
    <3>1. CASE p.state = "QUERIES_NAME"
      <4>1. DnsFeed(p, b) = Name(p, b, "QUERIES_POINTER", "QUERIES_LABEL", "QUERIES_TYPE")  BY <3>1 DEF DnsFeed, After
      <4> QED  BY <4>1
    <3>2. CASE p.state = "ANSWERS_NAME"
      <4>1. DnsFeed(p, b) = Name(p, b, "REFERENCE", "ANSWERS_LABEL", "TYPE_HIGH")  BY <3>2 DEF DnsFeed, After
      <4> QED  BY <4>1
    <3> QED  BY <1>4, <3>1, <3>2
  <2>2. Len(p.list) < p.answers /\ p.answers <= p.room  BY <1>4 DEF Fits, Reading
  <2>3. CASE b >= 192
    <3>1. DnsFeed(p, b) = [p EXCEPT !.state = pointer]  BY <2>1, <2>3 DEF Name
    <3> QED  BY <1>1, <2>1, <2>2, <3>1 DEF Fits, DnsParser, Fixed, Reading
  <2>4. CASE b = 0
    <3>1. DnsFeed(p, b) = [p EXCEPT !.state = end]  BY <2>1, <2>4 DEF Name
    <3> QED  BY ZenonT(40), <1>1, <2>1, <2>2, <3>1 DEF Fits, DnsParser, Fixed, Reading
  <2>5. CASE b # 0 /\ ~(b >= 192)
    <3>1. DnsFeed(p, b) = [p EXCEPT !.written = b, !.state = label]  BY <2>1, <2>5 DEF Name
    <3>2. b > 0  BY <2>5, ByteRange
    <3> QED  BY ZenonT(40), <1>1, <2>1, <2>2, <3>1, <3>2 DEF Fits, DnsParser, Fixed, Reading
  <2> QED  BY <2>3, <2>4, <2>5
<1>5. CASE p.state \in {"QUERIES_POINTER", "REFERENCE", "TYPE_HIGH", "TYPE_LOW", "LENGTH_HIGH"}
  <2>2. Len(p.list) < p.answers /\ p.answers <= p.room  BY <1>5 DEF Fits, Reading
  <2>3. CASE p.state = "QUERIES_POINTER"
    <3>1. DnsFeed(p, b) = [p EXCEPT !.state = "QUERIES_TYPE"]  BY <2>3 DEF DnsFeed, After
    <3> QED  BY ZenonT(40), <1>1, <2>2, <3>1 DEF Fits, DnsParser, Fixed, Reading
  <2>4. CASE p.state = "REFERENCE"
    <3>1. DnsFeed(p, b) = [p EXCEPT !.written = 0, !.state = "TYPE_HIGH"]  BY <2>4 DEF DnsFeed, After
    <3>2. DnsFeed(p, b) \in DnsParser  BY ZenonT(40), <1>1, <3>1 DEF DnsParser, Reading
    <3> QED  BY <1>1, <2>2, <3>1, <3>2 DEF Fits, DnsParser, Fixed, Reading
  <2>5. CASE p.state = "TYPE_HIGH"
    <3>1. DnsFeed(p, b) = [p EXCEPT !.state = "TYPE_LOW"]  BY <2>5 DEF DnsFeed, After
    <3> QED  BY ZenonT(40), <1>1, <2>2, <3>1 DEF Fits, DnsParser, Fixed, Reading
  <2>6. CASE p.state = "TYPE_LOW"
    <3>1. DnsFeed(p, b) = [p EXCEPT !.type = b, !.state = "ANSWERS_CLASS"]  BY <2>6 DEF DnsFeed, After
    <3> QED  BY ZenonT(40), <1>1, <2>2, <3>1 DEF Fits, DnsParser, Fixed, Reading
  <2>7. CASE p.state = "LENGTH_HIGH"
    <3>1. DnsFeed(p, b) = [p EXCEPT !.state = "LENGTH_LOW"]  BY <2>7 DEF DnsFeed, After
    <3> QED  BY ZenonT(40), <1>1, <2>2, <3>1 DEF Fits, DnsParser, Fixed, Reading
  <2> QED  BY <1>5, <2>3, <2>4, <2>5, <2>6, <2>7
<1>6. CASE p.state \in {"QUERIES_LABEL", "ANSWERS_LABEL"}
  <2>1. PICK first \in {"QUERIES_NAME", "ANSWERS_NAME"} : DnsFeed(p, b) = Label(p, first)
    <3>1. CASE p.state = "QUERIES_LABEL"
      <4>1. DnsFeed(p, b) = Label(p, "QUERIES_NAME")  BY <3>1 DEF DnsFeed, After
      <4> QED  BY <4>1
    <3>2. CASE p.state = "ANSWERS_LABEL"
      <4>1. DnsFeed(p, b) = Label(p, "ANSWERS_NAME")  BY <3>2 DEF DnsFeed, After
      <4> QED  BY <4>1
    <3> QED  BY <1>6, <3>1, <3>2
  <2>2. Len(p.list) < p.answers /\ p.answers <= p.room /\ p.written > 0  BY <1>6 DEF Fits, Reading
  <2>3. DnsFeed(p, b) = [p EXCEPT !.written = p.written - 1, !.state = IF p.written = 1 THEN first ELSE p.state]
    BY <2>1 DEF Label
  <2>4. p.written - 1 \in Byte /\ (p.written # 1 => p.written - 1 > 0)
    <3>1. PICK x : x = p.written  OBVIOUS
    <3>2. x \in Byte /\ x > 0  BY <1>1, <2>2, <3>1
    <3>3. x - 1 \in Byte /\ (x # 1 => x - 1 > 0)  BY <3>2, ByteRange
    <3> QED  BY <3>1, <3>3
  <2>5. DnsFeed(p, b) \in DnsParser  BY ZenonT(40), <1>6, <2>3, <2>4 DEF DnsParser, Reading
  <2> QED  BY <1>1, <1>6, <2>2, <2>3, <2>4, <2>5 DEF Fits, DnsParser, Fixed, Reading
<1>7. CASE p.state = "ANSWERS_TTL"
  <2>2. Len(p.list) < p.answers /\ p.answers <= p.room /\ p.written <= 3  BY <1>7 DEF Fits, Reading
  <2>3. CASE p.written = 3
    <3>1. DnsFeed(p, b) = [p EXCEPT !.state = "LENGTH_HIGH"]  BY <1>7, <2>3 DEF DnsFeed, After
    <3> QED  BY <1>1, <2>2, <3>1 DEF Fits, DnsParser, Fixed, Reading
  <2>4. CASE p.written # 3
    <3>1. DnsFeed(p, b) = [p EXCEPT !.written = p.written + 1]  BY <1>7, <2>4 DEF DnsFeed, After
    <3>2. p.written + 1 \in Byte /\ p.written + 1 <= 3
      <4>1. PICK x : x = p.written  OBVIOUS
      <4>2. x \in Byte /\ x <= 3 /\ x # 3  BY <1>1, <2>2, <2>4, <4>1
      <4>3. x + 1 \in Byte /\ x + 1 <= 3  BY <4>2, ByteRange
      <4> QED  BY <4>1, <4>3
    <3>3. DnsFeed(p, b) \in DnsParser  BY <3>1, <3>2 DEF DnsParser
    <3> QED  BY <1>1, <1>7, <2>2, <3>1, <3>2, <3>3 DEF Fits, DnsParser, Fixed, Reading
  <2> QED  BY <2>3, <2>4
<1>8. CASE p.state = "LENGTH_LOW"
  <2>1. DnsFeed(p, b) = DataLength(p, b)  BY <1>8 DEF DnsFeed, After
  <2>2. Len(p.list) < p.answers /\ p.answers <= p.room  BY <1>8 DEF Fits, Reading
  <2>3. CASE (b = 4 /\ p.type = A) \/ (b = 16 /\ p.type = AAAA)
    <3>1. PICK list : list = Append(p.list, <<>>)  OBVIOUS
    <3>2. list \in Seq(Seq(Byte)) /\ Len(list) = Len(p.list) + 1
      <4>1. <<>> \in Seq(Byte)  BY EmptySeq
      <4> QED  BY <1>1, <3>1, <4>1, AppendProperties
    <3>3. DnsFeed(p, b) = [p EXCEPT !.state = "ADDRESS", !.counter = b, !.list = list]
      BY <2>1, <2>3, <3>1 DEF DataLength
    <3>4. b > 0  BY <2>3
    <3>5. DnsFeed(p, b) \in DnsParser  BY ZenonT(40), <3>2, <3>3 DEF DnsParser
    <3> QED  BY SMTT(40), <1>1, <2>2, <3>2, <3>3, <3>4, <3>5 DEF Fits, DnsParser, Fixed, Reading
  <2>4. CASE ~((b = 4 /\ p.type = A) \/ (b = 16 /\ p.type = AAAA))
    <3>1. DnsFeed(p, b) = [p EXCEPT !.state = "CNAME", !.len = b, !.answers = p.answers - 1]
      BY <2>1, <2>4 DEF DataLength
    <3>2. p.answers - 1 \in Byte
      <4>1. PICK x, l : x = p.answers /\ l = Len(p.list)  OBVIOUS
      <4>2. x \in Byte /\ l \in Nat /\ l < x  BY <1>1, <2>2, <4>1
      <4>3. x - 1 \in Byte  BY <4>2, ByteRange
      <4> QED  BY <4>1, <4>3
    <3>3. DnsFeed(p, b) \in DnsParser  BY ZenonT(40), <3>1, <3>2 DEF DnsParser
    <3>4. p.room \in Nat  BY <1>1, ByteRange
    <3> QED  BY <1>1, <2>2, <3>1, <3>3, <3>4 DEF Fits, DnsParser, Fixed, Reading
  <2> QED  BY <2>3, <2>4
<1>9. CASE p.state = "CNAME"
  <2>1. Len(p.list) <= p.answers /\ p.answers <= p.room  BY DEF Fits
  <2>2. DnsFeed(p, b) = IF p.len > 1 THEN [p EXCEPT !.len = p.len - 1] ELSE NextRecord(p)  BY <1>9 DEF DnsFeed, After
  <2>3. CASE p.len > 1
    <3>1. p.len - 1 \in Byte
      <4>1. PICK x : x = p.len  OBVIOUS
      <4>2. x \in Byte /\ x > 1  BY <1>1, <2>3, <4>1
      <4>3. x - 1 \in Byte  BY <4>2, ByteRange
      <4> QED  BY <4>1, <4>3
    <3>2. DnsFeed(p, b) \in DnsParser  BY <2>2, <2>3, <3>1 DEF DnsParser
    <3> QED  BY <1>1, <1>9, <2>1, <2>2, <2>3, <3>2 DEF Fits, DnsParser, Fixed, Reading
  <2>4. CASE ~(p.len > 1)
    BY <2>1, <2>2, <2>4, NextTyped
  <2> QED  BY <2>3, <2>4
<1>10. CASE p.state = "ADDRESS"
  <2>1. Len(p.list) <= p.answers /\ p.answers <= p.room /\ Len(p.list) > 0 /\ p.counter > 0  BY <1>10 DEF Fits
  <2>2. PICK n \in Nat : n = Len(p.list) /\ n > 0  BY <1>1, <2>1
  <2>3. p.list[n] \in Seq(Byte)
    <3>1. n \in 1 .. Len(p.list)  BY <2>2
    <3> QED  BY <1>1, <3>1, ElementOfSeq
  <2>4. PICK list : list = [p.list EXCEPT ![n] = Append(p.list[n], b)]  OBVIOUS
  <2>5. list \in Seq(Seq(Byte)) /\ Len(list) = n
    <3>1. Append(p.list[n], b) \in Seq(Byte)  BY <2>3, AppendProperties
    <3>2. n \in 1 .. Len(p.list)  BY <2>2
    <3> QED  BY <1>1, <2>2, <2>4, <3>1, <3>2, ExceptSeq
  <2>6. PICK q : q = [p EXCEPT !.counter = p.counter - 1, !.list = list]  OBVIOUS
  <2>7. DnsFeed(p, b) = IF q.counter = 0 THEN NextRecord(q) ELSE q
    <3>1. DnsFeed(p, b) = AddressByte(p, b)  BY <1>10 DEF DnsFeed, After
    <3>2. [p EXCEPT !.counter = @ - 1, !.list[Len(p.list)] = Append(@, b)] = q
      BY <2>2, <2>4, <2>6 DEF DnsParser
    <3> QED  BY <3>1, <3>2 DEF AddressByte
  <2>8. p.counter - 1 \in Byte /\ (p.counter - 1 # 0 => p.counter - 1 > 0)
    <3>1. PICK x : x = p.counter  OBVIOUS
    <3>2. x \in Byte /\ x > 0  BY <1>1, <2>1, <3>1
    <3>3. x - 1 \in Byte /\ (x - 1 # 0 => x - 1 > 0)  BY <3>2, ByteRange
    <3> QED  BY <3>1, <3>3
  <2>9. /\ q \in DnsParser /\ q.counter = p.counter - 1 /\ q.list = list /\ q.state = "ADDRESS"
        /\ q.answers = p.answers /\ q.room = p.room
    BY <1>10, <2>5, <2>6, <2>8 DEF DnsParser
  <2>10. CASE q.counter = 0
    BY <2>1, <2>2, <2>5, <2>7, <2>9, <2>10, NextTyped
  <2>11. CASE q.counter # 0
    <3>1. Fits(q)  BY <2>1, <2>2, <2>5, <2>8, <2>9, <2>11 DEF Fits, Fixed, Reading
    <3> QED  BY <2>7, <2>9, <2>11, <3>1
  <2> QED  BY <2>10, <2>11
<1> QED
  <2>1. p.state \in Fixed \cup Reading \cup {"CNAME", "ADDRESS"}  BY DEF DnsParser
  <2> QED  BY <1>2, <1>3, <1>4, <1>5, <1>6, <1>7, <1>8, <1>9, <1>10, <2>1 DEF Fixed, Reading
-----------------------------------------------------------------------------
(***************************************************************************)
(* Where the parts of an answer stand in it                                *)
(***************************************************************************)

\* Each message of a stream, and how much is before it.
LEMMA PieceLies ==
  ASSUME NEW s, Messages(s), NEW i \in 1 .. Len(s)
  PROVE  /\ Len(BytesOf(s, 0, i - 1)) \in Nat /\ BytesOf(s, 0, Len(s)) \in Seq(Byte)
         /\ Lies(s[i].bytes, BytesOf(s, 0, Len(s)), Len(BytesOf(s, 0, i - 1)))
         /\ Len(BytesOf(s, 0, i)) = Len(BytesOf(s, 0, i - 1)) + Len(s[i].bytes)
<1>1. PICK n \in Nat : n = Len(s) /\ i \in 1 .. n  BY MessageBytes
<1>2. \A m \in 0 .. n : BytesOf(s, 0, m) \in Seq(Byte)
  <2>1. 0 \in Nat /\ Len(s) = n  BY <1>1
  <2> QED  BY <2>1, BytesOfType
<1>3. \A m \in 1 .. n : BytesOf(s, 0, m) = BytesOf(s, 0, m - 1) \o s[m].bytes
  <2>1. 0 \in Nat /\ 0 + 1 = 1 /\ Len(s) = n  BY <1>1
  <2> QED  BY <2>1, BytesOfLast
<1>4. \A m \in 1 .. n : s[m].bytes \in Seq(Byte)  BY <1>1, MessageBytes
<1>5. i - 1 \in 0 .. n /\ i \in 0 .. n  BY <1>1
<1>6. PICK before \in Seq(Byte), u \in Nat : before = BytesOf(s, 0, i - 1) /\ u = Len(before)
  BY <1>2, <1>5, LenProperties
<1>7. Lies(s[i].bytes, BytesOf(s, 0, i), u) /\ Len(BytesOf(s, 0, i)) = u + Len(s[i].bytes)
  BY ZenonT(40), <1>1, <1>3, <1>4, <1>6, LiesAfter
<1> DEFINE Failing == {m \in i .. n : ~ Lies(s[i].bytes, BytesOf(s, 0, m), u)}
<1>8. Failing = {}
  <2>1. SUFFICES ASSUME Failing # {}  PROVE FALSE
    OBVIOUS
  <2>2. PICK m \in Failing : \A l \in Failing : m <= l
    <3>1. Failing \in SUBSET Nat  BY <1>1
    <3> HIDE DEF Failing
    <3> QED  BY <2>1, <3>1, LeastExists
  <2>3. m \in i .. n /\ ~ Lies(s[i].bytes, BytesOf(s, 0, m), u)  BY <2>2
  <2>4. m # i  BY <1>7, <2>3
  <2>5. m - 1 \in i .. n /\ m - 1 < m /\ m \in 1 .. n /\ m - 1 \in 0 .. n  BY <1>1, <2>3, <2>4
  <2>6. m - 1 \notin Failing
    <3>1. \A l \in Failing : l \in i .. n  OBVIOUS
    <3> HIDE DEF Failing
    <3>2. m - 1 \in Failing => m <= m - 1  BY <2>2
    <3> QED  BY <2>3, <2>5, <3>2
  <2>7. Lies(s[i].bytes, BytesOf(s, 0, m - 1), u)  BY <2>5, <2>6
  <2> QED  BY <1>2, <1>3, <1>4, <1>6, <2>3, <2>5, <2>7, LiesBefore
<1>9. Lies(s[i].bytes, BytesOf(s, 0, n), u)
  <2>1. n \in i .. n  BY <1>1
  <2> QED  BY <1>8, <2>1
<1> HIDE DEF Failing
<1>10. BytesOf(s, 0, n) \in Seq(Byte)
  <2>1. n \in 0 .. n  BY <1>1
  <2> QED  BY <1>2, <2>1
<1> QED  BY <1>1, <1>6, <1>7, <1>9, <1>10

\* The lines of the head, and the records of the message, as they are sent.
Lines(a) == [i \in 1 .. Len(a.head) |-> [bytes |-> a.head[i] \o <<CR, LF>>]]
Sent(a) == [i \in 1 .. Len(a.records) |-> [bytes |-> RecordBytes(a.records[i])]]

\* Where line i ends, where the message starts and where record k ends.
LineEnd(a, i) == Len(BytesOf(Lines(a), 0, i))
Start(a) == LineEnd(a, Len(a.head)) + 2
RecordEnd(a, k) == Start(a) + 22 + Len(BytesOf(Sent(a), 0, k))

Fields == [type : Byte, data : Seq(Byte), owner : {"pointer", "labels", "root"}]

LEMMA AnswerShape ==
  ASSUME NEW a, IsAnswer(a)
  PROVE  /\ a.head \in Seq(Seq(Byte)) /\ Len(a.head) \in Nat \ {0}
         /\ DOMAIN a.head = 1 .. Len(a.head)
         /\ \A i \in 1 .. Len(a.head) :
              /\ a.head[i] \in Seq(Byte) /\ Len(a.head[i]) \in Nat
              /\ \A j \in 1 .. Len(a.head[i]) : a.head[i][j] # CR /\ a.head[i][j] # LF
              /\ i # 1 => Len(a.head[i]) > 0
         /\ a.records \in Seq(Fields) /\ Len(a.records) \in Nat
         /\ DOMAIN a.records = 1 .. Len(a.records)
         /\ \A i \in 1 .. Len(a.records) :
              a.records[i] \in Fields /\ Len(a.records[i].data) \in Byte
<1>1. PICK T : T = Byte \ {CR, LF} /\ T \subseteq Byte  OBVIOUS
<1>2. a.head \in Seq(Seq(T)) /\ Len(a.head) > 0  BY <1>1 DEF IsAnswer, Byte
<1>3. Len(a.head) \in Nat /\ \A i \in 1 .. Len(a.head) : a.head[i] \in Seq(T)
  BY <1>2, LenProperties, ElementOfSeq
<1>4. ASSUME NEW i \in 1 .. Len(a.head)
      PROVE  /\ a.head[i] \in Seq(Byte) /\ Len(a.head[i]) \in Nat
             /\ \A j \in 1 .. Len(a.head[i]) : a.head[i][j] # CR /\ a.head[i][j] # LF
             /\ i # 1 => Len(a.head[i]) > 0
  <2>1. PICK line \in Seq(T) : line = a.head[i]  BY <1>3, <1>4
  <2>2. Len(line) \in Nat /\ \A j \in 1 .. Len(line) : line[j] \in T  BY LenProperties, ElementOfSeq
  <2>3. line \in Seq(Byte)  BY <1>1, <2>2, SeqDef
  <2>4. i # 1 => line # <<>>
    <3>1. i # 1 => i \in 2 .. Len(a.head)  BY <1>3, <1>4
    <3> QED  BY <2>1, <3>1 DEF IsAnswer
  <2>5. i # 1 => Len(line) # 0  BY <2>3, <2>4, EmptySeq
  <2> QED  BY <1>1, <2>1, <2>2, <2>3, <2>5
<1>5. a.head \in Seq(Seq(Byte))
  <2>1. PICK h : h = a.head  OBVIOUS
  <2>2. PICK n \in Nat : n = Len(h) /\ h \in [1 .. n -> Seq(T)]  BY <1>2, <2>1, LenProperties
  <2>3. \A i \in 1 .. n : h[i] \in Seq(Byte)  BY <1>4, <2>1, <2>2
  <2>4. PICK S : S = Seq(Byte)  OBVIOUS
  <2>5. h \in [1 .. n -> S]  BY <2>2, <2>3, <2>4
  <2>6. h \in Seq(S)  BY <2>5, SeqDef
  <2> QED  BY <2>1, <2>4, <2>6
<1>6. a.records \in Seq(Fields)  BY DEF IsAnswer, Fields, Byte
<1>7. Len(a.records) \in Nat /\ DOMAIN a.records = 1 .. Len(a.records)
  BY <1>6, LenProperties
<1>8. ASSUME NEW i \in 1 .. Len(a.records)
      PROVE  a.records[i] \in Fields /\ Len(a.records[i].data) \in Byte
  <2>1. PICK r \in Fields : r = a.records[i]  BY <1>6, ElementOfSeq
  <2>2. PICK l \in Nat : l = Len(r.data)  BY LenProperties DEF Fields
  <2>3. l < 256  BY ZenonT(40), <1>7, <2>1, <2>2 DEF IsAnswer
  <2>4. l \in Byte  BY <2>3, ByteRange, SMT
  <2> QED  BY <2>1, <2>2, <2>4
<1> QED  BY <1>2, <1>3, <1>4, <1>5, <1>6, <1>7, <1>8, LenProperties

\* The bytes that are written out in the model.
LEMMA PointerBytes ==
  ASSUME NEW s, s = <<192, 12>>
  PROVE  s \in Seq(Byte) /\ Len(s) = 2 /\ s[1] = 192
<1>1. s \in Seq(Byte)  BY SMT DEF Byte
<1>2. Len(s) = 2 /\ s[1] = 192  BY SMT
<1> QED  BY <1>1, <1>2

LEMMA LabelBytes ==
  ASSUME NEW s, s = <<2, 97, 98, 1, 99, 0>>
  PROVE  s \in Seq(Byte) /\ Len(s) = 6 /\ s[1] = 2 /\ s[4] = 1 /\ s[6] = 0
<1>1. s \in Seq(Byte)  BY SMT DEF Byte
<1>2. Len(s) = 6 /\ s[1] = 2 /\ s[4] = 1 /\ s[6] = 0  BY SMT
<1> QED  BY <1>1, <1>2

LEMMA RootBytes ==
  ASSUME NEW s, s = << 0 >>
  PROVE  s \in Seq(Byte) /\ Len(s) = 1 /\ s[1] = 0
<1>1. s \in Seq(Byte)  BY SMT DEF Byte
<1>2. Len(s) = 1 /\ s[1] = 0  BY SMT
<1> QED  BY <1>1, <1>2

LEMMA OwnerShape ==
  ASSUME NEW o \in {"pointer", "labels", "root"}
  PROVE  /\ Owner(o) \in Seq(Byte)
         /\ o = "pointer" => Len(Owner(o)) = 2 /\ Owner(o)[1] = 192
         /\ o = "labels" => /\ Len(Owner(o)) = 6 /\ Owner(o)[1] = 2 /\ Owner(o)[4] = 1 /\ Owner(o)[6] = 0
         /\ o = "root" => Len(Owner(o)) = 1 /\ Owner(o)[1] = 0
<1>1. CASE o = "pointer"
  <2>1. Owner(o) = <<192, 12>>  BY <1>1 DEF Owner
  <2> QED  BY <1>1, <2>1, PointerBytes
<1>2. CASE o = "labels"
  <2>1. Owner(o) = <<2, 97, 98, 1, 99, 0>>  BY <1>2 DEF Owner
  <2> QED  BY <1>2, <2>1, LabelBytes
<1>3. CASE o = "root"
  <2>1. Owner(o) = << 0 >>  BY <1>3 DEF Owner
  <2> QED  BY <1>3, <2>1, RootBytes
<1> QED  BY <1>1, <1>2, <1>3

LEMMA OwnerStarts ==
  ASSUME NEW o \in {"pointer", "labels", "root"}
  PROVE  0 \in 0 .. Len(Owner(o)) - 1
<1>1. PICK l : l = Len(Owner(o))  OBVIOUS
<1>2. l = 2 \/ l = 6 \/ l = 1
  <2>1. o = "pointer" => l = 2  BY <1>1, OwnerShape
  <2>2. o = "labels" => l = 6  BY <1>1, OwnerShape
  <2>3. o = "root" => l = 1  BY <1>1, OwnerShape
  <2> QED  BY <2>1, <2>2, <2>3
<1>3. 0 \in 0 .. l - 1  BY <1>2
<1> QED  BY <1>1, <1>3

LEMMA TenBytes ==
  ASSUME NEW t \in Byte, NEW l \in Byte, NEW s, s = <<0, t, 0, 1, 0, 0, 1, 44, 0, l>>
  PROVE  s \in Seq(Byte) /\ Len(s) = 10 /\ s[2] = t /\ s[10] = l
<1>1. s \in Seq(Byte)
  <2>1. 0 \in Byte /\ 1 \in Byte /\ 44 \in Byte  BY SMT DEF Byte
  <2> QED  BY <2>1, SMT
<1>2. Len(s) = 10 /\ s[2] = t /\ s[10] = l  BY SMT
<1> QED  BY <1>1, <1>2
LEMMA FourBytes ==
  ASSUME NEW x \in Byte, NEW y \in Byte, NEW z \in Byte, NEW u \in Byte, NEW s, s = <<x, y, z, u>>
  PROVE  s \in Seq(Byte) /\ Len(s) = 4
OBVIOUS

LEMMA QuestionBytes ==
  LET q == <<2, 97, 98, 1, 99, 0, 0, 1, 0, 1>>
  IN  q = <<2, 97, 98, 1, 99, 0>> \o <<0, 1, 0, 1>> /\ q \in Seq(Byte) /\ Len(q) = 10
<1>1. PICK s : s = <<2, 97, 98, 1, 99, 0>> OBVIOUS
<1>2. PICK z : z = <<0, 1, 0, 1>> OBVIOUS
<1>3. PICK q : q = <<2, 97, 98, 1, 99, 0, 0, 1, 0, 1>> OBVIOUS
<1>4. s \in Seq(Byte)  BY <1>1, SMT DEF Byte
<1>5. z \in Seq(Byte)  BY <1>2, SMT DEF Byte
<1>6. q \in Seq(Byte)  BY <1>3, SMT DEF Byte
<1>7. Len(s) = 6 /\ Len(z) = 4 /\ Len(q) = 10  BY <1>1, <1>2, <1>3, SMT
<1>8. PICK d \in Seq(Byte) :
        /\ d = s \o z /\ Len(d) = Len(s) + Len(z) /\ \A i \in 1 .. Len(s) : d[i] = s[i]
        /\ \A i \in 1 .. Len(z) : d[Len(s) + i] = z[i]
  BY ZenonT(40), <1>4, <1>5, Pasted
<1>13. Len(d) = 10 /\ (\A i \in 1 .. 6 : d[i] = s[i]) /\ (\A i \in 1 .. 4 : d[6 + i] = z[i])
  <2>1. Len(d) = 10  BY <1>7, <1>8
  <2>2. \A i \in 1 .. 6 : d[i] = s[i]  BY <1>7, <1>8
  <2>3. \A i \in 1 .. 4 : d[6 + i] = z[i]  BY <1>7, <1>8, Zenon
  <2> QED  BY <2>1, <2>2, <2>3
<1>9. \A i \in 1 .. 6 : q[i] = s[i]
  <2>1. q[1] = s[1] /\ q[2] = s[2] /\ q[3] = s[3] /\ q[4] = s[4] /\ q[5] = s[5] /\ q[6] = s[6]  BY <1>1, <1>3, SMT
  <2> QED  BY <2>1
<1>10. \A i \in 1 .. 4 : q[6 + i] = z[i]
  <2>1. q[7] = z[1] /\ q[8] = z[2] /\ q[9] = z[3] /\ q[10] = z[4]  BY <1>2, <1>3, SMT
  <2>2. \A i \in 1 .. 4 : (i = 1 /\ 6 + i = 7) \/ (i = 2 /\ 6 + i = 8) \/ (i = 3 /\ 6 + i = 9) \/ (i = 4 /\ 6 + i = 10)
    OBVIOUS
  <2> QED  BY <2>1, <2>2, Zenon
<1>11. \A i \in 1 .. 10 : q[i] = d[i]
  <2>1. \A i \in 1 .. 10 : i \in 1 .. 6 \/ \E j \in 1 .. 4 : i = 6 + j
    <3>1. ASSUME NEW i \in 1 .. 10  PROVE i \in 1 .. 6 \/ (i - 6 \in 1 .. 4 /\ i = 6 + (i - 6))  OBVIOUS
    <3> QED  BY <3>1
  <2>2. ASSUME NEW i \in 1 .. 10  PROVE q[i] = d[i]
    <3>1. CASE i \in 1 .. 6  BY <1>9, <1>13, <3>1
    <3>2. ASSUME NEW j \in 1 .. 4, i = 6 + j  PROVE q[i] = d[i]  BY <1>10, <1>13, <3>2
    <3> QED  BY <2>1, <3>1, <3>2
  <2> QED BY <2>2
<1>12. q = d BY ZenonT(30), <1>6, <1>7, <1>13, <1>11, SeqEqual
<1> QED  BY <1>1, <1>2, <1>3, <1>6, <1>7, <1>8, <1>12

\* Two pieces put together.
LEMMA Joined ==
  ASSUME NEW a \in Seq(Byte), NEW z \in Seq(Byte), NEW d, d = a \o z
  PROVE  d \in Seq(Byte) /\ Lies(a, d, 0) /\ Lies(z, d, Len(a)) /\ Len(d) = Len(a) + Len(z)
<1>1. a \o z \in Seq(Byte)  BY ConcatParts
<1>2. Lies(a, a \o z, 0) /\ Lies(z, a \o z, Len(a)) /\ Len(a \o z) = Len(a) + Len(z)  BY LiesAfter
<1> QED  BY <1>1, <1>2

\* The name, ten bytes of which the second is the type and the last the length, the data.
LEMMA RecordLayout ==
  ASSUME NEW r \in Fields, Len(r.data) \in Byte
  PROVE  LET o == Len(Owner(r.owner))
             b == RecordBytes(r)
         IN  /\ o \in Nat /\ b \in Seq(Byte) /\ Len(b) = o + 10 + Len(r.data)
             /\ Lies(Owner(r.owner), b, 0) /\ Lies(r.data, b, o + 10)
             /\ b[o + 2] = r.type /\ b[o + 10] = Len(r.data)
<1>1. PICK name \in Seq(Byte), o \in Nat : name = Owner(r.owner) /\ o = Len(name)
  BY OwnerShape, LenProperties DEF Fields
<1>2. r.data \in Seq(Byte) /\ r.type \in Byte  BY DEF Fields
<1>3. PICK d \in Seq(Byte), l \in Nat : d = r.data /\ l = Len(d)  BY <1>2, LenProperties
<1>4. PICK ten \in Seq(Byte) :
        ten = <<0, r.type, 0, 1, 0, 0, 1, 44, 0, l>> /\ Len(ten) = 10 /\ ten[2] = r.type /\ ten[10] = l
  <2>1. PICK t \in Byte : t = r.type  BY <1>2
  <2>2. l \in Byte  BY <1>3
  <2>3. PICK s : s = <<0, t, 0, 1, 0, 0, 1, 44, 0, l>>  OBVIOUS
  <2>4. s \in Seq(Byte) /\ Len(s) = 10 /\ s[2] = t /\ s[10] = l  BY SMTT(30), <2>2, <2>3, TenBytes
  <2> QED  BY <2>1, <2>3, <2>4
<1>5. PICK first \in Seq(Byte) : first = name \o ten /\ Lies(name, first, 0) /\ Lies(ten, first, o) /\ Len(first) = o + 10
  <2>1. PICK f : f = name \o ten  OBVIOUS
  <2>2. f \in Seq(Byte) /\ Lies(name, f, 0) /\ Lies(ten, f, Len(name)) /\ Len(f) = Len(name) + Len(ten)  BY <2>1, Joined
  <2>3. Len(f) = o + 10 /\ Lies(ten, f, o)  BY <1>1, <1>4, <2>2
  <2> QED  BY <2>1, <2>2, <2>3
<1>6. PICK u \in Nat : u = o + 10 /\ u = Len(first)  BY <1>5
<1>7. RecordBytes(r) = first \o d  BY <1>1, <1>3, <1>4, <1>5 DEF RecordBytes
<1>8. PICK b \in Seq(Byte) : b = first \o d /\ Lies(d, b, u) /\ Len(b) = u + l
  <2>1. PICK c : c = first \o d  OBVIOUS
  <2>2. c \in Seq(Byte) /\ Lies(d, c, Len(first)) /\ Len(c) = Len(first) + Len(d)  BY <2>1, Joined
  <2> QED  BY <1>3, <1>6, <2>1, <2>2
<1>9. Lies(name, b, 0) /\ Lies(ten, b, o) /\ Lies(d, b, o + 10) /\ Len(b) = o + 10 + l
  <2>1. Lies(name, b, 0) /\ Lies(ten, b, o)
    <3>1. 0 \in Nat  OBVIOUS
    <3> QED  BY <1>5, <1>8, <3>1, LiesBefore
  <2>2. u + l = o + 10 + l  BY <1>6
  <2> QED  BY <1>6, <1>8, <2>1, <2>2
<1>10. b[o + 2] = r.type /\ b[o + 10] = l
  <2>1. \A i \in 1 .. 10 : ten[i] = b[o + i]  BY <1>4, <1>9 DEF Lies
  <2>2. 2 \in 1 .. 10 /\ 10 \in 1 .. 10  OBVIOUS
  <2> QED  BY <1>4, <2>1, <2>2
<1> QED  BY <1>1, <1>3, <1>7, <1>8, <1>9, <1>10

LEMMA SentMessages ==
  ASSUME NEW a, IsAnswer(a)
  PROVE  /\ Messages(Lines(a)) /\ Len(Lines(a)) = Len(a.head)
         /\ \A i \in 1 .. Len(a.head) : /\ Lines(a)[i].bytes = a.head[i] \o <<CR, LF>>
         /\ Messages(Sent(a)) /\ Len(Sent(a)) = Len(a.records)
         /\ \A k \in 1 .. Len(a.records) : Sent(a)[k].bytes = RecordBytes(a.records[k])
<1>1. Len(a.head) \in Nat /\ Len(a.records) \in Nat  BY AnswerShape
<1>2. Messages(Lines(a)) /\ Len(Lines(a)) = Len(a.head)
  <2>1. DOMAIN Lines(a) = 1 .. Len(a.head) /\ Len(Lines(a)) = Len(a.head)  BY <1>1 DEF Lines
  <2>2. \A i \in 1 .. Len(a.head) : Lines(a)[i].bytes \in Seq(Byte)
    <3>1. <<CR, LF>> \in Seq(Byte)  BY SMT DEF CR, LF, Byte
    <3>2. \A i \in 1 .. Len(a.head) : a.head[i] \o <<CR, LF>> \in Seq(Byte)  BY <3>1, AnswerShape, ConcatParts
    <3> QED  BY <3>2 DEF Lines
  <2>3. Lines(a) \in Seq(Range(Lines(a)))
    <3>1. Lines(a) \in [1 .. Len(a.head) -> Range(Lines(a))]  BY <2>1 DEF Range, Lines
    <3> QED  BY <1>1, <3>1, SeqDef
  <2> QED  BY <2>1, <2>2, <2>3 DEF Messages
<1>3. Messages(Sent(a)) /\ Len(Sent(a)) = Len(a.records)
  <2>1. DOMAIN Sent(a) = 1 .. Len(a.records) /\ Len(Sent(a)) = Len(a.records)  BY <1>1 DEF Sent
  <2>2. \A i \in 1 .. Len(a.records) : Sent(a)[i].bytes \in Seq(Byte)
    BY AnswerShape, RecordLayout DEF Sent
  <2>3. Sent(a) \in Seq(Range(Sent(a)))
    <3>1. Sent(a) \in [1 .. Len(a.records) -> Range(Sent(a))]  BY SMTT(40), <2>1 DEF Range, Sent
    <3> QED  BY <1>1, <3>1, SeqDef
  <2> QED  BY <2>1, <2>2, <2>3 DEF Messages
<1>4. \A i \in 1 .. Len(a.head) : Lines(a)[i].bytes = a.head[i] \o <<CR, LF>>  BY DEF Lines
<1>5. \A k \in 1 .. Len(a.records) : Sent(a)[k].bytes = RecordBytes(a.records[k])  BY DEF Sent
<1> QED  BY <1>2, <1>3, <1>4, <1>5

LEMMA CountBytes ==
  ASSUME NEW n \in 0 .. CountMod * CountMod - 1
  PROVE  /\ Count(n) \in Seq(Byte) /\ Len(Count(n)) = 2
         /\ Count(n)[2] = n % CountMod /\ n % CountMod \in Byte
<1>1. PICK c \in 2 .. 256 : c = CountMod  BY CountAssumption
<1>2. PICK q \in Int, r \in 0 .. c - 1 : q = n \div c /\ r = n % c /\ n = q * c + r
  <2>1. n \in Int /\ c \in Nat \ {0}  BY <1>1
  <2> QED  BY ZenonT(40), <2>1, ModParts
<1>3. q \in 0 .. c - 1
  <2>1. n \in Int /\ 0 <= n /\ n <= c * c - 1  BY <1>1
  <2>2. CASE q >= c
    <3>1. q * c >= c * c  BY <1>1, <2>2
    <3> QED  BY <1>1, <1>2, <2>1, <3>1
  <2>3. CASE q < 0
    <3>1. q <= -1  BY <2>3
    <3>2. q * c <= -c  BY SMTT(40), <1>1, <3>1
    <3> QED  BY <1>1, <1>2, <2>1, <3>2
  <2> QED  BY <1>1, <2>2, <2>3
<1>4. q \in Byte /\ r \in Byte  BY <1>1, <1>2, <1>3, SMT DEF Byte
<1>5. Count(n) = <<q, r>>  BY <1>1, <1>2 DEF Count
<1>6. PICK s : s = <<q, r>>  OBVIOUS
<1>7. s \in Seq(Byte)  BY <1>4, <1>6
<1>8. Len(s) = 2 /\ s[2] = r  BY <1>6
<1> QED  BY ZenonT(40), <1>1, <1>2, <1>4, <1>5, <1>6, <1>7, <1>8

LEMMA CountOne == Count(1) = <<0, 1>>
<1>1. PICK c \in 2 .. 256 : c = CountMod  BY CountAssumption
<1>2. 1 \div c = 0 /\ 1 % c = 1  BY <1>1
<1> QED  BY <1>1, <1>2 DEF Count

\* A header, whose sixth and eighth byte are the counts, the question and the records.
LEMMA MessageLayout ==
  ASSUME NEW a, IsAnswer(a)
  PROVE  /\ Message(a) \in Seq(Byte)
         /\ a.count % CountMod \in Byte
         /\ a.questions = 1 =>
              /\ Message(a)[6] = 1 /\ Message(a)[8] = a.count % CountMod
              /\ Lies(<<2, 97, 98, 1, 99, 0, 0, 1, 0, 1>>, Message(a), 12)
              /\ Lies(BytesOf(Sent(a), 0, Len(a.records)), Message(a), 22)
              /\ Len(Message(a)) = 22 + Len(BytesOf(Sent(a), 0, Len(a.records)))
<1>1. PICK l \in Nat : l = Len(a.records)  BY AnswerShape
<1>2. PICK recs \in Seq(Byte) : recs = BytesOf(Sent(a), 0, l)
  <2>1. Messages(Sent(a)) /\ 0 \in Nat /\ l \in 0 .. Len(Sent(a))  BY <1>1, SentMessages
  <2> QED  BY <2>1, BytesOfType
<1>3. FlattenSeq([i \in DOMAIN a.records |-> RecordBytes(a.records[i])]) = recs
  <2>1. DOMAIN a.records = 1 .. l  BY <1>1, AnswerShape
  <2>2. [i \in DOMAIN a.records |-> RecordBytes(a.records[i])] = [i \in 1 .. l - 0 |-> Sent(a)[0 + i].bytes]
    BY <1>1, <2>1, SentMessages
  <2> QED  BY <1>2, <2>2 DEF BytesOf
<1>4. PICK cq \in Seq(Byte), cc \in Seq(Byte) :
        /\ cq = Count(a.questions) /\ cc = Count(a.count) /\ Len(cq) = 2 /\ Len(cc) = 2
        /\ cq[2] = a.questions % CountMod /\ cc[2] = a.count % CountMod /\ a.count % CountMod \in Byte
  BY CountBytes DEF IsAnswer
<1>5. PICK h1 \in Seq(Byte), h4 \in Seq(Byte) :
        h1 = <<7, 7, 129, 128>> /\ Len(h1) = 4 /\ h4 = <<0, 0, 0, 0>> /\ Len(h4) = 4
  <2>1. 7 \in Byte /\ 129 \in Byte /\ 128 \in Byte /\ 0 \in Byte  BY SMT DEF Byte
  <2>2. PICK h1, h4 : h1 = <<7, 7, 129, 128>> /\ h4 = <<0, 0, 0, 0>>  OBVIOUS
  <2>3. h1 \in Seq(Byte) /\ Len(h1) = 4  BY <2>1, <2>2, FourBytes
  <2>4. h4 \in Seq(Byte) /\ Len(h4) = 4  BY <2>1, <2>2, FourBytes
  <2> QED  BY ZenonT(40), <2>2, <2>3, <2>4
<1>6. PICK q \in Seq(Byte) :
        /\ q = (IF a.questions = 0 THEN <<>> ELSE Owner("labels") \o <<0, 1, 0, 1>>)
        /\ a.questions # 0 => q = <<2, 97, 98, 1, 99, 0, 0, 1, 0, 1>> /\ Len(q) = 10
  <2>1. Owner("labels") \o <<0, 1, 0, 1>> = <<2, 97, 98, 1, 99, 0, 0, 1, 0, 1>>  BY ZenonT(40), QuestionBytes DEF Owner
  <2> QED  BY ZenonT(40), <2>1, QuestionBytes, EmptySeq
<1>7. PICK b1 \in Seq(Byte) : b1 = h1 \o cq /\ Lies(cq, b1, 4) /\ Len(b1) = 6
  <2>1. PICK d : d = h1 \o cq  OBVIOUS
  <2>2. d \in Seq(Byte) /\ Lies(cq, d, Len(h1)) /\ Len(d) = Len(h1) + Len(cq)  BY <2>1, Joined
  <2>3. Lies(cq, d, 4) /\ Len(d) = 6  BY <1>4, <1>5, <2>2
  <2> QED  BY <2>1, <2>2, <2>3
<1>8. PICK b2 \in Seq(Byte) : b2 = b1 \o cc /\ Lies(cq, b2, 4) /\ Lies(cc, b2, 6) /\ Len(b2) = 8
  <2>1. PICK d : d = b1 \o cc  OBVIOUS
  <2>2. d \in Seq(Byte) /\ Lies(cc, d, Len(b1)) /\ Len(d) = Len(b1) + Len(cc)  BY <2>1, Joined
  <2>3. Lies(cc, d, 6) /\ Len(d) = 8  BY <1>4, <1>7, <2>2
  <2>4. Lies(cq, d, 4)
    <3>1. 4 \in Nat  OBVIOUS
    <3> QED  BY <1>4, <1>7, <2>1, <3>1, LiesBefore
  <2> QED  BY <2>1, <2>2, <2>3, <2>4
<1>9. PICK b3 \in Seq(Byte) : b3 = b2 \o h4 /\ Lies(cq, b3, 4) /\ Lies(cc, b3, 6) /\ Len(b3) = 12
  <2>1. PICK d : d = b2 \o h4  OBVIOUS
  <2>2. d \in Seq(Byte) /\ Len(d) = Len(b2) + Len(h4)  BY <2>1, Joined
  <2>3. Len(d) = 12  BY <1>5, <1>8, <2>2
  <2>4. Lies(cq, d, 4) /\ Lies(cc, d, 6)
    <3>1. 4 \in Nat /\ 6 \in Nat  OBVIOUS
    <3> QED  BY <1>5, <1>8, <2>1, <3>1, LiesBefore
  <2> QED  BY <2>1, <2>2, <2>3, <2>4
<1>10. PICK b4 \in Seq(Byte), u \in Nat :
         /\ b4 = b3 \o q /\ Lies(cq, b4, 4) /\ Lies(cc, b4, 6) /\ Lies(q, b4, 12) /\ u = Len(b4) /\ u = 12 + Len(q)
  <2>1. PICK k \in Nat : k = Len(q)  BY LenProperties
  <2>2. PICK d \in Seq(Byte) : d = b3 \o q /\ Lies(q, d, 12) /\ Len(d) = 12 + k
    <3>1. PICK d : d = b3 \o q  OBVIOUS
    <3>2. d \in Seq(Byte) /\ Lies(q, d, Len(b3)) /\ Len(d) = Len(b3) + Len(q)  BY <3>1, Joined
    <3> QED  BY <1>9, <2>1, <3>1, <3>2
  <2>3. Lies(cq, d, 4) /\ Lies(cc, d, 6)
    <3>1. 4 \in Nat /\ 6 \in Nat  OBVIOUS
    <3> QED  BY <1>9, <2>2, <3>1, LiesBefore
  <2>4. 12 + k \in Nat  OBVIOUS
  <2> QED  BY <2>1, <2>2, <2>3, <2>4
<1>11. PICK m \in Seq(Byte) :
         /\ m = b4 \o recs /\ Lies(cq, m, 4) /\ Lies(cc, m, 6) /\ Lies(q, m, 12) /\ Lies(recs, m, u)
         /\ Len(m) = u + Len(recs)
  <2>1. PICK d \in Seq(Byte) : d = b4 \o recs /\ Lies(recs, d, u) /\ Len(d) = u + Len(recs)
    <3>1. PICK d : d = b4 \o recs  OBVIOUS
    <3>2. d \in Seq(Byte) /\ Lies(recs, d, Len(b4)) /\ Len(d) = Len(b4) + Len(recs)  BY <3>1, Joined
    <3> QED  BY <1>10, <3>1, <3>2
  <2>2. Lies(cq, d, 4) /\ Lies(cc, d, 6) /\ Lies(q, d, 12)
    <3>1. 4 \in Nat /\ 6 \in Nat /\ 12 \in Nat  OBVIOUS
    <3> QED  BY <1>10, <2>1, <3>1, LiesBefore
  <2> QED  BY <2>1, <2>2
<1>12. Message(a) = m
  <2>1. Message(a) = ((((h1 \o cq) \o cc) \o h4) \o q) \o recs  BY ZenonT(60), <1>3, <1>4, <1>5, <1>6 DEF Message
  <2> QED  BY <1>7, <1>8, <1>9, <1>10, <1>11, <2>1
<1>13. ASSUME a.questions = 1
       PROVE  /\ m[6] = 1 /\ m[8] = a.count % CountMod
              /\ q = <<2, 97, 98, 1, 99, 0, 0, 1, 0, 1>> /\ u = 22
  <2>1. cq[2] = m[6] /\ cc[2] = m[8]
    <3>1. cq[2] = m[4 + 2]
      <4>1. 2 \in 1 .. Len(cq)  BY <1>4
      <4> QED  BY <1>11, <4>1 DEF Lies
    <3>2. cc[2] = m[6 + 2]
      <4>1. 2 \in 1 .. Len(cc)  BY <1>4
      <4> QED  BY <1>11, <4>1 DEF Lies
    <3> QED  BY <3>1, <3>2
  <2>2. 1 % CountMod = 1
    <3>1. PICK c \in 2 .. 256 : c = CountMod  BY CountAssumption
    <3>2. c \in Nat \ {0} /\ 1 \in 0 .. c - 1  OBVIOUS
    <3> QED  BY ZenonT(40), <3>1, <3>2, SmallMod
  <2>3. q = <<2, 97, 98, 1, 99, 0, 0, 1, 0, 1>> /\ Len(q) = 10
    <3>1. a.questions # 0  BY <1>13
    <3> QED  BY <1>6, <3>1
  <2>4. u = 22
    <3>1. u = 12 + 10  BY <1>10, <2>3
    <3> QED  BY <3>1
  <2> QED  BY <1>4, <1>13, <2>1, <2>2, <2>3, <2>4
<1>14. a.count % CountMod \in Byte  BY <1>4
<1> QED  BY <1>1, <1>2, <1>11, <1>12, <1>13, <1>14

\* The lines of the head, the empty one and the message.
LEMMA WireLayout ==
  ASSUME NEW a, IsAnswer(a)
  PROVE  /\ Wire(a) \in Seq(Byte) /\ Start(a) \in Nat /\ Start(a) >= 2
         /\ LineEnd(a, 0) = 0
         /\ \A i \in 1 .. Len(a.head) :
              /\ LineEnd(a, i - 1) \in Nat /\ LineEnd(a, i) = LineEnd(a, i - 1) + Len(a.head[i]) + 2
              /\ Lies(a.head[i], Wire(a), LineEnd(a, i - 1))
              /\ Wire(a)[LineEnd(a, i) - 1] = CR /\ Wire(a)[LineEnd(a, i)] = LF
         /\ Wire(a)[Start(a) - 1] = CR /\ Wire(a)[Start(a)] = LF
         /\ Lies(Message(a), Wire(a), Start(a)) /\ Len(Wire(a)) = Start(a) + Len(Message(a))
<1>1. PICK n \in Nat : n = Len(a.head) /\ n # 0  BY AnswerShape
<1>2. PICK head \in Seq(Byte) : head = BytesOf(Lines(a), 0, n)
  <2>1. Messages(Lines(a)) /\ 0 \in Nat /\ n \in 0 .. Len(Lines(a))  BY <1>1, SentMessages
  <2> QED  BY <2>1, BytesOfType
<1>3. FlattenSeq([i \in DOMAIN a.head |-> a.head[i] \o <<CR, LF>>]) = head
  <2>1. DOMAIN a.head = 1 .. n  BY <1>1, AnswerShape
  <2>2. \A i \in 1 .. n : Lines(a)[0 + i].bytes = a.head[i] \o <<CR, LF>>
    <3>1. \A i \in 1 .. n : Lines(a)[i].bytes = a.head[i] \o <<CR, LF>>  BY <1>1, SentMessages
    <3>2. \A i \in 1 .. n : 0 + i = i  OBVIOUS
    <3> QED  BY <3>1, <3>2
  <2>3. n - 0 = n  OBVIOUS
  <2>4. [i \in DOMAIN a.head |-> a.head[i] \o <<CR, LF>>] = [i \in 1 .. n - 0 |-> Lines(a)[0 + i].bytes]
    BY <2>1, <2>2, <2>3, Zenon
  <2> QED  BY <1>2, <2>4 DEF BytesOf
<1>4. PICK end \in Seq(Byte) : end = <<CR, LF>> /\ Len(end) = 2 /\ end[1] = CR /\ end[2] = LF
  <2>1. CR \in Byte /\ LF \in Byte  BY SMT DEF CR, LF, Byte
  <2>2. PICK z : z = <<CR, LF>>  OBVIOUS
  <2>3. z \in Seq(Byte)  BY <2>1, <2>2
  <2>4. Len(z) = 2 /\ z[1] = CR /\ z[2] = LF  BY <2>2
  <2> QED  BY <2>2, <2>3, <2>4
<1>5. PICK m \in Seq(Byte) : m = Message(a)  BY MessageLayout
<1>6. PICK b1 \in Seq(Byte), e \in Nat : e = Len(head) /\ b1 = head \o end /\ Lies(head, b1, 0) /\ Lies(end, b1, e) /\ Len(b1) = e + 2
  <2>1. PICK k \in Nat : k = Len(head)  BY LenProperties
  <2>2. PICK d : d = head \o end  OBVIOUS
  <2>3. d \in Seq(Byte) /\ Lies(head, d, 0) /\ Lies(end, d, Len(head)) /\ Len(d) = Len(head) + Len(end)  BY <2>2, Joined
  <2>4. Lies(end, d, k) /\ Len(d) = k + 2  BY <1>4, <2>1, <2>3
  <2> QED  BY <2>1, <2>2, <2>3, <2>4
<1>7. PICK w \in Seq(Byte) :
        /\ w = b1 \o m /\ Lies(head, w, 0) /\ Lies(end, w, e) /\ Lies(m, w, e + 2) /\ Len(w) = e + 2 + Len(m)
  <2>1. PICK k \in Nat : k = e + 2 /\ k = Len(b1)  BY <1>6
  <2>2. PICK d \in Seq(Byte) : d = b1 \o m /\ Lies(m, d, k) /\ Len(d) = k + Len(m)
    <3>1. PICK d : d = b1 \o m  OBVIOUS
    <3>2. d \in Seq(Byte) /\ Lies(m, d, Len(b1)) /\ Len(d) = Len(b1) + Len(m)  BY <3>1, Joined
    <3> QED  BY <2>1, <3>1, <3>2
  <2>3. Lies(head, d, 0) /\ Lies(end, d, e)
    <3>1. 0 \in Nat  OBVIOUS
    <3> QED  BY <1>6, <2>2, <3>1, LiesBefore
  <2> QED  BY <2>1, <2>2, <2>3
<1>8. Wire(a) = w  BY <1>3, <1>4, <1>5, <1>6, <1>7 DEF Wire
<1>9. Start(a) = e + 2 /\ e + 2 \in Nat /\ e + 2 >= 2  BY <1>1, <1>2, <1>6 DEF Start, LineEnd
<1>10. LineEnd(a, 0) = 0
  <2>1. BytesOf(Lines(a), 0, 0) = <<>>  BY BytesOfNone
  <2> QED  BY <2>1 DEF LineEnd
<1>11. w[e + 1] = CR /\ w[e + 2] = LF
  <2>1. 1 \in 1 .. Len(end) /\ 2 \in 1 .. Len(end)  BY <1>4
  <2> QED  BY <1>4, <1>7, <2>1 DEF Lies
<1>12. ASSUME NEW i \in 1 .. n
       PROVE  /\ LineEnd(a, i - 1) \in Nat /\ LineEnd(a, i) = LineEnd(a, i - 1) + Len(a.head[i]) + 2
              /\ Lies(a.head[i], w, LineEnd(a, i - 1))
              /\ w[LineEnd(a, i) - 1] = CR /\ w[LineEnd(a, i)] = LF
  <2>1. PICK line \in Seq(Byte), l \in Nat : line = a.head[i] /\ l = Len(line)  BY <1>1, AnswerShape
  <2>2. PICK b \in Seq(Byte) : b = line \o end /\ Lies(line, b, 0) /\ Lies(end, b, l) /\ Len(b) = l + 2
    <3>1. PICK d : d = line \o end  OBVIOUS
    <3>2. d \in Seq(Byte) /\ Lies(line, d, 0) /\ Lies(end, d, Len(line)) /\ Len(d) = Len(line) + Len(end)  BY <3>1, Joined
    <3>3. Lies(end, d, l) /\ Len(d) = l + 2  BY <1>4, <2>1, <3>2
    <3> QED  BY <3>1, <3>2, <3>3
  <2>3. Lines(a)[i].bytes = b  BY <1>1, <1>4, <2>1, <2>2, SentMessages
  <2>4. PICK u \in Nat : u = LineEnd(a, i - 1) /\ Lies(b, head, u) /\ LineEnd(a, i) = u + (l + 2)
    <3>1. i \in 1 .. Len(Lines(a)) /\ Messages(Lines(a)) /\ Len(Lines(a)) = n  BY <1>1, SentMessages
    <3> QED  BY <1>2, <2>2, <2>3, <3>1, PieceLies DEF LineEnd
  <2>5. PICK t \in Nat, k \in Nat : t = Len(head) /\ k = Len(w) /\ t <= k /\ u + (l + 2) <= t
    BY SMTT(40), <1>7, <2>2, <2>4, LenProperties DEF Lies
  <2>6. \A j \in 1 .. l + 2 : b[j] = w[u + j]
    <3>1. \A j \in 1 .. t : head[j] = w[j]
      <4>1. \A j \in 1 .. t : head[j] = w[0 + j]  BY <1>7, <2>5 DEF Lies
      <4> QED  BY <4>1
    <3>2. \A j \in 1 .. l + 2 : b[j] = head[u + j]  BY <2>2, <2>4 DEF Lies
    <3>3. \A j \in 1 .. l + 2 : u + j \in 1 .. t  BY <2>5
    <3> QED  BY <3>1, <3>2, <3>3
  <2>7. \A j \in 1 .. l : line[j] = b[j]
    <3>1. \A j \in 1 .. l : line[j] = b[0 + j]  BY <2>1, <2>2 DEF Lies
    <3> QED  BY <3>1
  <2>8. b[l + 1] = CR /\ b[l + 2] = LF
    <3>1. 1 \in 1 .. Len(end) /\ 2 \in 1 .. Len(end)  BY <1>4
    <3> QED  BY <1>4, <2>2, <3>1 DEF Lies
  <2>9. Lies(line, w, u)
    <3>1. u + l <= k /\ \A j \in 1 .. l : j \in 1 .. l + 2  BY <2>5
    <3> QED  BY <2>1, <2>5, <2>6, <2>7, <3>1 DEF Lies
  <2>10. w[u + (l + 1)] = CR /\ w[u + (l + 2)] = LF
    <3>1. l + 1 \in 1 .. l + 2 /\ l + 2 \in 1 .. l + 2  OBVIOUS
    <3> QED  BY <2>6, <2>8, <3>1
  <2>11. LineEnd(a, i) = u + l + 2 /\ LineEnd(a, i) - 1 = u + (l + 1)  BY SMTT(30), <2>4
  <2> QED  BY <2>1, <2>4, <2>9, <2>10, <2>11
<1>13. w[Start(a) - 1] = CR /\ w[Start(a)] = LF
  <2>1. e + 2 - 1 = e + 1  OBVIOUS
  <2> QED  BY <1>9, <1>11, <2>1
<1> HIDE DEF LineEnd, Start
<1>14. Lies(m, w, Start(a)) /\ Len(w) = Start(a) + Len(m)  BY <1>7, <1>9
<1> QED  BY <1>1, <1>5, <1>8, <1>9, <1>10, <1>12, <1>13, <1>14

\* The records stand one after another behind the question.
LEMMA RecordsLayout ==
  ASSUME NEW a, IsAnswer(a), a.questions = 1
  PROVE  /\ RecordEnd(a, 0) = Start(a) + 22
         /\ \A k \in 1 .. Len(a.records) :
              /\ RecordEnd(a, k - 1) \in Nat
              /\ Lies(RecordBytes(a.records[k]), Wire(a), RecordEnd(a, k - 1))
              /\ RecordEnd(a, k) = RecordEnd(a, k - 1) + Len(RecordBytes(a.records[k]))
<1>1. PICK l \in Nat : l = Len(a.records)  BY AnswerShape
<1>2. PICK recs \in Seq(Byte) : recs = BytesOf(Sent(a), 0, l)
  <2>1. Messages(Sent(a)) /\ 0 \in Nat /\ l \in 0 .. Len(Sent(a))  BY <1>1, SentMessages
  <2> QED  BY <2>1, BytesOfType
<1>3. PICK m \in Seq(Byte) : m = Message(a) /\ Lies(recs, m, 22)  BY <1>1, <1>2, MessageLayout
<1>4. PICK w \in Seq(Byte), s \in Nat : w = Wire(a) /\ s = Start(a) /\ Lies(m, w, s)  BY <1>3, WireLayout
<1>5. Len(BytesOf(Sent(a), 0, 0)) = 0
  <2>1. BytesOf(Sent(a), 0, 0) = <<>>  BY BytesOfNone
  <2> QED  BY <2>1
<1>6. ASSUME NEW k \in 1 .. l
      PROVE  /\ RecordEnd(a, k - 1) \in Nat
             /\ Lies(RecordBytes(a.records[k]), w, RecordEnd(a, k - 1))
             /\ RecordEnd(a, k) = RecordEnd(a, k - 1) + Len(RecordBytes(a.records[k]))
  <2>1. PICK u \in Nat, b \in Seq(Byte) :
          /\ u = Len(BytesOf(Sent(a), 0, k - 1)) /\ b = RecordBytes(a.records[k])
          /\ Lies(b, recs, u) /\ Len(BytesOf(Sent(a), 0, k)) = u + Len(b)
    <3>1. k \in 1 .. Len(Sent(a)) /\ Messages(Sent(a)) /\ Len(Sent(a)) = l /\ Sent(a)[k].bytes = RecordBytes(a.records[k])
      BY <1>1, SentMessages
    <3>2. RecordBytes(a.records[k]) \in Seq(Byte)  BY <1>1, AnswerShape, RecordLayout
    <3> QED  BY <1>2, <3>1, <3>2, PieceLies
  <2>2. PICK n \in Nat : n = Len(b)  BY LenProperties
  <2>3. RecordEnd(a, k - 1) = s + 22 + u /\ RecordEnd(a, k) = s + 22 + (u + n)  BY <1>4, <2>1, <2>2 DEF RecordEnd
  <2>4. PICK t \in Nat, q \in Nat, v \in Nat : t = Len(recs) /\ q = Len(m) /\ v = Len(w)  BY LenProperties
  <2>5. u + n <= t /\ 22 + t <= q /\ s + q <= v  BY <1>3, <1>4, <2>1, <2>2, <2>4 DEF Lies
  <2>6. \A i \in 1 .. n : b[i] = w[(s + 22 + u) + i]
    <3>0. \A i \in 1 .. n : u + i \in 1 .. t
      <4>1. u + n <= t  BY <2>5
      <4> QED  BY <4>1
    <3>1. \A i \in 1 .. n : b[i] = recs[u + i] /\ u + i \in 1 .. t  BY <2>1, <2>2, <3>0 DEF Lies
    <3>20. \A i \in 1 .. t : 22 + i \in 1 .. q
      <4>1. 22 + t <= q  BY <2>5
      <4> QED  BY <4>1
    <3>2. \A i \in 1 .. t : recs[i] = m[22 + i] /\ 22 + i \in 1 .. q  BY <1>3, <2>4, <3>20 DEF Lies
    <3>3. \A i \in 1 .. q : m[i] = w[s + i]  BY <1>4, <2>4 DEF Lies
    <3>4. \A i \in 1 .. n : s + (22 + (u + i)) = (s + 22 + u) + i  OBVIOUS
    <3> QED  BY <3>1, <3>2, <3>3, <3>4
  <2>7. Lies(b, w, s + 22 + u)  BY <2>2, <2>4, <2>5, <2>6 DEF Lies
  <2>8. s + 22 + u \in Nat /\ RecordEnd(a, k) = (s + 22 + u) + n  BY <2>3
  <2> HIDE DEF RecordEnd
  <2> QED  BY <2>1, <2>2, <2>3, <2>7, <2>8
<1>7. RecordEnd(a, 0) = s + 22  BY <1>4, <1>5 DEF RecordEnd
<1> QED  BY <1>1, <1>4, <1>6, <1>7

\* The addresses among the first k records, one record after another.
LEMMA FoundGrows ==
  ASSUME NEW a, IsAnswer(a)
  PROVE  /\ Found(a, 0) = <<>>
         /\ \A k \in 0 .. Len(a.records) : Found(a, k) \in Seq(Seq(Byte)) /\ Len(Found(a, k)) \in Nat
         /\ \A k \in 1 .. Len(a.records) :
              Found(a, k) = IF Address(a.records[k]) THEN Append(Found(a, k - 1), a.records[k].data)
                                                     ELSE Found(a, k - 1)
<1>1. PICK l \in Nat : l = Len(a.records)  BY AnswerShape
<1> DEFINE One(i) == IF Address(a.records[i]) THEN <<a.records[i].data>> ELSE <<>>
           Ones(k) == [i \in 1 .. k |-> One(i)]
<1>2. PICK S : S = Seq(Byte)  OBVIOUS
<1>3. \A i \in 1 .. l : a.records[i].data \in S  BY <1>1, <1>2, AnswerShape DEF Fields
<1>4. \A i \in 1 .. l : One(i) \in Seq(S)
  <2>1. ASSUME NEW i \in 1 .. l  PROVE One(i) \in Seq(S)
    <3>1. <<a.records[i].data>> \in Seq(S)  BY <1>3
    <3>2. <<>> \in Seq(S)  BY EmptySeq
    <3> QED  BY <3>1, <3>2
  <2> QED  BY <2>1
<1>5. \A k \in 0 .. l : Found(a, k) = FlattenSeq(Ones(k)) /\ Ones(k) \in [1 .. k -> Seq(S)]
  <2>1. \A k \in 0 .. l : \A i \in 1 .. k : i \in 1 .. l  BY <1>1
  <2> QED  BY <1>4, <2>1 DEF Found
<1>6. \A k \in 0 .. l : Found(a, k) \in Seq(S)
  <2>1. ASSUME NEW k \in 0 .. l  PROVE Found(a, k) \in Seq(S)
    <3>1. Ones(k) \in [1 .. k -> Seq(S)] /\ Found(a, k) = FlattenSeq(Ones(k)) /\ k \in Nat  BY <1>5
    <3> HIDE DEF Ones
    <3> QED  BY <3>1, FlattenType
  <2> QED  BY <2>1
<1>7. Found(a, 0) = <<>>
  <2>1. Ones(0) = <<>>  OBVIOUS
  <2>2. 0 \in 0 .. l  BY <1>1
  <2> QED  BY <1>5, <2>1, <2>2, FlattenEmpty
<1>8. ASSUME NEW k \in 1 .. l
      PROVE  Found(a, k) = IF Address(a.records[k]) THEN Append(Found(a, k - 1), a.records[k].data) ELSE Found(a, k - 1)
  <2>1. k \in Nat \ {0} /\ k - 1 \in 0 .. l /\ k \in 0 .. l  BY <1>1
  <2>2. Ones(k - 1) = [i \in 1 .. k - 1 |-> Ones(k)[i]]
    <3>1. \A i \in 1 .. k - 1 : i \in 1 .. k  BY <2>1
    <3> QED  BY <3>1
  <2>3. FlattenSeq(Ones(k)) = FlattenSeq(Ones(k - 1)) \o Ones(k)[k]
    <3>1. Ones(k) \in [1 .. k -> Seq(S)]  BY <1>5, <2>1
    <3> HIDE DEF Ones
    <3> QED  BY <2>1, <2>2, <3>1, FlattenLast
  <2>4. Ones(k)[k] = One(k)  BY <2>1
  <2>5. PICK before \in Seq(S) : before = Found(a, k - 1)  BY <1>6, <2>1
  <2>6. Found(a, k) = before \o One(k)  BY <1>5, <2>1, <2>3, <2>4, <2>5
  <2>7. before \o <<>> = before  BY <2>5
  <2>8. PICK d \in S : d = a.records[k].data  BY <1>3
  <2>9. before \o <<d>> = Append(before, d)  BY <2>8, AppendIsConcat
  <2> QED  BY <2>5, <2>6, <2>7, <2>8, <2>9
<1> QED  BY <1>1, <1>2, <1>6, <1>7, <1>8, LenProperties

-----------------------------------------------------------------------------
(***************************************************************************)
(* How far each machine is after the first p bytes of an answer            *)
(***************************************************************************)

Searching(state, k) == [state |-> state, k |-> k]

\* The first line that is looked for behind the status.
FirstLength(a) ==
  CHOOSE f \in 2 .. Len(a.head) :
    LengthLine(a.head[f]) /\ \A i \in 2 .. f - 1 : ~LengthLine(a.head[i])

\* Behind j bytes of line i, the line feed not included.
LineAt(a, f, h, i, j) ==
  LET line == a.head[i]
      l == Len(line)
  IN  /\ i = 1 /\ j < l =>
           \E k \in 0 .. 1 : /\ h = Searching("STATUS_CODE_FIRST", k)
                             /\ (k = 1 => j > 0 /\ line[j] = Status200[1]) /\ (j = l - 1 => k = 1)
      /\ i = 1 /\ j >= l => h = Searching("CONTENT_LENGTH", 0)
      /\ 1 < i /\ i < f =>
           \E k \in 0 .. 1 : h = Searching("CONTENT_LENGTH", k) /\ (k = 1 => j \in 1 .. l /\ line[j] = C)
      /\ i = f /\ j < 2 => h = Searching("CONTENT_LENGTH", j)
      /\ i = f /\ 2 <= j /\ j <= l => h = Searching("NUMBER", 0)
      /\ i = f /\ j > l => h = Searching("FINISH", 0)
      /\ i = f + 1 /\ j = 0 => h = Searching("SECOND_LINE", 0)
      /\ i > f /\ (i > f + 1 \/ j > 0) =>
           h = Searching("PAYLOAD_DELIMITER", IF j = 0 THEN 2 ELSE IF j > l THEN 1 ELSE 0)

\* Behind j bytes of the empty line.
EmptyAt(a, f, h, j) ==
  IF j = 0 THEN h = IF f = Len(a.head) THEN Searching("SECOND_LINE", 0) ELSE Searching("PAYLOAD_DELIMITER", 2)
           ELSE h = IF f = Len(a.head) THEN Searching("LAST_CHARACTER", 0) ELSE Searching("PAYLOAD_DELIMITER", 3)

HeadAt(a, f, h, p) ==
  \/ \E i \in 1 .. Len(a.head) : \E j \in 0 .. Len(a.head[i]) + 1 :
       p = LineEnd(a, i - 1) + j /\ LineAt(a, f, h, i, j)
  \/ \E j \in 0 .. 1 : p = Start(a) - 2 + j /\ EmptyAt(a, f, h, j)

\* A head that is not accepted is searched for ever.
Unaccepted(a, h, p) ==
  \E k \in 0 .. 1 :
    \/ h = Searching("STATUS_CODE_FIRST", k) /\ (k = 1 => p > 0 /\ Wire(a)[p] = Status200[1])
    \/ /\ h = Searching("CONTENT_LENGTH", k) /\ (k = 1 => p > 0 /\ Wire(a)[p] = C)
       /\ ~ \E i \in 2 .. Len(a.head) : LengthLine(a.head[i])

\* The header and the question.
HeaderState(q) ==
  CASE q \in 0 .. 1 -> "TRANSACTION" [] q \in 2 .. 3 -> "FLAGS"
    [] q = 4 -> "QUESTIONS_HIGH" [] q = 5 -> "QUESTIONS_LOW"
    [] q = 6 -> "ANSWERS_HIGH" [] q = 7 -> "ANSWERS_LOW"
    [] q \in 8 .. 9 -> "AUTHORITY" [] q \in 10 .. 11 -> "ADITIONAL"
    [] q \in {12, 15, 17} -> "QUERIES_NAME" [] q \in {13, 14, 16} -> "QUERIES_LABEL"
    [] q \in 18 .. 19 -> "QUERIES_TYPE" [] q \in 20 .. 21 -> "QUERIES_CLASS"
HeaderWritten(q) == IF q = 13 THEN 2 ELSE IF q \in {1, 3, 9, 11, 14, 16, 19, 21} THEN 1 ELSE 0

Counted(a) == a.count % CountMod
\* What is still announced behind the first k records.
Announced(a, k) == Counted(a) - k + Len(Found(a, k))

HeaderAt(a, q, d) ==
  /\ d.state = HeaderState(q) /\ d.written = HeaderWritten(q)
  /\ q > 5 => d.questions = 1
  /\ q > 7 => d.answers = Counted(a) /\ Counted(a) > 0
  /\ d.list = <<>>

\* Record k: its name, its type, class, time to live and length, its data.
OwnerAt(a, k, q, d) ==
  LET o == a.records[k].owner
  IN  /\ q = 0 => d.state = "ANSWERS_NAME" /\ (k = 1 => d.written = 0)
      /\ q = 1 /\ o = "pointer" => d.state = "REFERENCE"
      /\ q \in {1, 2, 4} /\ o = "labels" => d.state = "ANSWERS_LABEL" /\ d.written = IF q = 1 THEN 2 ELSE 1
      /\ q \in {3, 5} /\ o = "labels" => d.state = "ANSWERS_NAME" /\ d.written = 0
TenAt(a, k, c, d) ==
  /\ d.state = CASE c = 0 -> "TYPE_HIGH" [] c = 1 -> "TYPE_LOW" [] c \in 2 .. 3 -> "ANSWERS_CLASS"
                 [] c \in 4 .. 7 -> "ANSWERS_TTL" [] c = 8 -> "LENGTH_HIGH" [] c = 9 -> "LENGTH_LOW"
  /\ c <= 7 => d.written = CASE c \in 0 .. 2 -> 0 [] c = 3 -> 1 [] c \in 4 .. 7 -> c - 4
  /\ c > 1 => d.type = a.records[k].type
DataAt(a, k, j, d) ==
  LET data == a.records[k].data
  IN  IF Address(a.records[k])
      THEN /\ d.state = "ADDRESS" /\ d.counter = Len(data) - j
           /\ d.list = Append(Found(a, k - 1), SubSeq(data, 1, j))
           /\ d.answers = Announced(a, k - 1)
      ELSE /\ d.state = "CNAME" /\ d.len = Len(data) - j
           /\ d.list = Found(a, k - 1) /\ d.answers = Announced(a, k)

RecordAt(a, k, p, d) ==
  LET o == Len(Owner(a.records[k].owner))
      before == d.list = Found(a, k - 1) /\ d.answers = Announced(a, k - 1)
  IN  \/ \E q \in 0 .. o - 1 : p = RecordEnd(a, k - 1) + q /\ OwnerAt(a, k, q, d) /\ before
      \/ \E c \in 0 .. 9 : p = RecordEnd(a, k - 1) + o + c /\ TenAt(a, k, c, d) /\ before
      \/ \E j \in 0 .. Len(a.records[k].data) - 1 :
           p = RecordEnd(a, k - 1) + o + 10 + j /\ DataAt(a, k, j, d)

Complete(a, d) ==
  d.state = "DONE" /\ d.questions = 1 /\ d.list = Expected(a) /\ d.answers = Len(Expected(a))

DnsAt(a, p, d) ==
  \/ \E q \in 0 .. 21 : p = Start(a) + q /\ HeaderAt(a, q, d)
  \/ \E k \in 1 .. Counted(a) : d.questions = 1 /\ RecordAt(a, k, p, d)
  \/ Complete(a, d)

Fresh == [state |-> "TRANSACTION", written |-> 0, questions |-> 0, answers |-> 0,
          room |-> 0, type |-> 0, len |-> 0, counter |-> 0, list |-> <<>>]

Tracks(a, p, m) ==
  /\ m.http \in HttpParser /\ m.dns \in DnsParser /\ Fits(m.dns)
  /\ Regular(a) =>
       IF Acceptable(a) THEN \/ HeadAt(a, FirstLength(a), m.http, p) /\ m.dns = Fresh
                             \/ m.http.state = "DONE" /\ DnsAt(a, p, m.dns)
                        ELSE Unaccepted(a, m.http, p) /\ m.dns = Fresh

DohIInv ==
  LET m == [http |-> http, dns |-> response]
  IN  /\ answer \in Answers /\ verdict \in {"broken", Verdict(m)}
      /\ \E p \in 0 .. Len(Wire(answer)) :
           rest = SubSeq(Wire(answer), p + 1, Len(Wire(answer))) /\ Tracks(answer, p, m)

-----------------------------------------------------------------------------
(* The head.                                                               *)

\* The comparison with two characters.
LEMMA SearchTwo ==
  ASSUME NEW string, NEW x, NEW y, string = <<x, y>>, NEW state, NEW found, NEW b
  PROVE  /\ Search(Searching(state, 0), b, string, found) = Searching(state, IF b = x THEN 1 ELSE 0)
         /\ Search(Searching(state, 1), b, string, found) =
              IF b = y THEN Searching(found, 0) ELSE Searching(state, 0)
<1>1. Len(string) = 2 /\ string[1] = x /\ string[2] = y  OBVIOUS
<1>2. Compare(string, 0, b) = (IF b = x THEN 1 ELSE -1) /\ Compare(string, 1, b) = (IF b = y THEN 2 ELSE -1)
  BY <1>1 DEF Compare, NEQ
<1>3. Restarted(1) = 1 /\ Restarted(-1) = 0  BY DEF Restarted, NEQ
<1> QED  BY <1>1, <1>2, <1>3 DEF Search, Searching, EQ

\* The comparison with the end of the head.
LEMMA SearchEmptyLine ==
  ASSUME NEW state, NEW found, NEW b
  PROVE  /\ Search(Searching(state, 0), b, EmptyLine, found) = Searching(state, IF b = CR THEN 1 ELSE 0)
         /\ Search(Searching(state, 1), b, EmptyLine, found) = Searching(state, IF b = LF THEN 2 ELSE 0)
         /\ Search(Searching(state, 2), b, EmptyLine, found) = Searching(state, IF b = CR THEN 3 ELSE 0)
         /\ Search(Searching(state, 3), b, EmptyLine, found) =
              IF b = LF THEN Searching(found, 0) ELSE Searching(state, 0)
<1>1. /\ Len(EmptyLine) = 4 /\ EmptyLine[1] = CR /\ EmptyLine[2] = LF /\ EmptyLine[3] = CR /\ EmptyLine[4] = LF
  BY DEF EmptyLine
<1>2. /\ Compare(EmptyLine, 0, b) = (IF b = CR THEN 1 ELSE -1) /\ Compare(EmptyLine, 1, b) = (IF b = LF THEN 2 ELSE -1)
      /\ Compare(EmptyLine, 2, b) = (IF b = CR THEN 3 ELSE -1) /\ Compare(EmptyLine, 3, b) = (IF b = LF THEN 4 ELSE -1)
  BY <1>1 DEF Compare, NEQ
<1>3. Restarted(1) = 1 /\ Restarted(2) = 2 /\ Restarted(3) = 3 /\ Restarted(-1) = 0  BY DEF Restarted, NEQ
<1> QED  BY <1>1, <1>2, <1>3 DEF Search, Searching, EQ

LEMMA TwoOfSeq ==
  ASSUME NEW s \in Seq(Byte), NEW n \in Nat \ {0}, n < Len(s), NEW z \in Seq(Byte), Len(z) = 2
  PROVE  SubSeq(s, n, n + 1) = z <=> s[n] = z[1] /\ s[n + 1] = z[2]
<1>1. PICK l \in Nat : l = Len(s) /\ n < l  BY LenProperties
<1>2. \A i \in n .. n + 1 : s[i] \in Byte  BY <1>1, ElementOfSeq
<1>3. PICK t : t = SubSeq(s, n, n + 1)  OBVIOUS
<1>4. Len(t) = 2 /\ t[1] = s[n] /\ t[2] = s[n + 1] /\ t \in Seq(Byte)
  <2>1. PICK e : e = n + 1 /\ e \in Int /\ n \in Int /\ n <= e /\ e - n + 1 = 2  OBVIOUS
  <2>2. \A i \in n .. e : s[i] \in Byte  BY <1>2, <2>1
  <2>3. /\ SubSeq(s, n, e) \in Seq(Byte) /\ Len(SubSeq(s, n, e)) = IF n <= e THEN e - n + 1 ELSE 0
        /\ \A i \in 1 .. e - n + 1 : SubSeq(s, n, e)[i] = s[n + i - 1]
    BY <2>1, <2>2, SubSeqProperties
  <2>4. t \in Seq(Byte) /\ Len(t) = 2 /\ \A i \in 1 .. 2 : t[i] = s[n + i - 1]  BY <1>3, <2>1, <2>3
  <2>5. 1 \in 1 .. 2 /\ 2 \in 1 .. 2 /\ n + 1 - 1 = n /\ n + 2 - 1 = n + 1  OBVIOUS
  <2> QED  BY <2>4, <2>5
<1>5. ASSUME s[n] = z[1] /\ s[n + 1] = z[2]  PROVE t = z
  <2>1. \A i \in 1 .. 2 : i = 1 \/ i = 2  OBVIOUS
  <2>2. \A i \in 1 .. 2 : t[i] = z[i]  BY <1>4, <1>5, <2>1
  <2>3. Len(t) = Len(z) /\ \A i \in 1 .. Len(t) : t[i] = z[i]  BY <1>4, <2>2
  <2> QED  BY <1>4, <2>3, SeqEqual
<1> QED  BY <1>3, <1>4, <1>5

LEMMA StringsDistinct ==
  /\ Status200 = <<50, 75>> /\ ContentLength = <<67, 76>> /\ C = 67 /\ CR = 13 /\ LF = 10
  /\ Status200[1] = 50 /\ Status200[2] = 75 /\ ContentLength[1] = 67 /\ ContentLength[2] = 76
BY DEF Status200, ContentLength, C, CR, LF

LEMMA StringBytes ==
  Status200 \in Seq(Byte) /\ Len(Status200) = 2 /\ ContentLength \in Seq(Byte) /\ Len(ContentLength) = 2
<1>1. 50 \in Byte /\ 75 \in Byte /\ 67 \in Byte /\ 76 \in Byte  BY SMT DEF Byte
<1>2. PICK x \in Byte, y \in Byte, u \in Byte, v \in Byte : x = 50 /\ y = 75 /\ u = 67 /\ v = 76  BY <1>1
<1>3. Status200 = <<x, y>> /\ ContentLength = <<u, v>>  BY <1>2, SMT DEF Status200, ContentLength, C
<1>4. <<x, y>> \in Seq(Byte) /\ <<u, v>> \in Seq(Byte)  BY <1>1
<1>5. Len(<<x, y>>) = 2 /\ Len(<<u, v>>) = 2  OBVIOUS
<1> QED  BY <1>3, <1>4, <1>5

LEMMA FirstLengthFacts ==
  ASSUME NEW a, IsAnswer(a), Acceptable(a)
  PROVE  /\ FirstLength(a) \in 2 .. Len(a.head) /\ LengthLine(a.head[FirstLength(a)])
         /\ \A i \in 2 .. FirstLength(a) - 1 : ~LengthLine(a.head[i])
<1>1. PICK n \in Nat : n = Len(a.head)  BY AnswerShape
<1> DEFINE Found2 == {i \in 2 .. n : LengthLine(a.head[i])}
<1>2. Found2 # {} /\ Found2 \in SUBSET Nat  BY <1>1 DEF Acceptable
<1>3. PICK f \in Found2 : \A i \in Found2 : f <= i
  <2> HIDE DEF Found2
  <2> QED  BY <1>2, LeastExists
<1>4. f \in 2 .. n /\ LengthLine(a.head[f]) /\ \A i \in 2 .. f - 1 : ~LengthLine(a.head[i])
  <2>1. f \in 2 .. n /\ LengthLine(a.head[f])  BY <1>3
  <2>2. ASSUME NEW i \in 2 .. f - 1  PROVE ~LengthLine(a.head[i])
    <3>1. i \in 2 .. n /\ ~(f <= i)  BY <2>1, <2>2
    <3> QED  BY <1>3, <3>1
  <2> QED  BY <2>1, <2>2
<1> DEFINE IsFirst(g) == LengthLine(a.head[g]) /\ \A i \in 2 .. g - 1 : ~LengthLine(a.head[i])
<1>5. FirstLength(a) = CHOOSE g \in 2 .. n : IsFirst(g)  BY <1>1 DEF FirstLength
<1>6. \E g \in 2 .. n : IsFirst(g)  BY <1>4
<1> HIDE DEF IsFirst
<1>7. FirstLength(a) \in 2 .. n /\ IsFirst(FirstLength(a))  BY <1>5, <1>6
<1> QED  BY <1>1, <1>7 DEF IsFirst

\* The status ends the first line, and a comparison that starts before it does not run into it.
StatusLine(line, l) ==
  /\ l >= 2 /\ line[l - 1] = 50 /\ line[l] = 75 /\ (l > 2 => line[l - 2] # 50)
  /\ \A j \in 1 .. l - 1 : line[j] = 50 /\ line[j + 1] = 75 => j + 1 = l

LEMMA OneBefore == ASSUME NEW l \in Nat, l > 1  PROVE \E n \in Nat \ {0} : n = l - 1 /\ n < l /\ n + 1 = l
OBVIOUS

LEMMA PlainLines ==
  ASSUME NEW a, IsAnswer(a), Plain(a), Acceptable(a),
         NEW first, first = a.head[1], NEW l \in Nat, l = Len(first)
  PROVE  StatusLine(first, l)
<1>1. first \in Seq(Byte) /\ 1 \in 1 .. Len(a.head)  BY AnswerShape
<1>2. l > 1 /\ SubSeq(first, l - 1, l) = Status200  BY DEF Acceptable, GoodStatus
<1>3. first[l - 1] = 50 /\ first[l] = 75
  <2>1. PICK n \in Nat \ {0} : n = l - 1 /\ n < l /\ n + 1 = l
    <3>1. l > 1  BY <1>2
    <3> QED  BY <3>1, OneBefore
  <2>2. SubSeq(first, n, n + 1) = Status200 <=> first[n] = Status200[1] /\ first[n + 1] = Status200[2]
    <3>1. n < Len(first)  BY <2>1
    <3> HIDE DEF Status200
    <3> QED  BY <1>1, <3>1, StringBytes, TwoOfSeq
  <2>3. SubSeq(first, n, n + 1) = Status200  BY <1>2, <2>1
  <2> QED  BY <2>1, <2>2, <2>3, StringsDistinct
<1>4. l > 2 => first[l - 2] # 50  BY StringsDistinct DEF Plain, Acceptable
<1>5. ASSUME NEW j \in 1 .. l - 1, first[j] = 50, first[j + 1] = 75  PROVE j + 1 = l
  <2>1. j \in DOMAIN first /\ j < l  BY <1>1, <1>5, LenProperties
  <2>2. At(Status200, first, j)  BY <1>5, <2>1, StringsDistinct DEF At
  <2> QED  BY <2>1, <2>2 DEF Plain
<1> QED  BY <1>2, <1>3, <1>4, <1>5 DEF StatusLine

\* Content-Length starts the line or is not in it.
OtherLine(line, l) ==
  /\ LengthLine(line) <=> l > 1 /\ line[1] = 67 /\ line[2] = 76
  /\ \A j \in 2 .. l - 1 : ~(line[j] = 67 /\ line[j + 1] = 76)

LEMMA PlainOthers ==
  ASSUME NEW a, IsAnswer(a), Plain(a), NEW i \in 2 .. Len(a.head),
         NEW line, line = a.head[i], NEW l \in Nat, l = Len(line)
  PROVE  OtherLine(line, l)
<1>1. line \in Seq(Byte)
  <2>1. i \in 1 .. Len(a.head)  BY AnswerShape
  <2> QED  BY <2>1, AnswerShape
<1>2. LengthLine(line) <=> l > 1 /\ line[1] = 67 /\ line[2] = 76
  <2>1. PICK n \in Nat \ {0} : n = 1 /\ n + 1 = 2  OBVIOUS
  <2>2. ASSUME n < l
        PROVE  SubSeq(line, n, n + 1) = ContentLength <=> line[n] = ContentLength[1] /\ line[n + 1] = ContentLength[2]
    BY <1>1, <2>2, StringBytes, TwoOfSeq
  <2>3. l > 1 => (SubSeq(line, 1, 2) = ContentLength <=> line[1] = ContentLength[1] /\ line[2] = ContentLength[2])
    BY <2>1, <2>2
  <2> QED  BY <2>3, StringsDistinct DEF LengthLine
<1>3. ASSUME NEW j \in 2 .. l - 1, line[j] = 67, line[j + 1] = 76  PROVE FALSE
  <2>1. At(ContentLength, line, j)  BY <1>3, StringsDistinct DEF At
  <2>2. j \in 2 .. Len(line)  BY <1>3
  <2> QED  BY <2>1, <2>2 DEF Plain
<1> QED  BY <1>2, <1>3 DEF OtherLine

LEMMA HttpMoves ==
  ASSUME NEW b
  PROVE  /\ HttpFeed(Searching("STATUS_CODE_FIRST", 0), b) = Searching("STATUS_CODE_FIRST", IF b = 50 THEN 1 ELSE 0)
         /\ HttpFeed(Searching("STATUS_CODE_FIRST", 1), b) =
              IF b = 75 THEN Searching("CONTENT_LENGTH", 0) ELSE Searching("STATUS_CODE_FIRST", 0)
         /\ HttpFeed(Searching("CONTENT_LENGTH", 0), b) = Searching("CONTENT_LENGTH", IF b = 67 THEN 1 ELSE 0)
         /\ HttpFeed(Searching("CONTENT_LENGTH", 1), b) =
              IF b = 76 THEN Searching("NUMBER", 0) ELSE Searching("CONTENT_LENGTH", 0)
         /\ HttpFeed(Searching("NUMBER", 0), b) = Searching(IF b # CR THEN "NUMBER" ELSE "FINISH", 0)
         /\ HttpFeed(Searching("FINISH", 0), b) = Searching(IF b # LF THEN "ERROR" ELSE "SECOND_LINE", 0)
         /\ HttpFeed(Searching("SECOND_LINE", 0), b) =
              Searching(IF b # CR THEN "PAYLOAD_DELIMITER" ELSE "LAST_CHARACTER", 0)
         /\ HttpFeed(Searching("LAST_CHARACTER", 0), b) = Searching(IF b # LF THEN "PAYLOAD_DELIMITER" ELSE "DONE", 0)
         /\ HttpFeed(Searching("PAYLOAD_DELIMITER", 0), b) = Searching("PAYLOAD_DELIMITER", IF b = CR THEN 1 ELSE 0)
         /\ HttpFeed(Searching("PAYLOAD_DELIMITER", 1), b) = Searching("PAYLOAD_DELIMITER", IF b = LF THEN 2 ELSE 0)
         /\ HttpFeed(Searching("PAYLOAD_DELIMITER", 2), b) = Searching("PAYLOAD_DELIMITER", IF b = CR THEN 3 ELSE 0)
         /\ HttpFeed(Searching("PAYLOAD_DELIMITER", 3), b) =
              IF b = LF THEN Searching("DONE", 0) ELSE Searching("PAYLOAD_DELIMITER", 0)
<1>1. \A k : HttpFeed(Searching("STATUS_CODE_FIRST", k), b) = Search(Searching("STATUS_CODE_FIRST", k), b, Status200, "CONTENT_LENGTH")
  BY DEF HttpFeed, Searching
<1>2. \A k : HttpFeed(Searching("CONTENT_LENGTH", k), b) = Search(Searching("CONTENT_LENGTH", k), b, ContentLength, "NUMBER")
  BY DEF HttpFeed, Searching
<1>3. \A k : HttpFeed(Searching("PAYLOAD_DELIMITER", k), b) = Search(Searching("PAYLOAD_DELIMITER", k), b, EmptyLine, "DONE")
  BY DEF HttpFeed, Searching
<1>4. /\ HttpFeed(Searching("STATUS_CODE_FIRST", 0), b) = Searching("STATUS_CODE_FIRST", IF b = 50 THEN 1 ELSE 0)
      /\ HttpFeed(Searching("STATUS_CODE_FIRST", 1), b) =
              IF b = 75 THEN Searching("CONTENT_LENGTH", 0) ELSE Searching("STATUS_CODE_FIRST", 0)
  BY <1>1, StringsDistinct, SearchTwo
<1>5. /\ HttpFeed(Searching("CONTENT_LENGTH", 0), b) = Searching("CONTENT_LENGTH", IF b = 67 THEN 1 ELSE 0)
      /\ HttpFeed(Searching("CONTENT_LENGTH", 1), b) =
              IF b = 76 THEN Searching("NUMBER", 0) ELSE Searching("CONTENT_LENGTH", 0)
  BY <1>2, StringsDistinct, SearchTwo
<1>6. /\ HttpFeed(Searching("NUMBER", 0), b) = Searching(IF b # CR THEN "NUMBER" ELSE "FINISH", 0)
      /\ HttpFeed(Searching("FINISH", 0), b) = Searching(IF b # LF THEN "ERROR" ELSE "SECOND_LINE", 0)
  BY DEF HttpFeed, Searching
<1>7. /\ HttpFeed(Searching("SECOND_LINE", 0), b) =
              Searching(IF b # CR THEN "PAYLOAD_DELIMITER" ELSE "LAST_CHARACTER", 0)
      /\ HttpFeed(Searching("LAST_CHARACTER", 0), b) = Searching(IF b # LF THEN "PAYLOAD_DELIMITER" ELSE "DONE", 0)
  BY DEF HttpFeed, Searching
<1> QED  BY <1>3, <1>4, <1>5, <1>6, <1>7, SearchEmptyLine

\* One byte of a line: of its text, its carriage return, or its line feed.
LineMoves(a, f, i, l, j, h, q) ==
  /\ h.state \notin {"DONE", "ERROR"}
  /\ j <= l => LineAt(a, f, q, i, j + 1)
  /\ j > l => IF i = Len(a.head) THEN EmptyAt(a, f, q, 0) ELSE LineAt(a, f, q, i + 1, 0)

LEMMA LineStep ==
  ASSUME NEW a, IsAnswer(a), Plain(a), Acceptable(a), NEW f, f = FirstLength(a),
         NEW i \in 1 .. Len(a.head), NEW line, line = a.head[i], NEW l \in Nat, l = Len(line),
         NEW j \in 0 .. l + 1, NEW h, LineAt(a, f, h, i, j),
         NEW b, j < l => b = line[j + 1], j = l => b = CR, j = l + 1 => b = LF
  PROVE  LineMoves(a, f, i, l, j, h, HttpFeed(h, b))
<1> SUFFICES /\ h.state \notin {"DONE", "ERROR"}
             /\ j <= l => LineAt(a, f, HttpFeed(h, b), i, j + 1)
             /\ j > l => IF i = Len(a.head) THEN EmptyAt(a, f, HttpFeed(h, b), 0)
                                            ELSE LineAt(a, f, HttpFeed(h, b), i + 1, 0)
  BY DEF LineMoves
<1>1. PICK n \in Nat : n = Len(a.head) /\ i \in 1 .. n  BY AnswerShape
<1>2. f \in 2 .. n /\ LengthLine(a.head[f]) /\ \A g \in 2 .. f - 1 : ~LengthLine(a.head[g])
  BY <1>1, FirstLengthFacts
<1>3. \A g \in 1 .. l : line[g] # CR /\ line[g] # LF  BY <1>1, AnswerShape
<1>4. PICK q : q = HttpFeed(h, b)  OBVIOUS
<1>5. \A s, k : Searching(s, k).state = s  BY DEF Searching
<1>6. j < l => b # CR /\ b # LF /\ j + 1 \in 1 .. l  BY <1>3
<1>7. CASE i = 1
  <2>1. /\ l >= 2 /\ line[l - 1] = 50 /\ line[l] = 75 /\ (l > 2 => line[l - 2] # 50)
        /\ \A g \in 1 .. l - 1 : line[g] = 50 /\ line[g + 1] = 75 => g + 1 = l
    <3>1. line = a.head[1]  BY <1>7
    <3>2. StatusLine(line, l)  BY <3>1, PlainLines
    <3> QED  BY <3>2 DEF StatusLine
  <2>2. CASE j < l
    <3>1. PICK k \in 0 .. 1 : /\ h = Searching("STATUS_CODE_FIRST", k)
                              /\ (k = 1 => j > 0 /\ line[j] = 50) /\ (j = l - 1 => k = 1)
      BY <1>7, <2>2, StringsDistinct DEF LineAt
    <3>2. b = line[j + 1]  BY <2>2
    <3>3. CASE j = l - 1
      <4>1. q = Searching("CONTENT_LENGTH", 0)  BY SMTT(40), <1>4, <2>1, <3>1, <3>2, <3>3, HttpMoves
      <4>2. j + 1 = l  BY <3>3
      <4>3. LineAt(a, f, q, i, j + 1)  BY SMTT(40), <1>2, <1>7, <4>1, <4>2 DEF LineAt
      <4> QED  BY <1>4, <1>5, <2>2, <3>1, <4>3
    <3>4. CASE j # l - 1
      <4>1. k = 1 => b # 75
        <5>1. ASSUME k = 1, b = 75  PROVE FALSE
          <6>1. j \in 1 .. l - 1 /\ line[j] = 50 /\ line[j + 1] = 75  BY SMTT(40), <2>2, <3>1, <3>2, <5>1
          <6> QED  BY <2>1, <3>4, <6>1
        <5> QED  BY <5>1
      <4>2. PICK r \in 0 .. 1 : q = Searching("STATUS_CODE_FIRST", r) /\ (r = 1 <=> k = 0 /\ b = 50)
        <5>1. CASE k = 0
          <6>1. q = Searching("STATUS_CODE_FIRST", IF b = 50 THEN 1 ELSE 0)  BY <1>4, <3>1, <5>1, HttpMoves
          <6> QED  BY <5>1, <6>1
        <5>2. CASE k = 1
          <6>1. q = Searching("STATUS_CODE_FIRST", 0)  BY <1>4, <3>1, <4>1, <5>2, HttpMoves
          <6> QED  BY <5>2, <6>1
        <5> QED  BY <5>1, <5>2
      <4>3. j + 1 = l - 1 => r = 1
        <5>1. ASSUME j + 1 = l - 1  PROVE r = 1
          <6>1. b = 50  BY <2>1, <3>2, <5>1
          <6>2. k = 0
            <7>1. k = 1 => l > 2 /\ j = l - 2 /\ line[l - 2] = 50  BY <3>1, <5>1
            <7> QED  BY SMTT(40), <2>1, <7>1
          <6> QED  BY <4>2, <6>1, <6>2
        <5> QED  BY <5>1
      <4>4. j + 1 < l /\ j + 1 > 0  BY <2>2, <3>4
      <4>5. r = 1 => line[j + 1] = Status200[1]  BY <3>2, <4>2, StringsDistinct
      <4>6. LineAt(a, f, q, i, j + 1)
        <5>1. i = 1 /\ ~(1 < i) /\ i # f /\ i # f + 1 /\ ~(i > f) /\ ~(j + 1 >= l)  BY SMTT(40), <1>2, <1>7, <4>4
        <5> QED  BY <4>2, <4>3, <4>4, <4>5, <5>1 DEF LineAt
      <4> QED  BY <1>4, <1>5, <2>2, <3>1, <4>6
    <3> QED  BY <3>3, <3>4
  <2>3. CASE j >= l
    <3>1. h = Searching("CONTENT_LENGTH", 0)  BY <1>7, <2>3 DEF LineAt
    <3>2. b # 67
      <4>1. b = CR \/ b = LF  BY <2>3
      <4> QED  BY <4>1, StringsDistinct
    <3>3. q = Searching("CONTENT_LENGTH", 0)  BY <1>4, <3>1, <3>2, HttpMoves
    <3>4. j <= l => LineAt(a, f, q, i, j + 1)  BY SMTT(40), <1>2, <1>7, <2>3, <3>3 DEF LineAt
    <3>5. LineAt(a, f, q, i + 1, 0)
      <4>1. i + 1 = 2  BY <1>7
      <4>2. f \in Int /\ (f = 2 \/ f > 2)  BY <1>2
      <4>3. LineAt(a, f, q, 2, 0)
        <5>1. CASE f = 2
          BY SMTT(40), <3>3, <5>1 DEF LineAt
        <5>2. CASE f > 2
          <6>1. 0 \in 0 .. 1 /\ 0 # 1 /\ 2 # 1 /\ 2 # f /\ 2 # f + 1 /\ ~(2 > f)  BY <4>2, <5>2
          <6> QED  BY <3>3, <5>2, <6>1 DEF LineAt
        <5> QED  BY <4>2, <5>1, <5>2
      <4> QED  BY <4>1, <4>3
    <3>6. i # n  BY <1>2, <1>7
    <3> QED  BY <1>1, <1>4, <1>5, <3>1, <3>4, <3>5, <3>6
  <2> QED  BY <2>2, <2>3
<1>8. CASE 1 < i /\ i < f
  <2>1. /\ ~(l > 1 /\ line[1] = 67 /\ line[2] = 76)
        /\ \A g \in 2 .. l - 1 : ~(line[g] = 67 /\ line[g + 1] = 76)
    <3>1. i \in 2 .. Len(a.head) /\ i \in 2 .. f - 1  BY <1>1, <1>2, <1>8
    <3>2. OtherLine(line, l)  BY <3>1, PlainOthers
    <3>3. ~LengthLine(line)  BY <1>2, <3>1
    <3> QED  BY <3>2, <3>3 DEF OtherLine
  <2>2. PICK k \in 0 .. 1 : h = Searching("CONTENT_LENGTH", k) /\ (k = 1 => j \in 1 .. l /\ line[j] = 67)
    BY <1>8, StringsDistinct DEF LineAt
  <2>3. k = 1 => b # 76
    <3>1. ASSUME k = 1, b = 76  PROVE FALSE
      <4>1. j < l  BY <2>2, <3>1, StringsDistinct
      <4>2. line[j] = 67 /\ line[j + 1] = 76 /\ j \in 1 .. l - 1  BY SMTT(40), <2>2, <3>1, <4>1
      <4>3. j = 1 \/ j \in 2 .. l - 1  BY <4>2
      <4>4. CASE j = 1
        <5>1. l > 1 /\ line[1] = 67 /\ line[2] = 76  BY <4>1, <4>2, <4>4
        <5> QED  BY <2>1, <5>1
      <4>5. CASE j \in 2 .. l - 1
        BY <2>1, <4>2, <4>5
      <4> QED  BY <4>3, <4>4, <4>5
    <3> QED  BY <3>1
  <2>4. PICK r \in 0 .. 1 : q = Searching("CONTENT_LENGTH", r) /\ (r = 1 => b = 67)
    <3>1. CASE k = 0
      <4>1. q = Searching("CONTENT_LENGTH", IF b = 67 THEN 1 ELSE 0)  BY <1>4, <2>2, <3>1, HttpMoves
      <4> QED  BY <4>1
    <3>2. CASE k = 1
      <4>1. q = Searching("CONTENT_LENGTH", 0)  BY <1>4, <2>2, <2>3, <3>2, HttpMoves
      <4> QED  BY <4>1
    <3> QED  BY <3>1, <3>2
  <2>5. r = 1 => j < l /\ j + 1 \in 1 .. l /\ line[j + 1] = C
    <3>1. r = 1 => b # CR /\ b # LF /\ b = C  BY <2>4, StringsDistinct
    <3> QED  BY SMTT(40), <3>1
  <2>6. j <= l => LineAt(a, f, q, i, j + 1)  BY SMTT(40), <1>2, <1>8, <2>4, <2>5 DEF LineAt
  <2>7. j > l => LineAt(a, f, q, i + 1, 0)
    <3>1. j > l => q = Searching("CONTENT_LENGTH", 0)  BY <2>4, <2>5
    <3>2. (i + 1 < f \/ i + 1 = f) /\ 1 < i + 1  BY <1>2, <1>8
    <3>3. ASSUME j > l  PROVE LineAt(a, f, q, i + 1, 0)
      <4>1. 0 \in 0 .. 1 /\ ~(0 = 1)  OBVIOUS
      <4>2. CASE i + 1 < f
        BY SMTT(30), <1>2, <1>8, <3>1, <3>3, <4>1, <4>2 DEF LineAt
      <4>3. CASE i + 1 = f
        BY SMTT(40), <1>2, <1>8, <3>1, <3>3, <4>1, <4>3 DEF LineAt
      <4> QED  BY <3>2, <4>2, <4>3
    <3> QED  BY <3>3
  <2>8. i # n  BY <1>1, <1>2, <1>8
  <2> QED  BY <1>1, <1>4, <1>5, <2>2, <2>6, <2>7, <2>8
<1>9. CASE i = f
  <2>1. l > 1 /\ line[1] = 67 /\ line[2] = 76
    <3>1. i \in 2 .. Len(a.head)  BY <1>1, <1>2, <1>9
    <3>2. OtherLine(line, l)  BY <3>1, PlainOthers
    <3> QED  BY <1>2, <1>9, <3>2 DEF OtherLine
  <2>2. i # 1 /\ ~(i < f) /\ ~(i > f) /\ i # f + 1  BY SMTT(40), <1>2, <1>9
  <2>3. CASE j < 2
    <3>1. h = Searching("CONTENT_LENGTH", j)  BY <1>9, <2>3 DEF LineAt
    <3>2. b = IF j = 0 THEN 67 ELSE 76  BY SMTT(40), <2>1, <2>3
    <3>3. q = IF j = 0 THEN Searching("CONTENT_LENGTH", 1) ELSE Searching("NUMBER", 0)
      BY <1>4, <2>3, <3>1, <3>2, HttpMoves
    <3>4. j < l  BY <2>1, <2>3
    <3>5. LineAt(a, f, q, i, j + 1)  BY <1>9, <2>1, <2>2, <2>3, <3>3 DEF LineAt
    <3> QED  BY <1>4, <1>5, <3>1, <3>4, <3>5
  <2>4. CASE 2 <= j /\ j <= l
    <3>1. h = Searching("NUMBER", 0)  BY <1>9, <2>4 DEF LineAt
    <3>2. q = IF j = l THEN Searching("FINISH", 0) ELSE Searching("NUMBER", 0)
      BY SMTT(40), <1>4, <1>6, <2>4, <3>1, HttpMoves
    <3>3. LineAt(a, f, q, i, j + 1)  BY <1>9, <2>2, <2>4, <3>2 DEF LineAt
    <3> QED  BY <1>4, <1>5, <2>4, <3>1, <3>3
  <2>5. CASE j = l + 1
    <3>1. h = Searching("FINISH", 0)  BY <1>9, <2>1, <2>5 DEF LineAt
    <3>2. q = Searching("SECOND_LINE", 0)  BY <1>4, <2>5, <3>1, HttpMoves
    <3>3. CASE i = n
      <4>1. EmptyAt(a, f, q, 0)  BY <1>1, <1>9, <3>2, <3>3 DEF EmptyAt
      <4> QED  BY <1>1, <1>4, <1>5, <2>5, <3>1, <3>3, <4>1
    <3>4. CASE i # n
      <4>1. i + 1 # 1 /\ ~(i + 1 < f) /\ i + 1 # f /\ i + 1 = f + 1  BY SMTT(40), <1>2, <1>9
      <4>2. LineAt(a, f, q, i + 1, 0)  BY <1>2, <3>2, <4>1 DEF LineAt
      <4> QED  BY <1>1, <1>4, <1>5, <2>5, <3>1, <3>4, <4>2
    <3> QED  BY <3>3, <3>4
  <2> QED  BY SMTT(40), <2>3, <2>4, <2>5
<1>10. CASE i > f
  <2>1. i # 1 /\ ~(i < f) /\ i # f /\ (i = f + 1 \/ i > f + 1)  BY SMTT(40), <1>1, <1>2, <1>10
  <2>2. l > 0  BY <1>1, <2>1, AnswerShape
  <2>3. CASE i = f + 1 /\ j = 0
    <3>1. h = Searching("SECOND_LINE", 0)  BY <2>3 DEF LineAt
    <3>2. j < l  BY <2>2, <2>3
    <3>3. q = Searching("PAYLOAD_DELIMITER", 0)  BY <1>4, <1>6, <3>1, <3>2, HttpMoves
    <3>4. LineAt(a, f, q, i, j + 1)  BY <1>2, <2>1, <2>2, <2>3, <3>2, <3>3 DEF LineAt
    <3> QED  BY <1>4, <1>5, <3>1, <3>2, <3>4
  <2>4. CASE ~(i = f + 1 /\ j = 0)
    <3>1. h = Searching("PAYLOAD_DELIMITER", IF j = 0 THEN 2 ELSE IF j > l THEN 1 ELSE 0)
      <4>1. i > f + 1 \/ j > 0  BY <2>1, <2>4
      <4> QED  BY <1>10, <4>1 DEF LineAt
    <3>2. CASE j < l
      <4>1. h = Searching("PAYLOAD_DELIMITER", 2) \/ h = Searching("PAYLOAD_DELIMITER", 0)  BY <3>1, <3>2
      <4>2. q = Searching("PAYLOAD_DELIMITER", 0)  BY <1>4, <1>6, <3>2, <4>1, HttpMoves
      <4>3. j + 1 # 0 /\ j + 1 <= l /\ j + 1 > 0  BY <3>2
      <4>4. LineAt(a, f, q, i, j + 1)  BY SMTT(40), <1>2, <2>1, <4>2, <4>3 DEF LineAt
      <4> QED  BY <1>4, <1>5, <3>2, <4>1, <4>4
    <3>3. CASE j = l
      <4>1. h = Searching("PAYLOAD_DELIMITER", 0)  BY <2>2, <3>1, <3>3
      <4>2. q = Searching("PAYLOAD_DELIMITER", 1)  BY <1>4, <3>3, <4>1, HttpMoves
      <4>3. j + 1 # 0 /\ j + 1 > l  BY <3>3
      <4>4. LineAt(a, f, q, i, j + 1)  BY <1>2, <2>1, <4>2, <4>3 DEF LineAt
      <4> QED  BY <1>4, <1>5, <3>3, <4>1, <4>4
    <3>4. CASE j = l + 1
      <4>1. h = Searching("PAYLOAD_DELIMITER", 1)  BY <3>1, <3>4
      <4>2. q = Searching("PAYLOAD_DELIMITER", 2)  BY <1>4, <3>4, <4>1, HttpMoves
      <4>3. CASE i = n
        <5>1. f # n  BY <1>2, <1>10, <4>3
        <5>2. EmptyAt(a, f, q, 0)  BY <1>1, <4>2, <5>1 DEF EmptyAt
        <5> QED  BY <1>1, <1>4, <1>5, <3>4, <4>1, <4>3, <5>2
      <4>4. CASE i # n
        <5>1. i + 1 # 1 /\ ~(i + 1 < f) /\ i + 1 # f /\ i + 1 # f + 1 /\ i + 1 > f + 1  BY <1>1, <1>2, <1>10
        <5>2. LineAt(a, f, q, i + 1, 0)  BY <1>2, <4>2, <5>1 DEF LineAt
        <5> QED  BY <1>1, <1>4, <1>5, <3>4, <4>1, <4>4, <5>2
      <4> QED  BY <4>3, <4>4
    <3> QED  BY <3>2, <3>3, <3>4
  <2> QED  BY <2>3, <2>4
<1> QED  BY <1>1, <1>2, <1>7, <1>8, <1>9, <1>10

LEMMA EmptyStep ==
  ASSUME NEW a, NEW f, NEW j \in 0 .. 1, NEW h, EmptyAt(a, f, h, j), NEW b, b = IF j = 0 THEN CR ELSE LF
  PROVE  /\ h.state \notin {"DONE", "ERROR"}
         /\ IF j = 0 THEN EmptyAt(a, f, HttpFeed(h, b), 1) ELSE HttpFeed(h, b).state = "DONE"
<1>1. \A s, k : Searching(s, k).state = s  BY DEF Searching
<1>2. PICK q : q = HttpFeed(h, b)  OBVIOUS
<1>3. CASE j = 0
  <2>1. h = IF f = Len(a.head) THEN Searching("SECOND_LINE", 0) ELSE Searching("PAYLOAD_DELIMITER", 2)
    BY <1>3 DEF EmptyAt
  <2>2. q = IF f = Len(a.head) THEN Searching("LAST_CHARACTER", 0) ELSE Searching("PAYLOAD_DELIMITER", 3)
    BY <1>2, <1>3, <2>1, HttpMoves
  <2>3. EmptyAt(a, f, q, 1)  BY <2>2 DEF EmptyAt
  <2> QED  BY <1>1, <1>2, <1>3, <2>1, <2>3
<1>4. CASE j = 1
  <2>1. h = IF f = Len(a.head) THEN Searching("LAST_CHARACTER", 0) ELSE Searching("PAYLOAD_DELIMITER", 3)
    BY <1>4 DEF EmptyAt
  <2>2. q = Searching("DONE", 0)  BY <1>2, <1>4, <2>1, HttpMoves
  <2> QED  BY <1>1, <1>2, <1>4, <2>1, <2>2
<1> QED  BY <1>3, <1>4

\* One byte of an accepted head; the last one is the line feed of the empty line.
LEMMA HeadStep ==
  ASSUME NEW a, IsAnswer(a), Plain(a), Acceptable(a), NEW f, f = FirstLength(a),
         NEW p \in Nat, NEW h, HeadAt(a, f, h, p), NEW b, b = Wire(a)[p + 1]
  PROVE  /\ p < Start(a) /\ h.state \notin {"DONE", "ERROR"}
         /\ \/ HeadAt(a, f, HttpFeed(h, b), p + 1)
            \/ HttpFeed(h, b).state = "DONE" /\ p + 1 = Start(a)
<1>1. PICK n \in Nat : n = Len(a.head)  BY AnswerShape
<1>2. PICK w \in Seq(Byte), s \in Nat : w = Wire(a) /\ s = Start(a) /\ s >= 2 /\ s = LineEnd(a, n) + 2
  BY <1>1, WireLayout DEF Start
<1>3. PICK q : q = HttpFeed(h, b)  OBVIOUS
<1>4. CASE \E i \in 1 .. Len(a.head) : \E j \in 0 .. Len(a.head[i]) + 1 :
             p = LineEnd(a, i - 1) + j /\ LineAt(a, f, h, i, j)
  <2>1. PICK i \in 1 .. n : \E j \in 0 .. Len(a.head[i]) + 1 : p = LineEnd(a, i - 1) + j /\ LineAt(a, f, h, i, j)
    BY <1>1, <1>4
  <2>2. PICK line \in Seq(Byte), l \in Nat : line = a.head[i] /\ l = Len(line)  BY <1>1, AnswerShape
  <2>3. PICK j \in 0 .. l + 1 : p = LineEnd(a, i - 1) + j /\ LineAt(a, f, h, i, j)  BY <2>1, <2>2
  <2>4. PICK u \in Nat : u = LineEnd(a, i - 1) /\ LineEnd(a, i) = u + l + 2 /\ Lies(line, w, u)
                         /\ w[(u + l + 2) - 1] = CR /\ w[u + l + 2] = LF
    BY <1>1, <1>2, <2>2, WireLayout
  <2>5. j < l => b = line[j + 1]
    <3>1. ASSUME j < l  PROVE b = line[j + 1]
      <4>1. j + 1 \in 1 .. l /\ u + (j + 1) = p + 1  BY <2>3, <2>4, <3>1
      <4> QED  BY <1>2, <2>2, <2>4, <4>1 DEF Lies
    <3> QED  BY <3>1
  <2>6. j = l => b = CR
    <3>1. j = l => p + 1 = (u + l + 2) - 1  BY <2>3, <2>4
    <3> QED  BY <1>2, <2>4, <3>1
  <2>7. j = l + 1 => b = LF
    <3>1. j = l + 1 => p + 1 = u + l + 2  BY <2>3, <2>4
    <3> QED  BY <1>2, <2>4, <3>1
  <2>8. /\ h.state \notin {"DONE", "ERROR"}
        /\ j <= l => LineAt(a, f, q, i, j + 1)
        /\ j > l => IF i = n THEN EmptyAt(a, f, q, 0) ELSE LineAt(a, f, q, i + 1, 0)
    <3>1. i \in 1 .. Len(a.head)  BY <1>1
    <3>3. LineMoves(a, f, i, l, j, h, HttpFeed(h, b))  BY <2>2, <2>3, <2>5, <2>6, <2>7, <3>1, LineStep
    <3> QED  BY <1>1, <1>3, <3>3 DEF LineMoves
  <2>9. p < s /\ u + l + 2 <= s - 2
    <3>1. \A g \in 1 .. n : LineEnd(a, g - 1) \in Nat /\ Len(a.head[g]) \in Nat
                            /\ LineEnd(a, g) = LineEnd(a, g - 1) + Len(a.head[g]) + 2
      BY <1>1, WireLayout, AnswerShape
    <3> DEFINE Beyond == {g \in i .. n : ~(u + l + 2 <= LineEnd(a, g))}
    <3>2. Beyond = {}
      <4>1. SUFFICES ASSUME Beyond # {}  PROVE FALSE
        OBVIOUS
      <4>2. PICK g \in Beyond : \A k \in Beyond : g <= k
        <5>1. Beyond \in SUBSET Nat  BY <1>1
        <5> HIDE DEF Beyond
        <5> QED  BY <4>1, <5>1, LeastExists
      <4>3. g \in i .. n /\ ~(u + l + 2 <= LineEnd(a, g))  BY <4>2
      <4>4. g # i  BY <2>4, <4>3
      <4>5. g - 1 \in i .. n /\ g \in 1 .. n /\ g - 1 \in Int  BY <1>1, <2>1, <4>3, <4>4
      <4>6. g - 1 \notin Beyond
        <5>1. g - 1 \in Beyond => g <= g - 1  BY <4>2
        <5> QED  BY <4>3, <5>1
      <4>7. u + l + 2 <= LineEnd(a, g - 1)  BY <4>5, <4>6
      <4>8. PICK x \in Nat, y \in Nat : x = LineEnd(a, g - 1) /\ y = Len(a.head[g]) /\ LineEnd(a, g) = x + y + 2
        BY <3>1, <4>5
      <4>9. ~(u + l + 2 <= x + y + 2) /\ u + l + 2 <= x  BY <4>3, <4>7, <4>8
      <4> QED  BY SMTT(40), <2>4, <4>9
    <3>3. n \in i .. n  BY <1>1, <2>1
    <3>4. u + l + 2 <= LineEnd(a, n)  BY <3>2, <3>3
    <3>5. LineEnd(a, n) = s - 2
      <4>1. n \in 1 .. n  BY <1>1, <2>1
      <4>2. PICK x \in Nat, y \in Nat : x = LineEnd(a, n - 1) /\ y = Len(a.head[n]) /\ LineEnd(a, n) = x + y + 2
        BY <3>1, <4>1
      <4>3. x + y + 2 \in Nat  OBVIOUS
      <4>4. LineEnd(a, n) \in Nat  BY <4>2, <4>3
      <4> HIDE DEF LineEnd
      <4> QED  BY <1>2, <4>4
    <3>6. u + l + 2 <= s - 2  BY <3>4, <3>5
    <3>7. p = u + j /\ u \in Nat  BY <2>3, <2>4
    <3> QED  BY <1>2, <3>6, <3>7
  <2>10. CASE j <= l
    <3>1. j + 1 \in 0 .. l + 1 /\ p + 1 = u + (j + 1)  BY <2>3, <2>4, <2>10
    <3>2. HeadAt(a, f, q, p + 1)  BY <1>1, <2>1, <2>2, <2>4, <2>8, <2>10, <3>1 DEF HeadAt
    <3> QED  BY <1>2, <1>3, <2>8, <2>9, <3>2
  <2>11. CASE j = l + 1
    <3>1. p + 1 = u + l + 2 /\ p + 1 = LineEnd(a, i)  BY <2>3, <2>4, <2>11
    <3>2. CASE i = n
      <4>1. p + 1 = s - 2 + 0 /\ 0 \in 0 .. 1
        <5>1. LineEnd(a, n) \in Int  BY SMTT(40), <2>4, <3>2
        <5> QED  BY <1>2, <3>1, <3>2, <5>1
      <4>2. HeadAt(a, f, q, p + 1)  BY <1>2, <2>8, <2>11, <3>2, <4>1 DEF HeadAt
      <4> QED  BY <1>2, <1>3, <2>8, <2>9, <4>2
    <3>3. CASE i # n
      <4>1. i + 1 \in 1 .. n /\ (i + 1) - 1 = i  BY <1>1, <2>1, <3>3
      <4>2. Len(a.head[i + 1]) \in Nat  BY <1>1, <4>1, AnswerShape
      <4>3. 0 \in 0 .. Len(a.head[i + 1]) + 1 /\ p + 1 = LineEnd(a, (i + 1) - 1) + 0  BY <3>1, <4>1, <4>2
      <4>4. LineAt(a, f, q, i + 1, 0)  BY <2>8, <2>11, <3>3
      <4>5. HeadAt(a, f, q, p + 1)  BY <1>1, <4>1, <4>3, <4>4 DEF HeadAt
      <4> QED  BY <1>2, <1>3, <2>8, <2>9, <4>5
    <3> QED  BY <3>2, <3>3
  <2> QED  BY <2>10, <2>11
<1>5. CASE \E j \in 0 .. 1 : p = Start(a) - 2 + j /\ EmptyAt(a, f, h, j)
  <2>1. PICK j \in 0 .. 1 : p = s - 2 + j /\ EmptyAt(a, f, h, j)  BY <1>2, <1>5
  <2>2. b = IF j = 0 THEN CR ELSE LF
    <3>1. w[s - 1] = CR /\ w[s] = LF  BY <1>2, WireLayout
    <3>2. p + 1 = IF j = 0 THEN s - 1 ELSE s  BY <2>1
    <3> QED  BY <1>2, <3>1, <3>2
  <2>3. h.state \notin {"DONE", "ERROR"} /\ IF j = 0 THEN EmptyAt(a, f, q, 1) ELSE q.state = "DONE"
    BY <1>3, <2>1, <2>2, EmptyStep
  <2>4. p < s /\ (j = 0 => p + 1 = s - 2 + 1) /\ (j = 1 => p + 1 = s)  BY <2>1
  <2>5. CASE j = 0
    <3>1. 1 \in 0 .. 1  OBVIOUS
    <3>2. HeadAt(a, f, q, p + 1)  BY <1>2, <2>3, <2>4, <2>5, <3>1 DEF HeadAt
    <3> QED  BY <1>2, <1>3, <2>3, <2>4, <3>2
  <2>6. CASE j = 1
    BY <1>2, <1>3, <2>3, <2>4, <2>6
  <2> QED  BY <2>5, <2>6
<1> QED  BY <1>4, <1>5 DEF HeadAt

\* One byte of an answer whose head is not accepted.
LEMMA UnacceptedStep ==
  ASSUME NEW a, IsAnswer(a), Plain(a), ~Acceptable(a),
         NEW p \in Nat, p < Len(Wire(a)), NEW h, Unaccepted(a, h, p), NEW b, b = Wire(a)[p + 1]
  PROVE  h.state \notin {"DONE", "ERROR"} /\ Unaccepted(a, HttpFeed(h, b), p + 1)
<1>1. PICK w \in Seq(Byte), l \in Nat : w = Wire(a) /\ l = Len(w) /\ p < l  BY WireLayout, LenProperties
<1>2. PICK q : q = HttpFeed(h, b)  OBVIOUS
<1>3. \A s, k : Searching(s, k).state = s  BY DEF Searching
<1>4. p + 1 > 0 /\ p + 1 \in DOMAIN w /\ (p > 0 => p \in DOMAIN w /\ p < l)  BY <1>1, LenProperties
<1>5. PICK none \in BOOLEAN : none <=> ~ \E i \in 2 .. Len(a.head) : LengthLine(a.head[i])  OBVIOUS
<1>6. \A x \in DOMAIN w : /\ At(Status200, w, x) => GoodStatus(a.head[1])
                          /\ At(ContentLength, w, x) => ~none
  BY <1>1, <1>5 DEF Plain
<1>7. GoodStatus(a.head[1]) => none  BY <1>5 DEF Acceptable
<1>8. PICK k \in 0 .. 1 :
        \/ h = Searching("STATUS_CODE_FIRST", k) /\ (k = 1 => p > 0 /\ w[p] = 50)
        \/ h = Searching("CONTENT_LENGTH", k) /\ (k = 1 => p > 0 /\ w[p] = 67) /\ none
  BY <1>1, <1>5, StringsDistinct DEF Unaccepted
<1>9. CASE h = Searching("STATUS_CODE_FIRST", k) /\ (k = 1 => p > 0 /\ w[p] = 50)
  <2>1. k = 1 /\ b = 75 => none
    <3>1. ASSUME k = 1, b = 75  PROVE At(Status200, w, p)
      BY <1>1, <1>9, <3>1, StringsDistinct DEF At
    <3> QED  BY <1>4, <1>6, <1>7, <1>9, <3>1
  <2>2. PICK r \in 0 .. 1 :
          \/ q = Searching("STATUS_CODE_FIRST", r) /\ (r = 1 => b = 50)
          \/ q = Searching("CONTENT_LENGTH", 0) /\ none
    <3>1. CASE k = 0
      <4>1. q = Searching("STATUS_CODE_FIRST", IF b = 50 THEN 1 ELSE 0)  BY <1>2, <1>9, <3>1, HttpMoves
      <4> QED  BY <4>1
    <3>2. CASE k = 1
      <4>1. q = IF b = 75 THEN Searching("CONTENT_LENGTH", 0) ELSE Searching("STATUS_CODE_FIRST", 0)
        BY <1>2, <1>9, <3>2, HttpMoves
      <4> QED  BY <2>1, <3>2, <4>1
    <3> QED  BY <3>1, <3>2
  <2>3. Unaccepted(a, q, p + 1)  BY <1>1, <1>4, <1>5, <2>2, StringsDistinct DEF Unaccepted
  <2> QED  BY <1>2, <1>3, <1>9, <2>3
<1>10. CASE h = Searching("CONTENT_LENGTH", k) /\ (k = 1 => p > 0 /\ w[p] = 67) /\ none
  <2>1. ~(k = 1 /\ b = 76)
    <3>1. ASSUME k = 1, b = 76  PROVE At(ContentLength, w, p)
      BY <1>1, <1>10, <3>1, StringsDistinct DEF At
    <3> QED  BY <1>4, <1>6, <1>10, <3>1
  <2>2. PICK r \in 0 .. 1 : q = Searching("CONTENT_LENGTH", r) /\ (r = 1 => b = 67)
    <3>1. CASE k = 0
      <4>1. q = Searching("CONTENT_LENGTH", IF b = 67 THEN 1 ELSE 0)  BY <1>2, <1>10, <3>1, HttpMoves
      <4> QED  BY <4>1
    <3>2. CASE k = 1
      <4>1. q = Searching("CONTENT_LENGTH", 0)  BY <1>2, <1>10, <2>1, <3>2, HttpMoves
      <4> QED  BY <4>1
    <3> QED  BY <3>1, <3>2
  <2>3. Unaccepted(a, q, p + 1)  BY <1>1, <1>4, <1>5, <1>10, <2>2, StringsDistinct DEF Unaccepted
  <2> QED  BY <1>2, <1>3, <1>10, <2>3
<1> QED  BY <1>8, <1>9, <1>10

-----------------------------------------------------------------------------
(* The message.                                                            *)

LEMMA AfterStates ==
  /\ DOMAIN After = {"TRANSACTION", "FLAGS", "AUTHORITY", "ADITIONAL", "QUERIES_TYPE", "QUERIES_CLASS", "ANSWERS_CLASS"}
  /\ After["TRANSACTION"] = "FLAGS" /\ After["FLAGS"] = "QUESTIONS_HIGH" /\ After["AUTHORITY"] = "ADITIONAL"
  /\ After["ADITIONAL"] = "QUERIES_NAME" /\ After["QUERIES_TYPE"] = "QUERIES_CLASS"
  /\ After["QUERIES_CLASS"] = "ANSWERS_NAME" /\ After["ANSWERS_CLASS"] = "ANSWERS_TTL"
BY DEF After

\* The first and the second byte of a field of two.
FirstOfTwo(d, e) == e = [d EXCEPT !.written = 1]
SecondOfTwo(d, e, next) == e = [d EXCEPT !.written = 0, !.state = next]

LEMMA TwoMoves ==
  ASSUME NEW d \in DnsParser, NEW b
  PROVE  /\ d.written = 0 /\ d.state \in {"TRANSACTION", "FLAGS", "AUTHORITY", "ADITIONAL", "QUERIES_TYPE", "QUERIES_CLASS", "ANSWERS_CLASS"}
              => FirstOfTwo(d, DnsFeed(d, b))
         /\ d.written = 1 =>
              /\ d.state = "TRANSACTION" => SecondOfTwo(d, DnsFeed(d, b), "FLAGS")
              /\ d.state = "FLAGS" => SecondOfTwo(d, DnsFeed(d, b), "QUESTIONS_HIGH")
              /\ d.state = "AUTHORITY" => SecondOfTwo(d, DnsFeed(d, b), "ADITIONAL")
              /\ d.state = "ADITIONAL" => SecondOfTwo(d, DnsFeed(d, b), "QUERIES_NAME")
              /\ d.state = "QUERIES_TYPE" => SecondOfTwo(d, DnsFeed(d, b), "QUERIES_CLASS")
              /\ d.state = "QUERIES_CLASS" => SecondOfTwo(d, DnsFeed(d, b), "ANSWERS_NAME")
              /\ d.state = "ANSWERS_CLASS" => SecondOfTwo(d, DnsFeed(d, b), "ANSWERS_TTL")
<1>1. d.state \in DOMAIN After => DnsFeed(d, b) = TwoBytes(d)
  <2>1. ASSUME d.state \in DOMAIN After  PROVE DnsFeed(d, b) = TwoBytes(d)
    <3>1. d.state \in {"TRANSACTION", "FLAGS", "AUTHORITY", "ADITIONAL", "QUERIES_TYPE", "QUERIES_CLASS", "ANSWERS_CLASS"}
      BY <2>1, AfterStates
    <3> QED  BY <2>1, <3>1 DEF DnsFeed
  <2> QED  BY <2>1
<1>2. d.written = 0 => FirstOfTwo(d, TwoBytes(d))  BY DEF TwoBytes, FirstOfTwo
<1>3. PICK next : next = After[d.state]  OBVIOUS
<1>4. d.written = 1 => SecondOfTwo(d, TwoBytes(d), next)  BY <1>3 DEF TwoBytes, SecondOfTwo
<1>5. CASE d.written = 1
  <2>1. CASE d.state = "TRANSACTION"
    <3>1. d.state \in DOMAIN After /\ next = "FLAGS"  BY <1>3, <2>1, AfterStates
    <3> QED  BY <1>1, <1>4, <1>5, <2>1, <3>1
  <2>2. CASE d.state = "FLAGS"
    <3>1. d.state \in DOMAIN After /\ next = "QUESTIONS_HIGH"  BY <1>3, <2>2, AfterStates
    <3> QED  BY <1>1, <1>4, <1>5, <2>2, <3>1
  <2>3. CASE d.state = "AUTHORITY"
    <3>1. d.state \in DOMAIN After /\ next = "ADITIONAL"  BY <1>3, <2>3, AfterStates
    <3> QED  BY <1>1, <1>4, <1>5, <2>3, <3>1
  <2>4. CASE d.state = "ADITIONAL"
    <3>1. d.state \in DOMAIN After /\ next = "QUERIES_NAME"  BY <1>3, <2>4, AfterStates
    <3> QED  BY <1>1, <1>4, <1>5, <2>4, <3>1
  <2>5. CASE d.state = "QUERIES_TYPE"
    <3>1. d.state \in DOMAIN After /\ next = "QUERIES_CLASS"  BY <1>3, <2>5, AfterStates
    <3> QED  BY <1>1, <1>4, <1>5, <2>5, <3>1
  <2>6. CASE d.state = "QUERIES_CLASS"
    <3>1. d.state \in DOMAIN After /\ next = "ANSWERS_NAME"  BY <1>3, <2>6, AfterStates
    <3> QED  BY <1>1, <1>4, <1>5, <2>6, <3>1
  <2>7. CASE d.state = "ANSWERS_CLASS"
    <3>1. d.state \in DOMAIN After /\ next = "ANSWERS_TTL"  BY <1>3, <2>7, AfterStates
    <3> QED  BY <1>1, <1>4, <1>5, <2>7, <3>1
  <2> QED  BY <1>5, <2>1, <2>2, <2>3, <2>4, <2>5, <2>6, <2>7
<1>6. CASE d.written = 0
  <2>1. d.state \in DOMAIN After => FirstOfTwo(d, DnsFeed(d, b))  BY <1>1, <1>2, <1>6
  <2> QED  BY <1>6, <2>1, AfterStates
<1> QED  BY <1>5, <1>6

LEMMA HeaderStates ==
  /\ HeaderState(0) = "TRANSACTION" /\ HeaderWritten(0) = 0
  /\ HeaderState(1) = "TRANSACTION" /\ HeaderWritten(1) = 1
  /\ HeaderState(2) = "FLAGS" /\ HeaderWritten(2) = 0
  /\ HeaderState(3) = "FLAGS" /\ HeaderWritten(3) = 1
  /\ HeaderState(4) = "QUESTIONS_HIGH" /\ HeaderWritten(4) = 0
  /\ HeaderState(5) = "QUESTIONS_LOW" /\ HeaderWritten(5) = 0
  /\ HeaderState(6) = "ANSWERS_HIGH" /\ HeaderWritten(6) = 0
  /\ HeaderState(7) = "ANSWERS_LOW" /\ HeaderWritten(7) = 0
  /\ HeaderState(8) = "AUTHORITY" /\ HeaderWritten(8) = 0
  /\ HeaderState(9) = "AUTHORITY" /\ HeaderWritten(9) = 1
  /\ HeaderState(10) = "ADITIONAL" /\ HeaderWritten(10) = 0
  /\ HeaderState(11) = "ADITIONAL" /\ HeaderWritten(11) = 1
  /\ HeaderState(12) = "QUERIES_NAME" /\ HeaderWritten(12) = 0
  /\ HeaderState(13) = "QUERIES_LABEL" /\ HeaderWritten(13) = 2
  /\ HeaderState(14) = "QUERIES_LABEL" /\ HeaderWritten(14) = 1
  /\ HeaderState(15) = "QUERIES_NAME" /\ HeaderWritten(15) = 0
  /\ HeaderState(16) = "QUERIES_LABEL" /\ HeaderWritten(16) = 1
  /\ HeaderState(17) = "QUERIES_NAME" /\ HeaderWritten(17) = 0
  /\ HeaderState(18) = "QUERIES_TYPE" /\ HeaderWritten(18) = 0
  /\ HeaderState(19) = "QUERIES_TYPE" /\ HeaderWritten(19) = 1
  /\ HeaderState(20) = "QUERIES_CLASS" /\ HeaderWritten(20) = 0
  /\ HeaderState(21) = "QUERIES_CLASS" /\ HeaderWritten(21) = 1
BY SMT DEF HeaderState, HeaderWritten

\* What the message says of the byte that is next.
HeaderByte(a, q, b) ==
  /\ q = 5 => b = 1
  /\ q = 7 => b = Counted(a)
  /\ q = 12 => b = 2
  /\ q = 15 => b = 1
  /\ q = 17 => b = 0

\* What the question leaves, for the first record.
Asked(a, d) ==
  /\ d.state = "ANSWERS_NAME" /\ d.written = 0 /\ d.list = <<>> /\ d.questions = 1
  /\ d.answers = Counted(a) /\ Counted(a) > 0

LEMMA HeaderStep ==
  ASSUME NEW a, IsAnswer(a), NEW q \in 0 .. 21, NEW d \in DnsParser, HeaderAt(a, q, d),
         NEW b \in Byte, HeaderByte(a, q, b)
  PROVE  /\ d.state # "DONE"
         /\ \/ q < 21 /\ HeaderAt(a, q + 1, DnsFeed(d, b))
            \/ q = 7 /\ Complete(a, DnsFeed(d, b))
            \/ q = 21 /\ Asked(a, DnsFeed(d, b))
<1>1. PICK e : e = DnsFeed(d, b)  OBVIOUS
<1>2. PICK n : n = Counted(a) /\ n \in Byte  BY MessageLayout DEF Counted
<1>3. /\ d.state = HeaderState(q) /\ d.written = HeaderWritten(q) /\ (q > 5 => d.questions = 1)
      /\ (q > 7 => d.answers = n /\ n > 0) /\ d.list = <<>>
  BY <1>2 DEF HeaderAt
<1> DEFINE Onward(r) == /\ e.state = HeaderState(r) /\ e.written = HeaderWritten(r) /\ (r > 5 => e.questions = 1)
                      /\ (r > 7 => e.answers = n /\ n > 0) /\ e.list = <<>>
<1>4. \A r : Onward(r) => HeaderAt(a, r, e)  BY <1>2 DEF HeaderAt
<1> USE DEF HeaderByte
<1>5. CASE q = 0
  <2>1. d.state = "TRANSACTION" /\ d.written = 0  BY <1>3, <1>5, HeaderStates
  <2>2. e = [d EXCEPT !.written = 1]
    <3>1. FirstOfTwo(d, DnsFeed(d, b))  BY <2>1, TwoMoves
    <3> QED  BY <1>1, <3>1 DEF FirstOfTwo
  <2>3. Onward(q + 1)
    <3>1. e.state = "TRANSACTION" /\ e.written = 1 /\ e.list = <<>>
      BY <1>3, <1>5, <2>1, <2>2 DEF DnsParser
    <3>2. HeaderState(q + 1) = "TRANSACTION" /\ HeaderWritten(q + 1) = 1  BY <1>5, HeaderStates
    <3> QED  BY <1>3, <1>5, <3>1, <3>2
  <2> QED  BY <1>1, <1>4, <1>5, <2>1, <2>3
<1>6. CASE q = 1
  <2>1. d.state = "TRANSACTION" /\ d.written = 1  BY <1>3, <1>6, HeaderStates
  <2>2. e = [d EXCEPT !.written = 0, !.state = "FLAGS"]
    <3>1. SecondOfTwo(d, DnsFeed(d, b), "FLAGS")  BY <2>1, TwoMoves
    <3> QED  BY <1>1, <3>1 DEF SecondOfTwo
  <2>3. Onward(q + 1)
    <3>1. e.state = "FLAGS" /\ e.written = 0 /\ e.list = <<>>
      BY <1>3, <1>6, <2>1, <2>2 DEF DnsParser
    <3>2. HeaderState(q + 1) = "FLAGS" /\ HeaderWritten(q + 1) = 0  BY <1>6, HeaderStates
    <3> QED  BY <1>3, <1>6, <3>1, <3>2
  <2> QED  BY <1>1, <1>4, <1>6, <2>1, <2>3
<1>7. CASE q = 2
  <2>1. d.state = "FLAGS" /\ d.written = 0  BY <1>3, <1>7, HeaderStates
  <2>2. e = [d EXCEPT !.written = 1]
    <3>1. FirstOfTwo(d, DnsFeed(d, b))  BY <2>1, TwoMoves
    <3> QED  BY <1>1, <3>1 DEF FirstOfTwo
  <2>3. Onward(q + 1)
    <3>1. e.state = "FLAGS" /\ e.written = 1 /\ e.list = <<>>
      BY <1>3, <1>7, <2>1, <2>2 DEF DnsParser
    <3>2. HeaderState(q + 1) = "FLAGS" /\ HeaderWritten(q + 1) = 1  BY <1>7, HeaderStates
    <3> QED  BY <1>3, <1>7, <3>1, <3>2
  <2> QED  BY <1>1, <1>4, <1>7, <2>1, <2>3
<1>8. CASE q = 3
  <2>1. d.state = "FLAGS" /\ d.written = 1  BY <1>3, <1>8, HeaderStates
  <2>2. e = [d EXCEPT !.written = 0, !.state = "QUESTIONS_HIGH"]
    <3>1. SecondOfTwo(d, DnsFeed(d, b), "QUESTIONS_HIGH")  BY <2>1, TwoMoves
    <3> QED  BY <1>1, <3>1 DEF SecondOfTwo
  <2>3. Onward(q + 1)
    <3>1. e.state = "QUESTIONS_HIGH" /\ e.written = 0 /\ e.list = <<>>
      BY <1>3, <1>8, <2>1, <2>2 DEF DnsParser
    <3>2. HeaderState(q + 1) = "QUESTIONS_HIGH" /\ HeaderWritten(q + 1) = 0  BY <1>8, HeaderStates
    <3> QED  BY <1>3, <1>8, <3>1, <3>2
  <2> QED  BY <1>1, <1>4, <1>8, <2>1, <2>3
<1>9. CASE q = 4
  <2>1. d.state = "QUESTIONS_HIGH" /\ d.written = 0  BY <1>3, <1>9, HeaderStates
  <2>2. e = [d EXCEPT !.state = "QUESTIONS_LOW"]  BY <1>1, <2>1 DEF DnsFeed, After
  <2>3. Onward(q + 1)
    <3>1. e.state = "QUESTIONS_LOW" /\ e.written = 0 /\ e.list = <<>>
      BY <1>3, <1>9, <2>1, <2>2 DEF DnsParser
    <3>2. HeaderState(q + 1) = "QUESTIONS_LOW" /\ HeaderWritten(q + 1) = 0  BY <1>9, HeaderStates
    <3> QED  BY <1>3, <1>9, <3>1, <3>2
  <2> QED  BY <1>1, <1>4, <1>9, <2>1, <2>3
<1>10. CASE q = 5
  <2>1. d.state = "QUESTIONS_LOW" /\ d.written = 0  BY <1>3, <1>10, HeaderStates
  <2>2. e = [d EXCEPT !.questions = 1, !.state = "ANSWERS_HIGH"]  BY <1>1, <1>10, <2>1 DEF DnsFeed, After
  <2>3. Onward(q + 1)
    <3>1. e.state = "ANSWERS_HIGH" /\ e.written = 0 /\ e.list = <<>> /\ e.questions = 1
      BY <1>3, <1>10, <2>1, <2>2 DEF DnsParser
    <3>2. HeaderState(q + 1) = "ANSWERS_HIGH" /\ HeaderWritten(q + 1) = 0  BY <1>10, HeaderStates
    <3> QED  BY <1>3, <1>10, <3>1, <3>2
  <2> QED  BY <1>1, <1>4, <1>10, <2>1, <2>3
<1>11. CASE q = 6
  <2>1. d.state = "ANSWERS_HIGH" /\ d.written = 0  BY <1>3, <1>11, HeaderStates
  <2>2. e = [d EXCEPT !.state = "ANSWERS_LOW"]  BY <1>1, <2>1 DEF DnsFeed, After
  <2>3. Onward(q + 1)
    <3>1. e.state = "ANSWERS_LOW" /\ e.written = 0 /\ e.list = <<>> /\ e.questions = 1
      BY <1>3, <1>11, <2>1, <2>2 DEF DnsParser
    <3>2. HeaderState(q + 1) = "ANSWERS_LOW" /\ HeaderWritten(q + 1) = 0  BY <1>11, HeaderStates
    <3> QED  BY <1>3, <1>11, <3>1, <3>2
  <2> QED  BY <1>1, <1>4, <1>11, <2>1, <2>3
<1>12. CASE q = 7
  <2>1. d.state = "ANSWERS_LOW" /\ d.written = 0  BY <1>3, <1>12, HeaderStates
  <2>2. e = [d EXCEPT !.answers = n, !.room = n, !.state = IF n = 0 THEN "DONE" ELSE "AUTHORITY"]
    BY <1>1, <1>2, <1>12, <2>1 DEF DnsFeed, After
  <2>3. CASE n = 0
    <3>1. Expected(a) = <<>>  BY <1>2, <2>3, FoundGrows DEF Expected, Counted
    <3>2. Complete(a, e)  BY <1>3, <1>12, <2>2, <2>3, <3>1 DEF Complete, DnsParser
    <3> QED  BY <1>1, <1>12, <2>1, <3>2
  <2>4. CASE n # 0
    <3>1. n > 0  BY <1>2, <2>4, ByteRange
    <3>2. e.state = "AUTHORITY" /\ e.written = 0 /\ e.questions = 1 /\ e.answers = n /\ e.list = <<>>
      BY <1>3, <1>12, <2>1, <2>2, <2>4 DEF DnsParser
    <3>3. Onward(q + 1)  BY <1>12, <3>1, <3>2, HeaderStates
    <3> QED  BY <1>1, <1>4, <1>12, <2>1, <3>3
  <2> QED  BY <2>3, <2>4
<1>13. CASE q = 8
  <2>1. d.state = "AUTHORITY" /\ d.written = 0  BY <1>3, <1>13, HeaderStates
  <2>2. e = [d EXCEPT !.written = 1]
    <3>1. FirstOfTwo(d, DnsFeed(d, b))  BY <2>1, TwoMoves
    <3> QED  BY <1>1, <3>1 DEF FirstOfTwo
  <2>3. Onward(q + 1)
    <3>1. e.state = "AUTHORITY" /\ e.written = 1 /\ e.list = <<>> /\ e.questions = 1 /\ e.answers = n
      BY <1>3, <1>13, <2>1, <2>2 DEF DnsParser
    <3>2. HeaderState(q + 1) = "AUTHORITY" /\ HeaderWritten(q + 1) = 1  BY <1>13, HeaderStates
    <3> QED  BY <1>3, <1>13, <3>1, <3>2
  <2> QED  BY <1>1, <1>4, <1>13, <2>1, <2>3
<1>14. CASE q = 9
  <2>1. d.state = "AUTHORITY" /\ d.written = 1  BY <1>3, <1>14, HeaderStates
  <2>2. e = [d EXCEPT !.written = 0, !.state = "ADITIONAL"]
    <3>1. SecondOfTwo(d, DnsFeed(d, b), "ADITIONAL")  BY <2>1, TwoMoves
    <3> QED  BY <1>1, <3>1 DEF SecondOfTwo
  <2>3. Onward(q + 1)
    <3>1. e.state = "ADITIONAL" /\ e.written = 0 /\ e.list = <<>> /\ e.questions = 1 /\ e.answers = n
      BY <1>3, <1>14, <2>1, <2>2 DEF DnsParser
    <3>2. HeaderState(q + 1) = "ADITIONAL" /\ HeaderWritten(q + 1) = 0  BY <1>14, HeaderStates
    <3> QED  BY <1>3, <1>14, <3>1, <3>2
  <2> QED  BY <1>1, <1>4, <1>14, <2>1, <2>3
<1>15. CASE q = 10
  <2>1. d.state = "ADITIONAL" /\ d.written = 0  BY <1>3, <1>15, HeaderStates
  <2>2. e = [d EXCEPT !.written = 1]
    <3>1. FirstOfTwo(d, DnsFeed(d, b))  BY <2>1, TwoMoves
    <3> QED  BY <1>1, <3>1 DEF FirstOfTwo
  <2>3. Onward(q + 1)
    <3>1. e.state = "ADITIONAL" /\ e.written = 1 /\ e.list = <<>> /\ e.questions = 1 /\ e.answers = n
      BY <1>3, <1>15, <2>1, <2>2 DEF DnsParser
    <3>2. HeaderState(q + 1) = "ADITIONAL" /\ HeaderWritten(q + 1) = 1  BY <1>15, HeaderStates
    <3> QED  BY <1>3, <1>15, <3>1, <3>2
  <2> QED  BY <1>1, <1>4, <1>15, <2>1, <2>3
<1>16. CASE q = 11
  <2>1. d.state = "ADITIONAL" /\ d.written = 1  BY <1>3, <1>16, HeaderStates
  <2>2. e = [d EXCEPT !.written = 0, !.state = "QUERIES_NAME"]
    <3>1. SecondOfTwo(d, DnsFeed(d, b), "QUERIES_NAME")  BY <2>1, TwoMoves
    <3> QED  BY <1>1, <3>1 DEF SecondOfTwo
  <2>3. Onward(q + 1)
    <3>1. e.state = "QUERIES_NAME" /\ e.written = 0 /\ e.list = <<>> /\ e.questions = 1 /\ e.answers = n
      BY <1>3, <1>16, <2>1, <2>2 DEF DnsParser
    <3>2. HeaderState(q + 1) = "QUERIES_NAME" /\ HeaderWritten(q + 1) = 0  BY <1>16, HeaderStates
    <3> QED  BY <1>3, <1>16, <3>1, <3>2
  <2> QED  BY <1>1, <1>4, <1>16, <2>1, <2>3
<1>17. CASE q = 12
  <2>1. d.state = "QUERIES_NAME" /\ d.written = 0  BY <1>3, <1>17, HeaderStates
  <2>2. e = [d EXCEPT !.written = 2, !.state = "QUERIES_LABEL"]
    <3>1. b = 2 /\ DnsFeed(d, b) = Name(d, b, "QUERIES_POINTER", "QUERIES_LABEL", "QUERIES_TYPE")
      BY <1>17, <2>1 DEF DnsFeed, After
    <3> QED  BY <1>1, <3>1 DEF Name
  <2>3. Onward(q + 1)
    <3>1. e.state = "QUERIES_LABEL" /\ e.written = 2 /\ e.list = <<>> /\ e.questions = 1 /\ e.answers = n
      BY <1>3, <1>17, <2>1, <2>2 DEF DnsParser
    <3>2. HeaderState(q + 1) = "QUERIES_LABEL" /\ HeaderWritten(q + 1) = 2  BY <1>17, HeaderStates
    <3> QED  BY <1>3, <1>17, <3>1, <3>2
  <2> QED  BY <1>1, <1>4, <1>17, <2>1, <2>3
<1>18. CASE q = 13
  <2>1. d.state = "QUERIES_LABEL" /\ d.written = 2  BY <1>3, <1>18, HeaderStates
  <2>2. e = [d EXCEPT !.written = 1, !.state = "QUERIES_LABEL"]
    <3>1. DnsFeed(d, b) = Label(d, "QUERIES_NAME")  BY <2>1 DEF DnsFeed, After
    <3>2. d.written - 1 = 1  BY <2>1
    <3> QED  BY <1>1, <2>1, <3>1, <3>2 DEF Label
  <2>3. Onward(q + 1)
    <3>1. e.state = "QUERIES_LABEL" /\ e.written = 1 /\ e.list = <<>> /\ e.questions = 1 /\ e.answers = n
      BY <1>3, <1>18, <2>1, <2>2 DEF DnsParser
    <3>2. HeaderState(q + 1) = "QUERIES_LABEL" /\ HeaderWritten(q + 1) = 1  BY <1>18, HeaderStates
    <3> QED  BY <1>3, <1>18, <3>1, <3>2
  <2> QED  BY <1>1, <1>4, <1>18, <2>1, <2>3
<1>19. CASE q = 14
  <2>1. d.state = "QUERIES_LABEL" /\ d.written = 1  BY <1>3, <1>19, HeaderStates
  <2>2. e = [d EXCEPT !.written = 0, !.state = "QUERIES_NAME"]
    <3>1. DnsFeed(d, b) = Label(d, "QUERIES_NAME")  BY <2>1 DEF DnsFeed, After
    <3>2. d.written - 1 = 0  BY <2>1
    <3> QED  BY <1>1, <2>1, <3>1, <3>2 DEF Label
  <2>3. Onward(q + 1)
    <3>1. e.state = "QUERIES_NAME" /\ e.written = 0 /\ e.list = <<>> /\ e.questions = 1 /\ e.answers = n
      BY <1>3, <1>19, <2>1, <2>2 DEF DnsParser
    <3>2. HeaderState(q + 1) = "QUERIES_NAME" /\ HeaderWritten(q + 1) = 0  BY <1>19, HeaderStates
    <3> QED  BY <1>3, <1>19, <3>1, <3>2
  <2> QED  BY <1>1, <1>4, <1>19, <2>1, <2>3
<1>20. CASE q = 15
  <2>1. d.state = "QUERIES_NAME" /\ d.written = 0  BY <1>3, <1>20, HeaderStates
  <2>2. e = [d EXCEPT !.written = 1, !.state = "QUERIES_LABEL"]
    <3>1. b = 1 /\ DnsFeed(d, b) = Name(d, b, "QUERIES_POINTER", "QUERIES_LABEL", "QUERIES_TYPE")
      BY <1>20, <2>1 DEF DnsFeed, After
    <3> QED  BY <1>1, <3>1 DEF Name
  <2>3. Onward(q + 1)
    <3>1. e.state = "QUERIES_LABEL" /\ e.written = 1 /\ e.list = <<>> /\ e.questions = 1 /\ e.answers = n
      BY <1>3, <1>20, <2>1, <2>2 DEF DnsParser
    <3>2. HeaderState(q + 1) = "QUERIES_LABEL" /\ HeaderWritten(q + 1) = 1  BY <1>20, HeaderStates
    <3> QED  BY <1>3, <1>20, <3>1, <3>2
  <2> QED  BY <1>1, <1>4, <1>20, <2>1, <2>3
<1>21. CASE q = 16
  <2>1. d.state = "QUERIES_LABEL" /\ d.written = 1  BY <1>3, <1>21, HeaderStates
  <2>2. e = [d EXCEPT !.written = 0, !.state = "QUERIES_NAME"]
    <3>1. DnsFeed(d, b) = Label(d, "QUERIES_NAME")  BY <2>1 DEF DnsFeed, After
    <3>2. d.written - 1 = 0  BY <2>1
    <3> QED  BY <1>1, <2>1, <3>1, <3>2 DEF Label
  <2>3. Onward(q + 1)
    <3>1. e.state = "QUERIES_NAME" /\ e.written = 0 /\ e.list = <<>> /\ e.questions = 1 /\ e.answers = n
      BY <1>3, <1>21, <2>1, <2>2 DEF DnsParser
    <3>2. HeaderState(q + 1) = "QUERIES_NAME" /\ HeaderWritten(q + 1) = 0  BY <1>21, HeaderStates
    <3> QED  BY <1>3, <1>21, <3>1, <3>2
  <2> QED  BY <1>1, <1>4, <1>21, <2>1, <2>3
<1>22. CASE q = 17
  <2>1. d.state = "QUERIES_NAME" /\ d.written = 0  BY <1>3, <1>22, HeaderStates
  <2>2. e = [d EXCEPT !.state = "QUERIES_TYPE"]
    <3>1. b = 0 /\ DnsFeed(d, b) = Name(d, b, "QUERIES_POINTER", "QUERIES_LABEL", "QUERIES_TYPE")
      BY <1>22, <2>1 DEF DnsFeed, After
    <3> QED  BY <1>1, <3>1 DEF Name
  <2>3. Onward(q + 1)
    <3>1. e.state = "QUERIES_TYPE" /\ e.written = 0 /\ e.list = <<>> /\ e.questions = 1 /\ e.answers = n
      BY <1>3, <1>22, <2>1, <2>2 DEF DnsParser
    <3>2. HeaderState(q + 1) = "QUERIES_TYPE" /\ HeaderWritten(q + 1) = 0  BY <1>22, HeaderStates
    <3> QED  BY <1>3, <1>22, <3>1, <3>2
  <2> QED  BY <1>1, <1>4, <1>22, <2>1, <2>3
<1>23. CASE q = 18
  <2>1. d.state = "QUERIES_TYPE" /\ d.written = 0  BY <1>3, <1>23, HeaderStates
  <2>2. e = [d EXCEPT !.written = 1]
    <3>1. FirstOfTwo(d, DnsFeed(d, b))  BY <2>1, TwoMoves
    <3> QED  BY <1>1, <3>1 DEF FirstOfTwo
  <2>3. Onward(q + 1)
    <3>1. e.state = "QUERIES_TYPE" /\ e.written = 1 /\ e.list = <<>> /\ e.questions = 1 /\ e.answers = n
      BY <1>3, <1>23, <2>1, <2>2 DEF DnsParser
    <3>2. HeaderState(q + 1) = "QUERIES_TYPE" /\ HeaderWritten(q + 1) = 1  BY <1>23, HeaderStates
    <3> QED  BY <1>3, <1>23, <3>1, <3>2
  <2> QED  BY <1>1, <1>4, <1>23, <2>1, <2>3
<1>24. CASE q = 19
  <2>1. d.state = "QUERIES_TYPE" /\ d.written = 1  BY <1>3, <1>24, HeaderStates
  <2>2. e = [d EXCEPT !.written = 0, !.state = "QUERIES_CLASS"]
    <3>1. SecondOfTwo(d, DnsFeed(d, b), "QUERIES_CLASS")  BY <2>1, TwoMoves
    <3> QED  BY <1>1, <3>1 DEF SecondOfTwo
  <2>3. Onward(q + 1)
    <3>1. e.state = "QUERIES_CLASS" /\ e.written = 0 /\ e.list = <<>> /\ e.questions = 1 /\ e.answers = n
      BY <1>3, <1>24, <2>1, <2>2 DEF DnsParser
    <3>2. HeaderState(q + 1) = "QUERIES_CLASS" /\ HeaderWritten(q + 1) = 0  BY <1>24, HeaderStates
    <3> QED  BY <1>3, <1>24, <3>1, <3>2
  <2> QED  BY <1>1, <1>4, <1>24, <2>1, <2>3
<1>25. CASE q = 20
  <2>1. d.state = "QUERIES_CLASS" /\ d.written = 0  BY <1>3, <1>25, HeaderStates
  <2>2. e = [d EXCEPT !.written = 1]
    <3>1. FirstOfTwo(d, DnsFeed(d, b))  BY <2>1, TwoMoves
    <3> QED  BY <1>1, <3>1 DEF FirstOfTwo
  <2>3. Onward(q + 1)
    <3>1. e.state = "QUERIES_CLASS" /\ e.written = 1 /\ e.list = <<>> /\ e.questions = 1 /\ e.answers = n
      BY <1>3, <1>25, <2>1, <2>2 DEF DnsParser
    <3>2. HeaderState(q + 1) = "QUERIES_CLASS" /\ HeaderWritten(q + 1) = 1  BY <1>25, HeaderStates
    <3> QED  BY <1>3, <1>25, <3>1, <3>2
  <2> QED  BY <1>1, <1>4, <1>25, <2>1, <2>3
<1>26. CASE q = 21
  <2>1. d.state = "QUERIES_CLASS" /\ d.written = 1  BY <1>3, <1>26, HeaderStates
  <2>2. e = [d EXCEPT !.written = 0, !.state = "ANSWERS_NAME"]
    <3>1. SecondOfTwo(d, DnsFeed(d, b), "ANSWERS_NAME")  BY <2>1, TwoMoves
    <3> QED  BY <1>1, <3>1 DEF SecondOfTwo
  <2>3. /\ e.state = "ANSWERS_NAME" /\ e.written = 0 /\ e.list = <<>> /\ e.questions = 1
        /\ e.answers = n /\ n > 0
    BY <1>3, <1>26, <2>1, <2>2 DEF DnsParser
  <2> QED  BY <1>1, <1>2, <1>26, <2>1, <2>3 DEF Asked
<1> QED  BY <1>5, <1>6, <1>7, <1>8, <1>9, <1>10, <1>11, <1>12, <1>13, <1>14, <1>15, <1>16, <1>17, <1>18, <1>19, <1>20, <1>21, <1>22, <1>23, <1>24, <1>25, <1>26

LEMMA Remaining == ASSUME NEW n \in Nat, NEW k \in Int, NEW y \in Nat  PROVE n - k + y = y <=> k = n
OBVIOUS

Keeps(d, e) == e.list = d.list /\ e.answers = d.answers /\ e.questions = d.questions

\* A record that counts, and how it changes what is found and announced.
LEMMA RecordFacts ==
  ASSUME NEW a, IsAnswer(a), Regular(a), NEW k \in 1 .. Counted(a)
  PROVE  /\ Counted(a) \in Byte /\ k \in 1 .. Len(a.records) /\ a.records[k] \in Fields
         /\ Len(a.records[k].data) \in Byte \ {0} /\ (a.records[k].owner = "root" => k = 1)
         /\ Found(a, k - 1) \in Seq(Seq(Byte)) /\ Found(a, k) \in Seq(Seq(Byte))
         /\ Address(a.records[k]) =>
              Found(a, k) = Append(Found(a, k - 1), a.records[k].data) /\ Announced(a, k) = Announced(a, k - 1)
         /\ ~Address(a.records[k]) =>
              Found(a, k) = Found(a, k - 1) /\ Announced(a, k) = Announced(a, k - 1) - 1
         /\ Announced(a, k) = Len(Found(a, k)) <=> k = Counted(a)
<1>1. Counted(a) \in Byte  BY MessageLayout DEF Counted
<1>2. PICK n \in Nat, m \in Nat : n = Counted(a) /\ m = Len(a.records) /\ n <= m /\ k \in 1 .. n
  <2>1. Counted(a) \in Nat  BY <1>1, ByteRange
  <2>2. Len(a.records) \in Nat /\ Counted(a) <= Len(a.records)  BY AnswerShape DEF IsAnswer, Counted
  <2> QED  BY <2>1, <2>2
<1>3. k \in 1 .. m /\ k - 1 \in 0 .. m /\ k \in 0 .. m  BY <1>2
<1>4. a.records[k] \in Fields /\ Len(a.records[k].data) \in Byte  BY <1>2, <1>3, AnswerShape
<1>5. Len(a.records[k].data) # 0
  <2>1. k \in DOMAIN a.records  BY <1>2, <1>3, AnswerShape
  <2>2. Len(a.records[k].data) > 0  BY <2>1 DEF Regular
  <2> QED  BY <1>4, <2>2, ByteRange
<1>6. a.records[k].owner = "root" => k = 1
  <2>1. k \in DOMAIN a.records  BY <1>2, <1>3, AnswerShape
  <2>2. k > 1 => a.records[k].owner # "root"  BY <2>1 DEF Regular
  <2> QED  BY <1>2, <2>2
<1>7. PICK before \in Seq(Seq(Byte)), x \in Nat : before = Found(a, k - 1) /\ x = Len(before)
  BY <1>2, <1>3, FoundGrows
<1>8. PICK found \in Seq(Seq(Byte)), y \in Nat : found = Found(a, k) /\ y = Len(found)
  BY <1>2, <1>3, FoundGrows
<1>9. PICK data \in Seq(Byte) : data = a.records[k].data  BY <1>4 DEF Fields
<1>10. found = IF Address(a.records[k]) THEN Append(before, data) ELSE before
  BY <1>2, <1>3, <1>7, <1>8, <1>9, FoundGrows
<1>11. Announced(a, k) = n - k + y /\ Announced(a, k - 1) = n - (k - 1) + x  BY <1>2, <1>7, <1>8 DEF Announced
<1>12. Address(a.records[k]) => Found(a, k) = Append(Found(a, k - 1), a.records[k].data) /\ y = x + 1
  <2>1. ASSUME Address(a.records[k])  PROVE found = Append(before, data) /\ y = x + 1
    <3>1. found = Append(before, data)  BY <1>10, <2>1
    <3>2. Len(Append(before, data)) = Len(before) + 1  BY AppendProperties
    <3> QED  BY <1>7, <1>8, <3>1, <3>2
  <2> QED  BY <1>7, <1>8, <1>9, <2>1
<1>13. ~Address(a.records[k]) => Found(a, k) = Found(a, k - 1) /\ y = x
  BY <1>7, <1>8, <1>10
<1>14. y = x + 1 => Announced(a, k) = Announced(a, k - 1)  BY <1>2, <1>11
<1>15. y = x => Announced(a, k) = Announced(a, k - 1) - 1  BY <1>2, <1>11
<1>16. Announced(a, k) = y <=> k = n
  <2>1. k \in Int  BY <1>2
  <2>2. n - k + y = y <=> k = n  BY <2>1, Remaining
  <2> QED  BY <1>11, <2>2
<1>17. Announced(a, k) = Len(Found(a, k)) <=> k = Counted(a)  BY <1>2, <1>8, <1>16
<1>18. Len(a.records[k].data) \in Byte \ {0}  BY <1>4, <1>5
<1>19. k \in 1 .. Len(a.records)  BY <1>2, <1>3
<1>20. Found(a, k - 1) \in Seq(Seq(Byte)) /\ Found(a, k) \in Seq(Seq(Byte))  BY <1>7, <1>8
<1> HIDE DEF Announced, Found, Counted
<1> QED  BY <1>1, <1>4, <1>6, <1>12, <1>13, <1>14, <1>15, <1>17, <1>18, <1>19, <1>20

LEMMA OwnerStep ==
  ASSUME NEW a, NEW k, NEW o, o = a.records[k].owner, o \in {"pointer", "labels", "root"}, o = "root" => k = 1,
         NEW q \in 0 .. Len(Owner(o)) - 1, NEW d \in DnsParser, OwnerAt(a, k, q, d), NEW b, b = Owner(o)[q + 1]
  PROVE  /\ d.state # "DONE" /\ Keeps(d, DnsFeed(d, b))
         /\ IF q + 1 = Len(Owner(o)) THEN TenAt(a, k, 0, DnsFeed(d, b)) ELSE OwnerAt(a, k, q + 1, DnsFeed(d, b))
<1>1. PICK e : e = DnsFeed(d, b)  OBVIOUS
<1>2. e.state = "TYPE_HIGH" /\ e.written = 0 => TenAt(a, k, 0, e)  BY DEF TenAt
<1>3. d.state = "ANSWERS_NAME" => e = Name(d, b, "REFERENCE", "ANSWERS_LABEL", "TYPE_HIGH")
  BY <1>1 DEF DnsFeed, After
<1>4. d.state = "ANSWERS_LABEL" => e = Label(d, "ANSWERS_NAME")  BY <1>1 DEF DnsFeed, After
<1>5. CASE o = "pointer"
  <2>1. Len(Owner(o)) = 2 /\ Owner(o)[1] = 192  BY <1>5, OwnerShape
  <2>2. CASE q = 0
    <3>1. d.state = "ANSWERS_NAME" /\ b = 192  BY <2>1, <2>2 DEF OwnerAt
    <3>2. e = [d EXCEPT !.state = "REFERENCE"]  BY <1>3, <3>1 DEF Name
    <3>3. e.state = "REFERENCE" /\ Keeps(d, e)  BY <3>2 DEF DnsParser, Keeps
    <3>4. OwnerAt(a, k, 1, e)  BY <1>5, <3>3 DEF OwnerAt
    <3> QED  BY <1>1, <2>1, <2>2, <3>1, <3>3, <3>4
  <2>3. CASE q = 1
    <3>1. d.state = "REFERENCE"  BY <1>5, <2>3 DEF OwnerAt
    <3>2. e = [d EXCEPT !.written = 0, !.state = "TYPE_HIGH"]  BY <1>1, <3>1 DEF DnsFeed, After
    <3>3. e.state = "TYPE_HIGH" /\ e.written = 0 /\ Keeps(d, e)  BY <3>2 DEF DnsParser, Keeps
    <3> QED  BY <1>1, <1>2, <2>1, <2>3, <3>1, <3>3
  <2> QED  BY <2>1, <2>2, <2>3
<1>6. CASE o = "root"
  <2>1. Len(Owner(o)) = 1 /\ Owner(o)[1] = 0  BY <1>6, OwnerShape
  <2>2. q = 0  BY <2>1
  <2>3. d.state = "ANSWERS_NAME" /\ d.written = 0 /\ b = 0  BY <1>6, <2>1, <2>2 DEF OwnerAt
  <2>4. e = [d EXCEPT !.state = "TYPE_HIGH"]  BY <1>3, <2>3 DEF Name
  <2>5. e.state = "TYPE_HIGH" /\ e.written = 0 /\ Keeps(d, e)  BY <2>3, <2>4 DEF DnsParser, Keeps
  <2> QED  BY <1>1, <1>2, <2>1, <2>2, <2>3, <2>5
<1>7. CASE o = "labels"
  <2>1. Len(Owner(o)) = 6 /\ Owner(o)[1] = 2 /\ Owner(o)[4] = 1 /\ Owner(o)[6] = 0  BY <1>7, OwnerShape
  <2>2. CASE q \in {0, 3}
    <3>1. d.state = "ANSWERS_NAME" /\ b = IF q = 0 THEN 2 ELSE 1  BY <1>7, <2>1, <2>2 DEF OwnerAt
    <3>2. e = [d EXCEPT !.written = b, !.state = "ANSWERS_LABEL"]  BY <1>3, <3>1 DEF Name
    <3>3. e.state = "ANSWERS_LABEL" /\ e.written = b /\ Keeps(d, e)  BY <3>2 DEF DnsParser, Keeps
    <3>4. OwnerAt(a, k, q + 1, e)  BY <1>7, <2>2, <3>1, <3>3 DEF OwnerAt
    <3> QED  BY <1>1, <2>1, <2>2, <3>1, <3>3, <3>4
  <2>3. CASE q = 1
    <3>1. d.state = "ANSWERS_LABEL" /\ d.written = 2  BY <1>7, <2>3 DEF OwnerAt
    <3>2. d.written - 1 = 1  BY <3>1
    <3>3. e = [d EXCEPT !.written = 1, !.state = "ANSWERS_LABEL"]  BY <1>4, <3>1, <3>2 DEF Label
    <3>4. e.state = "ANSWERS_LABEL" /\ e.written = 1 /\ Keeps(d, e)  BY <3>3 DEF DnsParser, Keeps
    <3>5. OwnerAt(a, k, 2, e)  BY <1>7, <3>4 DEF OwnerAt
    <3> QED  BY <1>1, <2>1, <2>3, <3>1, <3>4, <3>5
  <2>4. CASE q \in {2, 4}
    <3>1. d.state = "ANSWERS_LABEL" /\ d.written = 1  BY <1>7, <2>4 DEF OwnerAt
    <3>2. d.written - 1 = 0  BY <3>1
    <3>3. e = [d EXCEPT !.written = 0, !.state = "ANSWERS_NAME"]  BY <1>4, <3>1, <3>2 DEF Label
    <3>4. e.state = "ANSWERS_NAME" /\ e.written = 0 /\ Keeps(d, e)  BY <3>3 DEF DnsParser, Keeps
    <3>5. OwnerAt(a, k, q + 1, e)  BY SMTT(40), <1>7, <2>4, <3>4 DEF OwnerAt
    <3> QED  BY <1>1, <2>1, <2>4, <3>1, <3>4, <3>5
  <2>5. CASE q = 5
    <3>1. d.state = "ANSWERS_NAME" /\ d.written = 0 /\ b = 0  BY <1>7, <2>1, <2>5 DEF OwnerAt
    <3>2. e = [d EXCEPT !.state = "TYPE_HIGH"]  BY <1>3, <3>1 DEF Name
    <3>3. e.state = "TYPE_HIGH" /\ e.written = 0 /\ Keeps(d, e)  BY <3>1, <3>2 DEF DnsParser, Keeps
    <3> QED  BY <1>1, <1>2, <2>1, <2>5, <3>1, <3>3
  <2>6. q \in {0, 3} \/ q = 1 \/ q \in {2, 4} \/ q = 5  BY <2>1
  <2> QED  BY <2>2, <2>3, <2>4, <2>5, <2>6
<1> QED  BY <1>5, <1>6, <1>7

TenMoves(a, k, c, d, e) ==
  /\ d.state # "DONE"
  /\ c < 9 => TenAt(a, k, c + 1, e) /\ Keeps(d, e)
  /\ c = 9 => DataAt(a, k, 0, e) /\ e.questions = d.questions

LEMMA TenStep ==
  ASSUME NEW a, IsAnswer(a), Regular(a), NEW k \in 1 .. Counted(a), NEW c \in 0 .. 9,
         NEW d \in DnsParser, TenAt(a, k, c, d), d.list = Found(a, k - 1), d.answers = Announced(a, k - 1),
         NEW b \in Byte, c = 1 => b = a.records[k].type, c = 9 => b = Len(a.records[k].data)
  PROVE  TenMoves(a, k, c, d, DnsFeed(d, b))
<1> SUFFICES /\ d.state # "DONE"
             /\ c < 9 => TenAt(a, k, c + 1, DnsFeed(d, b)) /\ Keeps(d, DnsFeed(d, b))
             /\ c = 9 => DataAt(a, k, 0, DnsFeed(d, b)) /\ DnsFeed(d, b).questions = d.questions
  BY DEF TenMoves
<1>1. PICK e : e = DnsFeed(d, b)  OBVIOUS
<1>2. c > 1 => d.type = a.records[k].type  BY DEF TenAt
<1>3. CASE c = 0
  <2>1. d.state = "TYPE_HIGH" /\ d.written = 0  BY <1>3 DEF TenAt
  <2>2. e = [d EXCEPT !.state = "TYPE_LOW"]  BY <1>1, <2>1 DEF DnsFeed, After
  <2>3. e.state = "TYPE_LOW" /\ e.written = 0 /\ Keeps(d, e)  BY <2>1, <2>2 DEF DnsParser, Keeps
  <2>4. TenAt(a, k, 1, e)  BY <2>3 DEF TenAt
  <2> QED  BY <1>1, <1>3, <2>1, <2>3, <2>4
<1>4. CASE c = 1
  <2>1. d.state = "TYPE_LOW" /\ d.written = 0  BY <1>4 DEF TenAt
  <2>2. e = [d EXCEPT !.type = b, !.state = "ANSWERS_CLASS"]  BY <1>1, <2>1 DEF DnsFeed, After
  <2>3. e.state = "ANSWERS_CLASS" /\ e.written = 0 /\ e.type = b /\ Keeps(d, e)  BY <2>1, <2>2 DEF DnsParser, Keeps
  <2>4. TenAt(a, k, 2, e)  BY <1>4, <2>3 DEF TenAt
  <2> QED  BY <1>1, <1>4, <2>1, <2>3, <2>4
<1>5. CASE c = 2
  <2>1. d.state = "ANSWERS_CLASS" /\ d.written = 0  BY <1>5 DEF TenAt
  <2>2. e = [d EXCEPT !.written = 1]
    <3>1. FirstOfTwo(d, DnsFeed(d, b))  BY <2>1, TwoMoves
    <3> QED  BY <1>1, <3>1 DEF FirstOfTwo
  <2>3. e.state = "ANSWERS_CLASS" /\ e.written = 1 /\ e.type = d.type /\ Keeps(d, e)  BY <2>1, <2>2 DEF DnsParser, Keeps
  <2>4. TenAt(a, k, 3, e)  BY <1>2, <1>5, <2>3 DEF TenAt
  <2> QED  BY <1>1, <1>5, <2>1, <2>3, <2>4
<1>6. CASE c = 3
  <2>1. d.state = "ANSWERS_CLASS" /\ d.written = 1  BY <1>6 DEF TenAt
  <2>2. e = [d EXCEPT !.written = 0, !.state = "ANSWERS_TTL"]
    <3>1. SecondOfTwo(d, DnsFeed(d, b), "ANSWERS_TTL")  BY <2>1, TwoMoves
    <3> QED  BY <1>1, <3>1 DEF SecondOfTwo
  <2>3. e.state = "ANSWERS_TTL" /\ e.written = 0 /\ e.type = d.type /\ Keeps(d, e)  BY <2>1, <2>2 DEF DnsParser, Keeps
  <2>4. TenAt(a, k, 4, e)  BY <1>2, <1>6, <2>3 DEF TenAt
  <2> QED  BY <1>1, <1>6, <2>1, <2>3, <2>4
<1>7. CASE c \in 4 .. 6
  <2>1. d.state = "ANSWERS_TTL" /\ d.written = c - 4  BY <1>7 DEF TenAt
  <2>2. PICK v \in 0 .. 2 : v = c - 4 /\ v + 1 = (c + 1) - 4  BY <1>7
  <2>3. e = [d EXCEPT !.written = v + 1]  BY <1>1, <2>1, <2>2 DEF DnsFeed, After
  <2>4. e.state = "ANSWERS_TTL" /\ e.written = v + 1 /\ e.type = d.type /\ Keeps(d, e)  BY <2>1, <2>3 DEF DnsParser, Keeps
  <2>5. TenAt(a, k, c + 1, e)  BY <1>2, <1>7, <2>2, <2>4 DEF TenAt
  <2> QED  BY <1>1, <1>7, <2>1, <2>4, <2>5
<1>8. CASE c = 7
  <2>1. d.state = "ANSWERS_TTL" /\ d.written = 3  BY <1>8 DEF TenAt
  <2>2. e = [d EXCEPT !.state = "LENGTH_HIGH"]  BY <1>1, <2>1 DEF DnsFeed, After
  <2>3. e.state = "LENGTH_HIGH" /\ e.type = d.type /\ Keeps(d, e)  BY <2>2 DEF DnsParser, Keeps
  <2>4. TenAt(a, k, 8, e)  BY <1>2, <1>8, <2>3 DEF TenAt
  <2> QED  BY <1>1, <1>8, <2>1, <2>3, <2>4
<1>9. CASE c = 8
  <2>1. d.state = "LENGTH_HIGH"  BY <1>9 DEF TenAt
  <2>2. e = [d EXCEPT !.state = "LENGTH_LOW"]  BY <1>1, <2>1 DEF DnsFeed, After
  <2>3. e.state = "LENGTH_LOW" /\ e.type = d.type /\ Keeps(d, e)  BY <2>2 DEF DnsParser, Keeps
  <2>4. TenAt(a, k, 9, e)  BY <1>2, <1>9, <2>3 DEF TenAt
  <2> QED  BY <1>1, <1>9, <2>1, <2>3, <2>4
<1>10. CASE c = 9
  <2>1. d.state = "LENGTH_LOW" /\ d.type = a.records[k].type /\ b = Len(a.records[k].data)  BY <1>2, <1>10 DEF TenAt
  <2>2. e = DataLength(d, b)  BY <1>1, <2>1 DEF DnsFeed, After
  <2>3. PICK data \in Seq(Byte), l \in Byte : data = a.records[k].data /\ l = Len(data)
    BY RecordFacts DEF Fields
  <2>4. l - 0 = l /\ SubSeq(data, 1, 0) = <<>>
    BY <2>3, ByteRange, SubSeqEmpty
  <2>5. CASE Address(a.records[k])
    <3>1. PICK list : list = Append(d.list, <<>>)  OBVIOUS
    <3>2. e = [d EXCEPT !.state = "ADDRESS", !.counter = b, !.list = list]
      BY <2>1, <2>2, <2>5, <3>1 DEF DataLength, Address
    <3>3. e.state = "ADDRESS" /\ e.counter = b /\ e.list = list /\ e.answers = d.answers /\ e.questions = d.questions
      BY <3>2 DEF DnsParser
    <3>4. DataAt(a, k, 0, e)  BY <2>1, <2>3, <2>4, <2>5, <3>1, <3>3 DEF DataAt
    <3> QED  BY <1>1, <1>10, <2>1, <3>3, <3>4
  <2>6. CASE ~Address(a.records[k])
    <3>1. PICK x : x = d.answers - 1  OBVIOUS
    <3>2. e = [d EXCEPT !.state = "CNAME", !.len = b, !.answers = x]
      BY <2>1, <2>2, <2>6, <3>1 DEF DataLength, Address
    <3>3. e.state = "CNAME" /\ e.len = b /\ e.list = d.list /\ e.answers = x /\ e.questions = d.questions
      BY <3>2 DEF DnsParser
    <3>4. x = Announced(a, k)  BY <2>6, <3>1, RecordFacts
    <3>5. DataAt(a, k, 0, e)  BY <2>1, <2>3, <2>4, <2>6, <3>3, <3>4 DEF DataAt
    <3> QED  BY <1>1, <1>10, <2>1, <3>3, <3>5
  <2> QED  BY <2>5, <2>6
<1> QED  BY <1>3, <1>4, <1>5, <1>6, <1>7, <1>8, <1>9, <1>10

\* The last element of a sequence is replaced.
Replaces(S, s, x, y, t) ==
  /\ t \in Seq(S) /\ Len(t) = Len(s) + 1 /\ Len(s) \in Nat /\ t[Len(t)] = x
  /\ [t EXCEPT ![Len(t)] = y] = Append(s, y)

LEMMA LastReplaced ==
  ASSUME NEW S, NEW s \in Seq(S), NEW x \in S, NEW y \in S, NEW t, t = Append(s, x)
  PROVE  Replaces(S, s, x, y, t)
<1> SUFFICES /\ t \in Seq(S) /\ Len(t) = Len(s) + 1 /\ Len(s) \in Nat /\ t[Len(t)] = x
             /\ [t EXCEPT ![Len(t)] = y] = Append(s, y)
  BY DEF Replaces
<1>1. PICK l \in Nat : l = Len(s)  BY LenProperties
<1>2. t \in Seq(S) /\ Len(t) = l + 1 /\ t[l + 1] = x /\ \A i \in 1 .. l : t[i] = s[i]
  BY <1>1, AppendProperties
<1>3. PICK u : u = Append(s, y)  OBVIOUS
<1>4. u \in Seq(S) /\ Len(u) = l + 1 /\ u[l + 1] = y /\ \A i \in 1 .. l : u[i] = s[i]
  BY <1>1, <1>3, AppendProperties
<1>5. PICK v : v = [t EXCEPT ![l + 1] = y]  OBVIOUS
<1>6. /\ v \in Seq(S) /\ Len(v) = l + 1
      /\ \A i \in 1 .. l + 1 : v[i] = IF i = l + 1 THEN y ELSE t[i]
  <2>1. l + 1 \in 1 .. Len(t)  BY <1>1, <1>2
  <2>2. DOMAIN t = 1 .. l + 1  BY <1>2, LenProperties
  <2>3. PICK i : i = l + 1 /\ i \in 1 .. Len(t)  BY <2>1
  <2>4. /\ [t EXCEPT ![i] = y] \in Seq(S) /\ Len([t EXCEPT ![i] = y]) = Len(t)
        /\ \A j \in 1 .. Len(t) : [t EXCEPT ![i] = y][j] = IF j = i THEN y ELSE t[j]
    <3>1. [t EXCEPT ![i] = y] \in Seq(S) /\ Len([t EXCEPT ![i] = y]) = Len(t)  BY <1>2, <2>3, ExceptSeq
    <3>2. \A j \in 1 .. Len(t) : j \in DOMAIN t  BY <1>2, <2>2
    <3>3. \A j \in 1 .. Len(t) : [t EXCEPT ![i] = y][j] = IF j = i THEN y ELSE t[j]  BY <3>2
    <3> QED  BY <3>1, <3>3
  <2>5. v = [t EXCEPT ![i] = y]  BY <1>5, <2>3
  <2>6. v \in Seq(S) /\ Len(v) = Len(t) /\ \A j \in 1 .. Len(t) : v[j] = IF j = i THEN y ELSE t[j]
    BY <2>4, <2>5
  <2> QED  BY <1>2, <2>3, <2>6
<1>7. \A i \in 1 .. l + 1 : v[i] = u[i]  BY <1>2, <1>4, <1>6
<1>8. v = u  BY <1>4, <1>6, <1>7, SeqEqual
<1> QED  BY <1>1, <1>2, <1>3, <1>5, <1>8

\* The record before the next, or the last one.
RecordPassed(a, k, e) ==
  /\ e.state = (IF k = Counted(a) THEN "DONE" ELSE "ANSWERS_NAME")
  /\ e.list = Found(a, k) /\ e.answers = Announced(a, k)

LEMMA NextPasses ==
  ASSUME NEW a, IsAnswer(a), Regular(a), NEW k \in 1 .. Counted(a), NEW d \in DnsParser,
         d.list = Found(a, k), d.answers = Announced(a, k)
  PROVE  RecordPassed(a, k, NextRecord(d)) /\ NextRecord(d).questions = d.questions
<1>1. Len(d.list) = d.answers <=> k = Counted(a)  BY RecordFacts
<1>2. CASE k = Counted(a)
  <2>1. NextRecord(d) = [d EXCEPT !.state = "DONE"]  BY <1>1, <1>2 DEF NextRecord
  <2> QED  BY <1>2, <2>1 DEF RecordPassed, DnsParser
<1>3. CASE k # Counted(a)
  <2>1. NextRecord(d) = [d EXCEPT !.state = "ANSWERS_NAME"]  BY <1>1, <1>3 DEF NextRecord
  <2> QED  BY <1>3, <2>1 DEF RecordPassed, DnsParser
<1> QED  BY <1>2, <1>3

LEMMA DataLeft ==
  ASSUME NEW l \in Byte, NEW j \in 0 .. l - 1
  PROVE  l - (j + 1) = (l - j) - 1 /\ l - j > 0 /\ l - (j + 1) \in Byte /\ (l - (j + 1) = 0 <=> j + 1 = l)
BY DEF Byte

LEMMA FirstBytes ==
  ASSUME NEW b \in Seq(Byte), NEW j \in Nat, j < Len(b)
  PROVE  /\ SubSeq(b, 1, j) \in Seq(Byte) /\ SubSeq(b, 1, j + 1) \in Seq(Byte)
         /\ Append(SubSeq(b, 1, j), b[j + 1]) = SubSeq(b, 1, j + 1)
<1>1. PICK one \in Nat \ {0} : one = 1 /\ one <= j + 1  OBVIOUS
<1>2. /\ SubSeq(b, one, j) \in Seq(Byte) /\ SubSeq(b, one, j + 1) \in Seq(Byte)
      /\ Append(SubSeq(b, one, j), b[j + 1]) = SubSeq(b, one, j + 1)
  BY <1>1, StringGrows
<1> QED  BY <1>1, <1>2

\* A byte more in the last address of the list.
Longer(p, b) == [p EXCEPT !.counter = @ - 1, !.list[Len(p.list)] = Append(@, b)]

LEMMA AddressLonger ==
  ASSUME NEW p, NEW b
  PROVE  AddressByte(p, b) = IF Longer(p, b).counter = 0 THEN NextRecord(Longer(p, b)) ELSE Longer(p, b)
BY DEF AddressByte, Longer

DataMoves(a, k, l, j, d, e) ==
  /\ d.state # "DONE" /\ e.questions = d.questions
  /\ IF j + 1 = l THEN RecordPassed(a, k, e) ELSE DataAt(a, k, j + 1, e)

LEMMA DataStep ==
  ASSUME NEW a, IsAnswer(a), Regular(a), NEW k \in 1 .. Counted(a),
         NEW data, data = a.records[k].data, NEW l \in Nat, l = Len(data), NEW j \in 0 .. l - 1,
         NEW d \in DnsParser, DataAt(a, k, j, d), NEW b \in Byte, b = data[j + 1]
  PROVE  DataMoves(a, k, l, j, d, DnsFeed(d, b))
<1> SUFFICES /\ d.state # "DONE" /\ DnsFeed(d, b).questions = d.questions
             /\ IF j + 1 = l THEN RecordPassed(a, k, DnsFeed(d, b)) ELSE DataAt(a, k, j + 1, DnsFeed(d, b))
  BY DEF DataMoves
<1>1. PICK e : e = DnsFeed(d, b)  OBVIOUS
<1>2. data \in Seq(Byte) /\ l \in Byte /\ l > 0
  <2>1. data \in Seq(Byte) /\ l \in Byte /\ l # 0  BY RecordFacts DEF Fields
  <2> QED  BY <2>1
<1>3. l - (j + 1) = (l - j) - 1 /\ l - j > 0 /\ l - (j + 1) \in Byte /\ (l - (j + 1) = 0 <=> j + 1 = l)
  BY <1>2, DataLeft
<1>4. CASE Address(a.records[k])
  <2>1. PICK before \in Seq(Seq(Byte)) : before = Found(a, k - 1) /\ Found(a, k) = Append(before, data)
    <3>1. Found(a, k - 1) \in Seq(Seq(Byte)) /\ Found(a, k) = Append(Found(a, k - 1), a.records[k].data)
      BY <1>4, RecordFacts
    <3> QED  BY <3>1
  <2>2. PICK x \in Seq(Byte), y \in Seq(Byte) :
          x = SubSeq(data, 1, j) /\ y = SubSeq(data, 1, j + 1) /\ Append(x, b) = y
    <3>1. j \in Nat /\ j < l  BY <1>2, ByteRange
    <3>2. /\ SubSeq(data, 1, j) \in Seq(Byte) /\ SubSeq(data, 1, j + 1) \in Seq(Byte)
          /\ Append(SubSeq(data, 1, j), data[j + 1]) = SubSeq(data, 1, j + 1)
      BY <1>2, <3>1, FirstBytes
    <3> QED  BY <3>2
  <2>3. /\ d.state = "ADDRESS" /\ d.counter = l - j /\ d.list = Append(before, x)
        /\ d.answers = Announced(a, k - 1)
    BY <1>4, <2>1, <2>2 DEF DataAt
  <2>4. PICK t, n : n \in Nat /\ t = d.list /\ n = Len(t) /\ t[n] = x /\ [t EXCEPT ![n] = y] = Append(before, y)
    <3>1. PICK S : S = Seq(Byte)  OBVIOUS
    <3>2. PICK t : t = d.list  OBVIOUS
    <3>3. before \in Seq(S) /\ x \in S /\ y \in S /\ t = Append(before, x)  BY <2>1, <2>2, <2>3, <3>1, <3>2
    <3>4. Replaces(S, before, x, y, t)  BY <3>3, LastReplaced
    <3>5. Len(t) = Len(before) + 1 /\ Len(before) \in Nat /\ t[Len(t)] = x
      BY <3>4 DEF Replaces
    <3>6. [t EXCEPT ![Len(t)] = y] = Append(before, y)  BY <3>4 DEF Replaces
    <3>7. PICK m : m = Len(t)  OBVIOUS
    <3>8. m \in Nat  BY <3>5, <3>7
    <3> QED  BY <3>2, <3>5, <3>6, <3>7, <3>8
  <2>5. PICK list, c : list = Append(before, y) /\ c = l - (j + 1) /\ c \in Byte  BY <1>3
  <2>6. list \in Seq(Seq(Byte))  BY <2>1, <2>2, <2>5, AppendProperties
  <2>7. PICK f : f = [d EXCEPT !.counter = c, !.list = list]  OBVIOUS
  <2>8. /\ f \in DnsParser /\ f.state = "ADDRESS" /\ f.counter = c /\ f.list = list /\ f.answers = d.answers
        /\ f.questions = d.questions
    BY <2>3, <2>5, <2>6, <2>7 DEF DnsParser
  <2>9. e = IF f.counter = 0 THEN NextRecord(f) ELSE f
    <3>1. e = AddressByte(d, b)  BY <1>1, <2>3 DEF DnsFeed, After
    <3>2. d.counter - 1 = c  BY <1>3, <2>3, <2>5
    <3>3. [d.list EXCEPT ![Len(d.list)] = Append(d.list[Len(d.list)], b)] = list
      <4>1. [t EXCEPT ![n] = Append(t[n], b)] = list  BY <2>2, <2>4, <2>5
      <4> QED  BY <2>4, <4>1
    <3>4. [d EXCEPT !.counter = @ - 1, !.list[Len(d.list)] = Append(@, b)] = f
      <4>1. [d EXCEPT !.counter = @ - 1, !.list[Len(d.list)] = Append(@, b)]
              = [d EXCEPT !.counter = d.counter - 1, !.list = [d.list EXCEPT ![Len(d.list)] = Append(d.list[Len(d.list)], b)]]
        BY DEF DnsParser
      <4> QED  BY <2>7, <3>2, <3>3, <4>1
    <3>5. Longer(d, b) = f  BY <3>4 DEF Longer
    <3> QED  BY <3>1, <3>5, AddressLonger
  <2>10. Announced(a, k) = Announced(a, k - 1)  BY <1>4, RecordFacts
  <2>11. CASE j + 1 = l
    <3>1. y = data
      <4>1. Len(data) = l /\ y = SubSeq(data, 1, l)  BY <2>2, <2>11
      <4> QED  BY <1>2, <4>1, SubSeqFull
    <3>2. e = NextRecord(f)  BY <1>3, <2>5, <2>8, <2>9, <2>11
    <3>3. RecordPassed(a, k, e) /\ e.questions = d.questions
      BY ZenonT(40), <2>1, <2>3, <2>5, <2>8, <2>10, <3>1, <3>2, NextPasses
    <3> QED  BY <1>1, <2>3, <2>11, <3>3
  <2>12. CASE j + 1 # l
    <3>1. e = f  BY <1>3, <2>5, <2>8, <2>9, <2>12
    <3>2. DataAt(a, k, j + 1, e)  BY <1>4, <2>1, <2>2, <2>3, <2>5, <2>8, <3>1 DEF DataAt
    <3> QED  BY <1>1, <2>3, <2>8, <2>12, <3>1, <3>2
  <2> QED  BY <2>11, <2>12
<1>5. CASE ~Address(a.records[k])
  <2>1. Found(a, k) = Found(a, k - 1)  BY <1>5, RecordFacts
  <2>2. d.state = "CNAME" /\ d.len = l - j /\ d.list = Found(a, k) /\ d.answers = Announced(a, k)
    BY <1>5, <2>1 DEF DataAt
  <2>3. e = IF d.len > 1 THEN [d EXCEPT !.len = d.len - 1] ELSE NextRecord(d)  BY <1>1, <2>2 DEF DnsFeed, After
  <2>4. CASE j + 1 = l
    <3>1. ~(d.len > 1)  BY <2>2, <2>4
    <3>2. RecordPassed(a, k, e) /\ e.questions = d.questions  BY <2>2, <2>3, <3>1, NextPasses
    <3> QED  BY <1>1, <2>2, <2>4, <3>2
  <2>5. CASE j + 1 # l
    <3>1. d.len > 1 /\ d.len - 1 = l - (j + 1)  BY <2>2, <2>5
    <3>2. PICK v : v = l - (j + 1)  OBVIOUS
    <3>3. e = [d EXCEPT !.len = v]  BY <2>3, <3>1, <3>2
    <3>4. e.state = d.state /\ e.len = v /\ e.list = d.list /\ e.answers = d.answers /\ e.questions = d.questions
      BY <3>3 DEF DnsParser
    <3>5. DataAt(a, k, j + 1, e)  BY <1>5, <2>1, <2>2, <3>2, <3>4 DEF DataAt
    <3> QED  BY <1>1, <2>2, <2>5, <3>4, <3>5
  <2> QED  BY <2>4, <2>5
<1> QED  BY <1>4, <1>5

LEMMA RecordStep ==
  ASSUME NEW a, IsAnswer(a), Regular(a), NEW k \in 1 .. Counted(a), NEW p \in Nat,
         NEW d \in DnsParser, RecordAt(a, k, p, d), NEW b, b = Wire(a)[p + 1]
  PROVE  /\ p < Len(Wire(a)) /\ b \in Byte /\ d.state # "DONE" /\ DnsFeed(d, b).questions = d.questions
         /\ \/ RecordAt(a, k, p + 1, DnsFeed(d, b))
            \/ RecordPassed(a, k, DnsFeed(d, b)) /\ p + 1 = RecordEnd(a, k)
<1>1. PICK r \in Fields : r = a.records[k] /\ k \in 1 .. Len(a.records) /\ Len(r.data) \in Byte \ {0} /\ (r.owner = "root" => k = 1)
  BY RecordFacts
<1>2. PICK owner \in Seq(Byte), o \in Nat : owner = Owner(r.owner) /\ o = Len(owner)
  BY ZenonT(40), OwnerShape, LenProperties DEF Fields
<1>3. PICK data \in Seq(Byte), l \in Nat : data = r.data /\ l = Len(data) /\ l > 0
  BY <1>1, LenProperties, ByteRange DEF Fields
<1>4. PICK w \in Seq(Byte), u \in Nat, v \in Nat : w = Wire(a) /\ u = RecordEnd(a, k - 1) /\ v = Len(w)
  BY <1>1, WireLayout, RecordsLayout, LenProperties DEF Regular
<1>5. PICK bytes \in Seq(Byte) : bytes = RecordBytes(r)  BY <1>1, RecordLayout
<1>6. /\ Len(bytes) = o + 10 + l /\ bytes[o + 2] = r.type /\ bytes[o + 10] = l
      /\ Lies(owner, bytes, 0) /\ Lies(data, bytes, o + 10)
  BY <1>1, <1>2, <1>3, <1>5, RecordLayout
<1>7. Lies(bytes, w, u) /\ RecordEnd(a, k) = u + (o + 10 + l)
  BY <1>1, <1>4, <1>5, <1>6, RecordsLayout DEF Regular
<1>8. u + (o + 10 + l) <= v /\ \A i \in 1 .. o + 10 + l : bytes[i] = w[u + i] /\ w[u + i] \in Byte
  <2>1. u + (o + 10 + l) <= v /\ \A i \in 1 .. o + 10 + l : bytes[i] = w[u + i]  BY <1>4, <1>6, <1>7 DEF Lies
  <2>2. \A i \in 1 .. o + 10 + l : u + i \in 1 .. v
    <3>1. u + (o + 10 + l) <= v  BY <2>1
    <3> QED  BY <3>1
  <2> QED  BY <1>4, <2>1, <2>2, ElementOfSeq
<1>9. /\ \A i \in 1 .. o : i \in 1 .. o + 10 + l /\ bytes[i] = owner[i]
      /\ \A i \in 1 .. l : (o + 10) + i \in 1 .. o + 10 + l /\ bytes[(o + 10) + i] = data[i]
  <2>1. \A i \in 1 .. o : i \in 1 .. o + 10 + l /\ 0 + i = i  OBVIOUS
  <2>2. \A i \in 1 .. l : (o + 10) + i \in 1 .. o + 10 + l  OBVIOUS
  <2> QED  BY <1>2, <1>3, <1>6, <2>1, <2>2 DEF Lies
<1>10. PICK e : e = DnsFeed(d, b)  OBVIOUS
<1> DEFINE Preceding(x) == x.list = Found(a, k - 1) /\ x.answers = Announced(a, k - 1)
<1>11. /\ \A q \in 0 .. o - 1 : \A x, y : y = u + q /\ OwnerAt(a, k, q, x) /\ Preceding(x) => RecordAt(a, k, y, x)
       /\ \A c \in 0 .. 9 : \A x, y : y = u + o + c /\ TenAt(a, k, c, x) /\ Preceding(x) => RecordAt(a, k, y, x)
       /\ \A j \in 0 .. l - 1 : \A x, y : y = u + o + 10 + j /\ DataAt(a, k, j, x) => RecordAt(a, k, y, x)
  <2>1. /\ o = Len(Owner(a.records[k].owner)) /\ l = Len(a.records[k].data) /\ u = RecordEnd(a, k - 1)
    BY <1>1, <1>2, <1>3, <1>4
  <2> QED  BY <2>1, Zenon DEF RecordAt
<1>12. CASE \E q \in 0 .. o - 1 : p = u + q /\ OwnerAt(a, k, q, d) /\ Preceding(d)
  <2>1. PICK q \in 0 .. o - 1 : p = u + q /\ OwnerAt(a, k, q, d) /\ Preceding(d)  BY <1>12
  <2>2. q + 1 \in 1 .. o /\ u + (q + 1) = p + 1 /\ p < v /\ q + 1 \in 1 .. o + 10 + l
    <3>1. u + (o + 10 + l) <= v  BY <1>8
    <3>2. p = u + q  BY <2>1
    <3> QED  BY <3>1, <3>2
  <2>3. b = owner[q + 1] /\ b \in Byte
    <3>1. PICK i : i = q + 1 /\ i \in 1 .. o /\ i \in 1 .. o + 10 + l /\ u + i = p + 1  BY <2>2
    <3>2. bytes[i] = w[u + i] /\ w[u + i] \in Byte  BY <1>8, <3>1
    <3>3. bytes[i] = owner[i]  BY <1>9, <3>1
    <3> QED  BY <1>4, <3>1, <3>2, <3>3
  <2>4. /\ d.state # "DONE" /\ Keeps(d, e)
        /\ IF q + 1 = o THEN TenAt(a, k, 0, e) ELSE OwnerAt(a, k, q + 1, e)
    <3>1. r.owner \in {"pointer", "labels", "root"}  BY DEF Fields
    <3> QED  BY ZenonT(40), <1>1, <1>2, <1>10, <2>1, <2>3, <3>1, OwnerStep
  <2>5. Preceding(e) /\ e.questions = d.questions  BY <2>1, <2>4 DEF Keeps
  <2>6. RecordAt(a, k, p + 1, e)
    <3>1. CASE q + 1 = o
      <4>1. p + 1 = u + o + 0 /\ 0 \in 0 .. 9  BY <2>2, <3>1
      <4> QED  BY <1>11, <2>4, <2>5, <3>1, <4>1
    <3>2. CASE q + 1 # o
      <4>1. q + 1 \in 0 .. o - 1 /\ p + 1 = u + (q + 1)  BY <2>2, <3>2
      <4> QED  BY <1>11, <2>4, <2>5, <3>2, <4>1
    <3> QED  BY <3>1, <3>2
  <2> QED  BY <1>4, <1>10, <2>2, <2>3, <2>4, <2>5, <2>6
<1>13. CASE \E c \in 0 .. 9 : p = u + o + c /\ TenAt(a, k, c, d) /\ Preceding(d)
  <2>1. PICK c \in 0 .. 9 : p = u + o + c /\ TenAt(a, k, c, d) /\ Preceding(d)  BY <1>13
  <2>2. u + (o + c + 1) = p + 1 /\ o + c + 1 \in 1 .. o + 10 + l /\ p < v
    <3>1. u + (o + 10 + l) <= v  BY <1>8
    <3>2. p = u + o + c  BY <2>1
    <3>3. o + c + 1 <= o + 10 + l /\ o + c + 1 >= 1 /\ o + c + 1 \in Int  OBVIOUS
    <3>4. u + (o + c + 1) = p + 1 /\ p < v  BY <3>1, <3>2, <3>3
    <3> QED  BY <3>3, <3>4
  <2>3. b = bytes[o + c + 1] /\ b \in Byte
    <3>1. PICK i : i = o + c + 1 /\ i \in 1 .. o + 10 + l /\ u + i = p + 1  BY <2>2
    <3>2. bytes[i] = w[u + i] /\ w[u + i] \in Byte  BY <1>8, <3>1
    <3> QED  BY <1>4, <3>1, <3>2
  <2>4. c = 1 => b = r.type
    <3>1. c = 1 => o + c + 1 = o + 2  OBVIOUS
    <3> QED  BY <1>6, <2>3, <3>1
  <2>5. c = 9 => b = l
    <3>1. c = 9 => o + c + 1 = o + 10  OBVIOUS
    <3> QED  BY <1>6, <2>3, <3>1
  <2>6. /\ d.state # "DONE"
        /\ c < 9 => TenAt(a, k, c + 1, e) /\ Keeps(d, e)
        /\ c = 9 => DataAt(a, k, 0, e) /\ e.questions = d.questions
    <3>1. c = 1 => b = a.records[k].type  BY <1>1, <2>4
    <3>2. c = 9 => b = Len(a.records[k].data)  BY <1>1, <1>3, <2>5
    <3>3. d.list = Found(a, k - 1) /\ d.answers = Announced(a, k - 1) /\ TenAt(a, k, c, d)  BY <2>1
    <3>4. TenMoves(a, k, c, d, DnsFeed(d, b))  BY <2>3, <3>1, <3>2, <3>3, TenStep
    <3> QED  BY <1>10, <3>4 DEF TenMoves
  <2>7. RecordAt(a, k, p + 1, e) /\ e.questions = d.questions
    <3>1. CASE c < 9
      <4>1. Preceding(e) /\ e.questions = d.questions  BY <2>1, <2>6, <3>1 DEF Keeps
      <4>2. c + 1 \in 0 .. 9 /\ p + 1 = u + o + (c + 1)  BY <2>1, <3>1
      <4> QED  BY <1>11, <2>6, <3>1, <4>1, <4>2
    <3>2. CASE c = 9
      <4>1. 0 \in 0 .. l - 1 /\ p + 1 = u + o + 10 + 0  BY <1>3, <2>1, <3>2
      <4> QED  BY <1>11, <2>6, <3>2, <4>1
    <3> QED  BY <3>1, <3>2
  <2> QED  BY <1>4, <1>10, <2>2, <2>3, <2>6, <2>7
<1>14. CASE \E j \in 0 .. l - 1 : p = u + o + 10 + j /\ DataAt(a, k, j, d)
  <2>1. PICK j \in 0 .. l - 1 : p = u + o + 10 + j /\ DataAt(a, k, j, d)  BY <1>14
  <2>2. /\ u + ((o + 10) + (j + 1)) = p + 1 /\ j + 1 \in 1 .. l /\ (o + 10) + (j + 1) \in 1 .. o + 10 + l /\ p < v
    <3>1. u + (o + 10 + l) <= v  BY <1>8
    <3>2. p = u + o + 10 + j  BY <2>1
    <3> QED  BY <3>1, <3>2
  <2>3. b = data[j + 1] /\ b \in Byte
    <3>1. PICK i, x : i = j + 1 /\ x = (o + 10) + i /\ i \in 1 .. l /\ x \in 1 .. o + 10 + l /\ u + x = p + 1  BY <2>2
    <3>2. bytes[x] = w[u + x] /\ w[u + x] \in Byte  BY <1>8, <3>1
    <3>3. bytes[x] = data[i]  BY <1>9, <3>1
    <3> QED  BY <1>4, <3>1, <3>2, <3>3
  <2>4. /\ d.state # "DONE" /\ e.questions = d.questions
        /\ IF j + 1 = l THEN RecordPassed(a, k, e) ELSE DataAt(a, k, j + 1, e)
    <3>1. data = a.records[k].data /\ l = Len(data)  BY <1>1, <1>3
    <3>2. DataMoves(a, k, l, j, d, DnsFeed(d, b))  BY <2>1, <2>3, <3>1, DataStep
    <3> QED  BY <1>10, <3>2 DEF DataMoves
  <2>5. CASE j + 1 = l
    <3>1. p + 1 = u + (o + 10 + l)  BY <2>1, <2>5
    <3> QED  BY <1>4, <1>7, <1>10, <2>2, <2>3, <2>4, <2>5, <3>1
  <2>6. CASE j + 1 # l
    <3>1. j + 1 \in 0 .. l - 1 /\ p + 1 = u + o + 10 + (j + 1)  BY <2>1, <2>6
    <3> QED  BY <1>4, <1>10, <1>11, <2>2, <2>3, <2>4, <2>6, <3>1
  <2> QED  BY <2>5, <2>6
<1>15. \/ \E q \in 0 .. o - 1 : p = u + q /\ OwnerAt(a, k, q, d) /\ Preceding(d)
       \/ \E c \in 0 .. 9 : p = u + o + c /\ TenAt(a, k, c, d) /\ Preceding(d)
       \/ \E j \in 0 .. l - 1 : p = u + o + 10 + j /\ DataAt(a, k, j, d)
  BY <1>1, <1>2, <1>3, <1>4 DEF RecordAt
<1> QED  BY <1>12, <1>13, <1>14, <1>15

LEMMA MessageByte ==
  ASSUME NEW a, IsAnswer(a), Regular(a), NEW q \in 0 .. 21, NEW p \in Nat, p = Start(a) + q, NEW b, b = Wire(a)[p + 1]
  PROVE  p < Len(Wire(a)) /\ b \in Byte /\ HeaderByte(a, q, b)
<1>1. PICK w \in Seq(Byte), s \in Nat, v \in Nat : w = Wire(a) /\ s = Start(a) /\ v = Len(w)
  BY WireLayout, LenProperties
<1>2. PICK m \in Seq(Byte), l \in Nat : m = Message(a) /\ l = Len(m) /\ Lies(m, w, s) /\ l >= 22
  <2>1. PICK recs \in Seq(Byte) : recs = BytesOf(Sent(a), 0, Len(a.records))
    <3>1. Len(a.records) \in 0 .. Len(a.records) /\ 0 \in Nat  BY AnswerShape
    <3>2. Len(Sent(a)) = Len(a.records) /\ Messages(Sent(a))  BY SentMessages
    <3> QED  BY <3>1, <3>2, BytesOfType
  <2>2. Len(recs) \in Nat  BY LenProperties
  <2>3. Len(Message(a)) = 22 + Len(recs)  BY <2>1, MessageLayout DEF Regular
  <2>4. Message(a) \in Seq(Byte) /\ Lies(Message(a), w, s)  BY <1>1, MessageLayout, WireLayout
  <2> QED  BY <2>2, <2>3, <2>4
<1>3. s + l <= v /\ \A i \in 1 .. l : m[i] = w[s + i]  BY <1>1, <1>2 DEF Lies
<1>4. q + 1 \in 1 .. l /\ p + 1 = s + (q + 1) /\ p < v /\ p + 1 \in 1 .. v
  <2>1. s + l <= v  BY <1>3
  <2>2. l >= 22  BY <1>2
  <2>3. p = s + q  BY <1>1
  <2> QED  BY <2>1, <2>2, <2>3
<1>5. b = m[q + 1] /\ b \in Byte
  <2>1. w[p + 1] \in Byte  BY <1>1, <1>4, ElementOfSeq
  <2> QED  BY <1>1, <1>3, <1>4, <2>1
<1>6. PICK question : question = <<2, 97, 98, 1, 99, 0, 0, 1, 0, 1>> /\ Lies(question, m, 12)
  BY <1>2, MessageLayout DEF Regular
<1>7. Len(question) = 10 /\ question[1] = 2 /\ question[4] = 1 /\ question[6] = 0  BY <1>6, SMT
<1>8. m[13] = 2 /\ m[16] = 1 /\ m[18] = 0
  <2>1. \A i \in 1 .. 10 : question[i] = m[12 + i]  BY <1>6, <1>7 DEF Lies
  <2>2. question[1] = m[12 + 1] /\ question[4] = m[12 + 4] /\ question[6] = m[12 + 6]
    <3>1. 1 \in 1 .. 10 /\ 4 \in 1 .. 10 /\ 6 \in 1 .. 10  OBVIOUS
    <3> QED  BY <2>1, <3>1
  <2>3. 12 + 1 = 13 /\ 12 + 4 = 16 /\ 12 + 6 = 18  OBVIOUS
  <2> QED  BY <1>7, <2>2, <2>3
<1>9. m[6] = 1 /\ m[8] = Counted(a)  BY <1>2, MessageLayout DEF Regular, Counted
<1>10. HeaderByte(a, q, b)
  BY <1>5, <1>8, <1>9, SMT DEF HeaderByte
<1> QED  BY <1>1, <1>4, <1>5, <1>10

\* One byte of the message, until the last record that counts.
LEMMA DnsStep ==
  ASSUME NEW a, IsAnswer(a), Regular(a), NEW p \in Nat, NEW d \in DnsParser, d.state # "DONE", DnsAt(a, p, d),
         NEW b, b = Wire(a)[p + 1]
  PROVE  p < Len(Wire(a)) /\ b \in Byte /\ DnsAt(a, p + 1, DnsFeed(d, b))
<1>1. PICK e : e = DnsFeed(d, b)  OBVIOUS
<1>2. PICK n \in Nat, s \in Nat : n = Counted(a) /\ s = Start(a)
  <2>1. Counted(a) \in Byte  BY MessageLayout DEF Counted
  <2> QED  BY <2>1, WireLayout, ByteRange
<1>3. CASE \E q \in 0 .. 21 : p = Start(a) + q /\ HeaderAt(a, q, d)
  <2>1. PICK q \in 0 .. 21 : p = s + q /\ HeaderAt(a, q, d)  BY <1>2, <1>3
  <2>2. p < Len(Wire(a)) /\ b \in Byte /\ HeaderByte(a, q, b)  BY <1>2, <2>1, MessageByte
  <2>3. \/ q < 21 /\ HeaderAt(a, q + 1, e)
        \/ q = 7 /\ Complete(a, e)
        \/ q = 21 /\ Asked(a, e)
    BY <1>1, <2>1, <2>2, HeaderStep
  <2>4. CASE q < 21 /\ HeaderAt(a, q + 1, e)
    <3>1. q + 1 \in 0 .. 21 /\ p + 1 = s + (q + 1)  BY <2>1, <2>4
    <3>2. DnsAt(a, p + 1, e)  BY <1>2, <2>4, <3>1 DEF DnsAt
    <3> QED  BY <1>1, <2>2, <3>2
  <2>5. CASE Complete(a, e)
    BY <1>1, <2>2, <2>5 DEF DnsAt
  <2>6. CASE q = 21 /\ Asked(a, e)
    <3>1. /\ e.state = "ANSWERS_NAME" /\ e.written = 0 /\ e.list = <<>> /\ e.questions = 1
          /\ e.answers = n /\ n > 0
      BY <1>2, <2>6 DEF Asked
    <3>2. 1 \in 1 .. n /\ 1 - 1 = 0  BY <3>1
    <3>3. p + 1 = RecordEnd(a, 0) + 0
      <4>1. RecordEnd(a, 0) = s + 22  BY <1>2, RecordsLayout DEF Regular
      <4> QED  BY <2>1, <2>6, <4>1
    <3>4. e.list = Found(a, 0) /\ e.answers = Announced(a, 0)
      <4>1. Found(a, 0) = <<>>  BY FoundGrows
      <4>2. Announced(a, 0) = n - 0 + 0  BY <1>2, <4>1 DEF Announced
      <4> QED  BY <3>1, <4>1, <4>2
    <3>5. OwnerAt(a, 1, 0, e)  BY <3>1 DEF OwnerAt
    <3>6. 0 \in 0 .. Len(Owner(a.records[1].owner)) - 1
      <4>1. a.records[1] \in Fields  BY <1>2, <3>2, RecordFacts
      <4>2. a.records[1].owner \in {"pointer", "labels", "root"}  BY <4>1 DEF Fields
      <4> QED  BY <4>2, OwnerStarts
    <3>7. RecordAt(a, 1, p + 1, e)  BY <3>2, <3>3, <3>4, <3>5, <3>6 DEF RecordAt
    <3>8. DnsAt(a, p + 1, e)  BY <1>2, <3>1, <3>2, <3>7 DEF DnsAt
    <3> QED  BY <1>1, <2>2, <3>8
  <2> QED  BY <2>3, <2>4, <2>5, <2>6
<1>4. CASE \E k \in 1 .. Counted(a) : d.questions = 1 /\ RecordAt(a, k, p, d)
  <2>1. PICK k \in 1 .. n : d.questions = 1 /\ RecordAt(a, k, p, d)  BY <1>2, <1>4
  <2>2. /\ p < Len(Wire(a)) /\ b \in Byte /\ e.questions = 1
        /\ RecordAt(a, k, p + 1, e) \/ (RecordPassed(a, k, e) /\ p + 1 = RecordEnd(a, k))
    BY <1>1, <1>2, <2>1, RecordStep
  <2>3. CASE RecordAt(a, k, p + 1, e)
    <3>1. DnsAt(a, p + 1, e)  BY <1>2, <2>1, <2>2, <2>3 DEF DnsAt
    <3> QED  BY <1>1, <2>2, <3>1
  <2>4. CASE RecordPassed(a, k, e) /\ p + 1 = RecordEnd(a, k)
    <3>1. e.list = Found(a, k) /\ e.answers = Announced(a, k) /\ e.state = IF k = n THEN "DONE" ELSE "ANSWERS_NAME"
      BY <1>2, <2>4 DEF RecordPassed
    <3>2. CASE k = n
      <4>1. e.answers = Len(Found(a, n))  BY <1>2, <3>1, <3>2, RecordFacts
      <4>2. Complete(a, e)  BY <1>2, <2>2, <3>1, <3>2, <4>1 DEF Complete, Expected, Counted
      <4>3. DnsAt(a, p + 1, e)  BY <4>2 DEF DnsAt
      <4> QED  BY <1>1, <2>2, <4>3
    <3>3. CASE k # n
      <4>1. PICK g \in 1 .. n : g = k + 1 /\ g - 1 = k /\ g # 1  BY <2>1, <3>3
      <4>2. 0 \in 0 .. Len(Owner(a.records[g].owner)) - 1
        <5>1. a.records[g] \in Fields  BY <1>2, <4>1, RecordFacts
        <5>2. a.records[g].owner \in {"pointer", "labels", "root"}  BY <5>1 DEF Fields
        <5> QED  BY <5>2, OwnerStarts
      <4>3. OwnerAt(a, g, 0, e)  BY <3>1, <3>3, <4>1 DEF OwnerAt
      <4>4. p + 1 = RecordEnd(a, g - 1) + 0  BY <2>4, <4>1
      <4>5. RecordAt(a, g, p + 1, e)  BY <3>1, <4>1, <4>2, <4>3, <4>4 DEF RecordAt
      <4>6. DnsAt(a, p + 1, e)  BY <1>2, <2>2, <4>1, <4>5 DEF DnsAt
      <4> QED  BY <1>1, <2>2, <4>6
    <3> QED  BY <3>2, <3>3
  <2> QED  BY <2>2, <2>3, <2>4
<1>5. ~Complete(a, d)  BY DEF Complete
<1> QED  BY <1>3, <1>4, <1>5 DEF DnsAt

\* Whoever is done has it all, and at the end of the answer one is.
LEMMA DnsEnds ==
  ASSUME NEW a, IsAnswer(a), Regular(a), NEW p \in Nat, NEW d \in DnsParser, DnsAt(a, p, d)
  PROVE  /\ d.state = "DONE" => Complete(a, d)
         /\ p = Len(Wire(a)) => d.state = "DONE"
<1>1. d.state = "DONE" => Complete(a, d)
  <2>1. SUFFICES ASSUME d.state = "DONE", ~Complete(a, d)  PROVE FALSE
    OBVIOUS
  <2>2. CASE \E q \in 0 .. 21 : p = Start(a) + q /\ HeaderAt(a, q, d)
    <3>1. PICK q \in 0 .. 21 : p = Start(a) + q /\ HeaderAt(a, q, d)  BY <2>2
    <3>2. PICK b : b = Wire(a)[p + 1]  OBVIOUS
    <3>3. b \in Byte /\ HeaderByte(a, q, b)  BY <3>1, <3>2, MessageByte
    <3> QED  BY <2>1, <3>1, <3>3, HeaderStep
  <2>3. CASE \E k \in 1 .. Counted(a) : d.questions = 1 /\ RecordAt(a, k, p, d)
    BY <2>1, <2>3, RecordStep
  <2> QED  BY <2>1, <2>2, <2>3 DEF DnsAt
<1>2. p = Len(Wire(a)) => d.state = "DONE"
  <2>1. SUFFICES ASSUME p = Len(Wire(a)), d.state # "DONE"  PROVE FALSE
    OBVIOUS
  <2>2. PICK b : b = Wire(a)[p + 1]  OBVIOUS
  <2>3. p < Len(Wire(a))  BY <2>1, <2>2, DnsStep
  <2> QED  BY <2>1, <2>3
<1> QED  BY <1>1, <1>2

-----------------------------------------------------------------------------
(* Both machines, over a receive.                                          *)

Machines == [http : HttpParser, dns : DnsParser]

LEMMA TracksStep ==
  ASSUME NEW a, IsAnswer(a), Plain(a), NEW p \in Nat, p < Len(Wire(a)), NEW m \in Machines, Tracks(a, p, m),
         NEW b, b = Wire(a)[p + 1]
  PROVE  Parsed(m, b) \in Machines /\ Tracks(a, p + 1, Parsed(m, b))
<1>1. PICK h \in HttpParser, d \in DnsParser : h = m.http /\ d = m.dns /\ Fits(d)  BY DEF Machines, Tracks
<1>2. b \in Byte
  <2>1. PICK w \in Seq(Byte), l \in Nat : w = Wire(a) /\ l = Len(w)  BY WireLayout, LenProperties
  <2>2. p + 1 \in 1 .. l  BY <2>1
  <2> QED  BY <2>1, <2>2, ElementOfSeq
<1>3. PICK q : q = Parsed(m, b)  OBVIOUS
<1>4. CASE h.state \notin {"DONE", "ERROR"}
  <2>1. PICK g : g = HttpFeed(h, b)  OBVIOUS
  <2>2. g \in HttpParser  BY <1>2, <1>4, <2>1, HttpTyped
  <2>3. q = [m EXCEPT !.http = g]  BY <1>1, <1>3, <1>4, <2>1 DEF Parsed
  <2>4. q \in Machines /\ q.http = g /\ q.dns = d  BY <1>1, <2>2, <2>3 DEF Machines
  <2>5. ASSUME Regular(a)
        PROVE  IF Acceptable(a) THEN \/ HeadAt(a, FirstLength(a), g, p + 1) /\ d = Fresh
                                     \/ g.state = "DONE" /\ DnsAt(a, p + 1, d)
                                ELSE Unaccepted(a, g, p + 1) /\ d = Fresh
    <3>1. CASE Acceptable(a)
      <4>1. HeadAt(a, FirstLength(a), h, p) /\ d = Fresh  BY <1>1, <1>4, <2>5, <3>1 DEF Tracks
      <4>2. PICK f : f = FirstLength(a)  OBVIOUS
      <4>3. HeadAt(a, f, g, p + 1) \/ (g.state = "DONE" /\ p + 1 = Start(a))
        BY <2>1, <3>1, <4>1, <4>2, HeadStep
      <4>4. CASE HeadAt(a, f, g, p + 1)
        BY <3>1, <4>1, <4>2, <4>4
      <4>5. CASE g.state = "DONE" /\ p + 1 = Start(a)
        <5>1. Fresh.state = "TRANSACTION" /\ Fresh.written = 0 /\ Fresh.list = <<>>  BY DEF Fresh
        <5>2. HeaderAt(a, 0, d)  BY <4>1, <5>1, HeaderStates DEF HeaderAt
        <5>3. 0 \in 0 .. 21 /\ p + 1 = Start(a) + 0  BY <4>5
        <5>4. DnsAt(a, p + 1, d)  BY <5>2, <5>3 DEF DnsAt
        <5> QED  BY <3>1, <4>5, <5>4
      <4> QED  BY <4>3, <4>4, <4>5
    <3>2. CASE ~Acceptable(a)
      <4>1. Unaccepted(a, h, p) /\ d = Fresh  BY <1>1, <2>5, <3>2 DEF Tracks
      <4> QED  BY <2>1, <3>2, <4>1, UnacceptedStep
    <3> QED  BY <3>1, <3>2
  <2> QED  BY <1>1, <1>3, <2>2, <2>4, <2>5 DEF Tracks
<1>5. CASE h.state = "DONE" /\ d.state # "DONE"
  <2>1. PICK e : e = DnsFeed(d, b)  OBVIOUS
  <2>2. e \in DnsParser /\ Fits(e)  BY <1>1, <1>2, <1>5, <2>1, DnsTyped
  <2>3. q = [m EXCEPT !.dns = e]  BY <1>1, <1>3, <1>5, <2>1 DEF Parsed
  <2>4. q \in Machines /\ q.http = h /\ q.dns = e  BY <1>1, <2>2, <2>3 DEF Machines
  <2>5. ASSUME Regular(a)
        PROVE  Acceptable(a) /\ DnsAt(a, p + 1, e)
    <3>1. CASE Acceptable(a)
      <4>1. ~HeadAt(a, FirstLength(a), h, p)
        <5>1. PICK f : f = FirstLength(a)  OBVIOUS
        <5> QED  BY <1>5, <3>1, <5>1, HeadStep
      <4>2. DnsAt(a, p, d)  BY <1>1, <2>5, <3>1, <4>1 DEF Tracks
      <4> QED  BY <1>5, <2>1, <2>5, <3>1, <4>2, DnsStep
    <3>2. CASE ~Acceptable(a)
      <4>1. Unaccepted(a, h, p)  BY <1>1, <2>5, <3>2 DEF Tracks
      <4> QED  BY <1>5, <3>2, <4>1, UnacceptedStep
    <3> QED  BY <3>1, <3>2
  <2> QED  BY <1>1, <1>3, <1>5, <2>2, <2>4, <2>5 DEF Tracks
<1>6. CASE ~(h.state \notin {"DONE", "ERROR"}) /\ ~(h.state = "DONE" /\ d.state # "DONE")
  <2>1. q = m  BY <1>1, <1>3, <1>6 DEF Parsed
  <2>2. ASSUME Regular(a)
        PROVE  Acceptable(a) /\ h.state = "DONE" /\ DnsAt(a, p + 1, d)
    <3>1. CASE Acceptable(a)
      <4>1. ~HeadAt(a, FirstLength(a), h, p)
        <5>1. PICK f : f = FirstLength(a)  OBVIOUS
        <5> QED  BY <1>6, <3>1, <5>1, HeadStep
      <4>2. h.state = "DONE" /\ DnsAt(a, p, d)  BY <1>1, <2>2, <3>1, <4>1 DEF Tracks
      <4>3. Complete(a, d)  BY <1>6, <2>2, <4>2, DnsEnds
      <4> QED  BY <3>1, <4>2, <4>3 DEF DnsAt
    <3>2. CASE ~Acceptable(a)
      <4>1. Unaccepted(a, h, p)  BY <1>1, <2>2, <3>2 DEF Tracks
      <4> QED  BY <1>6, <3>2, <4>1, UnacceptedStep
    <3> QED  BY <3>1, <3>2
  <2> QED  BY <1>1, <1>3, <2>1, <2>2 DEF Tracks
<1> QED  BY <1>4, <1>5, <1>6

Feeds(start, f, bytes, n) ==
  f = [k \in 0 .. n |-> IF k = 0 THEN {start} ELSE {Parsed(m, bytes[k]) : m \in f[k - 1]}]

LEMMA FeedsExist ==
  ASSUME NEW start, NEW bytes, NEW n \in Nat
  PROVE  \E f : Feeds(start, f, bytes, n)
<1> DEFINE Failing == {k \in Nat : ~ \E f : Feeds(start, f, bytes, k)}
<1>1. SUFFICES ASSUME Failing # {}  PROVE FALSE
  OBVIOUS
<1>2. PICK k \in Failing : \A m \in Failing : k <= m
  <2>1. Failing \in SUBSET Nat  OBVIOUS
  <2> HIDE DEF Failing
  <2> QED  BY <1>1, <2>1, LeastExists
<1>3. k \in Nat /\ ~ \E f : Feeds(start, f, bytes, k)  BY <1>2
<1>4. CASE k = 0
  <2> DEFINE f == [i \in 0 .. 0 |-> {start}]
  <2>1. Feeds(start, f, bytes, 0)  BY DEF Feeds
  <2> QED  BY <1>3, <1>4, <2>1
<1>5. CASE k # 0
  <2>1. PICK l \in Nat : l = k - 1 /\ l < k  BY <1>3, <1>5
  <2>2. l \notin Failing
    <3>1. \A m \in Failing : m \in Nat  OBVIOUS
    <3> HIDE DEF Failing
    <3> QED  BY <1>2, <1>3, <2>1, <3>1
  <2>3. PICK f : Feeds(start, f, bytes, l)  BY <2>2
  <2>4. \A i \in 0 .. l : f[i] = IF i = 0 THEN {start} ELSE {Parsed(m, bytes[i]) : m \in f[i - 1]}
    BY <2>3 DEF Feeds
  <2> DEFINE g == [i \in 0 .. k |-> IF i = k THEN {Parsed(m, bytes[k]) : m \in f[l]} ELSE f[i]]
  <2>5. \A i \in 0 .. l : g[i] = f[i]  BY <1>3, <2>1
  <2>6. g[k] = {Parsed(m, bytes[k]) : m \in f[l]}  BY <1>3
  <2>7. g = [i \in 0 .. k |-> g[i]]  OBVIOUS
  <2> HIDE DEF g
  <2>8. ASSUME NEW i \in 0 .. k
        PROVE  g[i] = IF i = 0 THEN {start} ELSE {Parsed(m, bytes[i]) : m \in g[i - 1]}
    <3>1. CASE i = k
      <4>1. l \in 0 .. l /\ i - 1 = l  BY <2>1, <3>1
      <4> QED  BY <1>5, <2>5, <2>6, <3>1, <4>1
    <3>2. CASE i # k
      <4>1. i \in 0 .. l /\ (i # 0 => i - 1 \in 0 .. l)  BY <1>3, <2>1, <3>2
      <4> QED  BY <2>4, <2>5, <4>1
    <3> QED  BY <3>1, <3>2
  <2>9. Feeds(start, g, bytes, k)  BY <2>7, <2>8 DEF Feeds
  <2> QED  BY <1>3, <2>9
<1> QED  BY <1>4, <1>5

LEMMA FedIs ==
  ASSUME NEW start, NEW bytes \in Seq(Byte)
  PROVE  Feeds(start, Fed(start, bytes), bytes, Len(bytes))
<1>1. Len(bytes) \in Nat  BY LenProperties
<1> DEFINE Equation(f) ==
             f = [k \in 0 .. Len(bytes) |-> IF k = 0 THEN {start} ELSE {Parsed(m, bytes[k]) : m \in f[k - 1]}]
<1>2. Fed(start, bytes) = CHOOSE f : Equation(f)  BY DEF Fed
<1>3. \A f : Equation(f) <=> Feeds(start, f, bytes, Len(bytes))  BY DEF Feeds
<1>4. \E h : Equation(h)  BY <1>1, <1>3, FeedsExist
<1> HIDE DEF Equation
<1>5. Equation(CHOOSE f : Equation(f))  BY <1>4
<1> QED  BY <1>2, <1>3, <1>5

\* What is received is the next of the answer, and is tracked.
Follows(a, p, bytes) == p + Len(bytes) <= Len(Wire(a)) /\ \A i \in 1 .. Len(bytes) : bytes[i] = Wire(a)[p + i]
Arrives(a, p, start, bytes) ==
  \A m \in Fed(start, bytes)[Len(bytes)] : m \in Machines /\ Tracks(a, p + Len(bytes), m)

LEMMA FedTracks ==
  ASSUME NEW a, IsAnswer(a), Plain(a), NEW p \in Nat, NEW start \in Machines, Tracks(a, p, start),
         NEW bytes \in Seq(Byte), Follows(a, p, bytes)
  PROVE  Arrives(a, p, start, bytes)
<1> SUFFICES \A m \in Fed(start, bytes)[Len(bytes)] : m \in Machines /\ Tracks(a, p + Len(bytes), m)
  BY DEF Arrives
<1>00. p + Len(bytes) <= Len(Wire(a)) /\ \A i \in 1 .. Len(bytes) : bytes[i] = Wire(a)[p + i]  BY DEF Follows
<1>0. PICK n \in Nat, t \in Nat : n = Len(bytes) /\ t = Len(Wire(a)) /\ p + n <= t
  BY <1>00, WireLayout, LenProperties
<1>1. PICK f : f = Fed(start, bytes) /\ Feeds(start, f, bytes, n)  BY <1>0, FedIs
<1>2. \A k \in 0 .. n : f[k] = IF k = 0 THEN {start} ELSE {Parsed(m, bytes[k]) : m \in f[k - 1]}
  BY <1>1 DEF Feeds
<1> DEFINE Good(k) == \A m \in f[k] : m \in Machines /\ Tracks(a, p + k, m)
           Failing == {k \in 0 .. n : ~Good(k)}
<1>3. SUFFICES ASSUME Failing # {}  PROVE FALSE
  <2>1. n \in 0 .. n  OBVIOUS
  <2> QED  BY <1>0, <1>1, <2>1
<1>4. PICK k \in Failing : \A l \in Failing : k <= l
  <2>1. \A l \in Failing : l \in Nat  OBVIOUS
  <2> HIDE DEF Failing
  <2> QED  BY <1>3, <2>1, LeastExists
<1>5. k \in 0 .. n /\ ~Good(k)  BY <1>4
<1>6. CASE k = 0
  <2>1. 0 \in 0 .. n /\ p + 0 = p  OBVIOUS
  <2>2. f[0] = {start}  BY <1>2, <2>1
  <2>3. \A m \in f[0] : m \in Machines /\ Tracks(a, p + 0, m)  BY <2>1, <2>2
  <2> QED  BY <1>5, <1>6, <2>3
<1>7. CASE k # 0
  <2>1. PICK l \in Nat : l = k - 1 /\ l \in 0 .. n /\ l < k /\ l + 1 = k  BY <1>5, <1>7
  <2>2. Good(l)
    <3>1. l \notin Failing
      <4>1. \A i \in Failing : i \in Nat  OBVIOUS
      <4> HIDE DEF Failing
      <4> QED  BY <1>4, <1>5, <2>1, <4>1
    <3> QED  BY <2>1, <3>1
  <2>3. f[k] = {Parsed(m, bytes[k]) : m \in f[l]}  BY <1>2, <1>5, <1>7, <2>1
  <2>4. bytes[k] = Wire(a)[(p + l) + 1] /\ p + l \in Nat /\ p + l < t /\ p + k = (p + l) + 1
    <3>1. k \in 1 .. n /\ p + k = (p + l) + 1 /\ p + l < t  BY <1>0, <1>5, <1>7, <2>1
    <3>2. bytes[k] = Wire(a)[p + k]  BY <1>0, <1>00, <3>1
    <3> QED  BY <3>1, <3>2
  <2>5. ASSUME NEW m \in f[l]  PROVE Parsed(m, bytes[k]) \in Machines /\ Tracks(a, p + k, Parsed(m, bytes[k]))
    <3>1. m \in Machines /\ Tracks(a, p + l, m)  BY <2>2
    <3> QED  BY <1>0, <2>4, <3>1, TracksStep
  <2> QED  BY <1>5, <2>3, <2>5
<1> QED  BY <1>6, <1>7

-----------------------------------------------------------------------------
LEMMA AnswerFacts == \A a \in Answers : IsAnswer(a) /\ Plain(a)
BY AnswersAssumption

LEMMA DohStarts == DohInit => DohIInv
<1> SUFFICES ASSUME DohInit  PROVE DohIInv
  OBVIOUS
<1>1. PICK a \in Answers : a = answer /\ IsAnswer(a) /\ Plain(a)  BY AnswerFacts DEF DohInit
<1>2. PICK w \in Seq(Byte), t \in Nat : w = Wire(a) /\ t = Len(w)  BY <1>1, WireLayout, LenProperties
<1>3. http = Searching("STATUS_CODE_FIRST", 0) /\ response = Fresh  BY DEF DohInit, Searching, Fresh
<1>4. Fresh \in DnsParser /\ Fits(Fresh)
  <2>1. 0 \in Byte  BY ByteRange
  <2>2. <<>> \in Seq(Seq(Byte)) /\ Len(<<>>) = 0  BY EmptySeq
  <2>3. Fresh \in DnsParser  BY <2>1, <2>2 DEF Fresh, DnsParser, Fixed
  <2>4. Fits(Fresh)  BY <2>2 DEF Fresh, Fits, Fixed, Reading
  <2> QED  BY <2>3, <2>4
<1>5. http \in HttpParser  BY <1>3 DEF Searching, HttpParser, HttpStates
<1>6. ASSUME Acceptable(a)  PROVE HeadAt(a, FirstLength(a), http, 0)
  <2>1. PICK f : f = FirstLength(a) /\ f \in 2 .. Len(a.head)  BY <1>1, <1>6, FirstLengthFacts
  <2>2. PICK first \in Seq(Byte), l \in Nat : first = a.head[1] /\ l = Len(first) /\ 1 \in 1 .. Len(a.head)
    <3>1. a.head[1] \in Seq(Byte) /\ 1 \in 1 .. Len(a.head)  BY <1>1, AnswerShape
    <3> QED  BY <3>1, LenProperties
  <2>3. l >= 2
    <3>1. StatusLine(first, l)  BY <1>1, <1>6, <2>2, PlainLines
    <3> QED  BY <3>1 DEF StatusLine
  <2>4. 0 \in 0 .. 1 /\ 0 < l /\ ~(0 = l - 1) /\ ~(0 >= l) /\ 1 # f /\ 1 # f + 1 /\ ~(1 > f)
    BY <2>1, <2>3
  <2>5. LineAt(a, f, http, 1, 0)  BY <1>3, <2>2, <2>4 DEF LineAt
  <2>6. 0 \in 0 .. l + 1 /\ 1 - 1 = 0 /\ 0 = LineEnd(a, 0) + 0  BY <1>1, WireLayout
  <2> QED  BY <2>1, <2>2, <2>5, <2>6 DEF HeadAt
<1>7. Unaccepted(a, http, 0)
  <2>1. 0 \in 0 .. 1 /\ 0 # 1  OBVIOUS
  <2> QED  BY <1>3, <2>1 DEF Unaccepted
<1> DEFINE m == [http |-> http, dns |-> response]
<1>8. Tracks(a, 0, m)  BY <1>3, <1>4, <1>5, <1>6, <1>7 DEF Tracks
<1>9. rest = SubSeq(w, 0 + 1, t)
  <2>1. SubSeq(w, 1, t) = w  BY <1>2, SubSeqFull
  <2> QED  BY <1>1, <1>2, <2>1 DEF DohInit
<1>10. verdict = Verdict(m)
  <2>1. verdict = "none"  BY DEF DohInit
  <2>2. m.http.state = "STATUS_CODE_FIRST" /\ m.dns.state = "TRANSACTION"  BY <1>3 DEF Searching, Fresh
  <2> HIDE DEF m
  <2> QED  BY <2>1, <2>2 DEF Verdict
<1>11. 0 \in 0 .. t  OBVIOUS
<1> QED  BY <1>1, <1>2, <1>8, <1>9, <1>10, <1>11 DEF DohIInv

LEMMA ReceiveKeeps ==
  ASSUME DohIInv, Receive
  PROVE  DohIInv'
<1>1. PICK a \in Answers : a = answer /\ IsAnswer(a) /\ Plain(a)  BY AnswerFacts DEF DohIInv
<1>2. PICK w \in Seq(Byte), t \in Nat : w = Wire(a) /\ t = Len(w)  BY <1>1, WireLayout, LenProperties
<1>3. PICK start : start = [http |-> http, dns |-> response]  OBVIOUS
<1>4. PICK p \in 0 .. t : rest = SubSeq(w, p + 1, t) /\ Tracks(a, p, start)  BY <1>1, <1>2, <1>3 DEF DohIInv
<1>5. start \in Machines
  <2>1. start.http = http /\ start.dns = response  BY <1>3
  <2>2. http \in HttpParser /\ response \in DnsParser  BY <1>4, <2>1 DEF Tracks
  <2> QED  BY <1>3, <2>2 DEF Machines
<1>6. /\ rest \in Seq(Byte) /\ Len(rest) = t - p /\ \A i \in 1 .. t - p : rest[i] = w[p + i]
  <2>1. p \in 0 .. Len(w)  BY <1>2
  <2> QED  BY <1>2, <1>4, <2>1, Cut
<1>n. PICK n \in 1 .. t - p :
        \E m \in Fed(start, SubSeq(rest, 1, n))[n] :
          /\ http' = m.http /\ response' = m.dns /\ verdict' = Verdict(m)
          /\ rest' = SubSeq(rest, n + 1, Len(rest)) /\ answer' = answer
  BY <1>3, <1>6 DEF Receive
<1>7. PICK m \in Fed(start, SubSeq(rest, 1, n))[n] :
        /\ http' = m.http /\ response' = m.dns /\ verdict' = Verdict(m)
        /\ rest' = SubSeq(rest, n + 1, Len(rest)) /\ answer' = answer
  BY <1>n
<1>8. PICK bytes \in Seq(Byte) :
        bytes = SubSeq(rest, 1, n) /\ Len(bytes) = n /\ \A i \in 1 .. n : bytes[i] = w[p + i]
  <2>1. n \in 0 .. Len(rest)  BY <1>6
  <2>2. /\ SubSeq(rest, 1, n) \in Seq(Byte) /\ Len(SubSeq(rest, 1, n)) = n
        /\ \A i \in 1 .. n : SubSeq(rest, 1, n)[i] = rest[i]
    BY <1>6, <2>1, Cut
  <2>3. \A i \in 1 .. n : i \in 1 .. t - p  OBVIOUS
  <2> QED  BY <1>6, <2>2, <2>3
<1>9. m \in Machines /\ Tracks(a, p + n, m)
  <2>1. p \in Nat /\ p + n <= t  BY <1>4
  <2>2. Follows(a, p, bytes)  BY <1>1, <1>2, <1>8, <2>1 DEF Follows
  <2>3. Arrives(a, p, start, bytes)  BY <1>1, <1>4, <1>5, <2>1, <2>2, FedTracks
  <2> QED  BY <1>7, <1>8, <2>3 DEF Arrives
<1>10. [http |-> http', dns |-> response'] = m  BY <1>7, <1>9 DEF Machines
<1>11. rest' = SubSeq(w, (p + n) + 1, t)
  <2>1. PICK x, y : x = SubSeq(rest, n + 1, Len(rest)) /\ y = SubSeq(w, (p + n) + 1, t)  OBVIOUS
  <2>2. /\ x \in Seq(Byte) /\ Len(x) = (t - p) - n /\ \A i \in 1 .. (t - p) - n : x[i] = rest[n + i]
    <3>1. n \in 0 .. Len(rest)  BY <1>6
    <3> QED  BY <1>6, <2>1, <3>1, Cut
  <2>3. /\ y \in Seq(Byte) /\ Len(y) = t - (p + n) /\ \A i \in 1 .. t - (p + n) : y[i] = w[(p + n) + i]
    <3>1. p + n \in 0 .. Len(w)  BY <1>2, <1>4
    <3> QED  BY SMTT(40), <1>2, <2>1, <3>1, Cut
  <2>4. (t - p) - n = t - (p + n)  OBVIOUS
  <2>5. \A i \in 1 .. (t - p) - n : x[i] = y[i]
    <3>1. \A i \in 1 .. (t - p) - n : n + i \in 1 .. t - p /\ p + (n + i) = (p + n) + i  OBVIOUS
    <3> QED  BY <1>6, <2>2, <2>3, <2>4, <3>1
  <2>6. x = y  BY <2>2, <2>3, <2>4, <2>5, SeqEqual
  <2> QED  BY <1>7, <2>1, <2>6
<1>12. p + n \in 0 .. t  BY <1>4
<1> QED  BY <1>1, <1>2, <1>7, <1>9, <1>10, <1>11, <1>12 DEF DohIInv

LEMMA DohInductive == DohSpec => []DohIInv
<1>1. DohInit => DohIInv  BY DohStarts
<1>2. DohIInv /\ [DohNext]_dohVars => DohIInv'
  <2> SUFFICES ASSUME DohIInv, [DohNext]_dohVars  PROVE DohIInv'
    OBVIOUS
  <2>1. CASE Receive
    BY <2>1, ReceiveKeeps
  <2>2. CASE Broken
    BY <2>2 DEF Broken, DohIInv
  <2>3. CASE UNCHANGED dohVars
    BY <2>3 DEF dohVars, DohIInv
  <2> QED  BY <2>1, <2>2, <2>3 DEF DohNext, DohOver
<1> QED  BY <1>1, <1>2, PTL DEF DohSpec

\* The two parsers of an answer keep what they may hold, and the list of
\* addresses stays within the memory allocated for it, whatever an answer
\* holds and however it is cut: http_dns_parser_feed, response_dns_parser_feed.
THEOREM DohTypeCorrect == DohSpec => []DohTypeOK
<1>1. DohIInv => DohTypeOK
  <2> SUFFICES ASSUME DohIInv  PROVE DohTypeOK
    OBVIOUS
  <2>1. PICK m : m = [http |-> http, dns |-> response]  OBVIOUS
  <2>2. \E a, p : Tracks(a, p, m)  BY <2>1 DEF DohIInv
  <2>3. m.http = http /\ m.dns = response  BY <2>1
  <2>4. http \in HttpParser /\ response \in DnsParser /\ Fits(response)  BY <2>2, <2>3 DEF Tracks
  <2>5. http.k \in 0 .. 3  BY <2>4 DEF HttpParser
  <2>6. /\ response.questions \in Byte /\ response.answers \in Byte /\ response.room \in Byte /\ response.written \in Byte
        /\ response.answers <= response.room /\ Len(response.list) <= response.answers
    BY <2>4 DEF DnsParser, Fits
  <2>7. response.answers \in 0 .. response.room  BY <2>6, ByteRange
  <2>8. verdict \in {"none", "good", "bad", "broken"}  BY <2>1 DEF DohIInv, Verdict
  <2> QED  BY <2>5, <2>6, <2>7, <2>8 DEF DohTypeOK, Byte
<1> QED  BY <1>1, DohInductive, PTL

\* An answer that a resolver gives is read for what it says, wherever the
\* connection cuts it: the addresses of its records, whole, in order and no
\* others, as soon as the last counted record is in: response_dns_on_read.
THEOREM AnswersExact == DohSpec => []AnswerExact
<1>1. DohIInv => AnswerExact
  <2> SUFFICES ASSUME DohIInv, Regular(answer)
      PROVE  /\ verdict = "good" => Acceptable(answer) /\ response.list = Expected(answer)
             /\ verdict = "bad" => Acceptable(answer) /\ Expected(answer) = <<>>
             /\ rest = <<>> /\ verdict = "none" => ~Acceptable(answer)
    BY DEF AnswerExact
  <2>1. PICK a \in Answers : a = answer /\ IsAnswer(a) /\ Plain(a) /\ Regular(a)  BY AnswerFacts DEF DohIInv
  <2>2. PICK w \in Seq(Byte), t \in Nat : w = Wire(a) /\ t = Len(w)  BY <2>1, WireLayout, LenProperties
  <2>3. PICK m : m = [http |-> http, dns |-> response]  OBVIOUS
  <2>4. PICK p \in 0 .. t : rest = SubSeq(w, p + 1, t) /\ Tracks(a, p, m)  BY <2>1, <2>2, <2>3 DEF DohIInv
  <2>5. m.http = http /\ m.dns = response  BY <2>3
  <2>6. response \in DnsParser  BY <2>4, <2>5 DEF Tracks
  <2>7. verdict \in {"broken", Verdict(m)}  BY <2>3 DEF DohIInv
  <2>8. Fresh.state # "DONE"  BY DEF Fresh
  <2>9. CASE ~Acceptable(a)
    <3>1. Unaccepted(a, http, p) /\ response = Fresh  BY <2>1, <2>4, <2>5, <2>9 DEF Tracks
    <3>2. http.state # "ERROR"  BY <3>1 DEF Unaccepted, Searching
    <3>3. verdict \in {"broken", "none"}  BY <2>5, <2>7, <2>8, <3>1, <3>2 DEF Verdict
    <3> QED  BY <2>1, <2>9, <3>3
  <2>10. CASE Acceptable(a) /\ HeadAt(a, FirstLength(a), http, p) /\ response = Fresh
    <3>1. PICK f, b : f = FirstLength(a) /\ b = Wire(a)[p + 1]  OBVIOUS
    <3>2. p < Start(a) /\ http.state # "ERROR"  BY <2>1, <2>10, <3>1, HeadStep
    <3>3. verdict \in {"broken", "none"}  BY <2>5, <2>7, <2>8, <2>10, <3>2 DEF Verdict
    <3>4. rest # <<>>
      <4>1. PICK s \in Nat, l \in Nat : s = Start(a) /\ l = Len(Message(a)) /\ t = s + l
        BY SMTT(30), <2>1, <2>2, WireLayout, MessageLayout, LenProperties
      <4>2. p < t  BY <3>2, <4>1
      <4>3. Len(rest) = t - p
        <5>1. p \in 0 .. Len(w)  BY <2>2
        <5> QED  BY <2>2, <2>4, <5>1, Cut
      <4>4. Len(rest) # 0  BY <4>2, <4>3
      <4> QED  BY <4>4
    <3> QED  BY <3>3, <3>4
  <2>11. CASE Acceptable(a) /\ http.state = "DONE" /\ DnsAt(a, p, response)
    <3>1. /\ response.state = "DONE" => Complete(a, response)
          /\ p = t => response.state = "DONE"
      BY <2>1, <2>2, <2>6, <2>11, DnsEnds
    <3>2. CASE response.state = "DONE"
      <4>1. response.questions = 1 /\ response.list = Expected(a) /\ response.answers = Len(Expected(a))
        BY <3>1, <3>2 DEF Complete
      <4>2. verdict \in {"broken", IF response.answers = 0 THEN "bad" ELSE "good"}
        BY <2>5, <2>7, <2>11, <3>2, <4>1 DEF Verdict
      <4>3. Len(Expected(a)) = 0 => Expected(a) = <<>>
        <5>1. Expected(a) \in Seq(Seq(Byte))
          <6>1. a.count % CountMod \in Byte /\ a.count % CountMod <= Len(a.records) /\ Len(a.records) \in Nat
            BY ZenonT(40), <2>1, MessageLayout, AnswerShape DEF IsAnswer
          <6>2. a.count % CountMod \in 0 .. Len(a.records)  BY <6>1, ByteRange
          <6> QED  BY <2>1, <6>2, FoundGrows DEF Expected
        <5> QED  BY <5>1, EmptySeq
      <4> QED  BY <2>1, <2>11, <4>1, <4>2, <4>3
    <3>3. CASE response.state # "DONE"
      <4>1. verdict \in {"broken", "none"}  BY <2>5, <2>7, <2>11, <3>3 DEF Verdict
      <4>2. p # t  BY <3>1, <3>3
      <4>3. rest # <<>>
        <5>1. Len(rest) = t - p
          <6>1. p \in 0 .. Len(w)  BY <2>2
          <6> QED  BY <2>2, <2>4, <6>1, Cut
        <5>2. Len(rest) # 0  BY <4>2, <5>1
        <5> QED  BY <5>2
      <4> QED  BY <4>1, <4>3
    <3> QED  BY <3>2, <3>3
  <2>12. \/ ~Acceptable(a)
         \/ Acceptable(a) /\ HeadAt(a, FirstLength(a), http, p) /\ response = Fresh
         \/ Acceptable(a) /\ http.state = "DONE" /\ DnsAt(a, p, response)
    BY <2>1, <2>4, <2>5 DEF Tracks
  <2> QED  BY <2>9, <2>10, <2>11, <2>12
<1> QED  BY <1>1, DohInductive, PTL
=============================================================================
