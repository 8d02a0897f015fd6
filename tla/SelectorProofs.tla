--------------------------- MODULE SelectorProofs ---------------------------
(***************************************************************************)
(* The table of the selector and the ownership of the sockets for any      *)
(* number of descriptors, sessions and outgoing sockets, and the promise   *)
(* of ReadyEvents, whatever fits the table.                                *)
(***************************************************************************)
EXTENDS Selector, ByteLemmas, FiniteSetTheorems, TLAPS

\* The table never grows: it was made for FD_SETSIZE descriptors.
LargeEnough == SetSize <= fdSize

\* A registered descriptor is open, and registered for who holds it.
Held ==
  \A fd \in Fd : Used(fd) =>
    /\ kind[fd] # "free"
    /\ IF kind[fd] = "listener" THEN items[fd].data = None
       ELSE /\ items[fd].data \in Sessions /\ Alive(items[fd].data)
            /\ fd \in FdsOf(items[fd].data)

\* The passive sockets are the first ones and stay registered.
Passives ==
  \A fd \in Fd : (kind[fd] = "listener" <=> fd \in Passive)
                 /\ (fd \in Passive => Used(fd))

\* A session that was closed holds nothing; its client is not one of its own
\* outgoing sockets.
Apart ==
  \A s \in Sessions : IF Alive(s) THEN sess[s].client \notin sess[s].remotes
                                 ELSE sess[s] = NoSession

\* The key of the iteration: descriptors are passed in order, and its data
\* is that of the descriptor it stands on.
KeySound ==
  /\ turn.phase = "select" => turn.fd = -1 /\ slave = Nothing
  /\ turn.phase = "call" => turn.fd # -1
  /\ turn.fd # -1 => \A fd \in Fd : slave[fd] # {} => turn.fd <= fd
  /\ turn.fd # -1 /\ Used(turn.fd) => items[turn.fd].data = turn.data

\* Until a session's handler runs, what is ready was seen ready.
Fresh == turn.fd = -1 \/ turn.fd \in Passive
UntilReuse ==
  Fresh => seen = slave /\ \A fd \in Fd : kind[fd] = "free" => slave[fd] = {}

\* Readiness that nobody saw concerns connections just begun, and those
\* are not read.
Stale ==
  \A fd \in Fd :
    /\ seen[fd] \subseteq slave[fd]
    /\ ~Used(fd) => seen[fd] = {}
    /\ slave[fd] # seen[fd] => kind[fd] \in {"free", "connecting"}
    /\ kind[fd] = "connecting" /\ Used(fd) => "READ" \notin items[fd].ops

TableInv == TableSound /\ LargeEnough /\ Held /\ Passives
SessionInv == OwnedUnlessTooBig /\ Apart
TurnInv == KeySound /\ UntilReuse /\ Stale
IInv == SelTypeOK /\ TableInv /\ SessionInv /\ TurnInv
-----------------------------------------------------------------------------
(* The least and the greatest of a set of numbers.                         *)

LEMMA MinOf ==
  ASSUME NEW S \in SUBSET Nat, S # {}
  PROVE  Min(S) \in S
BY LeastExists DEF Min

LEMMA MaxOf ==
  ASSUME NEW b \in Nat, NEW S \in SUBSET (0 .. b), S # {}
  PROVE  Max(S) \in S /\ \A m \in S : m <= Max(S)
<1> DEFINE D == {b - x : x \in S}
<1>1. D \in SUBSET Nat /\ D # {}
  <2>1. \A x \in S : b - x \in Nat  OBVIOUS
  <2> QED  BY <2>1
<1>2. PICK d \in D : \A e \in D : d <= e  BY <1>1, LeastExists
<1>3. PICK n \in S : d = b - n  BY <1>2
<1>4. ASSUME NEW m \in S  PROVE n >= m
  <2>1. d <= b - m  BY <1>2
  <2> QED  BY <1>3, <2>1
<1>5. \E x \in S : \A y \in S : x >= y  BY <1>4
<1>6. Max(S) \in S /\ \A y \in S : Max(S) >= y  BY <1>5 DEF Max
<1> QED  BY <1>6

LEMMA NewFdFree ==
  ASSUME FreeFds # {}
  PROVE  NewFd \in Fd /\ kind[NewFd] = "free"
<1>1. FreeFds \in SUBSET Nat  BY SelectorAssumption DEF FreeFds, Fd
<1> QED  BY <1>1, MinOf DEF NewFd, FreeFds
-----------------------------------------------------------------------------
(* What the operations on the table do to it.                              *)

\* selector_register of a descriptor just opened succeeds if it fits.
LEMMA RegisterFacts ==
  ASSUME SelTypeOK, TableInv, NEW fd \in Fd, kind[fd] = "free",
         NEW ops \in SUBSET Ops, NEW d \in Sessions \cup {None}, Register(fd, ops, d)
  PROVE  /\ ~Used(fd) /\ master[fd] = {}
         /\ items' = IF fd < SetSize
                     THEN [items EXCEPT ![fd] = [ops |-> ops, data |-> d]] ELSE items
         /\ master' = IF fd < SetSize THEN [master EXCEPT ![fd] = ops] ELSE master
         /\ maxFd' \in 0 .. SetSize - 1 /\ maxFd <= maxFd'
         /\ fd < SetSize => fd <= maxFd'
         /\ fdSize' = fdSize
<1>1. ~Used(fd) /\ master[fd] = {}  BY DEF TableInv, Held, TableSound
<1>2. fd \in Nat /\ SetSize \in Nat  BY SelectorAssumption DEF Fd
<1>3. CASE fd >= SetSize  BY <1>1, <1>2, <1>3 DEF Register, table, SelTypeOK
<1>4. CASE fd < SetSize
  <2>1. ~(fd > fdSize)  BY <1>2, <1>4 DEF TableInv, LargeEnough, SelTypeOK
  <2>2. {maxFd, fd} \in SUBSET (0 .. SetSize - 1)  BY <1>2, <1>4 DEF SelTypeOK
  <2>3. maxFd' = Max({maxFd, fd})  BY <1>1, <1>2, <1>4 DEF Register
  <2>4. SetSize - 1 \in Nat  BY <1>2, <1>4
  <2>5. maxFd' \in {maxFd, fd} /\ maxFd <= maxFd' /\ fd <= maxFd'
    BY <2>2, <2>3, <2>4, MaxOf
  <2> QED  BY <1>1, <1>2, <1>4, <2>1, <2>2, <2>5 DEF Register
<1> QED  BY <1>2, <1>3, <1>4

\* items_max_fd: nothing that stays registered is beyond it.
LEMMA UnregisterFacts ==
  ASSUME SelTypeOK, TableInv, NEW F \in SUBSET Fd, Unregister(F)
  PROVE  /\ items' = [fd \in Fd |-> IF fd \in F THEN None ELSE items[fd]]
         /\ master' = [fd \in Fd |-> IF fd \in F THEN {} ELSE master[fd]]
         /\ maxFd' \in 0 .. SetSize - 1
         /\ \A fd \in Fd : Used(fd) /\ fd \notin F => fd <= maxFd'
         /\ fdSize' = fdSize
<1> DEFINE S == {0} \cup {fd \in 0 .. maxFd : items[fd] # None /\ fd \notin F}
<1>1. maxFd \in Nat /\ S \in SUBSET (0 .. maxFd) /\ S # {}  BY SelectorAssumption DEF SelTypeOK
<1>2. maxFd' \in S /\ \A m \in S : m <= maxFd'
  <2> HIDE DEF S
  <2>1. Max(S) \in S /\ \A m \in S : m <= Max(S)  BY <1>1, MaxOf
  <2> QED  BY <2>1 DEF Unregister, S
<1>3. maxFd' \in 0 .. SetSize - 1  BY <1>1, <1>2, SelectorAssumption DEF SelTypeOK
<1>4. ASSUME NEW fd \in Fd, Used(fd), fd \notin F  PROVE fd <= maxFd'
  <2>1. fd \in 0 .. maxFd  BY <1>1, <1>4, SelectorAssumption DEF TableInv, TableSound, Fd
  <2> QED  BY <1>2, <1>4, <2>1 DEF Used
<1> QED  BY <1>3, <1>4 DEF Unregister

\* The handler of a session runs only after the passive sockets had their turn.
LEMMA HandlerNotFresh ==
  ASSUME IInv, NEW s \in Sessions, Handles(s)
  PROVE  ~Fresh
BY SelectorAssumption DEF IInv, TurnInv, TableInv, KeySound, Fresh, Handles, Passives, Held,
   Used, SelTypeOK, Passive, Fd

\* Closing descriptors leaves the rest of the table as it was.
LEMMA CloseFacts ==
  ASSUME SelTypeOK, TableInv, NEW F \in SUBSET Fd, CloseFds(F)
  PROVE  /\ kind' \in [Fd -> Kinds \cup {"free"}] /\ items' \in [Fd -> {None} \cup Item]
         /\ master' \in [Fd -> SUBSET Ops] /\ seen' \in [Fd -> SUBSET Ops]
         /\ maxFd' \in 0 .. SetSize - 1 /\ fdSize' \in Nat
         /\ \A fd \in F : kind'[fd] = "free" /\ ~Used(fd)' /\ seen'[fd] = {}
         /\ \A fd \in Fd \ F : /\ kind'[fd] = kind[fd] /\ items'[fd] = items[fd]
                               /\ (Used(fd)' <=> Used(fd)) /\ seen'[fd] = seen[fd]
         /\ TableSound' /\ LargeEnough'
<1>1. Unregister(F)  BY DEF CloseFds
<1>2. /\ items' = [fd \in Fd |-> IF fd \in F THEN None ELSE items[fd]]
      /\ master' = [fd \in Fd |-> IF fd \in F THEN {} ELSE master[fd]]
      /\ maxFd' \in 0 .. SetSize - 1
      /\ \A fd \in Fd : Used(fd) /\ fd \notin F => fd <= maxFd'
      /\ fdSize' = fdSize
  BY <1>1, UnregisterFacts
<1>3. \A fd \in Fd : Used(fd)' <=> Used(fd) /\ fd \notin F  BY <1>2 DEF Used
<1>4. TableSound'
  <2> SUFFICES ASSUME NEW fd \in Fd
               PROVE IF Used(fd)' THEN master'[fd] = items'[fd].ops /\ fd <= maxFd' /\ fd < fdSize'
                     ELSE master'[fd] = {}
    BY DEF TableSound
  <2>1. CASE fd \in F  BY <1>2, <1>3, <2>1
  <2>2. CASE fd \notin F  BY <1>2, <1>3, <2>2 DEF TableInv, TableSound
  <2> QED  BY <2>1, <2>2
<1>5. LargeEnough'  BY <1>2 DEF TableInv, LargeEnough
<1>6. kind' \in [Fd -> Kinds \cup {"free"}] /\ seen' \in [Fd -> SUBSET Ops]
  BY DEF CloseFds, SelTypeOK
<1>7. items' \in [Fd -> {None} \cup Item] /\ master' \in [Fd -> SUBSET Ops] /\ fdSize' \in Nat
  BY <1>2 DEF SelTypeOK
<1>8. \A fd \in F : kind'[fd] = "free" /\ ~Used(fd)' /\ seen'[fd] = {}
  BY <1>3 DEF CloseFds
<1>9. \A fd \in Fd \ F : /\ kind'[fd] = kind[fd] /\ items'[fd] = items[fd]
                         /\ (Used(fd)' <=> Used(fd)) /\ seen'[fd] = seen[fd]
  BY <1>2, <1>3 DEF CloseFds
<1> QED  BY <1>2, <1>4, <1>5, <1>6, <1>7, <1>8, <1>9

\* What the iteration knows outlives a close that its key does not move.
LEMMA CloseKeepsTurn ==
  ASSUME SelTypeOK, TableInv, TurnInv, NEW F \in SUBSET Fd, CloseFds(F),
         UNCHANGED slave, turn'.fd = turn.fd, turn'.data = turn.data,
         turn'.phase \in {"scan", "call", "select"},
         turn.phase = "select" <=> turn'.phase = "select",
         turn.phase # "select" => ~Fresh
  PROVE  TurnInv'
<1>1. /\ \A fd \in F : kind'[fd] = "free" /\ ~Used(fd)' /\ seen'[fd] = {}
      /\ \A fd \in Fd \ F : /\ kind'[fd] = kind[fd] /\ items'[fd] = items[fd]
                            /\ (Used(fd)' <=> Used(fd)) /\ seen'[fd] = seen[fd]
      /\ seen' \in [Fd -> SUBSET Ops]
  BY CloseFacts
<1>2. turn.fd # -1 => turn.fd \in Fd  BY DEF SelTypeOK
<1>3. KeySound'
  <2>1. CASE turn.phase = "select"  BY <2>1 DEF TurnInv, KeySound, Used
  <2>2. CASE turn.phase # "select"
    <3>1. turn.fd # -1  BY <2>2 DEF Fresh
    <3>2. Used(turn.fd)' => Used(turn.fd) /\ items'[turn.fd] = items[turn.fd]
      BY <1>1, <1>2, <3>1
    <3>3. (Used(turn.fd))' = (items'[turn.fd] # None)  BY DEF Used
    <3> QED  BY <2>2, <3>1, <3>2, <3>3 DEF TurnInv, KeySound, Used
  <2> QED  BY <2>1, <2>2
<1>4. UntilReuse'
  <2>1. CASE turn.phase = "select"
    <3>1. slave = Nothing /\ seen = Nothing  BY <2>1 DEF TurnInv, KeySound, UntilReuse, Fresh
    <3>2. \A fd \in Fd : seen'[fd] = {}  BY <1>1, <3>1 DEF Nothing
    <3>3. seen' = Nothing  BY <1>1, <3>2 DEF Nothing
    <3> QED  BY <3>1, <3>3 DEF UntilReuse, Nothing
  <2>2. CASE turn.phase # "select"  BY <2>2 DEF UntilReuse, Fresh
  <2> QED  BY <2>1, <2>2
<1>5. Stale'  BY <1>1 DEF TurnInv, Stale, Used
<1> QED  BY <1>3, <1>4, <1>5 DEF TurnInv
-----------------------------------------------------------------------------
(* Sessions that close, and sockets that open.                             *)

LEMMA FdsTyped ==
  ASSUME SelTypeOK, NEW s \in Sessions, Alive(s)
  PROVE  FdsOf(s) \in SUBSET Fd
BY DEF SelTypeOK, Alive, FdsOf

LEMMA SessionsClosed ==
  ASSUME IInv, NEW T \in SUBSET Sessions, \A s \in T : Alive(s), CloseSessions(T)
  PROVE  /\ \E F \in SUBSET Fd : CloseFds(F)
         /\ sess' \in [Sessions -> [client : Fd \cup {None}, remotes : SUBSET Fd]]
         /\ Held' /\ Passives' /\ SessionInv'
<1> DEFINE F == {fd \in UNION {FdsOf(s) : s \in T} : Used(fd)}
<1>1. SelTypeOK /\ TableInv /\ SessionInv  BY DEF IInv
<1>2. F \in SUBSET Fd  BY <1>1, FdsTyped
<1>3. CloseFds(F)  BY DEF CloseSessions
<1>4. \A fd \in Fd : fd \in F <=> Used(fd) /\ \E s \in T : fd \in FdsOf(s)  OBVIOUS
<1> HIDE DEF F
<1>5. /\ \A fd \in F : kind'[fd] = "free" /\ ~Used(fd)'
      /\ \A fd \in Fd \ F : /\ kind'[fd] = kind[fd] /\ items'[fd] = items[fd]
                            /\ (Used(fd)' <=> Used(fd))
  BY <1>1, <1>2, <1>3, CloseFacts
<1>6. /\ sess' = [s \in Sessions |-> IF s \in T THEN NoSession ELSE sess[s]]
      /\ sess' \in [Sessions -> [client : Fd \cup {None}, remotes : SUBSET Fd]]
  BY <1>1 DEF CloseSessions, NoSession, SelTypeOK
<1>7. \A s \in Sessions : /\ s \in T => ~Alive(s)' /\ sess'[s] = NoSession
                          /\ s \notin T => (Alive(s)' <=> Alive(s)) /\ FdsOf(s)' = FdsOf(s)
                                           /\ sess'[s] = sess[s]
  BY <1>6 DEF Alive, FdsOf, NoSession
<1>8. \A s \in Sessions \ T : Alive(s) => \A fd \in FdsOf(s) : fd \in Fd /\ fd \notin F
  BY <1>1, <1>4, FdsTyped DEF SessionInv, OwnedUnlessTooBig
<1>9. Held'
  <2> SUFFICES ASSUME NEW fd \in Fd, Used(fd)'
               PROVE /\ kind'[fd] # "free"
                     /\ IF kind'[fd] = "listener" THEN items'[fd].data = None
                        ELSE /\ items'[fd].data \in Sessions /\ Alive(items[fd].data)'
                             /\ fd \in FdsOf(items[fd].data)'
    BY DEF Held
  <2>1. fd \notin F /\ Used(fd) /\ kind'[fd] = kind[fd] /\ items'[fd] = items[fd]  BY <1>5
  <2>2. kind[fd] # "free"  BY <1>1, <2>1 DEF TableInv, Held
  <2>3. CASE kind[fd] = "listener"  BY <1>1, <2>1, <2>2, <2>3 DEF TableInv, Held
  <2>4. CASE kind[fd] # "listener"
    <3> DEFINE d == items[fd].data
    <3>1. d \in Sessions /\ Alive(d) /\ fd \in FdsOf(d)
      BY <1>1, <2>1, <2>4 DEF TableInv, Held
    <3>2. d \notin T  BY <1>4, <2>1, <3>1
    <3> QED  BY <1>7, <2>1, <2>2, <2>4, <3>1, <3>2
  <2> QED  BY <2>3, <2>4
<1>10. Passives'
  <2>1. \A fd \in Fd : fd \in Passive => fd \notin F
    BY <1>1, <1>4 DEF TableInv, Passives, SessionInv, OwnedUnlessTooBig
  <2> QED  BY <1>1, <1>5, <2>1 DEF TableInv, Passives
<1>11. OwnedUnlessTooBig'
  <2>1. ASSUME NEW fd \in Fd, kind'[fd] \notin {"free", "listener"}, ~(fd >= SetSize)
        PROVE  \E s \in Sessions : Alive(s)' /\ fd \in FdsOf(s)'
    <3>1. fd \notin F /\ kind'[fd] = kind[fd]  BY <1>5, <2>1
    <3>2. PICK s \in Sessions : Alive(s) /\ fd \in FdsOf(s)
      BY <1>1, <2>1, <3>1 DEF SessionInv, OwnedUnlessTooBig
    <3>3. Used(fd)
      BY <1>1, <2>1, <3>2, SelectorAssumption DEF SessionInv, OwnedUnlessTooBig, Fd
    <3>4. s \notin T  BY <1>4, <3>1, <3>2, <3>3
    <3> QED  BY <1>7, <3>2, <3>4
  <2>2. ASSUME NEW s \in Sessions, Alive(s)', NEW fd \in FdsOf(s)'
        PROVE  /\ kind'[fd] \notin {"free", "listener"}
               /\ IF fd < SetSize THEN Used(fd)' /\ items'[fd].data = s ELSE ~Used(fd)'
               /\ \A x \in Sessions \ {s} : Alive(x)' => fd \notin FdsOf(x)'
    <3>1. s \notin T /\ Alive(s) /\ fd \in FdsOf(s)  BY <1>7, <2>2
    <3>2. fd \in Fd \ F  BY <1>8, <3>1
    <3>3. /\ kind[fd] \notin {"free", "listener"}
          /\ IF fd < SetSize THEN Used(fd) /\ items[fd].data = s ELSE ~Used(fd)
          /\ \A x \in Sessions \ {s} : Alive(x) => fd \notin FdsOf(x)
      BY <1>1, <3>1 DEF SessionInv, OwnedUnlessTooBig
    <3>4. \A x \in Sessions \ {s} : Alive(x)' => fd \notin FdsOf(x)'  BY <1>7, <3>3
    <3> QED  BY <1>5, <3>2, <3>3, <3>4
  <2> QED  BY <2>1, <2>2 DEF OwnedUnlessTooBig
<1>12. Apart'  BY <1>1, <1>7 DEF SessionInv, Apart
<1> QED  BY <1>2, <1>3, <1>6, <1>9, <1>10, <1>11, <1>12 DEF SessionInv

\* A new socket of a session, with the lowest free number.
LEMMA SocketOpened ==
  ASSUME IInv, NEW s \in Sessions, NEW fd \in Fd, kind[fd] = "free",
         NEW k \in {"accepted", "connecting"}, kind' = [kind EXCEPT ![fd] = k],
         NEW ops \in SUBSET Ops, Register(fd, ops, s),
         sess' \in [Sessions -> [client : Fd \cup {None}, remotes : SUBSET Fd]],
         \A x \in Sessions \ {s} : sess'[x] = sess[x],
         Alive(s)', sess'[s].client \notin sess'[s].remotes,
         FdsOf(s)' = {fd} \cup (IF Alive(s) THEN FdsOf(s) ELSE {})
  PROVE  /\ kind' \in [Fd -> Kinds \cup {"free"}] /\ items' \in [Fd -> {None} \cup Item]
         /\ master' \in [Fd -> SUBSET Ops] /\ maxFd' \in 0 .. SetSize - 1 /\ fdSize' \in Nat
         /\ TableInv' /\ SessionInv'
         /\ \A g \in Fd \ {fd} : /\ kind'[g] = kind[g] /\ items'[g] = items[g]
                                 /\ (Used(g)' <=> Used(g))
<1>1. SelTypeOK /\ TableInv /\ SessionInv  BY DEF IInv
<1>2. /\ ~Used(fd) /\ master[fd] = {}
      /\ items' = IF fd < SetSize
                  THEN [items EXCEPT ![fd] = [ops |-> ops, data |-> s]] ELSE items
      /\ master' = IF fd < SetSize THEN [master EXCEPT ![fd] = ops] ELSE master
      /\ maxFd' \in 0 .. SetSize - 1 /\ maxFd <= maxFd'
      /\ fd < SetSize => fd <= maxFd'
      /\ fdSize' = fdSize
  BY <1>1, RegisterFacts
<1>3. [ops |-> ops, data |-> s] \in Item /\ [ops |-> ops, data |-> s] # None
  BY SelectorAssumption DEF Item
<1>4. /\ kind' \in [Fd -> Kinds \cup {"free"}] /\ items' \in [Fd -> {None} \cup Item]
      /\ master' \in [Fd -> SUBSET Ops] /\ maxFd' \in 0 .. SetSize - 1 /\ fdSize' \in Nat
  BY <1>1, <1>2, <1>3 DEF SelTypeOK, Kinds
<1>5. \A g \in Fd \ {fd} : /\ kind'[g] = kind[g] /\ items'[g] = items[g]
                           /\ master'[g] = master[g] /\ (Used(g)' <=> Used(g))
  BY <1>1, <1>2 DEF SelTypeOK, Used
<1>6. /\ kind'[fd] = k /\ (Used(fd)' <=> fd < SetSize)
      /\ Used(fd)' => items'[fd] = [ops |-> ops, data |-> s] /\ master'[fd] = ops
      /\ ~Used(fd)' => master'[fd] = {}
  BY <1>1, <1>2, <1>3 DEF SelTypeOK, Used
<1>7. fd \in Nat /\ SetSize \in Nat /\ maxFd \in Nat /\ maxFd' \in Nat
  BY <1>1, <1>4, SelectorAssumption DEF Fd, SelTypeOK
<1>8. TableSound'
  <2>1. ASSUME NEW g \in Fd
        PROVE  IF Used(g)' THEN master'[g] = items'[g].ops /\ g <= maxFd' /\ g < fdSize'
               ELSE master'[g] = {}
    <3>1. CASE g = fd
      BY <1>1, <1>2, <1>6, <1>7, <3>1 DEF TableInv, LargeEnough, SelTypeOK
    <3>2. CASE g # fd
      <4>1. g \in Nat  BY SelectorAssumption DEF Fd
      <4> QED  BY <1>1, <1>2, <1>5, <1>7, <3>2, <4>1 DEF TableInv, TableSound
    <3> QED  BY <3>1, <3>2
  <2> QED  BY <2>1 DEF TableSound
<1>9. LargeEnough'  BY <1>1, <1>2 DEF TableInv, LargeEnough
<1>10. \A x \in Sessions \ {s} : (Alive(x)' <=> Alive(x)) /\ FdsOf(x)' = FdsOf(x)
  BY DEF Alive, FdsOf
<1>11. Held'
  <2>1. ASSUME NEW g \in Fd, Used(g)'
        PROVE  /\ kind'[g] # "free"
               /\ IF kind'[g] = "listener" THEN items'[g].data = None
                  ELSE /\ items'[g].data \in Sessions /\ Alive(items[g].data)'
                       /\ g \in FdsOf(items[g].data)'
    <3>1. CASE g = fd  BY <1>6, <2>1, <3>1
    <3>2. CASE g # fd
      <4>1. Used(g) /\ kind'[g] = kind[g] /\ items'[g] = items[g]  BY <1>5, <2>1, <3>2
      <4>2. /\ kind[g] # "free"
            /\ IF kind[g] = "listener" THEN items[g].data = None
               ELSE /\ items[g].data \in Sessions /\ Alive(items[g].data)
                    /\ g \in FdsOf(items[g].data)
        BY <1>1, <4>1 DEF TableInv, Held
      <4>3. CASE items[g].data = s  BY <4>1, <4>2, <4>3
      <4>4. CASE items[g].data # s  BY <1>10, <4>1, <4>2, <4>4
      <4> QED  BY <4>3, <4>4
    <3> QED  BY <3>1, <3>2
  <2> QED  BY <2>1 DEF Held
<1>12. Passives'  BY <1>1, <1>5, <1>6 DEF TableInv, Passives
<1>13. OwnedUnlessTooBig'
  <2>1. ASSUME NEW g \in Fd, kind'[g] \notin {"free", "listener"}, ~(g >= SetSize)
        PROVE  \E x \in Sessions : Alive(x)' /\ g \in FdsOf(x)'
    <3>1. CASE g = fd  BY <3>1
    <3>2. CASE g # fd
      <4>1. PICK x \in Sessions : Alive(x) /\ g \in FdsOf(x)
        BY <1>1, <1>5, <2>1, <3>2 DEF SessionInv, OwnedUnlessTooBig
      <4> QED  BY <1>10, <4>1
    <3> QED  BY <3>1, <3>2
  <2>2. ASSUME NEW x \in Sessions, Alive(x)', NEW g \in FdsOf(x)'
        PROVE  /\ kind'[g] \notin {"free", "listener"}
               /\ IF g < SetSize THEN Used(g)' /\ items'[g].data = x ELSE ~Used(g)'
               /\ \A y \in Sessions \ {x} : Alive(y)' => g \notin FdsOf(y)'
    <3>1. \A y \in Sessions : Alive(y) => fd \notin FdsOf(y)
      BY <1>1 DEF SessionInv, OwnedUnlessTooBig
    <3>2. CASE g = fd
      <4>1. x = s  BY <1>10, <2>2, <3>1, <3>2
      <4>2. \A y \in Sessions \ {s} : Alive(y)' => fd \notin FdsOf(y)'  BY <1>10, <3>1
      <4> QED  BY <1>6, <3>2, <4>1, <4>2
    <3>3. CASE g # fd
      <4>1. Alive(x) /\ g \in FdsOf(x)  BY <1>10, <2>2, <3>3
      <4>2. g \in Fd  BY <1>1, <4>1, FdsTyped
      <4>3. /\ kind[g] \notin {"free", "listener"}
            /\ IF g < SetSize THEN Used(g) /\ items[g].data = x ELSE ~Used(g)
            /\ \A y \in Sessions \ {x} : Alive(y) => g \notin FdsOf(y)
        BY <1>1, <4>1 DEF SessionInv, OwnedUnlessTooBig
      <4>4. \A y \in Sessions \ {x} : Alive(y)' => g \notin FdsOf(y)'
        BY <1>10, <3>3, <4>3
      <4> QED  BY <1>5, <3>3, <4>2, <4>3, <4>4
    <3> QED  BY <3>2, <3>3
  <2> QED  BY <2>1, <2>2 DEF OwnedUnlessTooBig
<1>14. Apart'  BY <1>1, <1>10 DEF SessionInv, Apart
<1>15. TableInv'  BY <1>8, <1>9, <1>11, <1>12 DEF TableInv
<1>16. SessionInv'  BY <1>13, <1>14 DEF SessionInv
<1>17. \A g \in Fd \ {fd} : kind'[g] = kind[g] /\ items'[g] = items[g] /\ (Used(g)' <=> Used(g))
  BY <1>5
<1> QED  BY <1>4, <1>15, <1>16, <1>17
-----------------------------------------------------------------------------
(* The invariant holds at the start and every step keeps it.               *)

LEMMA InitIInv == SelInit => IInv
<1> SUFFICES ASSUME SelInit  PROVE IInv  OBVIOUS
<1>1. Passive \in SUBSET Fd /\ Passive \in SUBSET (0 .. SetSize - 1) /\ Listeners - 1 \in Passive
      /\ SetSize \in Nat /\ Fd \in SUBSET Nat
  BY SelectorAssumption DEF Passive, Fd
<1>2. [ops |-> {"READ"}, data |-> None] \in Item /\ [ops |-> {"READ"}, data |-> None] # None
  BY SelectorAssumption DEF Item, Ops
<1>3. \A s \in Sessions : sess[s] = NoSession /\ ~Alive(s)  BY DEF SelInit, NoSession, Alive
<1>4. \A fd \in Fd : Used(fd) <=> fd \in Passive  BY <1>2 DEF SelInit, Used
<1>5. SelTypeOK
  BY <1>1, <1>2, SelectorAssumption DEF SelInit, SelTypeOK, Nothing, NoSession, Kinds, Ops
<1>6. TableSound
  <2>1. \A fd \in Passive : fd <= Listeners - 1 /\ fd < NextCapacity(InitialElements)
    BY <1>1, SelectorAssumption DEF Passive
  <2> QED  BY <1>1, <1>4, <2>1 DEF SelInit, TableSound
<1>7. TableInv
  BY <1>1, <1>4, <1>6, SelectorAssumption DEF SelInit, TableInv, LargeEnough, Held, Passives
<1>8. SessionInv  BY <1>3 DEF SelInit, SessionInv, OwnedUnlessTooBig, Apart
<1>9. TurnInv
  BY <1>4 DEF SelInit, TurnInv, KeySound, UntilReuse, Stale, Nothing
<1> QED  BY <1>5, <1>7, <1>8, <1>9 DEF IInv

LEMMA SelectKeeps == IInv /\ Select => IInv'
<1> SUFFICES ASSUME IInv, Select  PROVE IInv'  OBVIOUS
<1> USE DEF IInv
<1>1. SelTypeOK'  BY DEF Select, SelTypeOK, table
<1>2. TableInv' /\ SessionInv'
  BY DEF Select, table, TableInv, TableSound, LargeEnough, Held, Passives, Used, Alive, FdsOf,
     SessionInv, OwnedUnlessTooBig, Apart
<1>3. KeySound'  BY DEF Select, KeySound
<1>4. \A fd \in Fd : ~Used(fd) => slave'[fd] = {}  BY DEF Select, TableInv, TableSound
<1>5. \A fd \in Fd : kind[fd] = "free" => ~Used(fd)  BY DEF TableInv, Held
<1>6. UntilReuse'  BY <1>4, <1>5 DEF Select, UntilReuse
<1>7. Stale'  BY <1>4 DEF Select, table, TurnInv, Stale, Used
<1> QED  BY <1>1, <1>2, <1>3, <1>6, <1>7 DEF TurnInv

LEMMA FinishKeeps == IInv /\ Finished => IInv'
<1> SUFFICES ASSUME IInv, Finished  PROVE IInv'  OBVIOUS
<1> USE DEF IInv
<1>1. SelTypeOK'  BY DEF Finished, SelTypeOK, table, Nothing
<1>2. TableInv' /\ SessionInv'
  BY DEF Finished, table, TableInv, TableSound, LargeEnough, Held, Passives, Used, Alive, FdsOf,
     SessionInv, OwnedUnlessTooBig, Apart
<1>3. TurnInv'
  BY DEF Finished, table, SelTypeOK, TurnInv, KeySound, UntilReuse, Stale, Used, Nothing
<1> QED  BY <1>1, <1>2, <1>3

LEMMA ReturnKeeps == IInv /\ Return => IInv'
<1> SUFFICES ASSUME IInv, Return  PROVE IInv'  OBVIOUS
<1> USE DEF IInv
<1>1. SelTypeOK'  BY DEF Return, SelTypeOK, table
<1>2. TableInv' /\ SessionInv'
  BY DEF Return, table, TableInv, TableSound, LargeEnough, Held, Passives, Used, Alive, FdsOf,
     SessionInv, OwnedUnlessTooBig, Apart
<1>3. turn'.fd = turn.fd /\ turn'.data = turn.data /\ turn'.phase = "scan"
  BY DEF Return, SelTypeOK
<1>4. TurnInv'
  BY <1>3 DEF Return, table, TurnInv, KeySound, UntilReuse, Fresh, Stale, Used
<1> QED  BY <1>1, <1>2, <1>4

\* what is left of the readiness behind the descriptor and operation called
LEMMA BeyondFacts ==
  ASSUME NEW bits \in [Fd -> SUBSET Ops], NEW fd \in Fd, NEW op \in Ops
  PROVE  /\ Beyond(bits, fd, op) \in [Fd -> SUBSET Ops]
         /\ op \notin Beyond(bits, fd, op)[fd]
         /\ op = "WRITE" => Beyond(bits, fd, op)[fd] = {}
         /\ \A g \in Fd : /\ Beyond(bits, fd, op)[g] \subseteq bits[g]
                          /\ Beyond(bits, fd, op)[g] # {} => fd <= g
<1>1. fd \in Nat /\ \A g \in Fd : g \in Nat  BY SelectorAssumption DEF Fd
<1>2. \A g \in Fd, o \in Ops : Rank(g, o) = 2 * g + (IF o = "WRITE" THEN 1 ELSE 0)
  BY DEF Rank
<1>3. \A g \in Fd : Beyond(bits, fd, op)[g] = {o \in bits[g] : Rank(g, o) > Rank(fd, op)}
  BY DEF Beyond
<1>4. \A g \in Fd, o \in Ops : Rank(g, o) > Rank(fd, op) => fd <= g
  BY <1>1, <1>2
<1>5. ~(Rank(fd, op) > Rank(fd, op)) /\ ~(Rank(fd, "READ") > Rank(fd, "WRITE"))
      /\ ~(Rank(fd, "WRITE") > Rank(fd, "WRITE"))
  BY <1>1, <1>2 DEF Ops
<1>6. op = "WRITE" => Beyond(bits, fd, op)[fd] = {}  BY <1>3, <1>5 DEF Ops
<1> QED  BY <1>3, <1>4, <1>5, <1>6 DEF Beyond

LEMMA CallKeeps ==
  ASSUME IInv, NEW fd \in Fd, NEW op \in Ops, Call(fd, op)
  PROVE  IInv'
<1> USE DEF IInv
<1>1. turn.phase = "scan" /\ Due(fd, op)  BY DEF Call, NextDue
<1>2. turn' = [phase |-> "call", fd |-> fd, data |-> KeyData(fd)]  BY DEF Call
<1>3. Used(fd) /\ items[fd] \in Item  BY <1>1 DEF Due, Used, SelTypeOK
<1>4. KeyData(fd) = items[fd].data
  <2>1. CASE turn.fd = fd
    <3>1. turn.fd # -1  BY <2>1, SelectorAssumption DEF Fd
    <3> QED  BY <1>3, <2>1, <3>1 DEF KeyData, TurnInv, KeySound
  <2>2. CASE turn.fd # fd  BY <2>2 DEF KeyData
  <2> QED  BY <2>1, <2>2
<1>5. KeyData(fd) \in Sessions \cup {None}  BY <1>3, <1>4 DEF Item
<1>6. /\ slave' \in [Fd -> SUBSET Ops] /\ seen' \in [Fd -> SUBSET Ops]
      /\ op = "WRITE" => slave'[fd] = {}
      /\ \A g \in Fd : /\ slave'[g] \subseteq slave[g]
                       /\ slave'[g] # {} => fd <= g
                       /\ seen'[g] \subseteq slave'[g] /\ seen'[g] \subseteq seen[g]
                       /\ slave[g] = seen[g] => slave'[g] = seen'[g]
  <2>1. slave \in [Fd -> SUBSET Ops] /\ seen \in [Fd -> SUBSET Ops]  BY DEF SelTypeOK
  <2>2. slave' = Beyond(slave, fd, op) /\ seen' = Beyond(seen, fd, op)  BY DEF Call
  <2>3. \A g \in Fd : seen'[g] \subseteq slave'[g] /\ (slave[g] = seen[g] => slave'[g] = seen'[g])
    BY <2>2 DEF Beyond, TurnInv, Stale
  <2> QED  BY <2>1, <2>2, <2>3, BeyondFacts
<1>7. /\ kind' \in [Fd -> Kinds \cup {"free"}]
      /\ \A g \in Fd : \/ kind'[g] = kind[g]
                       \/ /\ g = fd /\ op = "WRITE"
                          /\ kind[g] = "connecting" /\ kind'[g] = "connected"
  BY DEF Call, SelTypeOK, Kinds
<1>8. UNCHANGED <<items, master, maxFd, fdSize, sess>>  BY DEF Call, table
<1>9. SelTypeOK'  BY <1>2, <1>5, <1>6, <1>7, <1>8 DEF SelTypeOK
<1>10. TableInv'
  <2>1. TableSound' /\ LargeEnough'  BY <1>8 DEF TableInv, TableSound, LargeEnough, Used
  <2>2. Held'  BY <1>7, <1>8 DEF TableInv, Held, Used, Alive, FdsOf
  <2>3. Passives'  BY <1>7, <1>8 DEF TableInv, Passives, Used
  <2> QED  BY <2>1, <2>2, <2>3 DEF TableInv
<1>11. SessionInv'
  <2>1. Apart'  BY <1>8 DEF SessionInv, Apart, Alive
  <2>2. \A g \in Fd : kind'[g] \in {"free", "listener"} <=> kind[g] \in {"free", "listener"}
    BY <1>7
  <2>3. \A s \in Sessions : (Alive(s)' <=> Alive(s)) /\ FdsOf(s)' = FdsOf(s)
    BY <1>8 DEF Alive, FdsOf
  <2>4. \A s \in Sessions : Alive(s) => FdsOf(s) \in SUBSET Fd  BY FdsTyped
  <2>5. OwnedUnlessTooBig'
    BY <1>8, <2>2, <2>3, <2>4 DEF SessionInv, OwnedUnlessTooBig, Used
  <2> QED  BY <2>1, <2>5 DEF SessionInv
<1>12. KeySound'
  <2>1. turn'.phase = "call" /\ turn'.fd = fd /\ turn'.data = items[fd].data /\ fd # -1
    BY <1>2, <1>4, SelectorAssumption DEF Fd
  <2> QED  BY <1>6, <1>8, <2>1 DEF KeySound
<1>13. UntilReuse'
  <2> SUFFICES ASSUME fd \in Passive
               PROVE seen' = slave' /\ \A g \in Fd : kind'[g] = "free" => slave'[g] = {}
    BY <1>2, SelectorAssumption DEF UntilReuse, Fresh, Fd
  <2>1. slave[fd] # {}  BY <1>1 DEF Due
  <2>2. Fresh
    BY SMTT(40), <2>1, SelectorAssumption DEF TurnInv, KeySound, Fresh, Passive, SelTypeOK, Fd
  <2>3. seen = slave /\ \A g \in Fd : kind[g] = "free" => slave[g] = {}
    BY <2>2 DEF TurnInv, UntilReuse
  <2>4. \A g \in Fd : seen'[g] = slave'[g]  BY <1>6, <2>3
  <2>5. seen' = slave'  BY <1>6, <2>4
  <2>6. ASSUME NEW g \in Fd, kind'[g] = "free"  PROVE slave'[g] = {}
    <3>1. kind[g] = "free"  BY <1>7, <2>6
    <3> QED  BY <1>6, <2>3, <3>1
  <2> QED  BY <2>5, <2>6
<1>14. Stale'
  <2> SUFFICES ASSUME NEW g \in Fd
               PROVE /\ seen'[g] \subseteq slave'[g]
                     /\ ~Used(g)' => seen'[g] = {}
                     /\ slave'[g] # seen'[g] => kind'[g] \in {"free", "connecting"}
                     /\ kind'[g] = "connecting" /\ Used(g)' => "READ" \notin items'[g].ops
    BY DEF Stale
  <2>1. /\ ~Used(g) => seen[g] = {}
        /\ slave[g] # seen[g] => kind[g] \in {"free", "connecting"}
        /\ kind[g] = "connecting" /\ Used(g) => "READ" \notin items[g].ops
    BY DEF TurnInv, Stale
  <2>2. (Used(g)' <=> Used(g)) /\ items' = items  BY <1>8 DEF Used
  <2>3. slave'[g] # seen'[g] => kind'[g] = kind[g]
    BY <1>6, <1>7
  <2> QED  BY <1>6, <1>7, <2>1, <2>2, <2>3
<1> QED  BY <1>9, <1>10, <1>11, <1>12, <1>13, <1>14 DEF TurnInv

LEMMA AcceptKeeps ==
  ASSUME IInv, NEW s \in Sessions, Accept(s)
  PROVE  IInv'
<1> USE DEF IInv
<1>1. PICK fd \in Fd : fd = NewFd /\ kind[fd] = "free"  BY NewFdFree DEF Accept
<1>2. /\ kind' = [kind EXCEPT ![fd] = "accepted"] /\ sess' = [sess EXCEPT ![s].client = fd]
      /\ Register(fd, {"READ"}, s) /\ turn' = [turn EXCEPT !.phase = "scan"]
      /\ UNCHANGED <<slave, seen>>
      /\ turn.phase = "call" /\ kind[turn.fd] = "listener" /\ ~Alive(s)
  BY <1>1 DEF Accept
<1>3. sess[s] = NoSession  BY <1>2 DEF SessionInv, Apart
<1>4. /\ sess' \in [Sessions -> [client : Fd \cup {None}, remotes : SUBSET Fd]]
      /\ \A x \in Sessions \ {s} : sess'[x] = sess[x]
      /\ sess'[s].client = fd /\ sess'[s].remotes = {}
  BY <1>1, <1>2, <1>3 DEF SelTypeOK, NoSession
<1>5. Alive(s)' /\ FdsOf(s)' = {fd}  BY <1>1, <1>4, SelectorAssumption DEF Alive, FdsOf
<1>6. {"READ"} \in SUBSET Ops  BY DEF Ops
<1>7. /\ kind' \in [Fd -> Kinds \cup {"free"}] /\ items' \in [Fd -> {None} \cup Item]
      /\ master' \in [Fd -> SUBSET Ops] /\ maxFd' \in 0 .. SetSize - 1 /\ fdSize' \in Nat
      /\ TableInv' /\ SessionInv'
      /\ \A g \in Fd \ {fd} : /\ kind'[g] = kind[g] /\ items'[g] = items[g]
                              /\ (Used(g)' <=> Used(g))
  <2>1. "accepted" \in {"accepted", "connecting"}  OBVIOUS
  <2>2. FdsOf(s)' = {fd} \cup (IF Alive(s) THEN FdsOf(s) ELSE {})  BY <1>2, <1>5
  <2> QED  BY <1>1, <1>2, <1>4, <1>5, <1>6, <2>1, <2>2, SocketOpened
<1>8. turn'.phase = "scan" /\ turn'.fd = turn.fd /\ turn'.data = turn.data /\ turn.fd \in Fd
      /\ turn.fd # fd
  BY <1>1, <1>2 DEF SelTypeOK, TurnInv, KeySound
<1>9. SelTypeOK'  BY <1>2, <1>4, <1>7 DEF SelTypeOK
<1>10. Fresh  BY <1>2, <1>8 DEF Fresh, TableInv, Passives
<1>11. seen = slave /\ \A g \in Fd : kind[g] = "free" => slave[g] = {}
  BY <1>10 DEF TurnInv, UntilReuse
<1>12. kind'[fd] = "accepted"  BY <1>1, <1>2 DEF SelTypeOK
<1>13. KeySound'  BY <1>2, <1>7, <1>8 DEF TurnInv, KeySound
<1>14. UntilReuse'  BY <1>2, <1>7, <1>11, <1>12 DEF UntilReuse
<1>15. Stale'
  <2> SUFFICES ASSUME NEW g \in Fd
               PROVE /\ ~Used(g)' => seen[g] = {}
                     /\ kind'[g] = "connecting" /\ Used(g)' => "READ" \notin items'[g].ops
    BY <1>2, <1>11 DEF Stale
  <2>1. CASE g = fd  BY <1>1, <1>11, <1>12, <2>1
  <2>2. CASE g # fd  BY <1>7, <2>2 DEF TurnInv, Stale
  <2> QED  BY <2>1, <2>2
<1> QED  BY <1>7, <1>9, <1>13, <1>14, <1>15 DEF TurnInv

LEMMA OpenRemoteKeeps ==
  ASSUME IInv, NEW s \in Sessions, OpenRemote(s)
  PROVE  IInv'
<1> USE DEF IInv
<1>1. PICK fd \in Fd : fd = NewFd /\ kind[fd] = "free"  BY NewFdFree DEF OpenRemote
<1>2. /\ kind' = [kind EXCEPT ![fd] = "connecting"]
      /\ sess' = [sess EXCEPT ![s].remotes = @ \cup {fd}]
      /\ Register(fd, {"WRITE"}, s) /\ UNCHANGED <<slave, turn, seen>>
      /\ turn.phase = "call" /\ turn.data = s /\ Alive(s) /\ Handles(s)
  BY <1>1 DEF OpenRemote, Handles
<1>3. /\ sess' \in [Sessions -> [client : Fd \cup {None}, remotes : SUBSET Fd]]
      /\ \A x \in Sessions \ {s} : sess'[x] = sess[x]
      /\ sess'[s].client = sess[s].client /\ sess'[s].remotes = sess[s].remotes \cup {fd}
  BY <1>1, <1>2 DEF SelTypeOK
<1>14. sess'[s].client \notin sess'[s].remotes
  <2>1. fd \notin FdsOf(s)  BY <1>1, <1>2 DEF SessionInv, OwnedUnlessTooBig
  <2> QED  BY <1>2, <1>3, <2>1 DEF SessionInv, Apart, FdsOf
<1>4. Alive(s)' /\ FdsOf(s)' = {fd} \cup FdsOf(s)  BY <1>2, <1>3 DEF Alive, FdsOf
<1>5. {"WRITE"} \in SUBSET Ops  BY DEF Ops
<1>6. /\ kind' \in [Fd -> Kinds \cup {"free"}] /\ items' \in [Fd -> {None} \cup Item]
      /\ master' \in [Fd -> SUBSET Ops] /\ maxFd' \in 0 .. SetSize - 1 /\ fdSize' \in Nat
      /\ TableInv' /\ SessionInv'
      /\ \A g \in Fd \ {fd} : /\ kind'[g] = kind[g] /\ items'[g] = items[g]
                              /\ (Used(g)' <=> Used(g))
      /\ Used(fd)' => items'[fd] = [ops |-> {"WRITE"}, data |-> s]
  <2>1. "connecting" \in {"accepted", "connecting"}  OBVIOUS
  <2>2. FdsOf(s)' = {fd} \cup (IF Alive(s) THEN FdsOf(s) ELSE {})  BY <1>2, <1>4
  <2>3. kind' = [kind EXCEPT ![fd] = "connecting"] /\ Register(fd, {"WRITE"}, s)  BY <1>2
  <2>4. Alive(s)'  BY <1>4
  <2>5. /\ items' = IF fd < SetSize
                  THEN [items EXCEPT ![fd] = [ops |-> {"WRITE"}, data |-> s]] ELSE items
        /\ ~Used(fd)
    BY <1>1, <1>5, <2>3, RegisterFacts
  <2>6. Used(fd)' => items'[fd] = [ops |-> {"WRITE"}, data |-> s]
    BY <2>5 DEF Used, SelTypeOK
  <2> QED  BY <1>1, <1>3, <1>5, <1>14, <2>1, <2>2, <2>3, <2>4, <2>6, SocketOpened
<1>7. SelTypeOK'  BY <1>2, <1>3, <1>6 DEF SelTypeOK
<1>8. turn.fd \in Fd  BY <1>2 DEF SelTypeOK, TurnInv, KeySound
<1>9. ~Fresh  BY <1>2, HandlerNotFresh
<1>10. KeySound'
  <2>1. CASE turn.fd = fd  BY <1>2, <1>6, <2>1 DEF TurnInv, KeySound
  <2>2. CASE turn.fd # fd  BY <1>2, <1>6, <1>8, <2>2 DEF TurnInv, KeySound
  <2> QED  BY <2>1, <2>2
<1>11. UntilReuse'  BY <1>2, <1>9 DEF UntilReuse, Fresh
<1>12. kind'[fd] = "connecting" /\ ~Used(fd) /\ seen[fd] = {}
  BY <1>1, <1>2 DEF SelTypeOK, TableInv, Held, TurnInv, Stale
<1>13. Stale'
  <2> SUFFICES ASSUME NEW g \in Fd
               PROVE /\ seen[g] \subseteq slave[g]
                     /\ ~Used(g)' => seen[g] = {}
                     /\ slave[g] # seen[g] => kind'[g] \in {"free", "connecting"}
                     /\ kind'[g] = "connecting" /\ Used(g)' => "READ" \notin items'[g].ops
    BY <1>2 DEF Stale
  <2>1. CASE g = fd  BY <1>6, <1>12, <2>1
  <2>2. CASE g # fd  BY <1>6, <2>2 DEF TurnInv, Stale
  <2> QED  BY <2>1, <2>2
<1> QED  BY <1>6, <1>7, <1>10, <1>11, <1>13 DEF TurnInv

LEMMA CloseRemoteKeeps ==
  ASSUME IInv, NEW s \in Sessions, CloseRemote(s)
  PROVE  IInv'
<1> USE DEF IInv
<1>2. PICK c \in Fd : c = turn.fd  BY DEF CloseRemote, SelTypeOK
<1>1. /\ CloseFds({c}) /\ sess' = [sess EXCEPT ![s].remotes = @ \ {c}]
      /\ UNCHANGED <<slave, turn>> /\ c \in sess[s].remotes /\ Handles(s)
  BY <1>2 DEF CloseRemote
<1>3. Alive(s) /\ c \in FdsOf(s)  BY <1>1 DEF SessionInv, Apart, NoSession, FdsOf
<1>4. {c} \in SUBSET Fd  BY <1>2
<1>5. /\ kind' \in [Fd -> Kinds \cup {"free"}] /\ items' \in [Fd -> {None} \cup Item]
      /\ master' \in [Fd -> SUBSET Ops] /\ seen' \in [Fd -> SUBSET Ops]
      /\ maxFd' \in 0 .. SetSize - 1 /\ fdSize' \in Nat
      /\ kind'[c] = "free" /\ ~Used(c)'
      /\ \A fd \in Fd \ {c} : /\ kind'[fd] = kind[fd] /\ items'[fd] = items[fd]
                              /\ (Used(fd)' <=> Used(fd))
      /\ TableSound' /\ LargeEnough'
  BY <1>1, <1>4, CloseFacts
<1>6. /\ sess' \in [Sessions -> [client : Fd \cup {None}, remotes : SUBSET Fd]]
      /\ \A x \in Sessions \ {s} : sess'[x] = sess[x]
      /\ sess'[s].client = sess[s].client /\ sess'[s].remotes = sess[s].remotes \ {c}
  BY SMTT(40), <1>1, <1>2 DEF SelTypeOK
<1>7. /\ \A x \in Sessions : (Alive(x)' <=> Alive(x)) /\ FdsOf(x)' \subseteq FdsOf(x)
      /\ \A x \in Sessions : \A fd \in FdsOf(x) : fd # c => fd \in FdsOf(x)'
  BY <1>6 DEF Alive, FdsOf
<1>8. /\ \A x \in Sessions \ {s} : Alive(x) => c \notin FdsOf(x)
      /\ kind[c] \notin {"free", "listener"}
  BY <1>3 DEF SessionInv, OwnedUnlessTooBig
<1>9. SelTypeOK'  BY <1>1, <1>5, <1>6 DEF SelTypeOK
<1>10. Held'
  <2> SUFFICES ASSUME NEW fd \in Fd, Used(fd)'
               PROVE /\ kind'[fd] # "free"
                     /\ IF kind'[fd] = "listener" THEN items'[fd].data = None
                        ELSE /\ items'[fd].data \in Sessions /\ Alive(items[fd].data)'
                             /\ fd \in FdsOf(items[fd].data)'
    BY DEF Held
  <2>1. fd # c /\ Used(fd) /\ kind'[fd] = kind[fd] /\ items'[fd] = items[fd]  BY <1>5
  <2> QED  BY <1>7, <2>1 DEF TableInv, Held
<1>11. Passives'  BY <1>5, <1>8 DEF TableInv, Passives
<1>12. OwnedUnlessTooBig'
  <2>1. ASSUME NEW fd \in Fd, kind'[fd] \notin {"free", "listener"}, ~(fd >= SetSize)
        PROVE  \E x \in Sessions : Alive(x)' /\ fd \in FdsOf(x)'
    <3>1. fd # c /\ kind'[fd] = kind[fd]  BY <1>5, <2>1
    <3>2. PICK x \in Sessions : Alive(x) /\ fd \in FdsOf(x)
      BY <2>1, <3>1 DEF SessionInv, OwnedUnlessTooBig
    <3> QED  BY <1>7, <3>1, <3>2
  <2>2. ASSUME NEW x \in Sessions, Alive(x)', NEW fd \in FdsOf(x)'
        PROVE  /\ kind'[fd] \notin {"free", "listener"}
               /\ IF fd < SetSize THEN Used(fd)' /\ items'[fd].data = x ELSE ~Used(fd)'
               /\ \A y \in Sessions \ {x} : Alive(y)' => fd \notin FdsOf(y)'
    <3>1. Alive(x) /\ fd \in FdsOf(x) /\ fd \in Fd  BY <1>7, <2>2, FdsTyped
    <3>2. fd # c
      <4>1. CASE x # s  BY <1>8, <3>1, <4>1
      <4>2. CASE x = s
        <5>1. sess[s].client # c  BY <1>1, <1>3 DEF SessionInv, Apart
        <5> QED  BY <1>6, <2>2, <4>2, <5>1 DEF FdsOf
      <4> QED  BY <4>1, <4>2
    <3>3. /\ kind[fd] \notin {"free", "listener"}
          /\ IF fd < SetSize THEN Used(fd) /\ items[fd].data = x ELSE ~Used(fd)
          /\ \A y \in Sessions \ {x} : Alive(y) => fd \notin FdsOf(y)
      BY <3>1 DEF SessionInv, OwnedUnlessTooBig
    <3> QED  BY <1>5, <1>7, <3>1, <3>2, <3>3
  <2> QED  BY <2>1, <2>2 DEF OwnedUnlessTooBig
<1>13. Apart'  BY <1>3, <1>6, <1>7 DEF SessionInv, Apart
<1>14. TurnInv'
  <2>1. turn.phase = "call" /\ ~Fresh  BY <1>1, HandlerNotFresh DEF Handles
  <2> QED  BY <1>1, <1>4, <2>1, CloseKeepsTurn
<1> QED  BY <1>5, <1>9, <1>10, <1>11, <1>12, <1>13, <1>14 DEF TableInv, SessionInv

LEMMA SetInterestKeeps ==
  ASSUME IInv, NEW s \in Sessions, SetInterest(s)
  PROVE  IInv'
<1> USE DEF IInv
<1>1. PICK fd \in {g \in FdsOf(s) : Used(g)}, ops \in SUBSET Ops :
        /\ kind[fd] = "connecting" => "READ" \notin ops
        /\ items' = [items EXCEPT ![fd].ops = ops]
        /\ master' = [master EXCEPT ![fd] = ops]
  BY DEF SetInterest
<1>2. UNCHANGED <<kind, slave, maxFd, fdSize, turn, sess, seen>> /\ Alive(s) /\ Handles(s)
  BY DEF SetInterest
<1>3. fd \in Fd /\ Used(fd) /\ items[fd] \in Item  BY <1>1, <1>2, FdsTyped DEF SelTypeOK, Used
<1>4. items'[fd] = [ops |-> ops, data |-> items[fd].data] /\ items'[fd] \in Item
  BY <1>1, <1>3 DEF SelTypeOK, Item
<1>5. /\ items' \in [Fd -> {None} \cup Item] /\ master' \in [Fd -> SUBSET Ops]
      /\ master'[fd] = ops
      /\ \A g \in Fd \ {fd} : items'[g] = items[g] /\ master'[g] = master[g]
  BY <1>1, <1>3, <1>4 DEF SelTypeOK
<1>6. \A g \in Fd : /\ (Used(g)' <=> Used(g))
                    /\ Used(g) => items'[g].data = items[g].data
  BY <1>3, <1>4, <1>5, SelectorAssumption DEF Used
<1>7. SelTypeOK'  BY <1>2, <1>5 DEF SelTypeOK
<1>8. TableInv'
  <2>1. TableSound'
    <3> SUFFICES ASSUME NEW g \in Fd
                 PROVE IF Used(g)' THEN master'[g] = items'[g].ops /\ g <= maxFd' /\ g < fdSize'
                       ELSE master'[g] = {}
      BY DEF TableSound
    <3>1. IF Used(g) THEN master[g] = items[g].ops /\ g <= maxFd /\ g < fdSize
          ELSE master[g] = {}
      BY DEF TableInv, TableSound
    <3>2. CASE g = fd  BY <1>2, <1>3, <1>4, <1>5, <1>6, <3>1, <3>2
    <3>3. CASE g # fd  BY <1>2, <1>5, <1>6, <3>1, <3>3
    <3> QED  BY <3>2, <3>3
  <2>2. Held'  BY <1>2, <1>6 DEF TableInv, Held, Alive, FdsOf
  <2>3. LargeEnough' /\ Passives'  BY <1>2, <1>6 DEF TableInv, LargeEnough, Passives
  <2> QED  BY <2>1, <2>2, <2>3 DEF TableInv
<1>9. SessionInv'
  <2>1. \A x \in Sessions : (Alive(x)' <=> Alive(x)) /\ FdsOf(x)' = FdsOf(x)
    BY <1>2 DEF Alive, FdsOf
  <2>2. \A x \in Sessions : Alive(x) => FdsOf(x) \in SUBSET Fd  BY FdsTyped
  <2>3. OwnedUnlessTooBig'
    BY <1>2, <1>6, <2>1, <2>2 DEF SessionInv, OwnedUnlessTooBig
  <2> QED  BY <1>2, <2>3 DEF SessionInv, Apart, Alive
<1>10. TurnInv'
  <2>1. turn.fd # -1 => turn.fd \in Fd  BY DEF SelTypeOK
  <2>2. KeySound'  BY <1>2, <1>6, <2>1 DEF TurnInv, KeySound
  <2>3. UntilReuse'  BY <1>2 DEF TurnInv, UntilReuse, Fresh
  <2>4. Stale'
    <3> SUFFICES ASSUME NEW g \in Fd, kind[g] = "connecting", Used(g)
                 PROVE "READ" \notin items'[g].ops
      BY <1>2, <1>6 DEF TurnInv, Stale
    <3>1. CASE g = fd  BY <1>1, <1>4, <3>1
    <3>2. CASE g # fd  BY <1>5, <3>2 DEF TurnInv, Stale
    <3> QED  BY <3>1, <3>2
  <2> QED  BY <2>2, <2>3, <2>4 DEF TurnInv
<1> QED  BY <1>7, <1>8, <1>9, <1>10

\* Cleanup, CloseOwn and CloseUser close sessions and let the iteration go on.
LEMMA ClosersKeep ==
  ASSUME IInv, NEW T \in SUBSET Sessions, \A s \in T : Alive(s), CloseSessions(T),
         UNCHANGED slave, turn' \in {turn, [turn EXCEPT !.phase = "scan"]},
         \/ turn.phase = "select" /\ UNCHANGED turn
         \/ \E s \in Sessions : Handles(s)
  PROVE  IInv'
<1> USE DEF IInv
<1>1. /\ \E F \in SUBSET Fd : CloseFds(F)
      /\ sess' \in [Sessions -> [client : Fd \cup {None}, remotes : SUBSET Fd]]
      /\ Held' /\ Passives' /\ SessionInv'
  BY SessionsClosed
<1>2. PICK F \in SUBSET Fd : CloseFds(F)  BY <1>1
<1>3. /\ kind' \in [Fd -> Kinds \cup {"free"}] /\ items' \in [Fd -> {None} \cup Item]
      /\ master' \in [Fd -> SUBSET Ops] /\ seen' \in [Fd -> SUBSET Ops]
      /\ maxFd' \in 0 .. SetSize - 1 /\ fdSize' \in Nat
      /\ TableSound' /\ LargeEnough'
  BY <1>2, CloseFacts
<1>4. /\ turn'.fd = turn.fd /\ turn'.data = turn.data
      /\ turn'.phase \in {"scan", "call", "select"}
      /\ turn' \in [phase : {"select", "scan", "call"}, fd : Fd \cup {-1},
                    data : Sessions \cup {None}]
  BY DEF SelTypeOK
<1>5. /\ turn.phase = "select" <=> turn'.phase = "select"
      /\ turn.phase # "select" => ~Fresh
  BY HandlerNotFresh DEF Handles, SelTypeOK
<1>6. TurnInv'  BY <1>2, <1>4, <1>5, CloseKeepsTurn
<1>7. SelTypeOK'  BY <1>1, <1>3, <1>4 DEF SelTypeOK
<1> QED  BY <1>1, <1>3, <1>6, <1>7 DEF TableInv

LEMMA NextKeeps == IInv /\ [SelNext]_selVars => IInv'
<1> SUFFICES ASSUME IInv, [SelNext]_selVars  PROVE IInv'  OBVIOUS
<1>1. CASE Select  BY <1>1, SelectKeeps
<1>2. CASE Finished  BY <1>2, FinishKeeps
<1>3. CASE Cleanup
  <2>1. PICK T \in SUBSET {s \in Proxies : Alive(s) /\ Used(sess[s].client)} : CloseSessions(T)
    BY <1>3 DEF Cleanup
  <2>2. T \in SUBSET Sessions /\ \A s \in T : Alive(s)  BY <2>1 DEF Sessions
  <2> QED  BY <1>3, <2>1, <2>2, ClosersKeep DEF Cleanup
<1>4. CASE Return  BY <1>4, ReturnKeeps
<1>5. CASE \E fd \in Fd, op \in Ops : Call(fd, op)  BY <1>5, CallKeeps
<1>6. CASE \E s \in Sessions : \/ Accept(s) \/ OpenRemote(s) \/ CloseRemote(s)
                               \/ SetInterest(s) \/ CloseOwn(s) \/ CloseUser(s)
  <2>1. PICK s \in Sessions : \/ Accept(s) \/ OpenRemote(s) \/ CloseRemote(s)
                              \/ SetInterest(s) \/ CloseOwn(s) \/ CloseUser(s)
    BY <1>6
  <2>2. CASE Accept(s)  BY <2>2, AcceptKeeps
  <2>3. CASE OpenRemote(s)  BY <2>3, OpenRemoteKeeps
  <2>4. CASE CloseRemote(s)  BY <2>4, CloseRemoteKeeps
  <2>5. CASE SetInterest(s)  BY <2>5, SetInterestKeeps
  <2>6. CASE CloseOwn(s)
    <3>1. {s} \in SUBSET Sessions /\ \A x \in {s} : Alive(x)  BY <2>6 DEF CloseOwn
    <3> QED  BY <2>6, <3>1, ClosersKeep DEF CloseOwn
  <2>7. CASE CloseUser(s)
    <3>1. PICK T \in SUBSET {x \in Sessions \ {s} : Alive(x) /\ Used(sess[x].client)} :
            CloseSessions(T)
      BY <2>7 DEF CloseUser
    <3>2. T \in SUBSET Sessions /\ \A x \in T : Alive(x)  BY <3>1
    <3> QED  BY <2>7, <3>1, <3>2, ClosersKeep DEF CloseUser
  <2> QED  BY <2>1, <2>2, <2>3, <2>4, <2>5, <2>6, <2>7
<1>7. CASE UNCHANGED selVars
  BY <1>7 DEF selVars, IInv, SelTypeOK, TableInv, TableSound, LargeEnough, Held, Passives, SessionInv,
     OwnedUnlessTooBig, Apart, TurnInv, KeySound, UntilReuse, Fresh, Stale, Used, Alive, FdsOf
<1> QED  BY <1>1, <1>2, <1>3, <1>4, <1>5, <1>6, <1>7 DEF SelNext

\* The strengthening of the invariants that is inductive.
THEOREM Inductive == SelSpec => []IInv
BY InitIInv, NextKeeps, PTL DEF SelSpec
-----------------------------------------------------------------------------
(* The properties.                                                         *)

\* Every variable keeps the type that Selector's SelTypeOK states.
THEOREM TypeCorrect == SelSpec => []SelTypeOK
<1>1. IInv => SelTypeOK  BY DEF IInv
<1> QED  BY <1>1, Inductive, PTL

\* What pselect() is given is what the table says, inside its memory.
THEOREM TableStaysSound == SelSpec => []TableSound
<1>1. IInv => TableSound  BY DEF IInv, TableInv
<1> QED  BY <1>1, Inductive, PTL

\* No closed descriptor is watched.
THEOREM NoneBad == SelSpec => []NoBadDescriptor
<1>1. IInv => NoBadDescriptor  BY DEF IInv, TableInv, TableSound, Held, NoBadDescriptor
<1> QED  BY <1>1, Inductive, PTL

\* Only sockets whose number does not fit the fd_set are leaked.
THEOREM OwnedOrTooBig == SelSpec => []OwnedUnlessTooBig
<1>1. IInv => OwnedUnlessTooBig  BY DEF IInv, SessionInv
<1> QED  BY <1>1, Inductive, PTL

\* what a handler is called with
LEMMA CallData ==
  ASSUME IInv, NEW fd \in Fd, NEW op \in Ops, Call(fd, op)
  PROVE  /\ turn' = [phase |-> "call", fd |-> fd, data |-> items[fd].data]
         /\ Used(fd) /\ fd # -1
<1>1. Used(fd)  BY DEF Call, NextDue, Due
<1>2. fd # -1  BY SelectorAssumption DEF Fd
<1>3. KeyData(fd) = items[fd].data
  <2>1. CASE turn.fd = fd  BY <1>1, <1>2, <2>1 DEF KeyData, IInv, TurnInv, KeySound
  <2>2. CASE turn.fd # fd  BY <2>2 DEF KeyData
  <2> QED  BY <2>1, <2>2
<1> QED  BY <1>1, <1>2, <1>3 DEF Call

\* only Call begins a call
LEMMA OnlyCallCalls ==
  ASSUME IInv, [SelNext]_selVars, turn.phase = "scan", turn'.phase = "call"
  PROVE  \E fd \in Fd, op \in Ops : Call(fd, op)
<1>1. ~Select /\ ~Cleanup /\ ~Return  BY DEF Select, Cleanup, Return
<1>2. ~Finished  BY DEF Finished, IInv, SelTypeOK
<1>3. \A s \in Sessions : ~(\/ Accept(s) \/ OpenRemote(s) \/ CloseRemote(s)
                            \/ SetInterest(s) \/ CloseOwn(s) \/ CloseUser(s))
  BY DEF Accept, OpenRemote, CloseRemote, SetInterest, CloseOwn, CloseUser, Handles
<1>4. ~UNCHANGED selVars  BY DEF selVars
<1> QED  BY <1>1, <1>2, <1>3, <1>4 DEF SelNext

\* A handler gets the session that holds the descriptor at that moment.
THEOREM HolderCalled == SelSpec => CalledForHolder
<1> DEFINE A == turn.phase = "scan" /\ turn'.phase = "call" =>
                  IF kind[turn'.fd] = "listener" THEN turn'.data = None
                  ELSE turn'.data \in Sessions /\ turn'.fd \in FdsOf(turn'.data)
<1>1. IInv /\ [SelNext]_selVars => A
  <2> SUFFICES ASSUME IInv, [SelNext]_selVars, turn.phase = "scan", turn'.phase = "call"
               PROVE IF kind[turn'.fd] = "listener" THEN turn'.data = None
                     ELSE turn'.data \in Sessions /\ turn'.fd \in FdsOf(turn'.data)
    OBVIOUS
  <2>1. PICK fd \in Fd, op \in Ops : Call(fd, op)  BY OnlyCallCalls
  <2>2. turn'.fd = fd /\ turn'.data = items[fd].data /\ Used(fd)  BY <2>1, CallData
  <2> QED  BY <2>2 DEF IInv, TableInv, Held
<1> QED  BY <1>1, Inductive, PTL DEF SelSpec, CalledForHolder
-----------------------------------------------------------------------------
(* Selector implements ReadyEvents.                                        *)

Who == [fd \in Fd |-> IF Used(fd) THEN kind[fd] ELSE "free"]
Wants == [fd \in Fd |-> IF Used(fd) THEN items[fd].ops ELSE {}]
Handled == IF turn.phase = "call" THEN turn.fd ELSE -1

LEMMA InitReady == SelInit => Ready!Init
<1> SUFFICES ASSUME SelInit  PROVE Ready!Init  OBVIOUS
<1>1. [ops |-> {"READ"}, data |-> None] # None
  BY SelectorAssumption DEF Item, Ops
<1>2. \A fd \in Fd : Used(fd) <=> fd \in Passive  BY <1>1 DEF SelInit, Used
<1>3. Who \in [Fd -> {"free", "listener"}] /\ "listener" \in Kinds
  BY <1>2 DEF SelInit, Who, Kinds
<1>4. Wants = [fd \in Fd |-> IF Who[fd] = "free" THEN {} ELSE {"READ"}]
  BY <1>2 DEF SelInit, Who, Wants
<1>5. seen = [fd \in Fd |-> {}] /\ Handled = -1  BY DEF SelInit, Nothing, Handled
<1> QED  BY <1>3, <1>4, <1>5 DEF Ready!Init, Who, Wants, Handled

\* what the promise's variables are, one descriptor at a time
LEMMA WhoWants ==
  ASSUME IInv, NEW fd \in Fd
  PROVE  /\ Who[fd] = (IF Used(fd) THEN kind[fd] ELSE "free")
         /\ Wants[fd] = (IF Used(fd) THEN items[fd].ops ELSE {})
         /\ Used(fd) <=> Who[fd] # "free"
         /\ Wants[fd] = master[fd] /\ Wants[fd] \in SUBSET Ops
BY DEF Who, Wants, IInv, TableInv, Held, TableSound, SelTypeOK

LEMMA SelectReady == IInv /\ Select => Ready!Observe
<1> SUFFICES ASSUME IInv, Select  PROVE Ready!Observe  OBVIOUS
<1>1. Handled = -1 /\ Handled' = -1  BY DEF Select, Handled
<1>2. Who' = Who /\ Wants' = Wants  BY DEF Select, table, Who, Wants, Used
<1>3. seen' \in [Fd -> SUBSET Ops] /\ \A fd \in Fd : seen'[fd] \subseteq master[fd]
  BY DEF Select
<1>4. \A fd \in Fd : seen'[fd] \subseteq Wants[fd]  BY <1>3, WhoWants
<1> QED  BY <1>1, <1>2, <1>3, <1>4 DEF Ready!Observe, Ready!Ops, Ops, Who, Wants, Handled

LEMMA FinishReady == IInv /\ Finished => Ready!Observe
<1> SUFFICES ASSUME IInv, Finished  PROVE Ready!Observe  OBVIOUS
<1>1. Handled = -1 /\ Handled' = -1  BY DEF Finished, Handled, IInv, SelTypeOK
<1>2. Who' = Who /\ Wants' = Wants  BY DEF Finished, table, Who, Wants, Used
<1>3. seen' \in [Fd -> SUBSET Ops] /\ \A fd \in Fd : seen'[fd] \subseteq Wants[fd]
  BY DEF Finished, Nothing
<1> QED  BY <1>1, <1>2, <1>3 DEF Ready!Observe, Ready!Ops, Ops, Who, Wants, Handled

LEMMA ReturnReady == IInv /\ Return => Ready!Return
<1> SUFFICES ASSUME IInv, Return  PROVE Ready!Return  OBVIOUS
<1>1. Handled # -1 /\ Handled' = -1
  BY DEF Return, Handled, IInv, SelTypeOK, TurnInv, KeySound
<1>2. Who' = Who /\ Wants' = Wants /\ seen' = seen  BY DEF Return, table, Who, Wants, Used
<1> QED  BY <1>1, <1>2 DEF Ready!Return, Who, Wants, Handled

LEMMA CallReady ==
  ASSUME IInv, NEW fd \in Fd, NEW op \in Ops, Call(fd, op)
  PROVE  Ready!Dispatch(fd, op)
<1>1. Handled = -1 /\ Handled' = fd  BY CallData DEF Call, Handled
<1>2. turn.phase = "scan" /\ Used(fd) /\ op \in items[fd].ops /\ op \in slave[fd]
  BY DEF Call, NextDue, Due
<1>3. Who[fd] = kind[fd] /\ Who[fd] # "free" /\ op \in Wants[fd]  BY <1>2, WhoWants
<1>4. op \in seen[fd] \/ (Who[fd] = "connecting" /\ op = "WRITE")
  <2> SUFFICES ASSUME op \notin seen[fd]  PROVE Who[fd] = "connecting" /\ op = "WRITE"
    OBVIOUS
  <2>1. kind[fd] = "connecting"  BY <1>2, <1>3 DEF IInv, TurnInv, Stale
  <2>2. "READ" \notin items[fd].ops  BY <1>2, <2>1 DEF IInv, TurnInv, Stale
  <2> QED  BY <1>2, <1>3, <2>1, <2>2 DEF Ops
<1>5. \A g \in Fd : Used(g)' <=> Used(g)  BY DEF Call, table, Used
<1>6. Who' = [Who EXCEPT ![fd] =
                IF @ = "connecting" /\ op = "WRITE" THEN "connected" ELSE @]
  BY <1>2, <1>5 DEF Call, Who, IInv, SelTypeOK
<1>7. Wants' = Wants  BY DEF Call, table, Wants, Used
<1>8. seen \in [Fd -> SUBSET Ops] /\ seen' = Beyond(seen, fd, op)  BY DEF Call, IInv, SelTypeOK
<1>9. /\ seen' \in [Fd -> SUBSET Ops] /\ op \notin seen'[fd]
      /\ \A g \in Fd : seen'[g] \subseteq seen[g]
  BY <1>8, BeyondFacts
<1> QED  BY <1>1, <1>3, <1>4, <1>6, <1>7, <1>9
         DEF Ready!Dispatch, Ready!Ops, Ops, Who, Wants, Handled

\* Closing any descriptors, as a handler or as the clean-up.
LEMMA CloseReady ==
  ASSUME IInv, IInv', NEW F \in SUBSET Fd, CloseFds(F), Handled' \in {Handled, -1}
  PROVE  Ready!Unregister
<1>1. /\ \A fd \in F : ~Used(fd)' /\ seen'[fd] = {}
      /\ \A fd \in Fd \ F : /\ kind'[fd] = kind[fd] /\ items'[fd] = items[fd]
                            /\ (Used(fd)' <=> Used(fd)) /\ seen'[fd] = seen[fd]
      /\ seen' \in [Fd -> SUBSET Ops]
  BY CloseFacts DEF IInv
<1> DEFINE gone == {fd \in Fd : Who'[fd] = "free"}
<1>2. \A fd \in Fd : fd \in gone <=> ~Used(fd)'
  BY DEF Who, IInv, TableInv, Held
<1> HIDE DEF gone
<1>3. Who' = [fd \in Fd |-> IF fd \in gone THEN "free" ELSE Who[fd]]
  BY <1>1, <1>2 DEF Who
<1>4. Wants' = [fd \in Fd |-> IF fd \in gone THEN {} ELSE Wants[fd]]
  BY <1>1, <1>2 DEF Wants
<1>5. \A fd \in Fd : seen'[fd] = IF fd \in gone THEN {} ELSE seen[fd]
  BY <1>1, <1>2 DEF IInv, TurnInv, Stale
<1>6. seen' = [fd \in Fd |-> IF fd \in gone THEN {} ELSE seen[fd]]
  BY <1>1, <1>5
<1> QED  BY <1>3, <1>4, <1>6 DEF Ready!Unregister, Who, Wants, Handled, gone

\* A socket is registered, or not: then nothing but the call's end is seen.
LEMMA OpenReady ==
  ASSUME IInv, NEW fd \in Fd, kind[fd] = "free",
         NEW k \in Kinds, kind' = [kind EXCEPT ![fd] = k],
         NEW ops \in SUBSET Ops, NEW d \in Sessions, Register(fd, ops, d),
         k = "connecting" => ops = {"WRITE"},
         Handled # -1, Handled' \in {Handled, -1}, UNCHANGED seen
  PROVE  [Ready!Next]_(Ready!vars)
<1>1. /\ ~Used(fd)
      /\ items' = IF fd < SetSize
                  THEN [items EXCEPT ![fd] = [ops |-> ops, data |-> d]] ELSE items
  BY RegisterFacts DEF IInv
<1>2. [ops |-> ops, data |-> d] \in Item /\ [ops |-> ops, data |-> d] # None
  BY SelectorAssumption DEF Item
<1>3. Who[fd] = "free" /\ seen[fd] = {}  BY <1>1 DEF Who, IInv, TurnInv, Stale
<1>4. CASE fd < SetSize
  <2>1. /\ items'[fd] = [ops |-> ops, data |-> d] /\ kind'[fd] = k
        /\ \A g \in Fd \ {fd} : items'[g] = items[g] /\ kind'[g] = kind[g]
    BY <1>1, <1>4 DEF IInv, SelTypeOK
  <2>2. Used(fd)' /\ \A g \in Fd \ {fd} : Used(g)' <=> Used(g)  BY <1>2, <2>1 DEF Used
  <2>3. Who' = [Who EXCEPT ![fd] = k]  BY <2>1, <2>2 DEF Who
  <2>4. Wants' = [Wants EXCEPT ![fd] = ops]
    <3>1. (IF Used(fd)' THEN items'[fd].ops ELSE {}) = ops  BY <2>1, <2>2
    <3>2. \A g \in Fd \ {fd} : (IF Used(g)' THEN items'[g].ops ELSE {})
                             = (IF Used(g) THEN items[g].ops ELSE {})
      BY <2>1, <2>2
    <3> QED  BY <3>1, <3>2 DEF Wants
  <2>5. Ready!Register(fd, k, ops)
    BY <1>3, <2>3, <2>4 DEF Ready!Register, Who, Wants, Handled
  <2>6. ops \in SUBSET Ready!Ops  BY DEF Ready!Ops, Ops
  <2> QED  BY <2>5, <2>6 DEF Ready!Next
<1>5. CASE ~(fd < SetSize)
  <2>1. items' = items  BY <1>1, <1>5
  <2>2. Who' = Who /\ Wants' = Wants  BY <1>1, <2>1 DEF Who, Wants, Used, IInv, SelTypeOK
  <2>3. CASE Handled' = Handled  BY <2>2, <2>3 DEF Ready!vars, Who, Wants, Handled
  <2>4. CASE Handled' = -1
    <3>1. Ready!Return  BY <2>2, <2>4 DEF Ready!Return, Who, Wants, Handled
    <3> QED  BY <3>1 DEF Ready!Next
  <2> QED  BY <2>3, <2>4
<1> QED  BY <1>4, <1>5

LEMMA AcceptReady ==
  ASSUME IInv, NEW s \in Sessions, Accept(s)
  PROVE  [Ready!Next]_(Ready!vars)
<1>1. PICK fd \in Fd : fd = NewFd /\ kind[fd] = "free"  BY NewFdFree DEF Accept
<1>2. kind' = [kind EXCEPT ![fd] = "accepted"] /\ Register(fd, {"READ"}, s) /\ UNCHANGED seen
  BY <1>1 DEF Accept
<1>3. Handled # -1 /\ Handled' = -1
  BY DEF Accept, Handled, IInv, SelTypeOK, TurnInv, KeySound
<1>4. "accepted" \in Kinds /\ {"READ"} \in SUBSET Ops /\ "accepted" # "connecting"
  BY DEF Kinds, Ops
<1> QED  BY <1>1, <1>2, <1>3, <1>4, OpenReady

LEMMA OpenRemoteReady ==
  ASSUME IInv, NEW s \in Sessions, OpenRemote(s)
  PROVE  [Ready!Next]_(Ready!vars)
<1>1. PICK fd \in Fd : fd = NewFd /\ kind[fd] = "free"  BY NewFdFree DEF OpenRemote
<1>2. kind' = [kind EXCEPT ![fd] = "connecting"] /\ Register(fd, {"WRITE"}, s) /\ UNCHANGED seen
  BY <1>1 DEF OpenRemote
<1>3. Handled # -1 /\ Handled' = Handled
  BY DEF OpenRemote, Handles, Handled, IInv, SelTypeOK, TurnInv, KeySound
<1>4. "connecting" \in Kinds /\ {"WRITE"} \in SUBSET Ops  BY DEF Kinds, Ops
<1> QED  BY <1>1, <1>2, <1>3, <1>4, OpenReady

LEMMA SetInterestReady ==
  ASSUME IInv, NEW s \in Sessions, SetInterest(s)
  PROVE  Ready!Next
<1>1. PICK fd \in {g \in FdsOf(s) : Used(g)}, ops \in SUBSET Ops :
        /\ kind[fd] = "connecting" => "READ" \notin ops
        /\ items' = [items EXCEPT ![fd].ops = ops]
  BY DEF SetInterest
<1>2. UNCHANGED <<kind, turn, seen>> /\ Alive(s) /\ Handles(s)  BY DEF SetInterest
<1>3. fd \in Fd /\ Used(fd) /\ items[fd] \in Item
  BY <1>1, <1>2, FdsTyped DEF IInv, SelTypeOK, Used
<1>4. items'[fd] = [ops |-> ops, data |-> items[fd].data] /\ items'[fd] \in Item
      /\ \A g \in Fd \ {fd} : items'[g] = items[g]
  BY <1>1, <1>3 DEF IInv, SelTypeOK, Item
<1>5. \A g \in Fd : Used(g)' <=> Used(g)  BY <1>3, <1>4, SelectorAssumption DEF Used
<1>6. Who' = Who /\ Who[fd] = kind[fd] /\ Who[fd] # "free"
  <2>1. Who' = Who  BY <1>2, <1>5 DEF Who
  <2> QED  BY <1>3, <2>1, WhoWants
<1>7. Wants' = [Wants EXCEPT ![fd] = ops]
  <2>1. (IF Used(fd)' THEN items'[fd].ops ELSE {}) = ops  BY <1>3, <1>4, <1>5
  <2>2. \A g \in Fd \ {fd} : (IF Used(g)' THEN items'[g].ops ELSE {})
                           = (IF Used(g) THEN items[g].ops ELSE {})
    BY <1>4, <1>5
  <2> QED  BY <2>1, <2>2 DEF Wants
<1>8. Handled # -1 /\ Handled' = Handled
  BY <1>2 DEF Handles, Handled, IInv, SelTypeOK, TurnInv, KeySound
<1>9. Ready!SetInterest(fd, ops)
  BY <1>1, <1>2, <1>6, <1>7, <1>8 DEF Ready!SetInterest, Who, Wants, Handled
<1>10. ops \in SUBSET Ready!Ops  BY <1>1 DEF Ready!Ops, Ops
<1> QED  BY <1>3, <1>9, <1>10 DEF Ready!Next

LEMMA SessionsCloseReady ==
  ASSUME IInv, IInv', NEW T \in SUBSET Sessions, \A s \in T : Alive(s), CloseSessions(T),
         turn' \in {turn, [turn EXCEPT !.phase = "scan"]}
  PROVE  Ready!Next
<1>1. PICK F \in SUBSET Fd : CloseFds(F)  BY SessionsClosed
<1>2. Handled' \in {Handled, -1}  BY DEF Handled, IInv, SelTypeOK
<1> QED  BY <1>1, <1>2, CloseReady DEF Ready!Next

LEMMA StepReady == IInv /\ IInv' /\ [SelNext]_selVars => [Ready!Next]_(Ready!vars)
<1> SUFFICES ASSUME IInv, IInv', [SelNext]_selVars  PROVE [Ready!Next]_(Ready!vars)  OBVIOUS
<1>1. CASE Select  BY <1>1, SelectReady DEF Ready!Next
<1>2. CASE Finished  BY <1>2, FinishReady DEF Ready!Next
<1>3. CASE Cleanup
  <2>1. PICK T \in SUBSET {s \in Proxies : Alive(s) /\ Used(sess[s].client)} : CloseSessions(T)
    BY <1>3 DEF Cleanup
  <2>2. T \in SUBSET Sessions /\ \A s \in T : Alive(s)  BY <2>1 DEF Sessions
  <2> QED  BY <1>3, <2>1, <2>2, SessionsCloseReady DEF Cleanup
<1>4. CASE Return  BY <1>4, ReturnReady DEF Ready!Next
<1>5. CASE \E fd \in Fd, op \in Ops : Call(fd, op)
  <2>1. PICK fd \in Fd, op \in Ops : Call(fd, op)  BY <1>5
  <2>2. Ready!Dispatch(fd, op)  BY <2>1, CallReady
  <2>3. op \in Ready!Ops  BY DEF Ready!Ops, Ops
  <2> QED  BY <2>2, <2>3 DEF Ready!Next
<1>6. CASE \E s \in Sessions : \/ Accept(s) \/ OpenRemote(s) \/ CloseRemote(s)
                               \/ SetInterest(s) \/ CloseOwn(s) \/ CloseUser(s)
  <2>1. PICK s \in Sessions : \/ Accept(s) \/ OpenRemote(s) \/ CloseRemote(s)
                              \/ SetInterest(s) \/ CloseOwn(s) \/ CloseUser(s)
    BY <1>6
  <2>2. CASE Accept(s)  BY <2>2, AcceptReady
  <2>3. CASE OpenRemote(s)  BY <2>3, OpenRemoteReady
  <2>4. CASE CloseRemote(s)
    <3>1. {turn.fd} \in SUBSET Fd /\ CloseFds({turn.fd}) /\ UNCHANGED turn
      BY <2>4 DEF CloseRemote, IInv, SelTypeOK
    <3>2. Handled' = Handled  BY <3>1 DEF Handled
    <3> QED  BY <3>1, <3>2, CloseReady DEF Ready!Next
  <2>5. CASE SetInterest(s)  BY <2>5, SetInterestReady
  <2>6. CASE CloseOwn(s)
    <3>1. {s} \in SUBSET Sessions /\ \A x \in {s} : Alive(x)  BY <2>6 DEF CloseOwn
    <3> QED  BY <2>6, <3>1, SessionsCloseReady DEF CloseOwn
  <2>7. CASE CloseUser(s)
    <3>1. PICK T \in SUBSET {x \in Sessions \ {s} : Alive(x) /\ Used(sess[x].client)} :
            CloseSessions(T)
      BY <2>7 DEF CloseUser
    <3>2. T \in SUBSET Sessions /\ \A x \in T : Alive(x)  BY <3>1
    <3> QED  BY <2>7, <3>1, <3>2, SessionsCloseReady DEF CloseUser
  <2> QED  BY <2>1, <2>2, <2>3, <2>4, <2>5, <2>6, <2>7
<1>7. CASE UNCHANGED selVars
  BY <1>7 DEF selVars, Ready!vars, Used
<1> QED  BY <1>1, <1>2, <1>3, <1>4, <1>5, <1>6, <1>7 DEF SelNext

\* The selector keeps the promise of ReadyEvents.
THEOREM SelectorImplementsReady == SelSpec => Refinement
BY InitReady, StepReady, Inductive, PTL DEF SelSpec, Refinement, Ready!Spec
=============================================================================
