------------------------------ MODULE Selector ------------------------------
(***************************************************************************)
(* selector/selector.c with all that the daemon does with it: the item     *)
(* table and its size, the prototype fd_sets, max_fd, one iteration over   *)
(* what pselect() reported, and the handlers, which register, unregister   *)
(* and watch descriptors while the iteration goes on.  What a handler      *)
(* decides belongs to the other modules: here it may make any call that    *)
(* the code of its kind of socket makes, one step each.                    *)
(*                                                                         *)
(* The kernel hands out the lowest free number.  Numbers are reused within *)
(* an iteration, and from SetSize on they do not fit the table.            *)
(***************************************************************************)
EXTENDS Integers, FiniteSets, FiniteSetsExt

CONSTANTS
  FdLimit,          \* descriptors the process may have (RLIMIT_NOFILE)
  SetSize,          \* ITEMS_MAX_SIZE: FD_SETSIZE
  InitialElements,  \* SELECTOR_MAX_ENTRIES
  Listeners,        \* how many passive sockets, opened first: the lowest numbers
  Proxies,          \* sessions of the proxy
  Admins,           \* sessions of the administration
  MaxRemotes,       \* outgoing sockets of a proxy session at a time
  None              \* the data of a passive socket; no item; no session

Fd == 0 .. FdLimit - 1
Ops == {"READ", "WRITE"}
Sessions == Proxies \cup Admins
Item == [ops : SUBSET Ops, data : Sessions \cup {None}]

\* next_capacity
NextCapacity(n) ==
  Min({SetSize, CHOOSE p \in {2 ^ b : b \in 0 .. n} : p > n /\ p <= 2 * n}) + 1

ASSUME SelectorAssumption ==
  /\ FdLimit \in Nat /\ SetSize \in Nat /\ InitialElements \in Nat \ {0}
  /\ Listeners \in Nat \ {0} /\ Listeners <= SetSize /\ Listeners <= FdLimit
  /\ MaxRemotes \in Nat
  /\ Proxies \cap Admins = {} /\ None \notin Sessions
  /\ NextCapacity(InitialElements) \in Nat /\ SetSize <= NextCapacity(InitialElements)
  /\ None \notin Fd /\ None \notin Item

VARIABLES
  kind,    \* kind[fd]: the kernel's socket of that number, or "free"
  items,   \* fds[fd]: interest and data, or None if not used
  master,  \* master_r and master_w
  slave,   \* slave_r and slave_w, without what the iteration has passed
  maxFd,   \* max_fd
  fdSize,  \* fd_size
  turn,    \* the phase of the loop and the SelectorEvent key
  sess,    \* sess[s]: the descriptors session s believes it has
  seen     \* the part of slave that is of the socket that has the number now

selVars == <<kind, items, master, slave, maxFd, fdSize, turn, sess, seen>>
table == <<items, master, maxFd, fdSize>>

Kinds == {"listener", "accepted", "connecting", "connected"}
NoSession == [client |-> None, remotes |-> {}]
Used(fd) == items[fd] # None
Alive(s) == sess[s].client # None
FdsOf(s) == {sess[s].client} \cup sess[s].remotes
Nothing == [fd \in Fd |-> {}]
-----------------------------------------------------------------------------
(* The operations on the table.  INVALID_FD makes each of them return      *)
(* without effect, and the daemon looks at none of their results.          *)

FreeFds == {fd \in Fd : kind[fd] = "free"}
NewFd == Min(FreeFds)

\* (slips: any descriptor is accepted; max_fd is the last one registered)
RegisterUnchecked(fd, ops, data) ==
  /\ items' = [items EXCEPT ![fd] = [ops |-> ops, data |-> data]]
  /\ master' = [master EXCEPT ![fd] = ops]
  /\ maxFd' = Max({maxFd, fd})
  /\ UNCHANGED fdSize
RegisterLowersMax(fd, ops, data) ==
  IF fd >= SetSize \/ Used(fd) THEN UNCHANGED table
  ELSE /\ items' = [items EXCEPT ![fd] = [ops |-> ops, data |-> data]]
       /\ master' = [master EXCEPT ![fd] = ops]
       /\ maxFd' = fd
       /\ UNCHANGED fdSize
\* selector_register; ensure_capacity grows the table
Register(fd, ops, data) ==
  IF fd >= SetSize \/ Used(fd) THEN UNCHANGED table
  ELSE /\ fdSize' = IF fd > fdSize THEN NextCapacity(fd) ELSE fdSize
       /\ items' = [items EXCEPT ![fd] = [ops |-> ops, data |-> data]]
       /\ master' = [master EXCEPT ![fd] = ops]
       /\ maxFd' = Max({maxFd, fd})

\* selector_unregister_fd of each of F, with items_max_fd
Unregister(F) ==
  /\ items' = [fd \in Fd |-> IF fd \in F THEN None ELSE items[fd]]
  /\ master' = [fd \in Fd |-> IF fd \in F THEN {} ELSE master[fd]]
  /\ maxFd' = Max({0} \cup {fd \in 0 .. maxFd : items[fd] # None /\ fd \notin F})
  /\ UNCHANGED fdSize

\* the handle_close of each socket unregistered closes it
CloseFds(F) ==
  /\ Unregister(F)
  /\ kind' = [fd \in Fd |-> IF fd \in F THEN "free" ELSE kind[fd]]
  /\ seen' = [fd \in Fd |-> IF fd \in F THEN {} ELSE seen[fd]]

\* socks5_client_close and administration_close of the sessions in T.  A
\* descriptor that was never registered is not closed: its session is gone.
\* (slips: the outgoing sockets are forgotten, or only left registered)
CloseSessionsClientsOnly(T) ==
  /\ CloseFds({sess[s].client : s \in T})
  /\ sess' = [s \in Sessions |-> IF s \in T THEN NoSession ELSE sess[s]]
CloseSessionsUnregisteredOnly(T) ==
  LET F == UNION {FdsOf(s) : s \in T}
  IN  /\ Unregister({sess[s].client : s \in T})
      /\ kind' = [fd \in Fd |-> IF fd \in F THEN "free" ELSE kind[fd]]
      /\ seen' = [fd \in Fd |-> IF fd \in F THEN {} ELSE seen[fd]]
      /\ sess' = [s \in Sessions |-> IF s \in T THEN NoSession ELSE sess[s]]
CloseSessions(T) ==
  /\ CloseFds({fd \in UNION {FdsOf(s) : s \in T} : Used(fd)})
  /\ sess' = [s \in Sessions |-> IF s \in T THEN NoSession ELSE sess[s]]
-----------------------------------------------------------------------------
Passive == 0 .. Listeners - 1

SelInit ==
  /\ kind = [fd \in Fd |-> IF fd \in Passive THEN "listener" ELSE "free"]
  /\ items = [fd \in Fd |-> IF fd \in Passive
                            THEN [ops |-> {"READ"}, data |-> None] ELSE None]
  /\ master = [fd \in Fd |-> IF fd \in Passive THEN {"READ"} ELSE {}]
  /\ slave = Nothing
  /\ maxFd = Listeners - 1
  /\ fdSize = NextCapacity(InitialElements)
  /\ turn = [phase |-> "select", fd |-> -1, data |-> None]
  /\ sess = [s \in Sessions |-> NoSession]
  /\ seen = Nothing
-----------------------------------------------------------------------------
(* The loop of server.c: selector_select, then perhaps the clean-up.       *)

\* pselect() looks at the descriptors up to max_fd.
Select ==
  /\ turn.phase = "select"
  /\ slave' \in [Fd -> SUBSET Ops] /\ slave' # Nothing
  /\ \A fd \in Fd : slave'[fd] \subseteq IF fd <= maxFd THEN master[fd] ELSE {}
  /\ seen' = slave'
  /\ turn' = [phase |-> "scan", fd |-> -1, data |-> None]
  /\ UNCHANGED <<kind, table, sess>>

\* (a slip: the interest is not looked at again)
DueWhenSeen(fd, op) == Used(fd) /\ op \in slave[fd]
\* handle_iteration looks at the interest again, not at the readiness.
Due(fd, op) == Used(fd) /\ op \in items[fd].ops /\ op \in slave[fd]

\* by number, reading before writing
Rank(fd, op) == 2 * fd + (IF op = "WRITE" THEN 1 ELSE 0)
NextDue(fd, op) ==
  Due(fd, op) /\ \A g \in Fd, o \in Ops : Due(g, o) => Rank(fd, op) <= Rank(g, o)

Beyond(bits, fd, op) ==
  [g \in Fd |-> {o \in bits[g] : Rank(g, o) > Rank(fd, op)}]

\* (a slip: the key is filled in once per iteration)
KeyDataOnce(fd) == IF turn.fd # -1 THEN turn.data ELSE items[fd].data
\* key.data is read before the read handler and used for the write handler.
KeyData(fd) == IF turn.fd = fd THEN turn.data ELSE items[fd].data

Call(fd, op) ==
  /\ turn.phase = "scan" /\ NextDue(fd, op)
  /\ turn' = [phase |-> "call", fd |-> fd, data |-> KeyData(fd)]
  /\ slave' = Beyond(slave, fd, op) /\ seen' = Beyond(seen, fd, op)
  \* the first write of an outgoing socket: SO_ERROR is 0, it is taken for connected
  /\ kind' = [kind EXCEPT ![fd] =
                IF @ = "connecting" /\ op = "WRITE" THEN "connected" ELSE @]
  /\ UNCHANGED <<table, sess>>

Finished ==
  /\ turn.phase = "scan" /\ \A fd \in Fd, op \in Ops : ~Due(fd, op)
  /\ turn' = [turn EXCEPT !.phase = "select", !.fd = -1, !.data = None]
  /\ slave' = Nothing /\ seen' = Nothing
  /\ UNCHANGED <<kind, table, sess>>

\* socks5_selector_cleanup: idle sessions of the proxy
Cleanup ==
  /\ turn.phase = "select"
  /\ \E T \in SUBSET {s \in Proxies : Alive(s) /\ Used(sess[s].client)} :
        T # {} /\ CloseSessions(T)
  /\ UNCHANGED <<slave, turn>>
-----------------------------------------------------------------------------
(* The handlers.                                                           *)

Return ==
  /\ turn.phase = "call"
  /\ turn' = [turn EXCEPT !.phase = "scan"]
  /\ UNCHANGED <<kind, table, slave, sess, seen>>

\* socks5_passive_accept_*, admin_passive_accept_*; without a free number
\* accept() fails and the handler returns
Accept(s) ==
  /\ turn.phase = "call" /\ kind[turn.fd] = "listener"
  /\ ~Alive(s) /\ FreeFds # {}
  /\ kind' = [kind EXCEPT ![NewFd] = "accepted"]
  /\ sess' = [sess EXCEPT ![s].client = NewFd]
  /\ Register(NewFd, {"READ"}, s)
  /\ turn' = [turn EXCEPT !.phase = "scan"]
  /\ UNCHANGED <<slave, seen>>

Handles(s) == turn.phase = "call" /\ turn.data = s

\* new_ipv4_socket, new_ipv6_socket; socks5_register_server, socks5_register_dns
OpenRemote(s) ==
  /\ Handles(s) /\ s \in Proxies /\ Alive(s)
  /\ Cardinality(sess[s].remotes) < MaxRemotes /\ FreeFds # {}
  /\ kind' = [kind EXCEPT ![NewFd] = "connecting"]
  /\ sess' = [sess EXCEPT ![s].remotes = @ \cup {NewFd}]
  /\ Register(NewFd, {"WRITE"}, s)
  /\ UNCHANGED <<slave, turn, seen>>

\* a connection that failed or was used is closed by its own handler
CloseRemote(s) ==
  /\ Handles(s) /\ turn.fd \in sess[s].remotes
  /\ CloseFds({turn.fd})
  /\ sess' = [sess EXCEPT ![s].remotes = @ \ {turn.fd}]
  /\ UNCHANGED <<slave, turn>>

\* selector_set_interest and its variants, on any descriptor of the session
SetInterest(s) ==
  /\ Handles(s) /\ Alive(s)
  /\ \E fd \in {g \in FdsOf(s) : Used(g)}, ops \in SUBSET Ops :
       /\ kind[fd] = "connecting" => "READ" \notin ops
       /\ items' = [items EXCEPT ![fd].ops = ops]
       /\ master' = [master EXCEPT ![fd] = ops]
  /\ UNCHANGED <<kind, slave, maxFd, fdSize, turn, sess, seen>>

\* socks5_close_session, admin_close_session: the last thing a handler does
CloseOwn(s) ==
  /\ Handles(s) /\ Alive(s)
  /\ CloseSessions({s})
  /\ turn' = [turn EXCEPT !.phase = "scan"]
  /\ UNCHANGED slave

\* socks5_close_user_sessions, by an administrator
CloseUser(s) ==
  /\ Handles(s) /\ s \in Admins
  /\ \E T \in SUBSET {x \in Sessions \ {s} : Alive(x) /\ Used(sess[x].client)} :
        T # {} /\ CloseSessions(T)
  /\ UNCHANGED <<slave, turn>>

SelNext ==
  \/ Select \/ Finished \/ Cleanup \/ Return
  \/ \E fd \in Fd, op \in Ops : Call(fd, op)
  \/ \E s \in Sessions :
       \/ Accept(s) \/ OpenRemote(s) \/ CloseRemote(s)
       \/ SetInterest(s) \/ CloseOwn(s) \/ CloseUser(s)

SelSpec == SelInit /\ [][SelNext]_selVars
-----------------------------------------------------------------------------
(* Properties.                                                             *)

SelTypeOK ==
  /\ kind \in [Fd -> Kinds \cup {"free"}]
  /\ items \in [Fd -> {None} \cup Item]
  /\ master \in [Fd -> SUBSET Ops]
  /\ slave \in [Fd -> SUBSET Ops] /\ seen \in [Fd -> SUBSET Ops]
  /\ maxFd \in 0 .. SetSize - 1 /\ fdSize \in Nat
  /\ turn \in [phase : {"select", "scan", "call"}, fd : Fd \cup {-1},
               data : Sessions \cup {None}]
  /\ sess \in [Sessions -> [client : Fd \cup {None}, remotes : SUBSET Fd]]

\* The prototypes pselect() is given say what the items say, for descriptors
\* below max_fd and inside the table: nothing registered is ever unwatched, and
\* no operation touches an item outside the memory of the table.
TableSound ==
  \A fd \in Fd :
    IF Used(fd) THEN /\ master[fd] = items[fd].ops
                     /\ fd <= maxFd /\ fd < fdSize
                ELSE master[fd] = {}

\* Every watched descriptor is open: pselect() never fails with EBADF, which
\* would end the daemon with all its sessions (selector.c:634, server.c:172).
NoBadDescriptor == \A fd \in Fd : master[fd] # {} => kind[fd] # "free"

\* The sockets the sessions hold are the open ones, each held once and
\* registered for its session.  What is open and nobody's, or is held without
\* being watched, has a number that does not fit the fd_set: the result of
\* selector_register is ignored (socks5.c:163), and only those leak.
OwnedUnlessTooBig ==
  /\ \A fd \in Fd : kind[fd] \notin {"free", "listener"} =>
       fd >= SetSize \/ \E s \in Sessions : Alive(s) /\ fd \in FdsOf(s)
  /\ \A s \in Sessions : Alive(s) => \A fd \in FdsOf(s) :
       /\ kind[fd] \notin {"free", "listener"}
       /\ IF fd < SetSize THEN Used(fd) /\ items[fd].data = s ELSE ~Used(fd)
       /\ \A x \in Sessions \ {s} : Alive(x) => fd \notin FdsOf(x)

\* A handler is called with the session that holds the descriptor now, although
\* the data was read before another handler ran (selector.c:548).
CalledForHolder ==
  [][turn.phase = "scan" /\ turn'.phase = "call" =>
       IF kind[turn'.fd] = "listener" THEN turn'.data = None
       ELSE turn'.data \in Sessions /\ turn'.fd \in FdsOf(turn'.data)]_selVars

\* The handlers get the events that ReadyEvents promises.
Ready == INSTANCE ReadyEvents WITH
           who   <- [fd \in Fd |-> IF Used(fd) THEN kind[fd] ELSE "free"],
           wants <- [fd \in Fd |-> IF Used(fd) THEN items[fd].ops ELSE {}],
           due   <- seen,
           event <- IF turn.phase = "call" THEN turn.fd ELSE -1
Refinement == Ready!Spec
=============================================================================
