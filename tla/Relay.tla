------------------------------- MODULE Relay -------------------------------
(***************************************************************************)
(* One SOCKS5 session from the moment it starts forwarding: the states     *)
(* FORWARDING, FLUSH_CLOSER and FLUSH_CLOSY, the read and write handlers   *)
(* of the two sockets, the part of the selector that calls them, the       *)
(* inactivity clean-up, and the two peers with the kernel between them.    *)
(*                                                                         *)
(* A direction is named by its source: buf["client"] is session->input     *)
(* (client to server), buf["server"] is session->output.  The bytes are    *)
(* abstracted to their count, a stream being fully described by how many   *)
(* bytes are at each stage; module Buffer keeps the bytes.                 *)
(***************************************************************************)
EXTENDS Integers, FiniteSets

CONSTANTS
  BufSize,         \* capacity of input and of output (sessionInputBufferSize)
  SockCap,         \* bytes the kernel holds for a peer that does not read
  MaxBytes,        \* bound: bytes each peer may send
  MaxClientBytes,  \* bound: with as many the client sends no more
  CleanupEnabled   \* args.cleanupEnable

ASSUME RelayAssumption ==
  /\ BufSize \in Nat \ {0}
  /\ SockCap \in Nat \ {0}
  /\ MaxBytes \in Nat
  /\ CleanupEnabled \in BOOLEAN

Sides == {"client", "server"}
Other(s) == IF s = "client" THEN "server" ELSE "client"
Ops == {"READ", "WRITE"}

VARIABLES
  st,        \* sessionStateMachine.current, "GONE" once the session is freed
  conn,      \* conn[s]: clientConnection.state / serverConnection.state
  buf,       \* buf[s]: offsets r <= w <= BufSize of the buffer s is read into
  interest,  \* interest[s]: what the selector watches the socket for
  ready,     \* ready[s]: rest of the slave fd_sets of the current iteration
  low,       \* the side whose fd number is lower, hence handled first
  pending,   \* bytes a send() blocked on the client socket still has to copy
  idle,      \* lastInteraction is older than maxSessionInactivity
  cause,     \* history: why the session ended
  shut,      \* shut[s]: shutdown(SHUT_WR) was called on s's socket
  sent,      \* sent[s]: bytes peer s has sent
  fin,       \* fin[s]: peer s has sent its FIN
  rst,       \* rst[s]: the connection with peer s was reset
  got,       \* got[s]: bytes received from s
  fwd,       \* fwd[s]: bytes from s accepted by the kernel for the other peer
  taken      \* taken[s]: bytes from s that the other peer has read

peerVars   == <<sent, fin, rst, taken>>
daemonVars == <<st, conn, buf, interest, ready, low, pending, cause, shut, got, fwd>>
vars       == <<st, conn, buf, interest, ready, low, pending, idle, cause,
                shut, sent, fin, rst, got, fwd, taken>>

Least(a, b) == IF a <= b THEN a ELSE b
-----------------------------------------------------------------------------
(* Buffers, sockets and selector masks.                                    *)

CanWrite(b) == b.w < BufSize
CanRead(b)  == b.r < b.w
Held(b)     == b.w - b.r
\* (a slip: one more than was received)
WriteAdvOffByOne(b, n) == [b EXCEPT !.w = @ + n + 1]
WriteAdv(b, n) == [b EXCEPT !.w = @ + n]
\* (slips: an emptied buffer is not rewound; a partial send drops the rest)
ReadAdvNoCompact(b, n) == [b EXCEPT !.r = @ + n]
ReadAdvDropsRest(b, n) == IF n > 0 THEN [r |-> 0, w |-> 0] ELSE b
\* buffer_read_adv compacts only a buffer that becomes empty.
ReadAdv(b, n) == IF b.r + n = b.w THEN [r |-> 0, w |-> 0]
                                  ELSE [b EXCEPT !.r = @ + n]

KernelRoom(s)     == SockCap - (fwd[Other(s)] - taken[Other(s)])
Readable(s) == got[s] < sent[s] \/ fin[s] \/ rst[s]
Writable(s) == KernelRoom(s) > 0 \/ rst[s]

Mask(reads, writes) == {op \in Ops : IF op = "READ" THEN reads ELSE writes}
NoInterest == [s \in Sides |-> {}]

\* (a slip: reading without room)
ForwardingInterestGreedy(b) ==
  [s \in Sides |-> Mask(TRUE, CanRead(b[Other(s)]))]

ForwardingInterest(b) ==
  [s \in Sides |-> Mask(CanWrite(b[s]), CanRead(b[Other(s)]))]
-----------------------------------------------------------------------------
Init ==
  /\ st = "FORWARDING"
  /\ conn = [s \in Sides |-> "OPEN"]
  \* Bytes the client sent behind its request are already in the input buffer.
  /\ \E r, w \in 0 .. BufSize :
        /\ r < w \/ (r = 0 /\ w = 0)
        /\ w - r <= MaxBytes
        /\ buf = [s \in Sides |-> IF s = "client" THEN [r |-> r, w |-> w]
                                                  ELSE [r |-> 0, w |-> 0]]
        /\ sent = [s \in Sides |-> IF s = "client" THEN w - r ELSE 0]
  /\ interest = ForwardingInterest(buf)
  /\ ready = NoInterest
  /\ low \in Sides
  /\ pending = 0
  /\ idle = FALSE
  /\ cause = "none"
  /\ shut = [s \in Sides |-> FALSE]
  /\ fin = [s \in Sides |-> FALSE]
  /\ rst = [s \in Sides |-> FALSE]
  /\ got = sent
  /\ fwd = [s \in Sides |-> 0]
  /\ taken = [s \in Sides |-> 0]
-----------------------------------------------------------------------------
(* The three states.  b and c are the buffers and the connection states as *)
(* the socket handler left them before it ran the state machine.           *)

\* (slips: the state is not updated; the wrong socket is shut down)
RelayEofForgets(c, S) ==
  /\ conn' = c
  /\ shut' = [s \in Sides |-> shut[s] \/ Other(s) \in S]
RelayEofWrongSide(c, S) ==
  /\ conn' = [s \in Sides |-> IF s \in S THEN "CLOSED" ELSE c[s]]
  /\ shut' = [s \in Sides |-> shut[s] \/ s \in S]
\* shutdown(SHUT_WR) of the peer of every side in S, whose stream has ended
\* and whose buffer is drained.
RelayEof(c, S) ==
  /\ conn' = [s \in Sides |-> IF s \in S THEN "CLOSED" ELSE c[s]]
  /\ shut' = [s \in Sides |-> shut[s] \/ Other(s) \in S]

Drained(b, c) == {s \in Sides : ~CanRead(b[s]) /\ c[s] = "CLOSING"}

\* socks5_close_session: every fd of the session is unregistered, so nothing
\* is left for it in this iteration.
EndSession(why) ==
  /\ st' = "GONE"
  /\ cause' = why
  /\ interest' = NoInterest
  /\ ready' = NoInterest
  /\ pending' = 0

\* The session goes on, with the rest of this iteration's events to handle.
Continue(state, rest) ==
  /\ st' = state
  /\ ready' = rest
  /\ pending' = 0
  /\ UNCHANGED cause

FlushCloserOnWrite(b, c) ==
  LET closy  == IF c["client"] = "OPEN" THEN "client" ELSE "server"
      closer == Other(closy)
  IN  /\ RelayEof(c, {closer} \cap Drained(b, c))
      /\ interest' =
           [s \in Sides |-> IF s = closy
                            THEN Mask(CanWrite(b[closy]), CanRead(b[closer]))
                            ELSE Mask(FALSE, CanRead(b[closy]))]

\* (a slip: write interest is never dropped)
ClosyInterestSticky(b) == [s \in Sides |-> {"WRITE"}]
ClosyInterest(b) == [s \in Sides |-> Mask(FALSE, CanRead(b[Other(s)]))]

\* flush_closer_on_read: s is the closy side, the one that had not closed.
FlushCloserOnRead(s, b, c, rest) ==
  \/ /\ c[s] = "CLOSING"
     /\ c[Other(s)] = "CLOSED" /\ ~CanRead(b[s])
     /\ RelayEof(c, {s})
     /\ EndSession("finish")
  \/ /\ c[s] = "CLOSING"
     /\ c[Other(s)] # "CLOSED" \/ CanRead(b[s])
     /\ Continue("FLUSH_CLOSY", rest)
     \* arrival runs flush_closy_on_write, but a FINISH would be ignored
     /\ RelayEof(c, Drained(b, c))
     /\ interest' = ClosyInterest(b)
  \/ /\ c[s] # "CLOSING"
     /\ Continue("FLUSH_CLOSER", rest)
     /\ interest' =
          [x \in Sides |->
             IF x = s THEN interest[x] \cup Mask(CanWrite(b[s]), FALSE)
             ELSE IF CanRead(b[s]) THEN {"WRITE"} ELSE interest[x]]
     /\ conn' = c
     /\ UNCHANGED shut

\* selector_state_machine_proccess_read after a recv() on side s
AfterRead(s, b, c, rest) ==
  /\ buf' = b
  /\ \/ /\ st = "FORWARDING"
        /\ \A x \in Sides : c[x] = "OPEN"
        /\ Continue(st, rest)
        /\ interest' = ForwardingInterest(b)
        /\ conn' = c
        /\ UNCHANGED shut
     \/ /\ st = "FORWARDING"
        /\ \E x \in Sides : c[x] # "OPEN"
        /\ Continue("FLUSH_CLOSER", rest)
        /\ FlushCloserOnWrite(b, c)  \* arrival
     \/ /\ st = "FLUSH_CLOSER"
        /\ FlushCloserOnRead(s, b, c, rest)

\* selector_state_machine_proccess_write after a send()
AfterWrite(b, rest) ==
  /\ buf' = b
  /\ \/ /\ st = "FORWARDING"
        /\ Continue(st, rest)
        /\ interest' = ForwardingInterest(b)
        /\ UNCHANGED <<conn, shut>>
     \/ /\ st = "FLUSH_CLOSER"
        /\ Continue(st, rest)
        /\ FlushCloserOnWrite(b, conn)
     \/ /\ st = "FLUSH_CLOSY"
        /\ RelayEof(conn, Drained(b, conn))
        /\ IF \A s \in Sides : conn'[s] = "CLOSED"
           THEN EndSession("finish")
           ELSE /\ Continue(st, rest)
                /\ interest' = ClosyInterest(b)
-----------------------------------------------------------------------------
(* The selector: one thread, one handler at a time, fds in ascending order *)
(* and the read handler of an fd before its write handler.                 *)

Running == st # "GONE" /\ pending = 0

Select ==
  /\ Running
  /\ ready = NoInterest
  /\ ready' = [s \in Sides |-> interest[s] \cap Mask(Readable(s), Writable(s))]
  /\ ready' # NoInterest
  /\ UNCHANGED <<st, conn, buf, interest, low, pending, idle, cause, shut,
                 got, fwd, peerVars>>

Turn(s, op) ==
  /\ Running
  /\ op \in ready[s]
  /\ op = "WRITE" => "READ" \notin ready[s]
  /\ s # low => ready[Other(s)] = {}

Rest(s, op) == [ready EXCEPT ![s] = @ \ {op}]

\* The interest may have changed since select() returned.
Skip(s, op) ==
  /\ Turn(s, op)
  /\ op \notin interest[s]
  /\ ready' = Rest(s, op)
  /\ UNCHANGED <<st, conn, buf, interest, low, pending, idle, cause, shut,
                 got, fwd, peerVars>>

\* socks5_client_read, socks5_server_read
ReadEvent(s) ==
  /\ Turn(s, "READ") /\ "READ" \in interest[s]
  /\ idle' = FALSE
  /\ \/ /\ ~CanWrite(buf[s])
        /\ EndSession("full")
        /\ UNCHANGED <<conn, buf, shut, got>>
     \/ /\ CanWrite(buf[s]) /\ got[s] < sent[s]
        /\ LET n == Least(sent[s] - got[s], BufSize - buf[s].w)
           IN  /\ got' = [got EXCEPT ![s] = @ + n]
               /\ AfterRead(s, [buf EXCEPT ![s] = WriteAdv(@, n)], conn,
                            Rest(s, "READ"))
     \/ /\ CanWrite(buf[s]) /\ got[s] = sent[s] /\ fin[s]
        /\ AfterRead(s, buf, [conn EXCEPT ![s] = "CLOSING"], Rest(s, "READ"))
        /\ UNCHANGED got
     \/ /\ CanWrite(buf[s]) /\ rst[s]
        /\ EndSession("error")
        /\ UNCHANGED <<conn, buf, shut, got>>
  /\ UNCHANGED <<low, fwd, peerVars>>

\* send() on a reset connection fails and the session is closed; with nothing
\* to send the handlers only run the state machine.
SendFails(s) ==
  /\ Turn(s, "WRITE") /\ "WRITE" \in interest[s]
  /\ rst[s] /\ CanRead(buf[Other(s)])
  /\ idle' = FALSE
  /\ EndSession("error")
  /\ UNCHANGED <<conn, buf, shut, got, fwd, low, peerVars>>

\* socks5_server_write: the socket is non-blocking, send() takes what fits.
ServerWrite ==
  LET n == Least(Held(buf["client"]), KernelRoom("server"))
  IN  /\ Turn("server", "WRITE") /\ "WRITE" \in interest["server"]
      /\ rst["server"] => ~CanRead(buf["client"])
      /\ idle' = FALSE
      /\ fwd' = [fwd EXCEPT !["client"] = @ + n]
      /\ AfterWrite([buf EXCEPT !["client"] = ReadAdv(@, n)],
                    Rest("server", "WRITE"))
      /\ UNCHANGED <<got, low, peerVars>>

\* socks5_client_write: the accepted socket is blocking, so send() returns
\* only when the whole buffer was copied; until then the daemon is stopped.
ClientWrite ==
  LET held == Held(buf["server"])
      n    == Least(held, KernelRoom("client"))
  IN  /\ Turn("client", "WRITE") /\ "WRITE" \in interest["client"]
      /\ rst["client"] => ~CanRead(buf["server"])
      /\ idle' = FALSE
      /\ fwd' = [fwd EXCEPT !["server"] = @ + n]
      /\ \/ /\ n = held
            /\ AfterWrite([buf EXCEPT !["server"] = ReadAdv(@, n)],
                          Rest("client", "WRITE"))
         \/ /\ n < held
            /\ pending' = held - n
            /\ ready' = Rest("client", "WRITE")
            /\ UNCHANGED <<st, conn, buf, interest, cause, shut>>
      /\ UNCHANGED <<got, low, peerVars>>

\* The blocked send() copies more as the client reads; a reset makes it
\* return the bytes copied so far.
ResumeSend ==
  LET held == Held(buf["server"])
      n    == IF rst["client"] THEN 0 ELSE Least(pending, KernelRoom("client"))
      done == [buf EXCEPT !["server"] = ReadAdv(@, held - (pending - n))]
  IN  /\ pending > 0
      /\ rst["client"] \/ KernelRoom("client") > 0
      /\ fwd' = [fwd EXCEPT !["server"] = @ + n]
      /\ \/ /\ rst["client"] \/ n = pending
            /\ AfterWrite(done, ready)
         \/ /\ ~rst["client"] /\ n < pending
            /\ pending' = pending - n
            /\ UNCHANGED <<st, conn, buf, interest, ready, cause, shut>>
      /\ UNCHANGED <<got, low, idle, peerVars>>

\* socks5_selector_cleanup, between two iterations of the main loop
Cleanup ==
  /\ CleanupEnabled
  /\ Running /\ ready = NoInterest
  /\ idle
  /\ EndSession("idle")
  /\ UNCHANGED <<conn, buf, low, idle, shut, got, fwd, peerVars>>
-----------------------------------------------------------------------------
(* The peers and the clock.                                                *)

PeerSend(s) ==
  /\ st # "GONE"
  /\ ~fin[s] /\ ~rst[s]
  /\ sent[s] < MaxBytes /\ (s = "client" => sent[s] < MaxClientBytes)
  /\ sent' = [sent EXCEPT ![s] = @ + 1]
  /\ UNCHANGED <<daemonVars, idle, fin, rst, taken>>

PeerFin(s) ==
  /\ st # "GONE"
  /\ ~fin[s] /\ ~rst[s]
  /\ fin' = [fin EXCEPT ![s] = TRUE]
  /\ UNCHANGED <<daemonVars, idle, sent, rst, taken>>

PeerReset(s) ==
  /\ st # "GONE"
  /\ ~rst[s]
  /\ rst' = [rst EXCEPT ![s] = TRUE]
  /\ UNCHANGED <<daemonVars, idle, sent, fin, taken>>

PeerRead(s) ==
  /\ st # "GONE"
  /\ ~rst[s] /\ taken[Other(s)] < fwd[Other(s)]
  /\ taken' = [taken EXCEPT ![Other(s)] = @ + 1]
  /\ UNCHANGED <<daemonVars, idle, sent, fin, rst>>

Tick ==
  /\ st # "GONE"
  /\ ~idle
  /\ idle' = TRUE
  /\ UNCHANGED <<daemonVars, peerVars>>

\* The session is freed: nothing more happens to it.
Ended == st = "GONE" /\ UNCHANGED vars

Handle ==
  \/ \E s \in Sides, op \in Ops : Skip(s, op)
  \/ \E s \in Sides : ReadEvent(s) \/ SendFails(s)
  \/ ServerWrite
  \/ ClientWrite
  \/ ResumeSend

Daemon == Select \/ Handle

Peer(s) == PeerSend(s) \/ PeerFin(s) \/ PeerReset(s) \/ PeerRead(s)

Next == Daemon \/ Cleanup \/ Tick \/ Ended \/ \E s \in Sides : Peer(s)

Spec == Init /\ [][Next]_vars
-----------------------------------------------------------------------------
(* Fairness.  The daemon's loop never stops by itself.  The client reads    *)
(* what it is sent, because a client that does not stops the daemon; peers  *)
(* owe nothing else, and what a property needs besides it names.            *)

FairSpec == /\ Spec
            /\ WF_vars(Daemon)
            /\ WF_vars(PeerRead("client"))
-----------------------------------------------------------------------------
(* Properties.                                                             *)

TypeOK ==
  /\ st \in {"FORWARDING", "FLUSH_CLOSER", "FLUSH_CLOSY", "GONE"}
  /\ conn \in [Sides -> {"OPEN", "CLOSING", "CLOSED"}]
  /\ buf \in [Sides -> [r : 0 .. BufSize, w : 0 .. BufSize]]
  /\ interest \in [Sides -> SUBSET Ops]
  /\ ready \in [Sides -> SUBSET Ops]
  /\ low \in Sides
  /\ pending \in 0 .. BufSize
  /\ idle \in BOOLEAN
  /\ cause \in {"none", "finish", "error", "full", "idle"}
  /\ shut \in [Sides -> BOOLEAN]
  /\ fin \in [Sides -> BOOLEAN]
  /\ rst \in [Sides -> BOOLEAN]
  /\ sent \in [Sides -> 0 .. MaxBytes]
  /\ got \in [Sides -> Nat]
  /\ fwd \in [Sides -> Nat]
  /\ taken \in [Sides -> Nat]

\* Between handlers, the selector watches a socket for exactly the work there
\* is: it is written to iff bytes wait for it (no lost wake-up, no busy loop),
\* and a side that has not ended is read whenever its buffer has room
\* (forwarding_calculate_and_set_new_fd_interest and the flush states).
InterestMatchesWork ==
  st # "GONE" =>
    \A s \in Sides :
      /\ "WRITE" \in interest[Other(s)] <=> CanRead(buf[s])
      /\ conn[s] = "OPEN" /\ CanWrite(buf[s]) => "READ" \in interest[s]
      /\ "READ" \in interest[s] => conn[s] = "OPEN"

\* A peer is shown the end of the other's stream (shutdown) only after every
\* byte of that stream was handed to the kernel (flushCloser.c, flushClosy.c).
EofAfterData ==
  \A s \in Sides : shut[Other(s)] => fin[s] /\ fwd[s] = sent[s]

\* A session that reaches FINISH has relayed both streams to their ends.
FinishIsComplete ==
  cause = "finish" => \A s \in Sides : shut[s] /\ fwd[s] = sent[s]

\* A side is in CLOSING only while bytes of its stream are still buffered.
\* flush_closy_on_arrival drops the FINISH its handler returns: without this
\* a session entering FLUSH_CLOSY drained would never be freed.
ClosingHasBytes ==
  st # "GONE" => \A s \in Sides : conn[s] = "CLOSING" => CanRead(buf[s])

\* The handlers' "no room to read into" close (socks5.c) never hits a session
\* both of whose peers are still open: forwarding stops reading in time.
FullOnlyAfterEof ==
  cause = "full" => \E s \in Sides : conn[s] # "OPEN"

\* Every byte received is in its buffer or was handed on, none twice.
BytesConserved ==
  \A s \in Sides :
    /\ taken[s] <= fwd[s] /\ got[s] <= sent[s]
    /\ got[s] - fwd[s] = IF s = "server" /\ pending > 0
                         THEN pending ELSE Held(buf[s])

\* The relay implements two lossless half-closable streams.
Pipe == INSTANCE HalfClosePipe WITH
          shown <- [s \in Sides |-> shut[Other(s)]],
          outcome <- CASE cause = "none" -> "open"
                       [] cause = "finish" -> "done"
                       [] OTHER -> "cut"
Refinement == Pipe!PipeSpec

\* Under FairSpec, if the server reads too: the end of a stream always reaches
\* the other peer, or the session is gone; no combination of flush states loses
\* a half-close.
HalfCloseRelayed ==
  WF_vars(PeerRead("server")) => \A s \in Sides : fin[s] ~> (shut[Other(s)] \/ st = "GONE")

\* Under FairSpec, if time passes and the main loop cleans up: no session
\* outlives its inactivity, whatever the server peer does; in particular no
\* handler runs for ever without progress.
IdleSessionEnds == WF_vars(Tick) /\ WF_vars(Cleanup) => <>(st = "GONE")

\* socksStateMachine.dot: a flush ends when no data is left in the buffers.
\* The code closes a session whose read buffer is full (see README).
FlushEndsDrained ==
  (st = "GONE" /\ cause \notin {"error", "idle"}) =>
    \A s \in Sides : ~CanRead(buf[s])
=============================================================================
