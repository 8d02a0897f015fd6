---------------------------- MODULE RelayProofs ----------------------------
(***************************************************************************)
(* The safety of the relay for every buffer size, socket capacity and      *)
(* number of bytes: the invariants TLC checks on Relay, proved.  And what  *)
(* the login reader it feeds (Spoofing) logs, for any conversations.       *)
(***************************************************************************)
EXTENDS Relay, Spoofing, ByteLemmas, TLAPS

\* Buffer offsets never cross.
BufferOrder == \A s \in Sides : buf[s].r <= buf[s].w

\* What each state of the machine says of the two connections.
Phases ==
  /\ st = "FORWARDING" => \A s \in Sides : conn[s] = "OPEN"
  /\ st = "FLUSH_CLOSER" => \E s \in Sides : /\ conn[s] = "OPEN"
                                             /\ conn[Other(s)] # "OPEN"
  /\ st = "FLUSH_CLOSY" => /\ \A s \in Sides : conn[s] # "OPEN"
                           /\ \E s \in Sides : conn[s] # "CLOSED"
  /\ st # "GONE" <=> cause = "none"
  /\ st = "GONE" => pending = 0 /\ ready = NoInterest /\ interest = NoInterest

\* A side leaves OPEN at its end of stream, and CLOSING when that was relayed.
Ends ==
  \A s \in Sides :
    /\ conn[s] # "OPEN" => fin[s] /\ got[s] = sent[s]
    /\ conn[s] = "CLOSED" => ~CanRead(buf[s])
    /\ shut[Other(s)] <=> conn[s] = "CLOSED"

\* A blocked send copies bytes of the output buffer.
BlockedSend == pending <= Held(buf["server"])

\* The kernel never holds more than it can for a peer.
RoomLeft == \A s \in Sides : KernelRoom(s) >= 0

\* While both streams run, the masks are exactly the buffers' state.
ForwardingWatches == st = "FORWARDING" => interest = ForwardingInterest(buf)

FinishClosed == cause = "finish" => \A s \in Sides : conn[s] = "CLOSED"

-----------------------------------------------------------------------------
LEMMA SidesFacts ==
  /\ "client" \in Sides /\ "server" \in Sides
  /\ \A s \in Sides : Other(s) \in Sides /\ Other(s) # s /\ Other(Other(s)) = s
  /\ \A s, x \in Sides : x = s \/ x = Other(s)
BY DEF Sides, Other

\* The masks each state computes.
LEMMA ForwardingMasks ==
  ASSUME NEW b
  PROVE  /\ ForwardingInterest(b) \in [Sides -> SUBSET Ops]
         /\ \A s \in Sides :
              /\ "READ" \in ForwardingInterest(b)[s] <=> CanWrite(b[s])
              /\ "WRITE" \in ForwardingInterest(b)[s] <=> CanRead(b[Other(s)])
BY DEF ForwardingInterest, Mask, Ops, CanWrite, CanRead

LEMMA ClosyMasks ==
  ASSUME NEW b
  PROVE  /\ ClosyInterest(b) \in [Sides -> SUBSET Ops]
         /\ \A s \in Sides :
              /\ "READ" \notin ClosyInterest(b)[s]
              /\ "WRITE" \in ClosyInterest(b)[s] <=> CanRead(b[Other(s)])
BY DEF ClosyInterest, Mask, Ops, CanRead

\* What the socket handlers do to a well-formed buffer.
BufferOK(b) == b \in [r : 0 .. BufSize, w : 0 .. BufSize] /\ b.r <= b.w

LEMMA BufferFacts ==
  ASSUME NEW b, BufferOK(b), NEW n \in Nat
  PROVE  /\ Held(b) \in Nat
         /\ CanRead(b) <=> Held(b) > 0
         /\ n <= BufSize - b.w => BufferOK(WriteAdv(b, n))
         /\ Held(WriteAdv(b, n)) = Held(b) + n
         /\ n <= Held(b) => BufferOK(ReadAdv(b, n))
         /\ n <= Held(b) => Held(ReadAdv(b, n)) = Held(b) - n
<1> USE RelayAssumption DEF BufferOK, Held
<1>1. b.r \in Nat /\ b.w \in Nat /\ b.r <= b.w /\ b.w <= BufSize
  OBVIOUS
<1>2. WriteAdv(b, n) = [r |-> b.r, w |-> b.w + n]
  BY DEF WriteAdv
<1>3. ReadAdv(b, n) = IF b.r + n = b.w THEN [r |-> 0, w |-> 0]
                                       ELSE [r |-> b.r + n, w |-> b.w]
  BY DEF ReadAdv
<1>4. Held(b) \in Nat /\ (CanRead(b) <=> Held(b) > 0)
  BY <1>1 DEF CanRead
<1>5. /\ n <= BufSize - b.w => BufferOK(WriteAdv(b, n))
      /\ Held(WriteAdv(b, n)) = Held(b) + n
  BY <1>1, <1>2
<1>6. /\ n <= Held(b) => BufferOK(ReadAdv(b, n))
      /\ n <= Held(b) => Held(ReadAdv(b, n)) = Held(b) - n
  BY <1>1, <1>3
<1> QED BY <1>4, <1>5, <1>6

-----------------------------------------------------------------------------
(* The part of the invariant that the state machine maintains; the rest    *)
(* counts bytes.                                                           *)

Machine ==
  /\ st \in {"FORWARDING", "FLUSH_CLOSER", "FLUSH_CLOSY", "GONE"}
  /\ cause \in {"none", "finish", "error", "full", "idle"}
  /\ conn \in [Sides -> {"OPEN", "CLOSING", "CLOSED"}]
  /\ interest \in [Sides -> SUBSET Ops]
  /\ ready \in [Sides -> SUBSET Ops]
  /\ Phases /\ Ends /\ ForwardingWatches /\ InterestMatchesWork
  /\ ClosingHasBytes /\ FinishClosed /\ FullOnlyAfterEof

LEMMA RelayEofEffect ==
  ASSUME NEW c \in [Sides -> {"OPEN", "CLOSING", "CLOSED"}],
         NEW S \in SUBSET Sides, RelayEof(c, S)
  PROVE  /\ conn' \in [Sides -> {"OPEN", "CLOSING", "CLOSED"}]
         /\ \A s \in Sides : /\ s \in S => conn'[s] = "CLOSED"
                             /\ s \notin S => conn'[s] = c[s]
                             /\ shut'[Other(s)] <=> shut[Other(s)] \/ s \in S
BY ZenonT(40), SidesFacts DEF RelayEof

\* socks5_close_session keeps the machine's invariant.
LEMMA EndSessionMachine ==
  ASSUME Machine, NEW why \in {"error", "full", "idle"}, EndSession(why),
         UNCHANGED <<conn, buf, shut, got, sent, fin>>,
         why = "full" => \E s \in Sides : conn[s] # "OPEN"
  PROVE  Machine'
<1> USE SidesFacts
<1>1. /\ interest' \in [Sides -> SUBSET Ops]
      /\ ready' \in [Sides -> SUBSET Ops]
  BY DEF EndSession, NoInterest
<1>2. /\ st' = "GONE" /\ cause' = why
      /\ Phases' /\ ForwardingWatches' /\ InterestMatchesWork' /\ ClosingHasBytes'
      /\ FinishClosed' /\ FullOnlyAfterEof'
  BY DEF EndSession, NoInterest, Phases, ForwardingWatches, InterestMatchesWork,
         ClosingHasBytes, FinishClosed, FullOnlyAfterEof
<1>3. Ends'
  BY DEF Machine, Ends
<1> QED BY <1>1, <1>2, <1>3 DEF Machine

\* A step that leaves the machine alone keeps its invariant.
LEMMA UntouchedMachine ==
  ASSUME Machine,
         UNCHANGED <<st, cause, conn, buf, interest, shut>>,
         ready' \in [Sides -> SUBSET Ops],
         st = "GONE" => ready' = ready /\ pending' = pending,
         \A s \in Sides : conn[s] # "OPEN" => fin'[s] /\ got'[s] = sent'[s]
  PROVE  Machine'
<1>1. Phases'
  BY DEF Machine, Phases
<1>2. Ends'
  BY DEF Machine, Ends
<1>3. ForwardingWatches' /\ InterestMatchesWork' /\ ClosingHasBytes'
  BY DEF Machine, ForwardingWatches, InterestMatchesWork, ClosingHasBytes
<1>4. FinishClosed' /\ FullOnlyAfterEof'
  BY DEF Machine, FinishClosed, FullOnlyAfterEof
<1> QED BY <1>1, <1>2, <1>3, <1>4 DEF Machine

\* on_write of FLUSH_CLOSER: what it leaves, given one open side.
LEMMA FlushCloserOnWriteMachine ==
  ASSUME NEW b, NEW c \in [Sides -> {"OPEN", "CLOSING", "CLOSED"}],
         NEW closy \in Sides, c[closy] = "OPEN", c[Other(closy)] # "OPEN",
         FlushCloserOnWrite(b, c), buf' = b,
         st' = "FLUSH_CLOSER", cause' = "none", ready' \in [Sides -> SUBSET Ops],
         \A s \in Sides : /\ c[s] # "OPEN" => fin'[s] /\ got'[s] = sent'[s]
                          /\ c[s] = "CLOSED" => ~CanRead(b[s])
                          /\ shut[Other(s)] <=> c[s] = "CLOSED"
  PROVE  Machine'
<1> DEFINE closer == Other(closy)
           S == {closer} \cap Drained(b, c)
<1> USE SidesFacts
<1>1. closer \in Sides /\ closer # closy /\ Other(closer) = closy
      /\ \A s \in Sides : s = closy \/ s = closer
  OBVIOUS
<1>2. closy = IF c["client"] = "OPEN" THEN "client" ELSE "server"
  BY DEF Sides, Other
<1>3. /\ RelayEof(c, S)
      /\ interest' =
           [s \in Sides |-> IF s = closy
                            THEN Mask(CanWrite(b[closy]), CanRead(b[closer]))
                            ELSE Mask(FALSE, CanRead(b[closy]))]
  BY <1>2 DEF FlushCloserOnWrite
<1>4. S \in SUBSET Sides
      /\ (closer \in S <=> ~CanRead(b[closer]) /\ c[closer] = "CLOSING")
      /\ closy \notin S
  BY <1>1 DEF Drained
<1> HIDE DEF S
<1>5. /\ conn' \in [Sides -> {"OPEN", "CLOSING", "CLOSED"}]
      /\ conn'[closy] = "OPEN"
      /\ closer \in S => conn'[closer] = "CLOSED"
      /\ closer \notin S => conn'[closer] = c[closer]
      /\ \A s \in Sides : shut'[Other(s)] <=> shut[Other(s)] \/ s \in S
  BY <1>1, <1>3, <1>4, RelayEofEffect
<1>6. /\ interest' \in [Sides -> SUBSET Ops]
      /\ "READ" \in interest'[closy] <=> CanWrite(b[closy])
      /\ "WRITE" \in interest'[closy] <=> CanRead(b[closer])
      /\ "READ" \notin interest'[closer]
      /\ "WRITE" \in interest'[closer] <=> CanRead(b[closy])
  BY <1>1, <1>3 DEF Mask, Ops, CanWrite, CanRead
<1>7. Phases' /\ ForwardingWatches' /\ FinishClosed' /\ FullOnlyAfterEof'
  BY <1>1, <1>4, <1>5 DEF Phases, ForwardingWatches, FinishClosed, FullOnlyAfterEof
<1>8. Ends'
  BY <1>1, <1>4, <1>5 DEF Ends
<1>9. InterestMatchesWork' /\ ClosingHasBytes'
  BY <1>1, <1>4, <1>5, <1>6 DEF InterestMatchesWork, ClosingHasBytes
<1> QED BY <1>5, <1>6, <1>7, <1>8, <1>9 DEF Machine

\* FLUSH_CLOSY, entered or written to, with not every stream drained.
LEMMA FlushClosyMachine ==
  ASSUME NEW b, NEW c \in [Sides -> {"OPEN", "CLOSING", "CLOSED"}],
         RelayEof(c, Drained(b, c)), interest' = ClosyInterest(b), buf' = b,
         st' = "FLUSH_CLOSY", cause' = "none", ready' \in [Sides -> SUBSET Ops],
         \E s \in Sides : conn'[s] # "CLOSED",
         \A s \in Sides : /\ c[s] # "OPEN" /\ fin'[s] /\ got'[s] = sent'[s]
                          /\ c[s] = "CLOSED" => ~CanRead(b[s])
                          /\ shut[Other(s)] <=> c[s] = "CLOSED"
  PROVE  Machine'
<1> USE SidesFacts
<1>1. /\ Drained(b, c) \in SUBSET Sides
      /\ \A s \in Sides :
           s \in Drained(b, c) <=> ~CanRead(b[s]) /\ c[s] = "CLOSING"
  BY DEF Drained
<1>2. /\ conn' \in [Sides -> {"OPEN", "CLOSING", "CLOSED"}]
      /\ \A s \in Sides :
           /\ s \in Drained(b, c) => conn'[s] = "CLOSED"
           /\ s \notin Drained(b, c) => conn'[s] = c[s]
           /\ shut'[Other(s)] <=> shut[Other(s)] \/ s \in Drained(b, c)
  BY <1>1, RelayEofEffect
<1>3. \A s \in Sides : conn'[s] # "OPEN"
  BY <1>2
<1>4. Phases' /\ ForwardingWatches' /\ FinishClosed' /\ FullOnlyAfterEof'
  BY <1>3 DEF Phases, ForwardingWatches, FinishClosed, FullOnlyAfterEof
<1>5. Ends'
  BY <1>1, <1>2 DEF Ends
<1>6. /\ interest' \in [Sides -> SUBSET Ops]
      /\ \A s \in Sides :
           /\ "READ" \notin interest'[s]
           /\ "WRITE" \in interest'[s] <=> CanRead(b[Other(s)])
  BY ClosyMasks
<1>7. InterestMatchesWork' /\ ClosingHasBytes'
  BY <1>1, <1>2, <1>3, <1>6 DEF InterestMatchesWork, ClosingHasBytes
<1> QED BY <1>2, <1>4, <1>5, <1>6, <1>7 DEF Machine

\* proccess_write, after some of the buffered bytes left one buffer.
LEMMA AfterWriteMachine ==
  ASSUME Machine, NEW b, NEW rest \in [Sides -> SUBSET Ops],
         st # "GONE", AfterWrite(b, rest),
         UNCHANGED <<got, sent, fin>>,
         \A s \in Sides : ~CanRead(buf[s]) => ~CanRead(b[s])
  PROVE  Machine'
<1> USE SidesFacts
<1>1. /\ buf' = b /\ cause = "none"
      /\ \A s \in Sides : /\ conn[s] # "OPEN" => fin'[s] /\ got'[s] = sent'[s]
                          /\ conn[s] = "CLOSED" => ~CanRead(b[s])
                          /\ shut[Other(s)] <=> conn[s] = "CLOSED"
  BY DEF AfterWrite, Machine, Ends, Phases
<1>2. CASE st = "FORWARDING"
  <2>1. /\ st' = st /\ cause' = cause /\ ready' = rest /\ conn' = conn
        /\ shut' = shut /\ interest' = ForwardingInterest(b)
    BY <1>2 DEF AfterWrite, Continue
  <2>2. \A s \in Sides : conn[s] = "OPEN"
    BY <1>2 DEF Machine, Phases
  <2>3. /\ interest' \in [Sides -> SUBSET Ops]
        /\ \A s \in Sides :
              /\ "READ" \in interest'[s] <=> CanWrite(b[s])
              /\ "WRITE" \in interest'[s] <=> CanRead(b[Other(s)])
    BY <2>1, ForwardingMasks
  <2>4. Phases' /\ ForwardingWatches' /\ FinishClosed' /\ FullOnlyAfterEof'
    BY <1>1, <1>2, <2>1, <2>2
       DEF Phases, ForwardingWatches, FinishClosed, FullOnlyAfterEof
  <2>5. Ends' /\ InterestMatchesWork' /\ ClosingHasBytes'
    BY <1>1, <1>2, <2>1, <2>2, <2>3 DEF Ends, InterestMatchesWork, ClosingHasBytes
  <2> QED BY <1>1, <1>2, <2>1, <2>3, <2>4, <2>5 DEF Machine
<1>3. CASE st = "FLUSH_CLOSER"
  <2>1. PICK closy \in Sides : conn[closy] = "OPEN" /\ conn[Other(closy)] # "OPEN"
    BY <1>3 DEF Machine, Phases
  <2>2. /\ st' = "FLUSH_CLOSER" /\ cause' = "none" /\ ready' = rest
        /\ FlushCloserOnWrite(b, conn)
    BY <1>1, <1>3 DEF AfterWrite, Continue
  <2> QED BY <1>1, <2>1, <2>2, FlushCloserOnWriteMachine DEF Machine
<1>4. CASE st = "FLUSH_CLOSY"
  <2>1. \A s \in Sides : conn[s] # "OPEN"
    BY <1>4 DEF Machine, Phases
  <2>2. RelayEof(conn, Drained(b, conn))
    BY <1>4 DEF AfterWrite
  <2>3. CASE \A s \in Sides : conn'[s] = "CLOSED"
    <3>1. EndSession("finish")
      BY <1>4, <2>3 DEF AfterWrite
    <3>2. /\ st' = "GONE" /\ cause' = "finish"
          /\ interest' \in [Sides -> SUBSET Ops]
          /\ ready' \in [Sides -> SUBSET Ops]
          /\ Phases' /\ ForwardingWatches' /\ InterestMatchesWork'
          /\ ClosingHasBytes' /\ FinishClosed' /\ FullOnlyAfterEof'
      BY <3>1, <2>3 DEF EndSession, NoInterest, Phases, ForwardingWatches,
         InterestMatchesWork, ClosingHasBytes, FinishClosed, FullOnlyAfterEof
    <3>3. /\ conn' \in [Sides -> {"OPEN", "CLOSING", "CLOSED"}]
          /\ \A s \in Sides :
               /\ s \notin Drained(b, conn) => conn'[s] = conn[s]
               /\ shut'[Other(s)] <=> shut[Other(s)] \/ s \in Drained(b, conn)
      BY <2>2, RelayEofEffect DEF Machine, Drained
    <3>4. Ends'
      BY <1>1, <2>1, <2>3, <3>3 DEF Ends, Drained
    <3> QED BY <3>2, <3>3, <3>4 DEF Machine
  <2>4. CASE \E s \in Sides : conn'[s] # "CLOSED"
    <3>1. /\ st' = "FLUSH_CLOSY" /\ cause' = "none" /\ ready' = rest
          /\ interest' = ClosyInterest(b)
      BY <1>1, <1>4, <2>4 DEF AfterWrite, Continue
    <3>2. \A s \in Sides : /\ conn[s] # "OPEN" /\ fin'[s] /\ got'[s] = sent'[s]
                           /\ conn[s] = "CLOSED" => ~CanRead(b[s])
                           /\ shut[Other(s)] <=> conn[s] = "CLOSED"
      BY <1>1, <2>1
    <3> QED BY <1>1, <2>2, <2>4, <3>1, <3>2, FlushClosyMachine DEF Machine
  <2> QED BY <2>3, <2>4
<1> QED BY <1>2, <1>3, <1>4 DEF Machine

\* proccess_read, after bytes or the end of its stream arrived on s.
LEMMA AfterReadMachine ==
  ASSUME Machine, NEW s \in Sides, NEW b, NEW rest \in [Sides -> SUBSET Ops],
         NEW c \in [Sides -> {"OPEN", "CLOSING", "CLOSED"}],
         AfterRead(s, b, c, rest),
         UNCHANGED <<sent, fin>>, got'[Other(s)] = got[Other(s)],
         conn[s] = "OPEN", c[s] \in {"OPEN", "CLOSING"},
         c[Other(s)] = conn[Other(s)],
         c[s] = "CLOSING" => fin'[s] /\ got'[s] = sent'[s],
         b[Other(s)] = buf[Other(s)],
         CanRead(buf[s]) => CanRead(b[s])
  PROVE  Machine'
<1> DEFINE o == Other(s)
<1> USE SidesFacts
<1>1. /\ o \in Sides /\ o # s /\ Other(o) = s
      /\ \A x \in Sides : x = s \/ x = o
  OBVIOUS
<1>2. st # "GONE" /\ buf' = b
  BY DEF AfterRead
<1>3. /\ cause = "none"
      /\ \A x \in Sides : /\ c[x] # "OPEN" => fin'[x] /\ got'[x] = sent'[x]
                          /\ c[x] = "CLOSED" => ~CanRead(b[x])
                          /\ shut[Other(x)] <=> c[x] = "CLOSED"
  BY <1>1, <1>2 DEF Machine, Phases, Ends
<1>4. CASE st = "FORWARDING" /\ \A x \in Sides : c[x] = "OPEN"
  <2>1. /\ st' = st /\ cause' = cause /\ ready' = rest /\ conn' = c
        /\ shut' = shut /\ interest' = ForwardingInterest(b)
    BY <1>4 DEF AfterRead, Continue
  <2>2. /\ interest' \in [Sides -> SUBSET Ops]
        /\ \A x \in Sides :
             /\ "READ" \in interest'[x] <=> CanWrite(b[x])
             /\ "WRITE" \in interest'[x] <=> CanRead(b[Other(x)])
    BY <2>1, ForwardingMasks
  <2>3. Phases' /\ ForwardingWatches' /\ FinishClosed' /\ FullOnlyAfterEof'
    BY <1>2, <1>3, <1>4, <2>1
       DEF Phases, ForwardingWatches, FinishClosed, FullOnlyAfterEof
  <2>4. Ends' /\ InterestMatchesWork' /\ ClosingHasBytes'
    BY <1>2, <1>3, <1>4, <2>1, <2>2 DEF Ends, InterestMatchesWork, ClosingHasBytes
  <2> QED BY <1>3, <1>4, <2>1, <2>2, <2>3, <2>4 DEF Machine
<1>5. CASE st = "FORWARDING" /\ \E x \in Sides : c[x] # "OPEN"
  <2>1. c[o] = "OPEN" /\ c[s] # "OPEN"
    BY <1>1, <1>5 DEF Machine, Phases
  <2>2. /\ st' = "FLUSH_CLOSER" /\ cause' = "none" /\ ready' = rest
        /\ FlushCloserOnWrite(b, c)
    BY <1>3, <1>5 DEF AfterRead, Continue
  <2> QED BY <1>1, <1>2, <1>3, <2>1, <2>2, FlushCloserOnWriteMachine
<1>6. CASE st = "FLUSH_CLOSER"
  <2>1. c[o] # "OPEN"
    BY <1>1, <1>6 DEF Machine, Phases
  <2>2. FlushCloserOnRead(s, b, c, rest)
    BY <1>6 DEF AfterRead
  <2>3. CASE c[s] = "CLOSING" /\ c[o] = "CLOSED" /\ ~CanRead(b[s])
    <3>1. RelayEof(c, {s}) /\ EndSession("finish")
      BY <2>2, <2>3 DEF FlushCloserOnRead
    <3>2. /\ conn' \in [Sides -> {"OPEN", "CLOSING", "CLOSED"}]
          /\ \A x \in Sides : /\ conn'[x] = "CLOSED"
                              /\ shut'[Other(x)]
      BY <1>1, <1>3, <2>3, <3>1, RelayEofEffect
    <3>3. /\ st' = "GONE" /\ cause' = "finish"
          /\ interest' \in [Sides -> SUBSET Ops]
          /\ ready' \in [Sides -> SUBSET Ops]
          /\ Phases' /\ ForwardingWatches' /\ InterestMatchesWork'
          /\ ClosingHasBytes' /\ FinishClosed' /\ FullOnlyAfterEof'
      BY <3>1, <3>2 DEF EndSession, NoInterest, Phases, ForwardingWatches,
         InterestMatchesWork, ClosingHasBytes, FinishClosed, FullOnlyAfterEof
    <3>4. Ends'
      BY <1>1, <1>2, <1>3, <2>3, <3>2 DEF Ends
    <3> QED BY <3>2, <3>3, <3>4 DEF Machine
  <2>4. CASE c[s] = "CLOSING" /\ (c[o] # "CLOSED" \/ CanRead(b[s]))
    <3>1. /\ st' = "FLUSH_CLOSY" /\ cause' = "none" /\ ready' = rest
          /\ RelayEof(c, Drained(b, c)) /\ interest' = ClosyInterest(b)
      BY <1>3, <2>2, <2>4 DEF FlushCloserOnRead, Continue
    <3>2. s \notin Drained(b, c) \/ (c[o] # "CLOSED" /\ o \notin Drained(b, c))
      <4>1. CASE CanRead(b[s])
        BY <4>1 DEF Drained
      <4>2. CASE c[o] # "CLOSED"
        BY <1>1, <1>2, <2>1, <4>2 DEF Machine, ClosingHasBytes, Drained
      <4> QED BY <2>4, <4>1, <4>2
    <3>3. \E x \in Sides : conn'[x] # "CLOSED"
      <4>1. \A x \in Sides : x \notin Drained(b, c) => conn'[x] = c[x]
        BY <3>1, RelayEofEffect DEF Drained
      <4> QED BY <1>1, <2>4, <3>2, <4>1
    <3> QED BY <1>1, <1>2, <1>3, <2>1, <2>4, <3>1, <3>3, FlushClosyMachine
  <2>5. CASE c[s] = "OPEN"
    <3>1. /\ st' = "FLUSH_CLOSER" /\ cause' = "none" /\ ready' = rest
          /\ conn' = c /\ shut' = shut
          /\ interest' =
               [x \in Sides |->
                  IF x = s THEN interest[x] \cup Mask(CanWrite(b[s]), FALSE)
                  ELSE IF CanRead(b[s]) THEN {"WRITE"} ELSE interest[x]]
      BY <1>3, <2>2, <2>5 DEF FlushCloserOnRead, Continue
    <3>2. /\ "WRITE" \in interest[o] <=> CanRead(buf[s])
          /\ "WRITE" \in interest[s] <=> CanRead(b[o])
          /\ "READ" \notin interest[o]
          /\ interest \in [Sides -> SUBSET Ops]
      BY <1>1, <1>2, <2>1 DEF Machine, InterestMatchesWork
    <3>3. /\ interest' \in [Sides -> SUBSET Ops]
          /\ "WRITE" \in interest'[s] <=> CanRead(b[o])
          /\ CanWrite(b[s]) => "READ" \in interest'[s]
          /\ "READ" \notin interest'[o]
          /\ "WRITE" \in interest'[o] <=> CanRead(b[s])
      BY <1>1, <3>1, <3>2 DEF Mask, Ops, CanWrite, CanRead
    <3>4. Phases' /\ ForwardingWatches' /\ FinishClosed' /\ FullOnlyAfterEof'
      BY <1>1, <2>1, <2>5, <3>1
         DEF Phases, ForwardingWatches, FinishClosed, FullOnlyAfterEof
    <3>5. Ends' /\ ClosingHasBytes'
      BY <1>1, <1>2, <1>3, <1>6, <2>1, <2>5, <3>1
         DEF Machine, Ends, ClosingHasBytes
    <3>6. InterestMatchesWork'
      BY ZenonT(40), <1>1, <1>2, <2>1, <2>5, <3>1, <3>3 DEF InterestMatchesWork
    <3> QED BY <3>1, <3>3, <3>4, <3>5, <3>6 DEF Machine
  <2> QED BY <2>3, <2>4, <2>5
<1> QED BY <1>4, <1>5, <1>6 DEF AfterRead
-----------------------------------------------------------------------------
(* The part of the invariant that counts bytes, and the flags.             *)

Counts ==
  /\ buf \in [Sides -> [r : 0 .. BufSize, w : 0 .. BufSize]]
  /\ pending \in 0 .. BufSize
  /\ sent \in [Sides -> 0 .. MaxBytes]
  /\ got \in [Sides -> Nat] /\ fwd \in [Sides -> Nat] /\ taken \in [Sides -> Nat]
  /\ BufferOrder /\ BlockedSend /\ RoomLeft /\ BytesConserved

Flags ==
  /\ low \in Sides /\ idle \in BOOLEAN
  /\ shut \in [Sides -> BOOLEAN]
  /\ fin \in [Sides -> BOOLEAN] /\ rst \in [Sides -> BOOLEAN]

IInv == Machine /\ Counts /\ Flags

LEMMA RelayEofFlags ==
  ASSUME NEW c, NEW S, RelayEof(c, S)
  PROVE  shut' \in [Sides -> BOOLEAN]
BY DEF RelayEof

LEMMA AfterReadFrame ==
  ASSUME NEW s \in Sides, NEW b, NEW c, NEW rest, AfterRead(s, b, c, rest)
  PROVE  /\ buf' = b /\ pending' = 0
         /\ shut \in [Sides -> BOOLEAN] => shut' \in [Sides -> BOOLEAN]
<1>1. CASE st = "FORWARDING"
  BY <1>1, RelayEofFlags DEF AfterRead, Continue, FlushCloserOnWrite
<1>2. CASE st = "FLUSH_CLOSER"
  BY <1>2, RelayEofFlags DEF AfterRead, FlushCloserOnRead, Continue, EndSession
<1> QED BY <1>1, <1>2 DEF AfterRead

LEMMA AfterWriteFrame ==
  ASSUME NEW b, NEW rest, AfterWrite(b, rest)
  PROVE  /\ buf' = b /\ pending' = 0
         /\ shut \in [Sides -> BOOLEAN] => shut' \in [Sides -> BOOLEAN]
<1>1. CASE st = "FORWARDING"
  BY <1>1 DEF AfterWrite, Continue
<1>2. CASE st = "FLUSH_CLOSER"
  BY <1>2, RelayEofFlags DEF AfterWrite, Continue, FlushCloserOnWrite
<1>3. CASE st = "FLUSH_CLOSY"
  BY <1>3, RelayEofFlags DEF AfterWrite, Continue, EndSession
<1> QED BY <1>1, <1>2, <1>3 DEF AfterWrite

\* Bytes n read from s into its buffer.
LEMMA ReceiveCounts ==
  ASSUME Counts, NEW s \in Sides, NEW n \in Nat,
         n <= sent[s] - got[s], n <= BufSize - buf[s].w,
         buf' = [buf EXCEPT ![s] = WriteAdv(@, n)],
         got' = [got EXCEPT ![s] = @ + n],
         pending = 0, pending' = 0,
         UNCHANGED <<sent, fwd, taken>>
  PROVE  Counts'
<1> USE SidesFacts, RelayAssumption
<1>1. \A x \in Sides : BufferOK(buf[x])
  BY DEF Counts, BufferOrder, BufferOK
<1>2. /\ BufferOK(buf'[s]) /\ Held(buf'[s]) = Held(buf[s]) + n
      /\ \A x \in Sides : x # s => buf'[x] = buf[x]
  BY <1>1, BufferFacts DEF Counts
<1>3. \A x \in Sides : BufferOK(buf'[x])
  BY <1>1, <1>2
<1>4. /\ buf' \in [Sides -> [r : 0 .. BufSize, w : 0 .. BufSize]]
      /\ BufferOrder'
  <2>1. buf' = [x \in Sides |-> buf'[x]]
    BY DEF Counts
  <2> QED BY <1>3, <2>1 DEF BufferOK, BufferOrder
<1>5. got' \in [Sides -> Nat] /\ got'[s] = got[s] + n
      /\ \A x \in Sides : x # s => got'[x] = got[x]
  BY DEF Counts
<1>6. BlockedSend' /\ RoomLeft'
  BY <1>3, BufferFacts DEF Counts, BlockedSend, RoomLeft, KernelRoom
<1>7. \A x \in Sides : Held(buf[x]) \in Nat
  BY <1>1, BufferFacts
<1>8. BytesConserved'
  BY <1>2, <1>5, <1>7 DEF Counts, BytesConserved
<1> QED BY <1>4, <1>5, <1>6, <1>8 DEF Counts

\* k bytes of src's stream handed to the kernel; a send() that stays blocked
\* leaves the buffer alone and keeps what it still has to copy in pending.
LEMMA SendCounts ==
  ASSUME Counts, NEW src \in Sides, NEW k \in Nat, NEW b, BufferOK(b),
         buf' = [buf EXCEPT ![src] = b],
         fwd' = [fwd EXCEPT ![src] = @ + k], k <= KernelRoom(Other(src)),
         pending' \in 0 .. BufSize,
         src = "client" => pending = 0 /\ pending' = 0,
         src = "server" => pending' <= Held(b),
         (IF pending > 0 THEN pending ELSE Held(buf[src])) - k
           = IF pending' > 0 THEN pending' ELSE Held(b),
         UNCHANGED <<sent, got, taken>>
  PROVE  Counts'
<1> USE SidesFacts, RelayAssumption
<1>1. \A x \in Sides : BufferOK(buf[x]) /\ Held(buf[x]) \in Nat
  BY BufferFacts DEF Counts, BufferOrder, BufferOK
<1>2. /\ buf'[src] = b /\ Held(b) \in Nat
      /\ \A x \in Sides : x # src => buf'[x] = buf[x]
  BY BufferFacts DEF Counts
<1>3. /\ buf' \in [Sides -> [r : 0 .. BufSize, w : 0 .. BufSize]]
      /\ BufferOrder'
  BY <1>1, <1>2 DEF BufferOK, BufferOrder, Counts
<1>4. /\ fwd' \in [Sides -> Nat] /\ fwd'[src] = fwd[src] + k
      /\ \A x \in Sides : x # src => fwd'[x] = fwd[x]
  BY DEF Counts
<1>5. RoomLeft'
  BY <1>4 DEF Counts, RoomLeft, KernelRoom
<1>6. BlockedSend'
  <2>1. CASE src = "server"
    BY <1>2, <2>1 DEF BlockedSend
  <2>2. CASE src = "client"
    BY <1>1, <1>2, <2>2 DEF BlockedSend
  <2> QED BY <2>1, <2>2 DEF Sides
<1>7. BytesConserved'
  <2>1. CASE src = "server"
    BY <1>1, <1>2, <1>4, <2>1 DEF Counts, BytesConserved, Sides
  <2>2. CASE src = "client"
    BY <1>1, <1>2, <1>4, <2>2 DEF Counts, BytesConserved, Sides
  <2> QED BY <2>1, <2>2 DEF Sides
<1> QED BY <1>3, <1>4, <1>5, <1>6, <1>7 DEF Counts

\* The daemon's buffers and counters are left alone.
LEMMA UntouchedCounts ==
  ASSUME Counts, UNCHANGED <<buf, got, fwd>>,
         pending' = pending \/ (pending = 0 /\ pending' = 0),
         sent' \in [Sides -> 0 .. MaxBytes], taken' \in [Sides -> Nat],
         \A s \in Sides : sent[s] <= sent'[s] /\ taken[s] <= taken'[s]
                          /\ taken'[s] <= fwd[s]
  PROVE  Counts'
<1> USE SidesFacts, RelayAssumption
<1>1. BufferOrder' /\ BlockedSend'
  BY DEF Counts, BufferOrder, BlockedSend
<1>2. RoomLeft'
  BY DEF Counts, RoomLeft, KernelRoom
<1>3. BytesConserved'
  BY DEF Counts, BytesConserved
<1> QED BY <1>1, <1>2, <1>3 DEF Counts
-----------------------------------------------------------------------------
LEMMA RestType ==
  ASSUME ready \in [Sides -> SUBSET Ops], NEW s, NEW op
  PROVE  Rest(s, op) \in [Sides -> SUBSET Ops]
BY DEF Rest

LEMMA LeastFacts ==
  ASSUME NEW x \in Nat, NEW y \in Nat
  PROVE  Least(x, y) \in Nat /\ Least(x, y) <= x /\ Least(x, y) <= y
         /\ (Least(x, y) = x \/ Least(x, y) = y)
BY DEF Least

\* Facts about a state of the invariant used by every handler.
LEMMA StateFacts ==
  ASSUME IInv
  PROVE  /\ \A s \in Sides : BufferOK(buf[s]) /\ Held(buf[s]) \in Nat
         /\ \A s \in Sides : KernelRoom(s) \in Nat
         /\ \A s \in Sides : sent[s] \in Nat /\ got[s] \in Nat /\ got[s] <= sent[s]
         /\ \A s \in Sides : "READ" \in interest[s] /\ st # "GONE" => conn[s] = "OPEN"
         /\ st = "GONE" => pending = 0 /\ ready = NoInterest
<1> USE SidesFacts, RelayAssumption
<1>1. \A s \in Sides : BufferOK(buf[s]) /\ Held(buf[s]) \in Nat
  BY BufferFacts DEF IInv, Counts, BufferOrder, BufferOK
<1>2. \A s \in Sides : KernelRoom(s) \in Nat
  BY DEF IInv, Counts, RoomLeft, KernelRoom
<1>3. \A s \in Sides : sent[s] \in Nat /\ got[s] \in Nat /\ got[s] <= sent[s]
  BY DEF IInv, Counts, BytesConserved
<1>4. \A s \in Sides : "READ" \in interest[s] /\ st # "GONE" => conn[s] = "OPEN"
  BY DEF IInv, Machine, InterestMatchesWork
<1>5. st = "GONE" => pending = 0 /\ ready = NoInterest
  BY DEF IInv, Machine, Phases
<1> QED BY <1>1, <1>2, <1>3, <1>4, <1>5

LEMMA ReadEventInv ==
  ASSUME IInv, NEW s \in Sides, ReadEvent(s)
  PROVE  IInv'
<1> USE SidesFacts, RelayAssumption
<1>1. /\ st # "GONE" /\ pending = 0 /\ "READ" \in interest[s]
      /\ conn[s] = "OPEN"
      /\ UNCHANGED <<low, fwd, sent, fin, rst, taken>> /\ idle' = FALSE
  BY StateFacts DEF ReadEvent, Turn, Running, peerVars
<1>2. Rest(s, "READ") \in [Sides -> SUBSET Ops]
  BY RestType DEF IInv, Machine
<1>3. /\ conn \in [Sides -> {"OPEN", "CLOSING", "CLOSED"}]
      /\ buf \in [Sides -> [r : 0 .. BufSize, w : 0 .. BufSize]]
      /\ got \in [Sides -> Nat]
  BY DEF IInv, Machine, Counts
<1>4. ASSUME NEW why \in {"full", "error"}, EndSession(why),
             why = "full" => ~CanWrite(buf[s]),
             UNCHANGED <<conn, buf, shut, got>>
      PROVE  IInv'
  <2>1. why = "full" => \E x \in Sides : conn[x] # "OPEN"
    <3>1. CASE st = "FORWARDING"
      BY <1>1, <1>4, <3>1, ForwardingMasks DEF IInv, Machine, ForwardingWatches
    <3>2. CASE st \in {"FLUSH_CLOSER", "FLUSH_CLOSY"}
      BY <3>2 DEF IInv, Machine, Phases
    <3> QED BY <1>1, <3>1, <3>2 DEF IInv, Machine
  <2>2. Machine'
    BY <1>1, <1>4, <2>1, EndSessionMachine DEF IInv
  <2>3. Counts'
    BY <1>1, <1>4, UntouchedCounts
       DEF IInv, EndSession, Counts, BytesConserved
  <2>4. Flags'
    BY <1>1, <1>4 DEF IInv, Flags
  <2> QED BY <2>2, <2>3, <2>4 DEF IInv
<1>5. CASE ~CanWrite(buf[s]) /\ EndSession("full") /\ UNCHANGED <<conn, buf, shut, got>>
  BY <1>4, <1>5
<1>6. CASE CanWrite(buf[s]) /\ rst[s] /\ EndSession("error")
           /\ UNCHANGED <<conn, buf, shut, got>>
  BY <1>4, <1>6
<1>7. ASSUME CanWrite(buf[s]), got[s] < sent[s],
             NEW n, n = Least(sent[s] - got[s], BufSize - buf[s].w),
             got' = [got EXCEPT ![s] = @ + n],
             AfterRead(s, [buf EXCEPT ![s] = WriteAdv(@, n)], conn, Rest(s, "READ"))
      PROVE  IInv'
  <2> DEFINE b == [buf EXCEPT ![s] = WriteAdv(@, n)]
  <2>1. /\ n \in Nat /\ n <= sent[s] - got[s] /\ n <= BufSize - buf[s].w
        /\ BufferOK(buf[s])
    <3>1. sent[s] - got[s] \in Nat /\ BufferOK(buf[s])
      BY StateFacts
    <3>2. BufSize - buf[s].w \in Nat
      BY <1>7, <3>1 DEF CanWrite, BufferOK
    <3> QED BY ONLY <1>7, <3>1, <3>2 DEF Least
  <2>2. /\ buf' = b /\ pending' = 0
        /\ shut' \in [Sides -> BOOLEAN]
    BY <1>7, AfterReadFrame DEF IInv, Flags
  <2>3. Counts'
    BY ZenonT(30), <1>1, <1>7, <2>1, <2>2, ReceiveCounts DEF IInv
  <2>4. /\ b[Other(s)] = buf[Other(s)] /\ got'[Other(s)] = got[Other(s)]
        /\ b[s] = WriteAdv(buf[s], n)
    BY <1>3, <1>7
  <2>5. CanRead(buf[s]) => CanRead(b[s])
    BY <2>1, <2>4, BufferFacts DEF WriteAdv, CanRead, BufferOK
  <2> HIDE DEF b
  <2>6. Machine'
    BY <1>1, <1>2, <1>3, <1>7, <2>4, <2>5, AfterReadMachine DEF IInv, b
  <2>7. Flags'
    BY <1>1, <2>2 DEF IInv, Flags
  <2> QED BY <2>3, <2>6, <2>7 DEF IInv
<1>8. CASE /\ CanWrite(buf[s]) /\ got[s] = sent[s] /\ fin[s]
           /\ AfterRead(s, buf, [conn EXCEPT ![s] = "CLOSING"], Rest(s, "READ"))
           /\ UNCHANGED got
  <2> DEFINE c == [conn EXCEPT ![s] = "CLOSING"]
  <2>1. /\ buf' = buf /\ pending' = 0
        /\ shut' \in [Sides -> BOOLEAN]
    BY <1>8, AfterReadFrame DEF IInv, Flags
  <2>2. Counts'
    BY <1>1, <1>8, <2>1, UntouchedCounts DEF IInv, Counts, BytesConserved
  <2>3. /\ c \in [Sides -> {"OPEN", "CLOSING", "CLOSED"}]
        /\ c[s] = "CLOSING" /\ c[Other(s)] = conn[Other(s)]
        /\ fin'[s] /\ got'[s] = sent'[s]
    BY <1>1, <1>3, <1>8
  <2> HIDE DEF c
  <2>4. Machine'
    BY <1>1, <1>2, <1>8, <2>3, AfterReadMachine DEF IInv, c
  <2>5. Flags'
    BY <1>1, <2>1 DEF IInv, Flags
  <2> QED BY <2>2, <2>4, <2>5 DEF IInv
<1> QED BY <1>5, <1>6, <1>7, <1>8 DEF ReadEvent

LEMMA SendFailsInv ==
  ASSUME IInv, NEW s \in Sides, SendFails(s)
  PROVE  IInv'
<1>1. /\ EndSession("error") /\ pending = 0 /\ idle' = FALSE
      /\ UNCHANGED <<conn, buf, shut, got, fwd, low, sent, fin, rst, taken>>
  BY DEF SendFails, Turn, Running, peerVars
<1>2. Machine'
  BY <1>1, EndSessionMachine DEF IInv
<1>3. Counts'
  BY <1>1, UntouchedCounts DEF IInv, EndSession, Counts, BytesConserved
<1>4. Flags'
  BY <1>1 DEF IInv, Flags
<1> QED BY <1>2, <1>3, <1>4 DEF IInv

\* Handlers that send: the bytes counted, then the state machine.
LEMMA SendEventInv ==
  ASSUME IInv, NEW src \in Sides, NEW k \in Nat, NEW n \in Nat,
         NEW rest \in [Sides -> SUBSET Ops],
         st # "GONE", n <= Held(buf[src]), k <= KernelRoom(Other(src)),
         src = "client" => pending = 0,
         (IF pending > 0 THEN pending ELSE Held(buf[src])) - k = Held(buf[src]) - n,
         fwd' = [fwd EXCEPT ![src] = @ + k],
         AfterWrite([buf EXCEPT ![src] = ReadAdv(@, n)], rest),
         UNCHANGED <<got, low, peerVars>>, idle' \in BOOLEAN
  PROVE  IInv'
<1> DEFINE d == ReadAdv(buf[src], n)
           b == [buf EXCEPT ![src] = d]
<1> USE SidesFacts, RelayAssumption
<1>1. /\ buf' = b /\ pending' = 0 /\ shut' \in [Sides -> BOOLEAN]
  BY AfterWriteFrame DEF IInv, Flags
<1>2. BufferOK(buf[src]) /\ Held(buf[src]) \in Nat
  BY StateFacts
<1>3. BufferOK(d) /\ Held(d) = Held(buf[src]) - n
  BY <1>2, BufferFacts
<1>4. CanRead(d) => CanRead(buf[src])
  BY <1>2, <1>3, BufferFacts
<1>5. b[src] = d /\ \A s \in Sides : s # src => b[s] = buf[s]
  BY DEF IInv, Counts
<1>6. \A s \in Sides : ~CanRead(buf[s]) => ~CanRead(b[s])
  BY <1>4, <1>5
<1>7. AfterWrite(b, rest)
  OBVIOUS
<1> HIDE DEF d
<1>8. Counts'
  <2>1. Counts /\ UNCHANGED <<sent, got, taken>>
    BY DEF IInv, peerVars
  <2>2. /\ pending' \in 0 .. BufSize /\ (src = "server" => pending' <= Held(d))
        /\ (src = "client" => pending = 0 /\ pending' = 0)
        /\ (IF pending > 0 THEN pending ELSE Held(buf[src])) - k
             = IF pending' > 0 THEN pending' ELSE Held(d)
    BY <1>1, <1>2, <1>3
  <2> QED BY ONLY <1>1, <1>3, <2>1, <2>2, SendCounts, k \in Nat, src \in Sides,
       k <= KernelRoom(Other(src)), fwd' = [fwd EXCEPT ![src] = @ + k]
<1> HIDE DEF b
<1>9. Machine'
  BY <1>6, <1>7, AfterWriteMachine DEF IInv, peerVars
<1>10. Flags'
  BY <1>1 DEF IInv, Flags, peerVars
<1> QED BY <1>8, <1>9, <1>10 DEF IInv

\* A send() on the blocking client socket that stays blocked.
LEMMA BlockInv ==
  ASSUME IInv, NEW k \in Nat, k <= KernelRoom("client"),
         fwd' = [fwd EXCEPT !["server"] = @ + k],
         pending' \in 1 .. BufSize, pending' <= Held(buf["server"]),
         (IF pending > 0 THEN pending ELSE Held(buf["server"])) - k = pending',
         st # "GONE", ready' \in [Sides -> SUBSET Ops],
         UNCHANGED <<st, conn, buf, interest, cause, shut, got, low, peerVars>>,
         idle' \in BOOLEAN
  PROVE  IInv'
<1> USE SidesFacts, RelayAssumption
<1>1. Machine'
  BY UntouchedMachine DEF IInv, Machine, Ends, peerVars
<1>2. BufferOK(buf["server"]) /\ buf' = [buf EXCEPT !["server"] = buf["server"]]
  BY StateFacts DEF IInv, Counts
<1>3. Other("server") = "client"
  BY DEF Other
<1>4. Counts'
  <2>1. Counts /\ UNCHANGED <<sent, got, taken>>
    BY DEF IInv, peerVars
  <2>2. /\ pending' \in 0 .. BufSize
        /\ (IF pending > 0 THEN pending ELSE Held(buf["server"])) - k
             = IF pending' > 0 THEN pending' ELSE Held(buf["server"])
    OBVIOUS
  <2>3. "server" \in Sides /\ "server" # "client"
    BY DEF Sides
  <2> DEFINE d == buf["server"]
  <2>4. /\ BufferOK(d) /\ buf' = [buf EXCEPT !["server"] = d]
        /\ pending' <= Held(d)
        /\ (IF pending > 0 THEN pending ELSE Held(buf["server"])) - k
             = IF pending' > 0 THEN pending' ELSE Held(d)
    BY <1>2, <2>2
  <2> HIDE DEF d
  <2> QED BY ONLY <1>3, <2>1, <2>2, <2>3, <2>4, SendCounts, k \in Nat,
       k <= KernelRoom("client"), fwd' = [fwd EXCEPT !["server"] = @ + k]
<1>5. Flags'
  BY DEF IInv, Flags, peerVars
<1> QED BY <1>1, <1>4, <1>5 DEF IInv

LEMMA ServerWriteInv ==
  ASSUME IInv, ServerWrite
  PROVE  IInv'
<1> USE SidesFacts, RelayAssumption
<1> DEFINE n == Least(Held(buf["client"]), KernelRoom("server"))
<1>1. /\ st # "GONE" /\ pending = 0 /\ idle' \in BOOLEAN
      /\ Other("client") = "server"
  BY DEF ServerWrite, Turn, Running, Other
<1>2. n \in Nat /\ n <= Held(buf["client"]) /\ n <= KernelRoom("server")
  <2>1. Held(buf["client"]) \in Nat /\ KernelRoom("server") \in Nat
    BY StateFacts
  <2> QED BY ONLY <2>1 DEF Least
<1>3. Rest("server", "WRITE") \in [Sides -> SUBSET Ops]
  BY RestType DEF IInv, Machine
<1>4. /\ fwd' = [fwd EXCEPT !["client"] = @ + n]
      /\ AfterWrite([buf EXCEPT !["client"] = ReadAdv(@, n)], Rest("server", "WRITE"))
      /\ UNCHANGED <<got, low, peerVars>>
  BY DEF ServerWrite
<1>5. (IF pending > 0 THEN pending ELSE Held(buf["client"])) - n
        = Held(buf["client"]) - n
  BY <1>1
<1> HIDE DEF n
<1> QED BY <1>1, <1>2, <1>3, <1>4, <1>5, SendEventInv

LEMMA ClientWriteInv ==
  ASSUME IInv, ClientWrite
  PROVE  IInv'
<1> USE SidesFacts, RelayAssumption
<1> DEFINE held == Held(buf["server"])
           n == Least(held, KernelRoom("client"))
<1>1. /\ st # "GONE" /\ pending = 0 /\ idle' \in BOOLEAN
      /\ Other("server") = "client"
  BY DEF ClientWrite, Turn, Running, Other
<1>2. held \in Nat /\ n \in Nat /\ n <= held /\ n <= KernelRoom("client")
  <2>1. held \in Nat /\ KernelRoom("client") \in Nat
    BY StateFacts
  <2> QED BY ONLY <2>1 DEF Least
<1>3. Rest("client", "WRITE") \in [Sides -> SUBSET Ops]
  BY RestType DEF IInv, Machine
<1>4. /\ fwd' = [fwd EXCEPT !["server"] = @ + n]
      /\ UNCHANGED <<got, low, peerVars>>
  BY DEF ClientWrite
<1>5. CASE n = held /\ AfterWrite([buf EXCEPT !["server"] = ReadAdv(@, n)],
                                  Rest("client", "WRITE"))
  <2>1. (IF pending > 0 THEN pending ELSE Held(buf["server"])) - n
          = Held(buf["server"]) - n
    BY <1>1
  <2> HIDE DEF n
  <2> QED BY <1>1, <1>2, <1>3, <1>4, <1>5, <2>1, SendEventInv
<1>6. CASE /\ n < held /\ pending' = held - n /\ ready' = Rest("client", "WRITE")
           /\ UNCHANGED <<st, conn, buf, interest, cause, shut>>
  <2>1. held <= BufSize
    BY <1>2, StateFacts DEF BufferOK, Held
  <2>2. pending' \in 1 .. BufSize /\ pending' <= held
    BY <1>2, <1>6, <2>1
  <2>3. (IF pending > 0 THEN pending ELSE held) - n = pending'
    BY <1>1, <1>6
  <2> HIDE DEF n
  <2> QED BY <1>1, <1>2, <1>3, <1>4, <1>6, <2>2, <2>3, BlockInv
<1> QED BY <1>5, <1>6 DEF ClientWrite

LEMMA ResumeSendInv ==
  ASSUME IInv, ResumeSend
  PROVE  IInv'
<1> USE SidesFacts, RelayAssumption
<1> DEFINE held == Held(buf["server"])
           n == IF rst["client"] THEN 0 ELSE Least(pending, KernelRoom("client"))
           m == held - (pending - n)
<1>1. /\ pending > 0 /\ pending \in Nat /\ pending <= held /\ held \in Nat
      /\ pending <= BufSize
      /\ st # "GONE" /\ Other("server") = "client"
  <2>1. pending > 0 /\ pending \in 0 .. BufSize /\ held \in Nat
    BY StateFacts DEF ResumeSend, IInv, Counts
  <2>2. pending <= held
    BY DEF IInv, Counts, BlockedSend
  <2>3. st # "GONE"
    BY <2>1, StateFacts
  <2> QED BY <2>1, <2>2, <2>3 DEF Other
<1>2. n \in Nat /\ n <= pending /\ n <= KernelRoom("client")
  <2>1. KernelRoom("client") \in Nat
    BY StateFacts
  <2>2. Least(pending, KernelRoom("client")) \in Nat
        /\ Least(pending, KernelRoom("client")) <= pending
        /\ Least(pending, KernelRoom("client")) <= KernelRoom("client")
    BY ONLY <1>1, <2>1 DEF Least
  <2>3. CASE rst["client"]
    BY <1>1, <2>1, <2>3
  <2>4. CASE ~rst["client"]
    BY <2>2, <2>4
  <2> QED BY <2>3, <2>4
<1>3. m \in Nat /\ m <= held /\ pending - n = held - m
  BY <1>1, <1>2
<1>4. /\ fwd' = [fwd EXCEPT !["server"] = @ + n]
      /\ UNCHANGED <<got, low, idle, peerVars>> /\ idle' \in BOOLEAN
  BY DEF ResumeSend, IInv, Flags
<1>5. CASE AfterWrite([buf EXCEPT !["server"] = ReadAdv(@, m)], ready)
  <2>1. (IF pending > 0 THEN pending ELSE Held(buf["server"])) - n = held - m
    BY <1>1, <1>3
  <2>2. ready \in [Sides -> SUBSET Ops]
    BY DEF IInv, Machine
  <2> HIDE DEF n, m
  <2> QED BY <1>1, <1>2, <1>3, <1>4, <1>5, <2>1, <2>2, SendEventInv
<1>6. CASE /\ n < pending /\ pending' = pending - n
           /\ UNCHANGED <<st, conn, buf, interest, ready, cause, shut>>
  <2>1. pending' \in 1 .. BufSize /\ pending' <= held
    BY <1>1, <1>2, <1>6
  <2>2. (IF pending > 0 THEN pending ELSE held) - n = pending'
    BY <1>1, <1>6
  <2>3. ready' \in [Sides -> SUBSET Ops]
    BY <1>6 DEF IInv, Machine
  <2> HIDE DEF n
  <2> QED BY <1>1, <1>2, <1>4, <1>6, <2>1, <2>2, <2>3, BlockInv
<1> QED BY <1>5, <1>6 DEF ResumeSend

\* Steps of the selector and of the environment leave the session's machine,
\* buffers and counters alone.
LEMMA QuietInv ==
  ASSUME IInv, UNCHANGED <<st, conn, buf, interest, pending, cause, shut, got, fwd, low>>,
         ready' \in [Sides -> SUBSET Ops], st = "GONE" => ready' = ready,
         idle' \in BOOLEAN, fin' \in [Sides -> BOOLEAN], rst' \in [Sides -> BOOLEAN],
         \A s \in Sides : fin[s] => fin'[s] /\ sent'[s] = sent[s],
         sent' \in [Sides -> 0 .. MaxBytes], taken' \in [Sides -> Nat],
         \A s \in Sides : sent[s] <= sent'[s] /\ taken[s] <= taken'[s]
                          /\ taken'[s] <= fwd[s]
  PROVE  IInv'
<1>1. \A s \in Sides : conn[s] # "OPEN" => fin'[s] /\ got'[s] = sent'[s]
  BY DEF IInv, Machine, Ends
<1>2. Machine'
  BY <1>1, UntouchedMachine DEF IInv
<1>3. Counts'
  BY UntouchedCounts DEF IInv
<1>4. Flags'
  BY DEF IInv, Flags
<1> QED BY <1>2, <1>3, <1>4 DEF IInv

LEMMA CountsFacts ==
  ASSUME IInv
  PROVE  /\ sent \in [Sides -> 0 .. MaxBytes] /\ taken \in [Sides -> Nat]
         /\ fwd \in [Sides -> Nat]
         /\ \A s \in Sides : taken[s] <= fwd[s]
         /\ fin \in [Sides -> BOOLEAN] /\ rst \in [Sides -> BOOLEAN]
         /\ idle \in BOOLEAN /\ ready \in [Sides -> SUBSET Ops]
BY DEF IInv, Machine, Counts, Flags, BytesConserved

LEMMA SelectorInv ==
  ASSUME IInv, Select \/ \E s \in Sides, op \in Ops : Skip(s, op)
  PROVE  IInv'
<1>1. UNCHANGED <<st, conn, buf, interest, pending, cause, shut, got, fwd, low,
                  idle, sent, fin, rst, taken>> /\ st # "GONE"
  BY DEF Select, Skip, Turn, Running, peerVars
<1>2. ready' \in [Sides -> SUBSET Ops]
  <2>1. CASE Select
    BY <2>1 DEF Select, IInv, Machine
  <2>2. CASE \E s \in Sides, op \in Ops : Skip(s, op)
    BY <2>2, CountsFacts, RestType DEF Skip
  <2> QED BY <2>1, <2>2
<1>3. /\ \A s \in Sides : fin[s] => fin'[s] /\ sent'[s] = sent[s]
      /\ \A s \in Sides : sent[s] <= sent'[s] /\ taken[s] <= taken'[s]
                          /\ taken'[s] <= fwd[s]
  <2> USE RelayAssumption
  <2> QED BY <1>1, CountsFacts
<1>4. /\ sent' \in [Sides -> 0 .. MaxBytes] /\ taken' \in [Sides -> Nat]
      /\ fin' \in [Sides -> BOOLEAN] /\ rst' \in [Sides -> BOOLEAN]
      /\ idle' \in BOOLEAN
  BY <1>1, CountsFacts
<1> QED BY <1>1, <1>2, <1>3, <1>4, QuietInv

LEMMA PeerInv ==
  ASSUME IInv, NEW s \in Sides, Peer(s)
  PROVE  IInv'
<1> USE SidesFacts, RelayAssumption
<1>1. UNCHANGED <<st, conn, buf, interest, pending, cause, shut, got, fwd, low,
                  idle, ready>>
  BY DEF Peer, PeerSend, PeerFin, PeerReset, PeerRead, daemonVars
<1>2. ready' \in [Sides -> SUBSET Ops] /\ idle' \in BOOLEAN
  BY <1>1, CountsFacts
<1>3. CASE PeerSend(s)
  <2>1. /\ sent' = [sent EXCEPT ![s] = @ + 1] /\ ~fin[s] /\ sent[s] < MaxBytes
        /\ UNCHANGED <<fin, rst, taken>>
    BY <1>3 DEF PeerSend
  <2>2. /\ sent' \in [Sides -> 0 .. MaxBytes] /\ sent'[s] = sent[s] + 1
        /\ \A x \in Sides : x # s => sent'[x] = sent[x]
    BY <2>1, CountsFacts
  <2>3. \A x \in Sides : sent[x] <= sent'[x] /\ taken[x] <= taken'[x]
                         /\ taken'[x] <= fwd[x]
    BY <2>1, <2>2, CountsFacts
  <2>4. \A x \in Sides : fin[x] => fin'[x] /\ sent'[x] = sent[x]
    BY <2>1, <2>2
  <2>5. fin' \in [Sides -> BOOLEAN] /\ rst' \in [Sides -> BOOLEAN]
        /\ taken' \in [Sides -> Nat]
    BY <2>1, CountsFacts
  <2> QED BY <1>1, <1>2, <2>2, <2>3, <2>4, <2>5, QuietInv
<1>4. CASE PeerFin(s) \/ PeerReset(s)
  <2>1. /\ UNCHANGED <<sent, taken>>
        /\ fin' = [fin EXCEPT ![s] = TRUE] \/ fin' = fin
        /\ rst' = [rst EXCEPT ![s] = TRUE] \/ rst' = rst
    BY <1>4 DEF PeerFin, PeerReset
  <2>2. fin' \in [Sides -> BOOLEAN] /\ rst' \in [Sides -> BOOLEAN]
    BY ZenonT(40), <2>1, CountsFacts
  <2>3. \A x \in Sides : fin[x] => fin'[x] /\ sent'[x] = sent[x]
    BY <2>1, CountsFacts
  <2>4. /\ \A x \in Sides : sent[x] <= sent'[x] /\ taken[x] <= taken'[x]
                            /\ taken'[x] <= fwd[x]
        /\ sent' \in [Sides -> 0 .. MaxBytes] /\ taken' \in [Sides -> Nat]
    BY <2>1, CountsFacts
  <2> QED BY <1>1, <1>2, <2>2, <2>3, <2>4, QuietInv
<1>5. CASE PeerRead(s)
  <2>1. /\ taken' = [taken EXCEPT ![Other(s)] = @ + 1]
        /\ taken[Other(s)] < fwd[Other(s)]
        /\ UNCHANGED <<sent, fin, rst>>
    BY <1>5 DEF PeerRead
  <2>2. /\ taken' \in [Sides -> Nat] /\ taken'[Other(s)] = taken[Other(s)] + 1
        /\ \A x \in Sides : x # Other(s) => taken'[x] = taken[x]
    BY <2>1, CountsFacts
  <2>3. \A x \in Sides : sent[x] <= sent'[x] /\ taken[x] <= taken'[x]
                         /\ taken'[x] <= fwd[x]
    BY <2>1, <2>2, CountsFacts
  <2>4. /\ sent' \in [Sides -> 0 .. MaxBytes]
        /\ fin' \in [Sides -> BOOLEAN] /\ rst' \in [Sides -> BOOLEAN]
        /\ \A x \in Sides : fin[x] => fin'[x] /\ sent'[x] = sent[x]
    BY <2>1, CountsFacts
  <2> QED BY <1>1, <1>2, <2>2, <2>3, <2>4, QuietInv
<1> QED BY <1>3, <1>4, <1>5 DEF Peer

LEMMA TickInv ==
  ASSUME IInv, Tick \/ UNCHANGED vars
  PROVE  IInv'
<1> USE RelayAssumption
<1>1. UNCHANGED <<st, conn, buf, interest, pending, cause, shut, got, fwd, low,
                  ready, sent, fin, rst, taken>> /\ idle' \in BOOLEAN
  BY CountsFacts DEF Tick, vars, daemonVars, peerVars
<1>2. /\ sent' \in [Sides -> 0 .. MaxBytes] /\ taken' \in [Sides -> Nat]
      /\ fin' \in [Sides -> BOOLEAN] /\ rst' \in [Sides -> BOOLEAN]
      /\ ready' \in [Sides -> SUBSET Ops]
  BY <1>1, CountsFacts
<1>3. /\ \A s \in Sides : fin[s] => fin'[s] /\ sent'[s] = sent[s]
      /\ \A s \in Sides : sent[s] <= sent'[s] /\ taken[s] <= taken'[s]
                          /\ taken'[s] <= fwd[s]
  BY <1>1, CountsFacts
<1> QED BY <1>1, <1>2, <1>3, QuietInv

LEMMA CleanupInv ==
  ASSUME IInv, Cleanup
  PROVE  IInv'
<1>1. /\ EndSession("idle") /\ pending = 0
      /\ UNCHANGED <<conn, buf, shut, got, fwd, low, idle, sent, fin, rst, taken>>
  BY DEF Cleanup, Running, peerVars
<1>2. Machine'
  BY <1>1, EndSessionMachine DEF IInv
<1>3. Counts'
  <2> USE RelayAssumption
  <2>1. pending = 0 /\ pending' = 0
    BY <1>1 DEF EndSession
  <2> QED BY <1>1, <2>1, CountsFacts, UntouchedCounts DEF IInv
<1>4. Flags'
  BY <1>1 DEF IInv, Flags
<1> QED BY <1>2, <1>3, <1>4 DEF IInv
-----------------------------------------------------------------------------
LEMMA InitInv ==
  ASSUME Init
  PROVE  IInv
<1> USE SidesFacts, RelayAssumption
<1>1. /\ conn \in [Sides -> {"OPEN", "CLOSING", "CLOSED"}]
      /\ interest \in [Sides -> SUBSET Ops]
      /\ ready \in [Sides -> SUBSET Ops]
  BY ForwardingMasks DEF Init, NoInterest
<1>2. /\ st \in {"FORWARDING", "FLUSH_CLOSER", "FLUSH_CLOSY", "GONE"}
      /\ cause \in {"none", "finish", "error", "full", "idle"}
      /\ Phases /\ FinishClosed /\ FullOnlyAfterEof
  BY DEF Init, Phases, FinishClosed, FullOnlyAfterEof
<1>3. Ends /\ ClosingHasBytes
  BY DEF Init, Ends, ClosingHasBytes
<1>4. ForwardingWatches /\ InterestMatchesWork
  BY ForwardingMasks DEF Init, ForwardingWatches, InterestMatchesWork
<1>5. /\ buf \in [Sides -> [r : 0 .. BufSize, w : 0 .. BufSize]]
      /\ sent \in [Sides -> 0 .. MaxBytes]
      /\ \A s \in Sides : buf[s].r <= buf[s].w /\ sent[s] = Held(buf[s])
  <2>1. PICK r \in 0 .. BufSize, w \in 0 .. BufSize :
          /\ r < w \/ (r = 0 /\ w = 0)
          /\ w - r <= MaxBytes
          /\ buf = [s \in Sides |-> IF s = "client" THEN [r |-> r, w |-> w]
                                                    ELSE [r |-> 0, w |-> 0]]
          /\ sent = [s \in Sides |-> IF s = "client" THEN w - r ELSE 0]
    BY DEF Init
  <2>2. /\ [r |-> r, w |-> w] \in [r : 0 .. BufSize, w : 0 .. BufSize]
        /\ [r |-> 0, w |-> 0] \in [r : 0 .. BufSize, w : 0 .. BufSize]
        /\ w - r \in 0 .. MaxBytes /\ 0 \in 0 .. MaxBytes
    BY <2>1
  <2>3. /\ buf["client"] = [r |-> r, w |-> w] /\ buf["server"] = [r |-> 0, w |-> 0]
        /\ sent["client"] = w - r /\ sent["server"] = 0
    BY <2>1 DEF Sides
  <2> QED BY <2>1, <2>2, <2>3 DEF Held, Sides
<1>6. /\ pending = 0 /\ got = sent
      /\ fwd = [s \in Sides |-> 0] /\ taken = [s \in Sides |-> 0]
  BY DEF Init
<1>7. Counts
  <2>1. BufferOrder /\ BlockedSend /\ RoomLeft
    BY <1>5, <1>6 DEF BufferOrder, BlockedSend, RoomLeft, KernelRoom, Held
  <2>2. BytesConserved
    BY <1>5, <1>6 DEF BytesConserved
  <2> QED BY <1>5, <1>6, <2>1, <2>2 DEF Counts
<1>8. Flags
  BY DEF Init, Flags
<1> QED BY <1>1, <1>2, <1>3, <1>4, <1>7, <1>8 DEF IInv, Machine

LEMMA NextInv ==
  ASSUME IInv, [Next]_vars
  PROVE  IInv'
<1>1. CASE Select \/ \E s \in Sides, op \in Ops : Skip(s, op)
  BY <1>1, SelectorInv
<1>2. CASE \E s \in Sides : ReadEvent(s) \/ SendFails(s)
  BY <1>2, ReadEventInv, SendFailsInv
<1>3. CASE ServerWrite \/ ClientWrite \/ ResumeSend
  BY <1>3, ServerWriteInv, ClientWriteInv, ResumeSendInv
<1>4. CASE Cleanup
  BY <1>4, CleanupInv
<1>5. CASE Tick \/ Ended \/ UNCHANGED vars
  BY <1>5, TickInv DEF Ended
<1>6. CASE \E s \in Sides : Peer(s)
  BY <1>6, PeerInv
<1> QED BY <1>1, <1>2, <1>3, <1>4, <1>5, <1>6 DEF Next, Daemon, Handle

\* The inductive invariant holds in every reachable state, for every buffer
\* size, socket capacity and number of bytes.
THEOREM Invariance == Spec => []IInv
<1>1. Init => IInv
  BY InitInv
<1>2. IInv /\ [Next]_vars => IInv'
  BY NextInv
<1> QED BY <1>1, <1>2, PTL DEF Spec
-----------------------------------------------------------------------------
(* What the runs check, for every value of the constants.                  *)

\* Every variable keeps its type; in particular the offsets of the two session
\* buffers stay within their array.
THEOREM TypeCorrect == Spec => []TypeOK
<1>1. IInv => TypeOK
  BY DEF IInv, Machine, Counts, Flags, TypeOK
<1> QED BY <1>1, Invariance, PTL

\* The masks the handlers set neither lose a wake-up nor spin.
THEOREM InterestSound == Spec => []InterestMatchesWork
<1>1. IInv => InterestMatchesWork
  BY DEF IInv, Machine
<1> QED BY <1>1, Invariance, PTL

\* Every byte received is still buffered or was handed on, exactly once.
THEOREM NoByteLost == Spec => []BytesConserved
<1>1. IInv => BytesConserved
  BY DEF IInv, Counts
<1> QED BY <1>1, Invariance, PTL

\* No session is entered into, or left in, a flush with nothing to wait for.
THEOREM FlushHasWork == Spec => []ClosingHasBytes
<1>1. IInv => ClosingHasBytes
  BY DEF IInv, Machine
<1> QED BY <1>1, Invariance, PTL

\* Forwarding never closes a session for lack of room.
THEOREM ForwardingNeverFull == Spec => []FullOnlyAfterEof
<1>1. IInv => FullOnlyAfterEof
  BY DEF IInv, Machine
<1> QED BY <1>1, Invariance, PTL

\* A relayed stream is complete when its connection state is CLOSED.
LEMMA ClosedIsComplete ==
  ASSUME IInv, NEW s \in Sides, conn[s] = "CLOSED"
  PROVE  fin[s] /\ fwd[s] = sent[s] /\ shut[Other(s)]
<1> USE SidesFacts, RelayAssumption
<1>1. fin[s] /\ got[s] = sent[s] /\ ~CanRead(buf[s]) /\ shut[Other(s)]
  BY DEF IInv, Machine, Ends
<1>2. Held(buf[s]) = 0
  BY <1>1, StateFacts, BufferFacts
<1>3. s = "server" => pending = 0
  BY <1>2 DEF IInv, Counts, BlockedSend
<1>4. got[s] - fwd[s] = 0
  BY <1>2, <1>3 DEF IInv, Counts, BytesConserved
<1>5. got[s] \in Nat /\ fwd[s] \in Nat
  BY DEF IInv, Counts
<1>6. fwd[s] = got[s]
  BY <1>4, <1>5
<1> QED BY <1>1, <1>6

LEMMA EofInv == IInv => EofAfterData
<1> SUFFICES ASSUME IInv, NEW s \in Sides, shut[Other(s)]
             PROVE  fin[s] /\ fwd[s] = sent[s]
  BY DEF EofAfterData
<1>1. conn[s] = "CLOSED"
  BY DEF IInv, Machine, Ends
<1> QED BY <1>1, ClosedIsComplete

\* No peer is shown the end of the other's stream before all of its bytes.
THEOREM EofIsLast == Spec => []EofAfterData
BY EofInv, Invariance, PTL

\* A session that finishes has relayed both streams, and both ends, in full.
THEOREM FinishComplete == Spec => []FinishIsComplete
<1>1. IInv => FinishIsComplete
  <2> SUFFICES ASSUME IInv, cause = "finish", NEW s \in Sides
               PROVE  shut[s] /\ fwd[s] = sent[s]
    BY DEF FinishIsComplete
  <2>1. conn[s] = "CLOSED" /\ conn[Other(s)] = "CLOSED"
    BY SidesFacts DEF IInv, Machine, FinishClosed
  <2> QED BY <2>1, ClosedIsComplete, SidesFacts
<1> QED BY <1>1, Invariance, PTL
-----------------------------------------------------------------------------
(* The relay implements HalfClosePipe: bytes and ends of streams are handed *)
(* over by Transfer, every other way to end a session is a Cut.             *)

\* Handlers that go on relaying: no end that was shown is taken back, and the
\* session either goes on or finishes.
LEMMA RelayEofShows ==
  ASSUME NEW c, NEW S, RelayEof(c, S)
  PROVE  \A s \in Sides : shut[s] => shut'[s]
BY DEF RelayEof

LEMMA AfterReadShows ==
  ASSUME NEW s \in Sides, NEW b, NEW c, NEW rest, AfterRead(s, b, c, rest)
  PROVE  /\ \A x \in Sides : shut[x] => shut'[x]
         /\ cause' = cause \/ cause' = "finish"
<1>1. CASE st = "FORWARDING"
  BY <1>1, RelayEofShows DEF AfterRead, Continue, FlushCloserOnWrite
<1>2. CASE st = "FLUSH_CLOSER"
  BY <1>2, RelayEofShows DEF AfterRead, FlushCloserOnRead, Continue, EndSession
<1> QED BY <1>1, <1>2 DEF AfterRead

LEMMA AfterWriteShows ==
  ASSUME NEW b, NEW rest, AfterWrite(b, rest)
  PROVE  /\ \A x \in Sides : shut[x] => shut'[x]
         /\ cause' = cause \/ cause' = "finish"
<1>1. CASE st = "FORWARDING"
  BY <1>1 DEF AfterWrite, Continue
<1>2. CASE st = "FLUSH_CLOSER"
  BY <1>2, RelayEofShows DEF AfterWrite, Continue, FlushCloserOnWrite
<1>3. CASE st = "FLUSH_CLOSY"
  BY <1>3, RelayEofShows DEF AfterWrite, Continue, EndSession
<1> QED BY <1>1, <1>2, <1>3 DEF AfterWrite

\* A session is over exactly when both ends were shown, unless it was cut.
Outcome ==
  cause \in {"none", "finish"} =>
    (cause = "finish" <=> \A s \in Sides : shut[Other(s)])

LEMMA OutcomeFacts == IInv => Outcome
<1> SUFFICES ASSUME IInv, cause \in {"none", "finish"}
             PROVE  cause = "finish" <=> \A s \in Sides : shut[Other(s)]
  BY DEF Outcome
<1> USE SidesFacts
<1>1. \A s \in Sides : shut[Other(s)] <=> conn[s] = "CLOSED"
  BY DEF IInv, Machine, Ends
<1>2. cause = "none" => \E s \in Sides : conn[s] # "CLOSED"
  BY DEF IInv, Machine, Phases
<1>3. cause = "finish" => \A s \in Sides : conn[s] = "CLOSED"
  BY DEF IInv, Machine, FinishClosed
<1> QED BY <1>1, <1>2, <1>3

FwdBounded ==
  /\ fwd \in [Sides -> Nat]
  /\ \A s \in Sides : sent[s] \in Nat /\ fwd[s] <= sent[s]

LEMMA FwdBound == IInv => FwdBounded
<1> USE SidesFacts, RelayAssumption
<1> SUFFICES ASSUME IInv, NEW s \in Sides
             PROVE  sent[s] \in Nat /\ fwd[s] <= sent[s]
  BY DEF FwdBounded, IInv, Counts
<1>1. fwd[s] \in Nat /\ got[s] \in Nat /\ sent[s] \in Nat /\ got[s] <= sent[s]
  BY DEF IInv, Counts, BytesConserved
<1>2. Held(buf[s]) \in Nat /\ pending \in Nat
  BY StateFacts DEF IInv, Counts
<1>3. got[s] - fwd[s] = IF s = "server" /\ pending > 0 THEN pending ELSE Held(buf[s])
  BY DEF IInv, Counts, BytesConserved
<1>4. got[s] - fwd[s] >= 0
  BY <1>2, <1>3
<1> QED BY <1>1, <1>4

LEMMA TransferStep ==
  ASSUME IInv, IInv', cause = "none", cause' \in {"none", "finish"},
         UNCHANGED <<sent, fin>>,
         NEW src \in Sides, NEW k \in Nat, fwd' = [fwd EXCEPT ![src] = @ + k],
         \A s \in Sides : shut[s] => shut'[s]
  PROVE  Pipe!Transfer
<1> USE SidesFacts
<1> DEFINE S == {s \in Sides : shut'[Other(s)]}
<1>1. EofAfterData' /\ Outcome' /\ FwdBounded'
  <2>1. (IInv => EofAfterData)' /\ (IInv => Outcome)' /\ (IInv => FwdBounded)'
    BY EofInv, OutcomeFacts, FwdBound, PTL
  <2> QED BY <2>1
<1>2. (cause' = "finish") <=> \A s \in Sides : shut'[Other(s)]
  BY <1>1 DEF Outcome
<1>3. \A s \in Sides : fwd[s] \in Nat /\ sent[s] \in Nat /\ fwd[s] <= sent[s]
  BY FwdBound DEF FwdBounded
<1>4. fwd'[src] <= sent[src] /\ fwd'[src] = fwd[src] + k
  BY <1>1, FwdBound DEF FwdBounded
<1>5. \E s \in Sides : \E n \in fwd[s] .. sent[s] : fwd' = [fwd EXCEPT ![s] = n]
  <2>1. fwd[src] + k \in fwd[src] .. sent[src]
    BY <1>3, <1>4
  <2>2. fwd' = [fwd EXCEPT ![src] = fwd[src] + k]
    OBVIOUS
  <2> QED BY <2>1, <2>2
<1>6. \A s \in S : fin[s] /\ fwd'[s] = sent[s]
  BY <1>1 DEF EofAfterData
<1>7. [s \in Sides |-> shut'[Other(s)]]
        = [s \in Sides |-> [x \in Sides |-> shut[Other(x)]][s] \/ s \in S]
  BY DEF IInv, Flags
<1> QED BY ZenonT(40), <1>2, <1>5, <1>6, <1>7 DEF Pipe!Transfer

LEMMA CutStep ==
  ASSUME cause = "none", cause' \in {"error", "full", "idle"},
         UNCHANGED <<sent, fin, fwd, shut>>
  PROVE  Pipe!Cut
BY DEF Pipe!Cut

LEMMA StutterStep ==
  ASSUME UNCHANGED <<sent, fin, fwd, shut, cause>>
  PROVE  UNCHANGED Pipe!pipeVars
BY DEF Pipe!pipeVars

LEMMA ReadEventStep ==
  ASSUME IInv, IInv', NEW s \in Sides, ReadEvent(s)
  PROVE  Pipe!PipeNext
<1>1. /\ cause = "none" /\ UNCHANGED <<sent, fin, fwd>>
  BY DEF ReadEvent, Turn, Running, peerVars, IInv, Machine, Phases
<1>2. CASE (EndSession("full") \/ EndSession("error")) /\ UNCHANGED shut
  BY <1>1, <1>2, CutStep DEF EndSession, Pipe!PipeNext
<1>3. CASE \E b, c : AfterRead(s, b, c, Rest(s, "READ"))
  <2>1. fwd \in [Sides -> Nat]
    BY DEF IInv, Counts
  <2>2. fwd' = [fwd EXCEPT ![s] = @ + 0]
    BY <1>1, <2>1
  <2>3. /\ \A x \in Sides : shut[x] => shut'[x]
        /\ cause' \in {"none", "finish"}
    BY <1>1, <1>3, AfterReadShows
  <2> QED BY <1>1, <2>2, <2>3, TransferStep DEF Pipe!PipeNext
<1> QED BY <1>2, <1>3 DEF ReadEvent

LEMMA SendStep ==
  ASSUME IInv, IInv', cause = "none", UNCHANGED <<sent, fin>>,
         NEW src \in Sides, NEW k \in Nat, fwd' = [fwd EXCEPT ![src] = @ + k],
         (\E b, rest : AfterWrite(b, rest)) \/ UNCHANGED <<cause, shut>>
  PROVE  Pipe!PipeNext
<1>1. /\ \A x \in Sides : shut[x] => shut'[x]
      /\ cause' \in {"none", "finish"}
  BY AfterWriteShows
<1> QED BY <1>1, TransferStep DEF Pipe!PipeNext

LEMMA SendsStep ==
  ASSUME IInv, IInv', ServerWrite \/ ClientWrite \/ ResumeSend
  PROVE  Pipe!PipeNext
<1> USE SidesFacts, RelayAssumption
<1>1. cause = "none" /\ UNCHANGED <<sent, fin>>
  <2>1. st # "GONE"
    BY StateFacts DEF ServerWrite, ClientWrite, ResumeSend, Turn, Running
  <2> QED BY <2>1 DEF ServerWrite, ClientWrite, ResumeSend, peerVars,
                      IInv, Machine, Phases
<1>2. KernelRoom("client") \in Nat /\ KernelRoom("server") \in Nat
      /\ Held(buf["client"]) \in Nat /\ Held(buf["server"]) \in Nat
      /\ pending \in Nat
  BY StateFacts DEF IInv, Counts
<1>3. CASE ServerWrite
  <2> DEFINE n == Least(Held(buf["client"]), KernelRoom("server"))
  <2>1. n \in Nat
    BY ONLY <1>2 DEF Least
  <2>2. /\ fwd' = [fwd EXCEPT !["client"] = @ + n]
        /\ \E b, rest : AfterWrite(b, rest)
    BY <1>3 DEF ServerWrite
  <2> HIDE DEF n
  <2> QED BY <1>1, <2>1, <2>2, SendStep
<1>4. CASE ClientWrite
  <2> DEFINE n == Least(Held(buf["server"]), KernelRoom("client"))
  <2>1. n \in Nat
    BY ONLY <1>2 DEF Least
  <2>2. /\ fwd' = [fwd EXCEPT !["server"] = @ + n]
        /\ (\E b, rest : AfterWrite(b, rest)) \/ UNCHANGED <<cause, shut>>
    BY <1>4 DEF ClientWrite
  <2> HIDE DEF n
  <2> QED BY <1>1, <2>1, <2>2, SendStep
<1>5. CASE ResumeSend
  <2> DEFINE n == IF rst["client"] THEN 0 ELSE Least(pending, KernelRoom("client"))
  <2>1. n \in Nat
    <3>1. Least(pending, KernelRoom("client")) \in Nat
      BY ONLY <1>2 DEF Least
    <3> QED BY <3>1
  <2>2. /\ fwd' = [fwd EXCEPT !["server"] = @ + n]
        /\ (\E b, rest : AfterWrite(b, rest)) \/ UNCHANGED <<cause, shut>>
    BY <1>5 DEF ResumeSend
  <2> HIDE DEF n
  <2> QED BY <1>1, <2>1, <2>2, SendStep
<1> QED BY <1>3, <1>4, <1>5

LEMMA EndsOrQuietStep ==
  ASSUME IInv, \/ \E s \in Sides : SendFails(s) \/ Peer(s)
               \/ \E s \in Sides, op \in Ops : Skip(s, op)
               \/ Select \/ Cleanup \/ Tick \/ UNCHANGED vars
  PROVE  [Pipe!PipeNext]_(Pipe!pipeVars)
<1>1. CASE (\E s \in Sides : SendFails(s)) \/ Cleanup
  <2>1. /\ cause = "none" /\ cause' \in {"error", "idle"}
        /\ UNCHANGED <<sent, fin, fwd, shut>>
    BY <1>1 DEF SendFails, Cleanup, Turn, Running, peerVars, EndSession,
                IInv, Machine, Phases
  <2> QED BY <2>1, CutStep DEF Pipe!PipeNext
<1>2. ASSUME NEW s \in Sides, PeerSend(s)
      PROVE  Pipe!PipeNext
  BY <1>2 DEF PeerSend, daemonVars, Pipe!PipeNext, Pipe!Write
<1>3. ASSUME NEW s \in Sides, PeerFin(s)
      PROVE  Pipe!PipeNext
  BY <1>3 DEF PeerFin, daemonVars, Pipe!PipeNext, Pipe!EndStream
<1>4. CASE \/ \E s \in Sides : PeerReset(s) \/ PeerRead(s)
           \/ \E s \in Sides, op \in Ops : Skip(s, op)
           \/ Select \/ Tick \/ UNCHANGED vars
  <2>1. UNCHANGED <<sent, fin, fwd, shut, cause>>
    BY <1>4 DEF PeerReset, PeerRead, Skip, Select, Tick, vars, daemonVars, peerVars
  <2> QED BY <2>1, StutterStep
<1> QED BY <1>1, <1>2, <1>3, <1>4 DEF Peer

\* Every behaviour of the relay is one of two lossless half-closable streams.
THEOREM RelayImplementsPipe == Spec => Refinement
<1>1. Init => Pipe!PipeInit
  <2> SUFFICES ASSUME Init PROVE Pipe!PipeInit
    OBVIOUS
  <2>1. sent \in [Sides -> Nat]
    <3>1. IInv
      BY InitInv
    <3> QED BY <3>1, RelayAssumption DEF IInv, Counts
  <2>2. fin \in [Sides -> BOOLEAN] /\ fwd = [s \in Sides |-> 0] /\ cause = "none"
    BY DEF Init
  <2>3. [s \in Sides |-> shut[Other(s)]] = [s \in Sides |-> FALSE]
    BY SidesFacts DEF Init
  <2> QED BY <2>1, <2>2, <2>3 DEF Pipe!PipeInit
<1>2. IInv /\ IInv' /\ [Next]_vars => [Pipe!PipeNext]_(Pipe!pipeVars)
  <2> SUFFICES ASSUME IInv, IInv', [Next]_vars
               PROVE  [Pipe!PipeNext]_(Pipe!pipeVars)
    OBVIOUS
  <2>1. CASE \E s \in Sides : ReadEvent(s)
    BY <2>1, ReadEventStep
  <2>2. CASE ServerWrite \/ ClientWrite \/ ResumeSend
    BY <2>2, SendsStep
  <2>3. CASE \/ \E s \in Sides : SendFails(s) \/ Peer(s)
             \/ \E s \in Sides, op \in Ops : Skip(s, op)
             \/ Select \/ Cleanup \/ Tick \/ UNCHANGED vars
    BY <2>3, EndsOrQuietStep
  <2> QED BY <2>1, <2>2, <2>3 DEF Next, Daemon, Handle, Ended
<1> QED BY <1>1, <1>2, Invariance, PTL DEF Spec, Refinement, Pipe!PipeSpec

-----------------------------------------------------------------------------
(***************************************************************************)
(* The credential reader: where it is after any number of bytes of any     *)
(* conversation (Following), shown for each protocol state by state, and    *)
(* what it has logged by then.                                              *)
(***************************************************************************)

\* A parser, by its fields.
IsParser(p) ==
  p \in [state : {p.state}, success : {p.success}, k1 : {p.k1}, k2 : {p.k2}, spaces : {p.spaces},
         text : {p.text}, user : {p.user}, pass : {p.pass}]

\* The parser in a state that does not log, with its comparisons and its text.
In(p, state, k1, k2, text) == p.state = state /\ p.k1 = k1 /\ p.k2 = k2 /\ p.text = text /\ ~p.success
Left(p) == p.state = "FINISH" /\ ~p.success

\* POP3.  The user that is held after c commands; nobody is logged in by them.
Holding(cs, c, u) ==
  u \in 1 .. c /\ Accepts(cs[u], User) /\ \A i \in u + 1 .. c : cs[i].string \notin {User, Pass}
Unlogged(cs, c) == \A l \in Logins(cs) : l[2] > c

\* after c commands and their replies
LoggedIn(cs, c, p) ==
  \E l \in Logins(cs) :
    /\ l[2] <= c /\ \A m \in Logins(cs) : l[2] <= m[2]
    /\ p.state = "FINISH" /\ p.success /\ p.user = cs[l[1]].arg /\ p.pass = cs[l[2]].arg
PassAwaited(cs, c, p) ==
  \E u \in 1 .. c : Holding(cs, c, u) /\ In(p, "PASS_SERVER_CONSUME", 0, 0, <<>>) /\ p.user = cs[u].arg
UserAwaited(cs, c, p) ==
  (\A u \in 1 .. c : ~Holding(cs, c, u)) /\ In(p, "USER_SERVER_CONSUME", 0, 0, <<>>)
Ahead(cs, c) == c > 0 /\ cs[c].ahead # <<>>
After(cs, c, p) ==
  \/ LoggedIn(cs, c, p)
  \/ Unlogged(cs, c) /\ (PassAwaited(cs, c, p) \/ UserAwaited(cs, c, p) \/ (Ahead(cs, c) /\ Left(p)))

\* in command c, of which n bytes were taken, its first included
Argument(c, n, p, extracting, response, field) ==
  LET l == Len(c.arg)
  IN  \/ n <= l + 2 /\ In(p, extracting, 0, 0, SubSeq(c.arg, 1, n - 2))
      \/ n = l + 3 /\ In(p, extracting, 0, 0, c.arg)
      \/ n = l + 4 /\ In(p, response, 0, 0, <<>>) /\ p[field] = c.arg
      \/ n > l + 4 /\ Left(p)
WithoutUser(c, n, p) ==
  IF n = 1 /\ c.string[1] = User[1] THEN In(p, "CHECKING_USER", 1, 0, <<>>)
  ELSE IF n > 1 /\ c.string = User THEN Argument(c, n, p, "EXTRACTING_USER", "USER_RESPONSE", "user")
  ELSE In(p, "USER_CLIENT_CONSUME", 0, 0, <<>>)
WithUser(c, n, p, user) ==
  IF n = 1 /\ c.string[1] = User[1] THEN In(p, "CHECKING_PASS", NEQ, 1, <<>>) /\ p.user = user
  ELSE IF n = 1 /\ c.string[1] = Pass[1] THEN In(p, "CHECKING_PASS", 1, NEQ, <<>>) /\ p.user = user
  ELSE IF n > 1 /\ c.string = User THEN Argument(c, n, p, "EXTRACTING_USER", "USER_RESPONSE", "user")
  ELSE IF n > 1 /\ c.string = Pass
  THEN Argument(c, n, p, "EXTRACTING_PASS", "PASS_RESPONSE", "pass") /\ p.user = user
  ELSE In(p, "PASS_CLIENT_CONSUME", 0, 0, <<>>) /\ p.user = user
Within(cs, c, n, p) ==
  \/ LoggedIn(cs, c - 1, p)
  \/ /\ Unlogged(cs, c - 1)
     /\ \/ (\A u \in 1 .. c - 1 : ~Holding(cs, c - 1, u)) /\ WithoutUser(cs[c], n, p)
        \/ \E u \in 1 .. c - 1 : Holding(cs, c - 1, u) /\ WithUser(cs[c], n, p, cs[u].arg)

CommandLength(c) == Len(Command(c).bytes)
GreetingAt(n, p) ==
  \/ n = 0 /\ In(p, "INIT", 0, 0, <<>>)
  \/ n = 1 /\ In(p, "CONFIRM_POP", 1, 0, <<>>)
  \/ n > 1 /\ In(p, "USER_SERVER_CONSUME", 0, 0, <<>>)
CommandAt(cs, c, n, p) == (n = 0 /\ After(cs, c - 1, p)) \/ (n > 0 /\ Within(cs, c, n, p))
ReplyAt(cs, c, n, p) ==
  (n = 0 /\ CommandAt(cs, c, CommandLength(cs[c]), p)) \/ (n > 0 /\ After(cs, c, p))
PopAt(t, i, n, p) ==
  LET cs == t.commands
  IN  \/ i = 1 /\ GreetingAt(n, p)
      \/ \E c \in 1 .. Len(cs) : i = 2 * c /\ CommandAt(cs, c, n, p)
      \/ \E c \in 1 .. Len(cs) : i = 2 * c + 1 /\ ReplyAt(cs, c, n, p)
      \/ i = 2 * Len(cs) + 2 /\ After(cs, Len(cs), p)

\* HTTP.
\* the last k bytes of the first j of h begin a string
Begun(string, h, j, k) == k \in 0 .. Len(string) - 1 /\ k <= j /\ \A x \in 1 .. k : h[j - k + x] = string[x]
LineEnds(h, j) == IF j = 0 THEN 0 ELSE IF h[j] = CR THEN 1 ELSE IF h[j] = LF THEN 2 ELSE 0
StartAt(n, p) ==
  \/ n = 0 /\ In(p, "INIT", 0, 0, <<>>)
  \/ n \in {1, 3} /\ In(p, "CONFIRM_HTTP", 0, 0, <<>>)
  \/ n \in {2, 4} /\ In(p, "CONFIRM_HTTP", 1, 0, <<>>)
HeadAt(h, j, p) ==
  \E k \in 0 .. 2 : Begun(Authorization, h, j, k) /\ In(p, "SEARCHING_AUTH", k, LineEnds(h, j), <<>>)
NoneAt(j, p) ==
  \/ j = 1 /\ In(p, "SEARCHING_AUTH", 0, 3, <<>>)
  \/ j > 1 /\ Left(p)
\* the line with the credentials, from its first byte on, and what follows it
SchemeAt(l, j, p) ==
  LET a == Len(l.lead)
  IN  \/ j \in 1 .. 2 /\ In(p, "SEARCHING_AUTH", j, 0, <<>>)
      \/ j \in 3 .. 3 + a /\ In(p, "CONFIRM_BASIC", 0, 0, <<>>) /\ p.spaces
      \/ j = 4 + a /\ In(p, "CONFIRM_BASIC", 1, 0, <<>>) /\ ~p.spaces /\ l.scheme[1] = Basic[1]
BasicAt(l, j, p) ==
  LET a == 5 + Len(l.lead)
      b == a + Len(l.gap)
      c == b + Len(Code(l))
  IN  \/ j < a /\ SchemeAt(l, j, p)
      \/ j \in a .. b /\ In(p, "CREDENTIALS", 0, 0, <<>>) /\ p.spaces
      \/ j \in b + 1 .. c /\ In(p, "CREDENTIALS", 0, 0, SubSeq(Code(l), 1, j - b)) /\ ~p.spaces
      \/ j > c /\ In(p, "CLIENT_CONFIRMATION", 0, 0, <<>>) /\ p.user = l.user /\ p.pass = l.pass
OtherSchemeAt(l, j, p) ==
  LET a == 5 + Len(l.lead)
  IN  \/ j < a /\ SchemeAt(l, j, p)
      \/ j >= a - 1 /\ Left(p)
LineAt(l, j, p) == IF l.scheme = Basic THEN BasicAt(l, j, p) ELSE OtherSchemeAt(l, j, p)

Top(t) == 5 + Len(t.head)
RequestAt(t, n, p) ==
  \/ n < 5 /\ StartAt(n, p)
  \/ n \in 5 .. Top(t) /\ HeadAt(t.head, n - 5, p)
  \/ /\ n > Top(t)
     /\ IF t.auth = <<>> THEN NoneAt(n - Top(t), p) ELSE LineAt(t.auth[1], n - Top(t), p)

\* the reply, after its first byte
StatusMatch(string, status, n) == IF \A x \in 1 .. n : status[x] = string[x] THEN n ELSE NEQ
StatusAt(status, n, p) ==
  \/ /\ n < 3 /\ p.state = "CONFIRMATION" /\ ~p.success
     /\ p.k1 = StatusMatch(Status11, status, n) /\ p.k2 = StatusMatch(Status10, status, n)
     /\ (p.k1 # NEQ \/ p.k2 # NEQ)
  \/ /\ p.state = "FINISH" /\ (p.success <=> Grants(status))
     /\ p.success => n > 2
AnsweredAt(t, n, p) ==
  IF t.auth # <<>> /\ t.auth[1].scheme = Basic
  THEN /\ p.user = t.auth[1].user /\ p.pass = t.auth[1].pass
       /\ StatusAt(t.status, n, p)
  ELSE Left(p)
HttpAt(t, i, n, p) ==
  \/ i = 1 /\ RequestAt(t, n, p)
  \/ i = 2 /\ n = 0 /\ RequestAt(t, Len(Request(t)), p)
  \/ i = 2 /\ n > 0 /\ AnsweredAt(t, n, p)
  \/ i = 3 /\ AnsweredAt(t, Len(t.status), p)

\* Neither.
OtherAt(t, i, n, p) ==
  LET first == t.pieces[1].bytes
  IN  \/ i = 1 /\ n = 0 /\ In(p, "INIT", 0, 0, <<>>)
      \/ n = 1 /\ i = 1 /\ In(p, "CONFIRM_POP", 1, 0, <<>>) /\ t.pieces[1].who = SERVER /\ first[1] = Ok[1]
      \/ /\ n > 0 /\ i = 1 /\ t.pieces[1].who = CLIENT
         /\ \A x \in 1 .. n : Ascii(first[x]) /\ first[x] # LF
         /\ \E k \in 0 .. 1 : Begun(Http1, first, n, k) /\ In(p, "CONFIRM_HTTP", k, 0, <<>>)
      \/ Left(p)

Tracks(t, i, n, p) ==
  /\ IsParser(p)
  /\ CASE t.kind = "pop" -> PopAt(t, i, n, p)
       [] t.kind = "http" -> HttpAt(t, i, n, p)
       [] t.kind = "other" -> OtherAt(t, i, n, p)

\* What has not been received behind n bytes of piece i.
PieceSet == [who : {CLIENT, SERVER}, bytes : Seq(Byte)]
Remains(r, ps, i, n) ==
  /\ r \in Seq(PieceSet) /\ Len(r) = Len(ps) + 1 - i
  /\ i <= Len(ps) => /\ r[1].who = ps[i].who /\ Len(r[1].bytes) = Len(ps[i].bytes) - n
                     /\ \A k \in 1 .. Len(ps[i].bytes) - n : r[1].bytes[k] = ps[i].bytes[n + k]
  /\ \A j \in 1 .. Len(ps) - i : r[1 + j] = ps[i + j]

\* The parser is where the pieces that were received take it.
Following(t, r, p) ==
  LET ps == Pieces(t)
  IN  \E i \in 1 .. Len(ps) + 1 :
        \E n \in 0 .. (IF i > Len(ps) THEN 0 ELSE Len(ps[i].bytes) - 1) :
          Remains(r, ps, i, n) /\ Tracks(t, i, n, p)

SpoofIInv ==
  /\ talk \in Talks
  /\ logged = IF sp.state = "FINISH" /\ sp.success THEN <<<<sp.user, sp.pass>>>> ELSE <<>>
  /\ Following(talk, said, sp)
-----------------------------------------------------------------------------
\* What a byte does to a parser.
Moved(p, q, state, k1, k2) ==
  /\ IsParser(q) /\ q.state = state /\ q.k1 = k1 /\ q.k2 = k2
  /\ q.success = p.success /\ q.spaces = p.spaces /\ q.text = p.text /\ q.user = p.user /\ q.pass = p.pass

LEMMA GotoMoves ==
  ASSUME NEW p, IsParser(p), NEW state
  PROVE  Moved(p, Goto(p, state), state, p.k1, p.k2)
BY DEF IsParser, Moved, Goto

LEMMA FreshMoves ==
  ASSUME NEW p, IsParser(p), NEW state
  PROVE  Moved(p, Fresh(p, state), state, 0, 0)
BY DEF IsParser, Moved, Fresh

LEMMA FinishMoves ==
  ASSUME NEW p, IsParser(p)
  PROVE  Moved(p, Finish(p), "FINISH", p.k1, p.k2)
BY GotoMoves DEF Finish

LEMMA Compared ==
  ASSUME NEW p, IsParser(p), NEW state, state = p.state, NEW k1, NEW k2, k2 = p.k2, NEW q, q = [p EXCEPT !.k1 = k1]
  PROVE  Moved(p, q, state, k1, k2)
BY DEF IsParser, Moved

LEMMA ComparedBoth ==
  ASSUME NEW p, IsParser(p), NEW state, state = p.state, NEW k1, NEW k2, NEW q, q = [p EXCEPT !.k1 = k1, !.k2 = k2]
  PROVE  Moved(p, q, state, k1, k2)
BY DEF IsParser, Moved

\* The parser went on to a state, and kept what it had extracted.
Became(p, q, state, k1, k2, text) ==
  IsParser(q) /\ In(q, state, k1, k2, text) /\ q.spaces = p.spaces /\ q.user = p.user /\ q.pass = p.pass

LEMMA WaitingStates ==
  /\ DOMAIN Waiting = {"USER_SERVER_CONSUME", "USER_CLIENT_CONSUME", "PASS_SERVER_CONSUME", "PASS_CLIENT_CONSUME",
                       "CLIENT_CONFIRMATION"}
  /\ Waiting["USER_SERVER_CONSUME"] = CLIENT /\ Waiting["PASS_SERVER_CONSUME"] = CLIENT
  /\ Waiting["USER_CLIENT_CONSUME"] = SERVER /\ Waiting["PASS_CLIENT_CONSUME"] = SERVER
  /\ Waiting["CLIENT_CONFIRMATION"] = SERVER
  /\ Awoken["USER_SERVER_CONSUME"] = "CHECKING_USER" /\ Awoken["PASS_SERVER_CONSUME"] = "CHECKING_PASS"
  /\ Awoken["USER_CLIENT_CONSUME"] = "USER_SERVER_CONSUME" /\ Awoken["PASS_CLIENT_CONSUME"] = "PASS_SERVER_CONSUME"
  /\ Awoken["CLIENT_CONFIRMATION"] = "CONFIRMATION"
  /\ CLIENT # SERVER
BY DEF Waiting, Awoken, CLIENT, SERVER

\* What a parser does first when a side speaks.
LEMMA HandedIs ==
  ASSUME NEW p, NEW who
  PROVE  /\ p.state = "INIT" => Handed(p, who) = Goto(p, IF who = CLIENT THEN "CONFIRM_HTTP" ELSE "CONFIRM_POP")
         /\ p.state \in DOMAIN Waiting /\ Waiting[p.state] = who => Handed(p, who) = Goto(p, Awoken[p.state])
         /\ p.state # "INIT" /\ ~(p.state \in DOMAIN Waiting /\ Waiting[p.state] = who) => Handed(p, who) = p
<1>1. "INIT" \notin DOMAIN Waiting  BY WaitingStates
<1> QED  BY <1>1 DEF Handed

\* The function that a state runs.
LEMMA Dispatch ==
  ASSUME NEW p, NEW who, NEW b, NEW h, h = Handed(p, who)
  PROVE  /\ h.state \in DOMAIN Waiting \cup {"FINISH"} => SpoofByte(p, who, b) = h
         /\ h.state = "CONFIRM_POP" => SpoofByte(p, who, b) = ConfirmPop(h, who, b)
         /\ h.state = "CHECKING_USER" => SpoofByte(p, who, b) = CheckingUser(h, who, b)
         /\ h.state = "EXTRACTING_USER" => SpoofByte(p, who, b) = Extracting(h, who, b, "user", "USER_RESPONSE")
         /\ h.state = "USER_RESPONSE" => SpoofByte(p, who, b) = UserResponse(h, who, b)
         /\ h.state = "CHECKING_PASS" => SpoofByte(p, who, b) = CheckingPass(h, who, b)
         /\ h.state = "EXTRACTING_PASS" => SpoofByte(p, who, b) = Extracting(h, who, b, "pass", "PASS_RESPONSE")
         /\ h.state = "PASS_RESPONSE" => SpoofByte(p, who, b) = PassResponse(h, who, b)
         /\ h.state = "CONFIRM_HTTP" => SpoofByte(p, who, b) = ConfirmHttp(h, who, b)
         /\ h.state = "SEARCHING_AUTH" => SpoofByte(p, who, b) = SearchingAuth(h, who, b)
         /\ h.state = "CONFIRM_BASIC" => SpoofByte(p, who, b) = ConfirmBasic(h, who, b)
         /\ h.state = "CREDENTIALS" => SpoofByte(p, who, b) = Credentials(h, who, b)
         /\ h.state = "CONFIRMATION" => SpoofByte(p, who, b) = CredentialConfirmation(h, who, b)
<1>1. \A x \in {"CONFIRM_POP", "CHECKING_USER", "EXTRACTING_USER", "USER_RESPONSE", "CHECKING_PASS", "EXTRACTING_PASS",
                "PASS_RESPONSE", "CONFIRM_HTTP", "SEARCHING_AUTH", "CONFIRM_BASIC", "CREDENTIALS", "CONFIRMATION"} :
        x \notin DOMAIN Waiting
  BY WaitingStates
<1>2. "FINISH" \notin DOMAIN Waiting  BY WaitingStates
<1> QED  BY <1>1, <1>2 DEF SpoofByte

\* A state that does not wait looks at the byte itself; one that does is left by the other side's.
LEMMA Stays ==
  ASSUME NEW p, NEW who, NEW b
  PROVE  /\ p.state = "FINISH" => SpoofByte(p, who, b) = p
         /\ p.state \in DOMAIN Waiting /\ Waiting[p.state] # who => SpoofByte(p, who, b) = p
<1>1. "FINISH" \notin DOMAIN Waiting /\ "INIT" \notin DOMAIN Waiting  BY WaitingStates
<1>2. p.state = "FINISH" => Handed(p, who) = p  BY <1>1, HandedIs
<1>3. p.state \in DOMAIN Waiting /\ Waiting[p.state] # who => Handed(p, who) = p
  <2>1. p.state \in DOMAIN Waiting => p.state # "INIT"  BY <1>1
  <2> QED  BY <2>1, HandedIs
<1> QED  BY <1>2, <1>3, Dispatch

LEMMA CompareTwo ==
  ASSUME NEW string, Len(string) = 2, NEW b
  PROVE  /\ Compare(string, 0, b) = IF b = string[1] THEN 1 ELSE NEQ
         /\ Compare(string, 1, b) = IF b = string[2] THEN 2 ELSE NEQ
         /\ Compare(string, NEQ, b) = NEQ
         /\ EQ(string, 2) /\ ~EQ(string, 1) /\ ~EQ(string, 0) /\ ~EQ(string, NEQ)
BY DEF Compare, NEQ, EQ

LEMMA CompareThree ==
  ASSUME NEW string, Len(string) = 3, NEW b
  PROVE  /\ Compare(string, 0, b) = IF b = string[1] THEN 1 ELSE NEQ
         /\ Compare(string, 1, b) = IF b = string[2] THEN 2 ELSE NEQ
         /\ Compare(string, 2, b) = IF b = string[3] THEN 3 ELSE NEQ
         /\ Compare(string, NEQ, b) = NEQ
         /\ EQ(string, 3) /\ ~EQ(string, 2) /\ ~EQ(string, 1) /\ ~EQ(string, 0) /\ ~EQ(string, NEQ)
BY DEF Compare, NEQ, EQ

LEMMA CompareFour ==
  ASSUME NEW b
  PROVE  /\ Compare(EmptyLine, 0, b) = IF b = CR THEN 1 ELSE NEQ
         /\ Compare(EmptyLine, 1, b) = IF b = LF THEN 2 ELSE NEQ
         /\ Compare(EmptyLine, 2, b) = IF b = CR THEN 3 ELSE NEQ
         /\ Compare(EmptyLine, 3, b) = IF b = LF THEN 4 ELSE NEQ
         /\ EQ(EmptyLine, 4) /\ ~EQ(EmptyLine, 3) /\ ~EQ(EmptyLine, 2) /\ ~EQ(EmptyLine, 1) /\ ~EQ(EmptyLine, 0)
         /\ ~EQ(EmptyLine, NEQ)
<1>1. Len(EmptyLine) = 4 /\ EmptyLine[1] = CR /\ EmptyLine[2] = LF /\ EmptyLine[3] = CR /\ EmptyLine[4] = LF
  BY DEF EmptyLine
<1> QED  BY <1>1 DEF Compare, NEQ, EQ

LEMMA Strings ==
  /\ Len(Ok) = 2 /\ Ok[1] = 43 /\ Ok[2] = 79 /\ Len(User) = 2 /\ User[1] = 85 /\ User[2] = 83
  /\ Len(Pass) = 2 /\ Pass[1] = 80 /\ Pass[2] = 83 /\ Len(Http1) = 2 /\ Http1[1] = 72 /\ Http1[2] = 84
  /\ Len(Basic) = 2 /\ Basic[1] = 66 /\ Basic[2] = 105
  /\ Len(Authorization) = 3 /\ Authorization[1] = 65 /\ Authorization[2] = 97 /\ Authorization[3] = 122
  /\ Len(Status11) = 3 /\ Status11[1] = 72 /\ Status11[2] = 49 /\ Status11[3] = 50
  /\ Len(Status10) = 3 /\ Status10[1] = 72 /\ Status10[2] = 48 /\ Status10[3] = 50
  /\ CR = 13 /\ LF = 10 /\ Plus = 43 /\ Minus = 45 /\ Blank = 32 /\ Colon = 58 /\ NEQ = -1
BY DEF Ok, User, Pass, Http1, Basic, Authorization, Status11, Status10, CR, LF, Plus, Minus, Blank, Colon, NEQ

-----------------------------------------------------------------------------
(***************************************************************************)
(* POP3: the states                                                        *)
(***************************************************************************)

LEMMA StartMoves ==
  ASSUME NEW p, IsParser(p), In(p, "INIT", 0, 0, <<>>), NEW b \in Byte
  PROVE  LET q == SpoofByte(p, SERVER, b)
         IN  IF b = Ok[1] THEN Became(p, q, "CONFIRM_POP", 1, 0, <<>>) ELSE IsParser(q) /\ Left(q)
<1>1. PICK h : h = Handed(p, SERVER)  OBVIOUS
<1>2. Moved(p, h, "CONFIRM_POP", 0, 0)
  <2>1. h = Goto(p, "CONFIRM_POP")  BY <1>1, HandedIs, WaitingStates DEF In
  <2> QED  BY <2>1, GotoMoves DEF In
<1>3. PICK q : q = SpoofByte(p, SERVER, b) /\ q = ConfirmPop(h, SERVER, b)
  BY <1>1, <1>2, Dispatch DEF Moved
<1>4. CASE b = Ok[1]
  <2>1. Compare(Ok, h.k1, b) = 1 /\ ~EQ(Ok, 1)  BY <1>2, <1>4, Strings, CompareTwo DEF Moved
  <2>2. Ascii(b)  BY <1>4, Strings DEF Ascii
  <2>3. q = [h EXCEPT !.k1 = 1]  BY <1>3, <2>1, <2>2, WaitingStates, Strings DEF ConfirmPop
  <2>4. IsParser(h)  BY <1>2 DEF Moved
  <2>5. h.state = "CONFIRM_POP" /\ h.k2 = 0  BY <1>2 DEF Moved
  <2>6. Moved(h, q, "CONFIRM_POP", 1, 0)  BY <2>3, <2>4, <2>5, Compared
  <2> QED  BY <1>2, <1>3, <1>4, <2>6 DEF Moved, Became, In
<1>5. CASE b # Ok[1]
  <2>1. Compare(Ok, h.k1, b) = NEQ  BY <1>2, <1>5, Strings, CompareTwo DEF Moved
  <2>2. q = Finish(h)  BY <1>3, <2>1 DEF ConfirmPop
  <2>3. IsParser(h)  BY <1>2 DEF Moved
  <2>4. Moved(h, q, "FINISH", 0, 0)  BY <1>2, <2>2, <2>3, FinishMoves DEF Moved
  <2> QED  BY <1>2, <1>3, <1>5, <2>4 DEF Moved, Left, In
<1> QED  BY <1>4, <1>5

LEMMA ConfirmMoves ==
  ASSUME NEW p, IsParser(p), In(p, "CONFIRM_POP", 1, 0, <<>>), NEW b \in Byte
  PROVE  LET q == SpoofByte(p, SERVER, b)
         IN  IF b = Ok[2] THEN Became(p, q, "USER_SERVER_CONSUME", 0, 0, <<>>) ELSE IsParser(q) /\ Left(q)
<1>1. Handed(p, SERVER) = p  BY HandedIs, WaitingStates DEF In
<1>2. PICK q : q = SpoofByte(p, SERVER, b) /\ q = ConfirmPop(p, SERVER, b)
  BY <1>1, Dispatch DEF In
<1>3. CASE b = Ok[2]
  <2>0. p.k1 = 1  BY DEF In
  <2>1. Compare(Ok, p.k1, b) = 2 /\ EQ(Ok, 2)
    <3>1. Len(Ok) = 2  BY Strings
    <3>2. Compare(Ok, 1, b) = 2 /\ EQ(Ok, 2)  BY <1>3, <3>1, CompareTwo
    <3> QED  BY <2>0, <3>2
  <2>2. Ascii(b)  BY <1>3, Strings DEF Ascii
  <2>3. q = Fresh(p, "USER_SERVER_CONSUME")  BY <1>2, <2>1, <2>2, WaitingStates, Strings DEF ConfirmPop
  <2>4. Moved(p, q, "USER_SERVER_CONSUME", 0, 0)  BY <2>3, FreshMoves
  <2> QED  BY <1>2, <1>3, <2>4 DEF Moved, Became, In
<1>4. CASE b # Ok[2]
  <2>1. Compare(Ok, p.k1, b) = NEQ  BY <1>4, Strings, CompareTwo DEF In
  <2>2. q = Finish(p)  BY <1>2, <2>1 DEF ConfirmPop
  <2>3. Moved(p, q, "FINISH", 1, 0)  BY <2>2, FinishMoves DEF In
  <2> QED  BY <1>2, <1>4, <2>3 DEF Moved, Left, In
<1> QED  BY <1>3, <1>4

\* The first two characters of a command while no user is held.
LEMMA UserFirst ==
  ASSUME NEW p, IsParser(p), In(p, "USER_SERVER_CONSUME", 0, 0, <<>>), NEW b \in Byte, b < 128
  PROVE  LET q == SpoofByte(p, CLIENT, b)
         IN  IF b = User[1] THEN Became(p, q, "CHECKING_USER", 1, 0, <<>>)
             ELSE Became(p, q, "USER_CLIENT_CONSUME", 0, 0, <<>>)
<1>1. PICK h : h = Handed(p, CLIENT)  OBVIOUS
<1>2. Moved(p, h, "CHECKING_USER", 0, 0)
  <2>1. h = Goto(p, "CHECKING_USER")  BY <1>1, HandedIs, WaitingStates DEF In
  <2> QED  BY <2>1, GotoMoves DEF In
<1>3. PICK q : q = SpoofByte(p, CLIENT, b) /\ q = CheckingUser(h, CLIENT, b)
  BY <1>1, <1>2, Dispatch DEF Moved
<1>4. Ascii(b) /\ CLIENT # SERVER /\ IsParser(h)  BY <1>2, WaitingStates DEF Ascii, Moved
<1>5. CASE b = User[1]
  <2>1. Compare(User, h.k1, b) = 1 /\ ~EQ(User, 1)  BY <1>2, <1>5, Strings, CompareTwo DEF Moved
  <2>2. q = [h EXCEPT !.k1 = 1]  BY <1>3, <1>4, <2>1, Strings DEF CheckingUser
  <2>3. h.state = "CHECKING_USER" /\ h.k2 = 0  BY <1>2 DEF Moved
  <2>4. Moved(h, q, "CHECKING_USER", 1, 0)  BY <1>4, <2>2, <2>3, Compared
  <2> QED  BY <1>2, <1>3, <1>5, <2>4 DEF Moved, Became, In
<1>6. CASE b # User[1]
  <2>1. Compare(User, h.k1, b) = NEQ /\ ~EQ(User, NEQ)  BY SMTT(40), <1>2, <1>6, Strings, CompareTwo DEF Moved
  <2>2. q = Fresh(h, "USER_CLIENT_CONSUME")  BY <1>3, <1>4, <2>1 DEF CheckingUser
  <2>3. Moved(h, q, "USER_CLIENT_CONSUME", 0, 0)  BY <1>4, <2>2, FreshMoves
  <2> QED  BY <1>2, <1>3, <1>6, <2>3 DEF Moved, Became, In
<1> QED  BY <1>5, <1>6

LEMMA UserSecond ==
  ASSUME NEW p, IsParser(p), In(p, "CHECKING_USER", 1, 0, <<>>), NEW b \in Byte, b < 128
  PROVE  LET q == SpoofByte(p, CLIENT, b)
         IN  IF b = User[2] THEN Became(p, q, "EXTRACTING_USER", 0, 0, <<>>)
             ELSE Became(p, q, "USER_CLIENT_CONSUME", 0, 0, <<>>)
<1>1. Handed(p, CLIENT) = p  BY HandedIs, WaitingStates DEF In
<1>2. PICK q : q = SpoofByte(p, CLIENT, b) /\ q = CheckingUser(p, CLIENT, b)
  BY <1>1, Dispatch DEF In
<1>3. Ascii(b) /\ CLIENT # SERVER  BY WaitingStates DEF Ascii
<1>4. CASE b = User[2]
  <2>0. p.k1 = 1  BY DEF In
  <2>1. Compare(User, p.k1, b) = 2 /\ EQ(User, 2)
    <3>1. Len(User) = 2  BY Strings
    <3>2. Compare(User, 1, b) = 2 /\ EQ(User, 2)  BY <1>4, <3>1, CompareTwo
    <3> QED  BY <2>0, <3>2
  <2>2. q = Fresh(p, "EXTRACTING_USER")  BY <1>2, <1>3, <2>1 DEF CheckingUser
  <2>3. Moved(p, q, "EXTRACTING_USER", 0, 0)  BY <2>2, FreshMoves
  <2> QED  BY <1>2, <1>4, <2>3 DEF Moved, Became, In
<1>5. CASE b # User[2]
  <2>1. Compare(User, p.k1, b) = NEQ /\ ~EQ(User, NEQ)  BY SMTT(40), <1>5, Strings, CompareTwo DEF In
  <2>2. q = Fresh(p, "USER_CLIENT_CONSUME")  BY <1>2, <1>3, <2>1 DEF CheckingUser
  <2>3. Moved(p, q, "USER_CLIENT_CONSUME", 0, 0)  BY <2>2, FreshMoves
  <2> QED  BY <1>2, <1>5, <2>3 DEF Moved, Became, In
<1> QED  BY <1>4, <1>5

\* And while one is.
LEMMA PassFirst ==
  ASSUME NEW p, IsParser(p), In(p, "PASS_SERVER_CONSUME", 0, 0, <<>>), NEW b \in Byte, b < 128
  PROVE  LET q == SpoofByte(p, CLIENT, b)
         IN  IF b = Pass[1] THEN Became(p, q, "CHECKING_PASS", 1, NEQ, <<>>)
             ELSE IF b = User[1] THEN Became(p, q, "CHECKING_PASS", NEQ, 1, <<>>)
             ELSE Became(p, q, "PASS_CLIENT_CONSUME", 0, 0, <<>>)
<1>1. PICK h : h = Handed(p, CLIENT)  OBVIOUS
<1>2. Moved(p, h, "CHECKING_PASS", 0, 0)
  <2>1. h = Goto(p, "CHECKING_PASS")  BY <1>1, HandedIs, WaitingStates DEF In
  <2> QED  BY <2>1, GotoMoves DEF In
<1>3. PICK q : q = SpoofByte(p, CLIENT, b) /\ q = CheckingPass(h, CLIENT, b)
  BY <1>1, <1>2, Dispatch DEF Moved
<1>4. Ascii(b) /\ CLIENT # SERVER /\ IsParser(h)  BY <1>2, WaitingStates DEF Ascii, Moved
<1>5. PICK k1, k2 : k1 = Compare(Pass, h.k1, b) /\ k2 = Compare(User, h.k2, b)  OBVIOUS
<1>6. /\ k1 = (IF b = Pass[1] THEN 1 ELSE NEQ) /\ k2 = (IF b = User[1] THEN 1 ELSE NEQ)
      /\ ~EQ(Pass, k1) /\ ~EQ(User, k2)
  BY SMTT(40), <1>2, <1>5, Strings, CompareTwo DEF Moved
<1>7. CASE b = Pass[1] \/ b = User[1]
  <2>1. q = [h EXCEPT !.k1 = k1, !.k2 = k2]  BY <1>3, <1>4, <1>5, <1>6, <1>7, Strings DEF CheckingPass
  <2>2. h.state = "CHECKING_PASS"  BY <1>2 DEF Moved
  <2>3. Moved(h, q, "CHECKING_PASS", k1, k2)  BY <1>4, <2>1, <2>2, ComparedBoth
  <2> QED  BY <1>2, <1>3, <1>6, <1>7, <2>3, Strings DEF Moved, Became, In
<1>8. CASE b # Pass[1] /\ b # User[1]
  <2>1. q = Fresh(h, "PASS_CLIENT_CONSUME")  BY <1>3, <1>4, <1>5, <1>6, <1>8 DEF CheckingPass
  <2>2. Moved(h, q, "PASS_CLIENT_CONSUME", 0, 0)  BY <1>4, <2>1, FreshMoves
  <2> QED  BY <1>2, <1>3, <1>8, <2>2 DEF Moved, Became, In
<1> QED  BY <1>7, <1>8

LEMMA PassSecond ==
  ASSUME NEW p, IsParser(p), NEW b \in Byte, b < 128,
         In(p, "CHECKING_PASS", 1, NEQ, <<>>) \/ In(p, "CHECKING_PASS", NEQ, 1, <<>>)
  PROVE  LET q == SpoofByte(p, CLIENT, b)
         IN  IF p.k1 = 1 /\ b = Pass[2] THEN Became(p, q, "EXTRACTING_PASS", 0, 0, <<>>)
             ELSE IF p.k2 = 1 /\ b = User[2] THEN Became(p, q, "EXTRACTING_USER", 0, 0, <<>>)
             ELSE Became(p, q, "PASS_CLIENT_CONSUME", 0, 0, <<>>)
<1>1. Handed(p, CLIENT) = p /\ p.state = "CHECKING_PASS"  BY HandedIs, WaitingStates DEF In
<1>2. PICK q : q = SpoofByte(p, CLIENT, b) /\ q = CheckingPass(p, CLIENT, b)
  BY <1>1, Dispatch
<1>3. Ascii(b) /\ CLIENT # SERVER  BY WaitingStates DEF Ascii
<1>5. PICK k1, k2 : k1 = Compare(Pass, p.k1, b) /\ k2 = Compare(User, p.k2, b)  OBVIOUS
<1>6. /\ (p.k1 = 1 /\ p.k2 = NEQ) \/ (p.k1 = NEQ /\ p.k2 = 1)
      /\ p.text = <<>> /\ ~p.success
  BY DEF In
<1>7. /\ p.k1 = 1 => k1 = (IF b = Pass[2] THEN 2 ELSE NEQ)
      /\ p.k1 = NEQ => k1 = NEQ
      /\ p.k2 = 1 => k2 = (IF b = User[2] THEN 2 ELSE NEQ)
      /\ p.k2 = NEQ => k2 = NEQ
      /\ EQ(Pass, 2) /\ EQ(User, 2) /\ ~EQ(Pass, NEQ) /\ ~EQ(User, NEQ)
  BY SMTT(40), <1>5, Strings, CompareTwo
<1>8. NEQ # 1  BY Strings
<1>9. CASE p.k1 = 1 /\ b = Pass[2]
  <2>1. q = Fresh(p, "EXTRACTING_PASS")  BY <1>2, <1>3, <1>5, <1>7, <1>9 DEF CheckingPass
  <2>2. Moved(p, q, "EXTRACTING_PASS", 0, 0)  BY <2>1, FreshMoves
  <2> QED  BY <1>2, <1>6, <1>9, <2>2 DEF Moved, Became, In
<1>10. CASE p.k2 = 1 /\ b = User[2]
  <2>1. q = Fresh(p, "EXTRACTING_USER")  BY <1>2, <1>3, <1>5, <1>6, <1>7, <1>8, <1>10 DEF CheckingPass
  <2>2. Moved(p, q, "EXTRACTING_USER", 0, 0)  BY <2>1, FreshMoves
  <2> QED  BY <1>2, <1>6, <1>8, <1>10, <2>2 DEF Moved, Became, In
<1>11. CASE ~(p.k1 = 1 /\ b = Pass[2]) /\ ~(p.k2 = 1 /\ b = User[2])
  <2>1. k1 = NEQ /\ k2 = NEQ  BY <1>6, <1>7, <1>11
  <2>2. q = Fresh(p, "PASS_CLIENT_CONSUME")  BY <1>2, <1>3, <1>5, <1>7, <2>1 DEF CheckingPass
  <2>3. Moved(p, q, "PASS_CLIENT_CONSUME", 0, 0)  BY <2>2, FreshMoves
  <2> QED  BY <1>2, <1>6, <1>11, <2>3 DEF Moved, Became, In
<1> QED  BY <1>9, <1>10, <1>11

\* The argument of a command, its end, and the reply.
LEMMA ExtractingMoves ==
  ASSUME NEW p, IsParser(p), NEW text, NEW b \in Byte, b < 128,
         In(p, "EXTRACTING_USER", 0, 0, text) \/ In(p, "EXTRACTING_PASS", 0, 0, text)
  PROVE  LET q == SpoofByte(p, CLIENT, b)
         IN  /\ b = CR => q = p
             /\ b \notin {CR, LF} => Became(p, q, p.state, 0, 0, Append(text, b))
             /\ b = LF /\ p.state = "EXTRACTING_USER" =>
                  IsParser(q) /\ In(q, "USER_RESPONSE", 0, 0, <<>>) /\ q.user = text
             /\ b = LF /\ p.state = "EXTRACTING_PASS" =>
                  IsParser(q) /\ In(q, "PASS_RESPONSE", 0, 0, <<>>) /\ q.pass = text /\ q.user = p.user
<1>1. Handed(p, CLIENT) = p /\ p.state \in {"EXTRACTING_USER", "EXTRACTING_PASS"}  BY HandedIs, WaitingStates DEF In
<1>2. /\ p.state = "EXTRACTING_USER" => SpoofByte(p, CLIENT, b) = Extracting(p, CLIENT, b, "user", "USER_RESPONSE")
      /\ p.state = "EXTRACTING_PASS" => SpoofByte(p, CLIENT, b) = Extracting(p, CLIENT, b, "pass", "PASS_RESPONSE")
  BY <1>1, Dispatch
<1>3. Ascii(b) /\ CLIENT # SERVER /\ CR # LF  BY WaitingStates, Strings DEF Ascii
<1>4. p.k1 = 0 /\ p.k2 = 0 /\ p.text = text /\ ~p.success  BY DEF In
<1>5. PICK q : q = SpoofByte(p, CLIENT, b)  OBVIOUS
<1>6. b = CR => q = p  BY <1>1, <1>2, <1>3, <1>5 DEF Extracting
<1>7. ASSUME b \notin {CR, LF}  PROVE Became(p, q, p.state, 0, 0, Append(text, b))
  <2>1. q = [p EXCEPT !.text = Append(@, b)]  BY <1>1, <1>2, <1>3, <1>5, <1>7 DEF Extracting
  <2> QED  BY <1>4, <2>1 DEF IsParser, Became, In
<1>8. ASSUME b = LF, p.state = "EXTRACTING_USER"
      PROVE  IsParser(q) /\ In(q, "USER_RESPONSE", 0, 0, <<>>) /\ q.user = text
  <2>1. q = [p EXCEPT !.state = "USER_RESPONSE", !["user"] = p.text, !.text = <<>>]
    BY <1>2, <1>3, <1>5, <1>8 DEF Extracting
  <2> QED  BY <1>4, <2>1 DEF IsParser, In
<1>9. ASSUME b = LF, p.state = "EXTRACTING_PASS"
      PROVE  IsParser(q) /\ In(q, "PASS_RESPONSE", 0, 0, <<>>) /\ q.pass = text /\ q.user = p.user
  <2>1. q = [p EXCEPT !.state = "PASS_RESPONSE", !["pass"] = p.text, !.text = <<>>]
    BY <1>2, <1>3, <1>5, <1>9 DEF Extracting
  <2> QED  BY <1>4, <2>1 DEF IsParser, In
<1> QED  BY <1>5, <1>6, <1>7, <1>8, <1>9

LEMMA ResponseMoves ==
  ASSUME NEW p, IsParser(p), NEW b \in Byte, In(p, "USER_RESPONSE", 0, 0, <<>>) \/ In(p, "PASS_RESPONSE", 0, 0, <<>>)
  PROVE  /\ LET r == SpoofByte(p, CLIENT, b)  IN  IsParser(r) /\ Left(r) /\ r.user = p.user
         /\ LET q == SpoofByte(p, SERVER, b)
            IN  /\ b = Minus => Became(p, q, "USER_SERVER_CONSUME", 0, 0, <<>>)
                /\ b = Plus /\ p.state = "USER_RESPONSE" => Became(p, q, "PASS_SERVER_CONSUME", 0, 0, <<>>)
                /\ b = Plus /\ p.state = "PASS_RESPONSE" =>
                     IsParser(q) /\ q.state = "FINISH" /\ q.success /\ q.user = p.user /\ q.pass = p.pass
<1>1. /\ Handed(p, CLIENT) = p /\ Handed(p, SERVER) = p /\ p.state \in {"USER_RESPONSE", "PASS_RESPONSE"}
      /\ p.k1 = 0 /\ p.k2 = 0 /\ p.text = <<>> /\ ~p.success
  BY HandedIs, WaitingStates DEF In
<1>2. \A who \in {CLIENT, SERVER} :
        /\ p.state = "USER_RESPONSE" => SpoofByte(p, who, b) = UserResponse(p, who, b)
        /\ p.state = "PASS_RESPONSE" => SpoofByte(p, who, b) = PassResponse(p, who, b)
  BY <1>1, Dispatch
<1>3. PICK r, q : r = SpoofByte(p, CLIENT, b) /\ q = SpoofByte(p, SERVER, b)  OBVIOUS
<1>4. IsParser(r) /\ Left(r) /\ r.user = p.user
  <2>1. r = Finish(p)  BY <1>1, <1>2, <1>3 DEF UserResponse, PassResponse
  <2>2. Moved(p, r, "FINISH", p.k1, p.k2)  BY <2>1, FinishMoves
  <2> QED  BY <1>1, <2>2 DEF Moved, Left
<1>5. ASSUME b = Minus  PROVE Became(p, q, "USER_SERVER_CONSUME", 0, 0, <<>>)
  <2>1. q = Goto(p, "USER_SERVER_CONSUME")
    BY SMTT(40), <1>1, <1>2, <1>3, <1>5, Strings, WaitingStates DEF UserResponse, PassResponse
  <2>2. Moved(p, q, "USER_SERVER_CONSUME", p.k1, p.k2)  BY <2>1, GotoMoves
  <2> QED  BY <1>1, <2>2 DEF Moved, Became, In
<1>6. ASSUME b = Plus, p.state = "USER_RESPONSE"  PROVE Became(p, q, "PASS_SERVER_CONSUME", 0, 0, <<>>)
  <2>1. q = Goto(p, "PASS_SERVER_CONSUME")  BY <1>2, <1>3, <1>6, WaitingStates DEF UserResponse
  <2>2. Moved(p, q, "PASS_SERVER_CONSUME", p.k1, p.k2)  BY <2>1, GotoMoves
  <2> QED  BY <1>1, <2>2 DEF Moved, Became, In
<1>7. ASSUME b = Plus, p.state = "PASS_RESPONSE"
      PROVE  IsParser(q) /\ q.state = "FINISH" /\ q.success /\ q.user = p.user /\ q.pass = p.pass
  <2>1. q = [p EXCEPT !.success = TRUE, !.state = "FINISH"]  BY <1>2, <1>3, <1>7, WaitingStates DEF PassResponse
  <2> QED  BY <2>1 DEF IsParser
<1> QED  BY <1>3, <1>4, <1>5, <1>6, <1>7

\* The states that wait for a side while the other speaks, and what becomes of those that skip a line.
LEMMA ServerSpeaks ==
  ASSUME NEW p, IsParser(p), NEW b, NEW text
  PROVE  LET q == SpoofByte(p, SERVER, b)
         IN  /\ In(p, "USER_CLIENT_CONSUME", 0, 0, text) => Became(p, q, "USER_SERVER_CONSUME", 0, 0, text)
             /\ In(p, "PASS_CLIENT_CONSUME", 0, 0, text) => Became(p, q, "PASS_SERVER_CONSUME", 0, 0, text)
<1>1. PICK q, h : q = SpoofByte(p, SERVER, b) /\ h = Handed(p, SERVER)  OBVIOUS
<1>2. ASSUME In(p, "USER_CLIENT_CONSUME", 0, 0, text)  PROVE Became(p, q, "USER_SERVER_CONSUME", 0, 0, text)
  <2>1. h = Goto(p, "USER_SERVER_CONSUME")  BY <1>1, <1>2, HandedIs, WaitingStates DEF In
  <2>2. Moved(p, h, "USER_SERVER_CONSUME", 0, 0)  BY <1>2, <2>1, GotoMoves DEF In
  <2>3. q = h  BY <1>1, <2>2, Dispatch, WaitingStates DEF Moved
  <2> QED  BY <1>2, <2>2, <2>3 DEF Moved, Became, In
<1>3. ASSUME In(p, "PASS_CLIENT_CONSUME", 0, 0, text)  PROVE Became(p, q, "PASS_SERVER_CONSUME", 0, 0, text)
  <2>1. h = Goto(p, "PASS_SERVER_CONSUME")  BY <1>1, <1>3, HandedIs, WaitingStates DEF In
  <2>2. Moved(p, h, "PASS_SERVER_CONSUME", 0, 0)  BY <1>3, <2>1, GotoMoves DEF In
  <2>3. q = h  BY <1>1, <2>2, Dispatch, WaitingStates DEF Moved
  <2> QED  BY <1>3, <2>2, <2>3 DEF Moved, Became, In
<1> QED  BY <1>1, <1>2, <1>3

(***************************************************************************)
(* POP3: the commands                                                      *)
(***************************************************************************)

CommandOk(d) ==
  /\ d.string \in Seq(Byte) /\ Len(d.string) = 2 /\ d.string[1] \in Character /\ d.string[2] \in Character
  /\ d.arg \in Seq(Byte) /\ Len(d.arg) \in Nat /\ \A i \in 1 .. Len(d.arg) : d.arg[i] \in Character
  /\ d.ahead \in Seq(Byte) /\ Len(d.ahead) \in Nat /\ (d.ahead = <<>> <=> Len(d.ahead) = 0)
  /\ d.ahead # <<>> => d.string \in {User, Pass}
  /\ d.reply \in {Plus, Minus}
Commanded(cs) ==
  /\ Len(cs) \in Nat
  /\ \A c \in 1 .. Len(cs) : CommandOk(cs[c]) /\ (cs[c].ahead # <<>> => c = Len(cs))

LEMMA CharacterBytes == \A x \in Character : x \in Byte /\ x < 128 /\ x # CR /\ x # LF
BY Strings DEF Character, Byte

LEMMA PopCommands == ASSUME NEW t, IsPop(t)  PROVE Commanded(t.commands)
<1> DEFINE Record == [string : Seq(Character), arg : Seq(Character), reply : {Plus, Minus}, ahead : Seq(0 .. 255)]
<1>1. PICK cs : cs = t.commands /\ cs \in Seq(Record)  BY DEF IsPop
<1>2. Len(cs) \in Nat /\ DOMAIN cs = 1 .. Len(cs)  BY <1>1, LenProperties
<1>3. ASSUME NEW c \in 1 .. Len(cs)  PROVE CommandOk(cs[c]) /\ (cs[c].ahead # <<>> => c = Len(cs))
  <2>1. PICK d : d = cs[c] /\ d \in Record  BY ZenonT(40), <1>1, ElementOfSeq
  <2>2. d.string \in Seq(Character) /\ d.arg \in Seq(Character) /\ d.reply \in {Plus, Minus} /\ d.ahead \in Seq(Byte)
    BY <2>1 DEF Byte
  <2>3. Len(d.string) = 2 /\ (d.ahead # <<>> => c = Len(cs) /\ d.string \in {User, Pass})
    BY ZenonT(40), <1>1, <1>2, <2>1 DEF IsPop
  <2>4. d.string \in Seq(Byte) /\ d.arg \in Seq(Byte)  BY <2>2, CharacterBytes, SeqMonotonic
  <2>5. /\ Len(d.arg) \in Nat /\ \A i \in 1 .. Len(d.arg) : d.arg[i] \in Character
        /\ \A i \in 1 .. 2 : d.string[i] \in Character
    BY <2>2, <2>3, LenProperties, ElementOfSeq
  <2>6. Len(d.ahead) \in Nat /\ (d.ahead = <<>> <=> Len(d.ahead) = 0)  BY <2>2, LenProperties, EmptySeq
  <2>7. 1 \in 1 .. 2 /\ 2 \in 1 .. 2  OBVIOUS
  <2> QED  BY <2>1, <2>2, <2>3, <2>4, <2>5, <2>6, <2>7 DEF CommandOk
<1> QED  BY <1>1, <1>2, <1>3 DEF Commanded

LEMMA StringIs ==
  ASSUME NEW s \in Seq(Byte), Len(s) = 2
  PROVE  /\ s = User <=> s[1] = User[1] /\ s[2] = User[2]
         /\ s = Pass <=> s[1] = Pass[1] /\ s[2] = Pass[2]
         /\ User # Pass /\ User[1] # Pass[1]
<1>1. User \in Seq(Byte) /\ Pass \in Seq(Byte)  BY DEF User, Pass, Byte
<1>2. \A i \in 1 .. 2 : i = 1 \/ i = 2  OBVIOUS
<1>3. Len(User) = 2 /\ Len(Pass) = 2 /\ User[1] # Pass[1] /\ User # Pass  BY Strings
<1>4. s[1] = User[1] /\ s[2] = User[2] => s = User  BY ZenonT(40), <1>1, <1>2, <1>3, SeqEqual
<1>5. s[1] = Pass[1] /\ s[2] = Pass[2] => s = Pass  BY ZenonT(40), <1>1, <1>2, <1>3, SeqEqual
<1> QED  BY Zenon, <1>3, <1>4, <1>5

\* d is a, of j bytes, and then z, of k.
Joined(d, a, j, z, k) ==
  /\ d \in Seq(Byte) /\ Len(d) = j + k
  /\ \A i \in 1 .. j : d[i] = a[i]
  /\ \A i \in 1 .. k : d[j + i] = z[i]

LEMMA JoinedParts ==
  ASSUME NEW a \in Seq(Byte), NEW z \in Seq(Byte), NEW j, j = Len(a), NEW k, k = Len(z), NEW d, d = a \o z
  PROVE  Joined(d, a, j, z, k)
BY ZenonT(40), ConcatParts DEF Joined

Layout(d, w) ==
  LET l == Len(d.arg)
      m == Len(d.ahead)
  IN  /\ w \in Seq(Byte) /\ Len(w) = l + m + 4
      /\ w[1] = d.string[1] /\ w[2] = d.string[2] /\ \A i \in 1 .. l : w[2 + i] = d.arg[i]
      /\ w[l + 3] = CR /\ w[l + 4] = LF

LEMMA CommandLayout == ASSUME NEW d, CommandOk(d)  PROVE Command(d).who = CLIENT /\ Layout(d, Command(d).bytes)
<1>1. PICK s, a, h, e : s = d.string /\ a = d.arg /\ h = d.ahead /\ e = <<CR, LF>>  OBVIOUS
<1>2. s \in Seq(Byte) /\ a \in Seq(Byte) /\ h \in Seq(Byte) /\ Len(s) = 2  BY <1>1 DEF CommandOk
<1>3. e \in Seq(Byte) /\ Len(e) = 2 /\ e[1] = CR /\ e[2] = LF  BY <1>1, Strings DEF Byte
<1>4. PICK l \in Nat, m \in Nat : l = Len(a) /\ m = Len(h)  BY <1>2, LenProperties
<1>5. PICK f, g, k : f = s \o a /\ g = f \o e /\ k = g \o h  OBVIOUS
<1>6. /\ f \in Seq(Byte) /\ Len(f) = 2 + l
      /\ \A i \in 1 .. 2 : f[i] = s[i]
      /\ \A i \in 1 .. l : f[2 + i] = a[i]
  <2>1. Joined(f, s, 2, a, l)  BY <1>2, <1>4, <1>5, JoinedParts
  <2> QED  BY <2>1 DEF Joined
<1>7. /\ g \in Seq(Byte) /\ Len(g) = (2 + l) + 2
      /\ \A i \in 1 .. 2 + l : g[i] = f[i]
      /\ \A i \in 1 .. 2 : g[(2 + l) + i] = e[i]
  <2>1. Joined(g, f, 2 + l, e, 2)  BY <1>3, <1>5, <1>6, JoinedParts
  <2> QED  BY <2>1 DEF Joined
<1>8. /\ k \in Seq(Byte) /\ Len(k) = ((2 + l) + 2) + m
      /\ \A i \in 1 .. (2 + l) + 2 : k[i] = g[i]
  <2>1. Joined(k, g, (2 + l) + 2, h, m)  BY <1>2, <1>4, <1>5, <1>7, JoinedParts
  <2> QED  BY <2>1 DEF Joined
<1>9. Command(d).bytes = k /\ Command(d).who = CLIENT  BY <1>1, <1>5 DEF Command, Says
<1>10. k[1] = s[1] /\ k[2] = s[2]
  <2>1. \A i \in 1 .. 2 : i \in 1 .. 2 + l /\ i \in 1 .. (2 + l) + 2  OBVIOUS
  <2>2. \A i \in 1 .. 2 : k[i] = s[i]  BY Zenon, <1>6, <1>7, <1>8, <2>1
  <2>3. 1 \in 1 .. 2 /\ 2 \in 1 .. 2  OBVIOUS
  <2> QED  BY <2>2, <2>3
<1>11. \A i \in 1 .. l : k[2 + i] = a[i]
  <2>1. \A i \in 1 .. l : 2 + i \in 1 .. 2 + l /\ 2 + i \in 1 .. (2 + l) + 2  OBVIOUS
  <2> QED  BY ZenonT(40), <1>6, <1>7, <1>8, <2>1
<1>12. k[l + 3] = CR /\ k[l + 4] = LF
  <2>1. /\ 1 \in 1 .. 2 /\ 2 \in 1 .. 2 /\ l + 3 \in 1 .. (2 + l) + 2 /\ l + 4 \in 1 .. (2 + l) + 2
        /\ (2 + l) + 1 = l + 3 /\ (2 + l) + 2 = l + 4
    OBVIOUS
  <2>2. g[(2 + l) + 1] = e[1] /\ g[(2 + l) + 2] = e[2]  BY Zenon, <1>7, <2>1
  <2>3. k[l + 3] = g[l + 3] /\ k[l + 4] = g[l + 4]  BY Zenon, <1>8, <2>1
  <2> QED  BY Zenon, <1>3, <2>1, <2>2, <2>3
<1>13. ((2 + l) + 2) + m = l + m + 4  OBVIOUS
<1> QED  BY ZenonT(40), <1>1, <1>4, <1>8, <1>9, <1>10, <1>11, <1>12, <1>13 DEF Layout

LEMMA LayoutParts ==
  ASSUME NEW d, CommandOk(d)
  PROVE  \E l, m \in Nat :
           /\ l = Len(d.arg) /\ m = Len(d.ahead) /\ (d.ahead = <<>> <=> m = 0)
           /\ Command(d).bytes \in Seq(Byte) /\ Len(Command(d).bytes) = l + m + 4
           /\ Command(d).bytes[1] = d.string[1] /\ Command(d).bytes[2] = d.string[2]
           /\ \A i \in 1 .. l : Command(d).bytes[2 + i] = d.arg[i]
           /\ Command(d).bytes[l + 3] = CR /\ Command(d).bytes[l + 4] = LF
<1>1. Layout(d, Command(d).bytes)  BY CommandLayout
<1>2. Len(d.arg) \in Nat /\ Len(d.ahead) \in Nat /\ (d.ahead = <<>> <=> Len(d.ahead) = 0)  BY DEF CommandOk
<1> QED  BY ZenonT(40), <1>1, <1>2 DEF Layout

UserKept(p, q, extracting) == extracting = "EXTRACTING_PASS" => q.user = p.user

\* The argument: what is taken of it, its end, and what a client sends ahead of the reply.
LEMMA ArgumentMoves ==
  ASSUME NEW d, CommandOk(d), NEW w, w = Command(d).bytes, NEW n \in 2 .. Len(w) - 1,
         NEW extracting, NEW response, NEW field,
         \/ extracting = "EXTRACTING_USER" /\ response = "USER_RESPONSE" /\ field = "user"
         \/ extracting = "EXTRACTING_PASS" /\ response = "PASS_RESPONSE" /\ field = "pass",
         NEW p, IsParser(p), Argument(d, n, p, extracting, response, field),
         NEW q, q = SpoofByte(p, CLIENT, w[n + 1])
  PROVE  IsParser(q) /\ Argument(d, n + 1, q, extracting, response, field) /\ UserKept(p, q, extracting)
<1>0. PICK l \in Nat, m \in Nat :
        /\ l = Len(d.arg) /\ m = Len(d.ahead)
        /\ w \in Seq(Byte) /\ Len(w) = l + m + 4 /\ \A i \in 1 .. l : w[2 + i] = d.arg[i]
        /\ w[l + 3] = CR /\ w[l + 4] = LF
  BY Zenon, LayoutParts
<1>1. PICK arg \in Seq(Byte) : l = Len(arg) /\ arg = d.arg  BY <1>0 DEF CommandOk
<1>2. /\ w \in Seq(Byte) /\ Len(w) = l + m + 4 /\ \A i \in 1 .. l : w[2 + i] = arg[i]
      /\ w[l + 3] = CR /\ w[l + 4] = LF
  BY <1>0, <1>1
<1>3. \A i \in 1 .. l : arg[i] \in Byte /\ arg[i] < 128 /\ arg[i] \notin {CR, LF}
  BY <1>1, CharacterBytes DEF CommandOk
<1>4. PICK b \in Byte : b = w[n + 1]  BY <1>2, ElementOfSeq
<1>5. CASE n <= l + 1 /\ In(p, extracting, 0, 0, SubSeq(arg, 1, n - 2))
  <2>1. PICK j \in Nat : j = n - 2 /\ j < l /\ j + 1 = n - 1 /\ n + 1 = 2 + (j + 1)  BY <1>5
  <2>0. j + 1 \in 1 .. l /\ n + 1 = 2 + (j + 1)  BY <2>1
  <2>2. b = arg[j + 1] /\ b < 128 /\ b \notin {CR, LF}  BY Zenon, <1>2, <1>3, <1>4, <2>0
  <2>3. Append(SubSeq(arg, 1, j), arg[j + 1]) = SubSeq(arg, 1, j + 1)
    <3>1. j < Len(arg) /\ 1 <= j + 1 /\ 1 \in Nat \ {0}  BY <1>1, <2>1
    <3> QED  BY ZenonT(40), <3>1, StringGrows
  <2>7. PICK text : text = SubSeq(arg, 1, j)  OBVIOUS
  <2>8. In(p, "EXTRACTING_USER", 0, 0, text) \/ In(p, "EXTRACTING_PASS", 0, 0, text)  BY <1>5, <2>1, <2>7
  <2>9. Became(p, q, p.state, 0, 0, Append(text, b))  BY ZenonT(40), <1>4, <2>2, <2>8, ExtractingMoves
  <2>4. Became(p, q, p.state, 0, 0, SubSeq(arg, 1, j + 1))
    <3>1. Append(text, b) = SubSeq(arg, 1, j + 1)  BY <2>2, <2>3, <2>7
    <3> QED  BY <2>9, <3>1
  <2>5. p.state = extracting  BY <1>5 DEF In
  <2>6. (n + 1) - 2 = j + 1 /\ n + 1 <= l + 2  BY <1>5, <2>1
  <2> QED  BY <1>1, <2>4, <2>5, <2>6 DEF Became, Argument, UserKept
<1>6. CASE n = l + 2 /\ In(p, extracting, 0, 0, SubSeq(arg, 1, n - 2))
  <2>0. n + 1 = l + 3 /\ CR < 128  BY <1>6, Strings
  <2>1. b = CR /\ b < 128  BY Zenon, <1>2, <1>4, <2>0
  <2>5. PICK text : text = SubSeq(arg, 1, n - 2)  OBVIOUS
  <2>6. In(p, "EXTRACTING_USER", 0, 0, text) \/ In(p, "EXTRACTING_PASS", 0, 0, text)  BY <1>6, <2>5
  <2>2. q = p  BY ZenonT(40), <1>4, <2>1, <2>6, ExtractingMoves
  <2>3. SubSeq(arg, 1, n - 2) = arg  BY <1>1, <1>6, SubSeqFull
  <2>4. n + 1 = l + 3  BY <1>6
  <2> QED  BY <1>1, <1>6, <2>2, <2>3, <2>4 DEF Argument, UserKept
<1>7. CASE n = l + 3 /\ In(p, extracting, 0, 0, arg)
  <2>0. n + 1 = l + 4 /\ LF < 128  BY <1>7, Strings
  <2>1. b = LF /\ b < 128 /\ n + 1 = l + 4  BY Zenon, <1>2, <1>4, <2>0
  <2>2. p.state = extracting  BY <1>7 DEF In
  <2>3. /\ IsParser(q) /\ In(q, response, 0, 0, <<>>) /\ q[field] = arg
        /\ extracting = "EXTRACTING_PASS" => q.user = p.user
    BY SMTT(40), <1>4, <1>7, <2>1, <2>2, ExtractingMoves
  <2> QED  BY <1>1, <2>1, <2>3 DEF Argument, UserKept
<1>8. CASE n = l + 4 /\ In(p, response, 0, 0, <<>>)
  <2>1. IsParser(q) /\ Left(q) /\ q.user = p.user  BY <1>4, <1>8, ResponseMoves
  <2>2. n + 1 > l + 4  BY <1>8
  <2> QED  BY <1>1, <2>1, <2>2 DEF Argument, UserKept
<1>9. CASE n > l + 4 /\ Left(p)
  <2>1. q = p  BY <1>9, Stays DEF Left
  <2>2. n + 1 > l + 4  BY <1>9
  <2> QED  BY <1>1, <1>9, <2>1, <2>2 DEF Argument, UserKept
<1>10. n <= l + 2 <=> n <= l + 1 \/ n = l + 2  OBVIOUS
<1> QED  BY <1>1, <1>5, <1>6, <1>7, <1>8, <1>9, <1>10 DEF Argument

\* Who holds the login: a user that is held, and the commands that change it.
LEMMA HeldOnce ==
  ASSUME NEW cs, NEW c \in Int, NEW u, NEW v, Holding(cs, c, u), Holding(cs, c, v)
  PROVE  u = v
<1>1. u \in 1 .. c /\ v \in 1 .. c  BY DEF Holding
<1>2. cs[u].string = User /\ cs[v].string = User  BY DEF Holding, Accepts
<1>3. ~(u < v)
  <2>1. u < v => v \in u + 1 .. c  BY <1>1
  <2> QED  BY <1>2, <2>1 DEF Holding
<1>4. ~(v < u)
  <2>1. v < u => u \in v + 1 .. c  BY <1>1
  <2> QED  BY <1>2, <2>1 DEF Holding
<1> QED  BY <1>1, <1>3, <1>4

LEMMA HoldingNext ==
  ASSUME NEW cs, NEW c \in Nat \ {0}, NEW u
  PROVE  Holding(cs, c, u) <=> \/ u = c /\ Accepts(cs[c], User)
                               \/ Holding(cs, c - 1, u) /\ cs[c].string \notin {User, Pass}
<1>1. ASSUME Holding(cs, c, u), u # c  PROVE Holding(cs, c - 1, u) /\ cs[c].string \notin {User, Pass}
  <2>1. u \in 1 .. c  BY <1>1 DEF Holding
  <2>2. u \in 1 .. c - 1 /\ c \in u + 1 .. c /\ \A i \in u + 1 .. c - 1 : i \in u + 1 .. c  BY <1>1, <2>1
  <2> QED  BY <1>1, <2>2 DEF Holding
<1>2. ASSUME Holding(cs, c, u), u = c  PROVE Accepts(cs[c], User)
  BY <1>2 DEF Holding
<1>3. ASSUME u = c, Accepts(cs[c], User)  PROVE Holding(cs, c, u)
  <2>1. u \in 1 .. c /\ \A i \in u + 1 .. c : FALSE  BY <1>3
  <2> QED  BY <1>3, <2>1 DEF Holding
<1>4. ASSUME Holding(cs, c - 1, u), cs[c].string \notin {User, Pass}  PROVE Holding(cs, c, u)
  <2>1. u \in 1 .. c - 1  BY <1>4 DEF Holding
  <2>2. u \in 1 .. c /\ \A i \in u + 1 .. c : i \in u + 1 .. c - 1 \/ i = c  BY <2>1
  <2> QED  BY <1>4, <2>2 DEF Holding
<1> QED  BY <1>1, <1>2, <1>3, <1>4

LEMMA LoginParts ==
  ASSUME NEW cs, Len(cs) \in Nat, NEW l
  PROVE  l \in Logins(cs) <=> \E u, c \in 1 .. Len(cs) : /\ l = <<u, c>> /\ l[1] = u /\ l[2] = c
                                                         /\ Holding(cs, c - 1, u) /\ Accepts(cs[c], Pass)
<1>1. ASSUME l \in Logins(cs)
      PROVE  \E u, c \in 1 .. Len(cs) : /\ l = <<u, c>> /\ l[1] = u /\ l[2] = c
                                        /\ Holding(cs, c - 1, u) /\ Accepts(cs[c], Pass)
  <2>1. PICK u \in 1 .. Len(cs), c \in 1 .. Len(cs) : l = <<u, c>> /\ l[1] = u /\ l[2] = c  BY <1>1 DEF Logins
  <2>2. u < c /\ Accepts(cs[u], User) /\ Accepts(cs[c], Pass)
    BY <1>1, <2>1 DEF Logins
  <2>3. \A i \in u + 1 .. c - 1 : cs[i].string \notin {User, Pass}  BY <1>1, <2>1 DEF Logins
  <2>4. u \in 1 .. c - 1  BY <2>2
  <2>5. Holding(cs, c - 1, u)  BY <2>2, <2>3, <2>4 DEF Holding
  <2> QED  BY <2>1, <2>2, <2>5
<1>2. ASSUME NEW u \in 1 .. Len(cs), NEW c \in 1 .. Len(cs), l = <<u, c>>, l[1] = u, l[2] = c,
             Holding(cs, c - 1, u), Accepts(cs[c], Pass)
      PROVE  l \in Logins(cs)
  <2>1. u \in 1 .. c - 1 /\ Accepts(cs[u], User)  BY <1>2 DEF Holding
  <2>2. \A i \in u + 1 .. c - 1 : cs[i].string \notin {User, Pass}  BY <1>2 DEF Holding
  <2>3. l \in (1 .. Len(cs)) \X (1 .. Len(cs)) /\ u < c  BY <1>2, <2>1
  <2> QED  BY <1>2, <2>1, <2>2, <2>3 DEF Logins
<1> QED  BY <1>1, <1>2

LEMMA LoginIs ==
  ASSUME NEW cs, Len(cs) \in Nat, NEW c \in 1 .. Len(cs), NEW u, Holding(cs, c - 1, u), Accepts(cs[c], Pass)
  PROVE  <<u, c>> \in Logins(cs)
<1>1. u \in 1 .. Len(cs)  BY DEF Holding
<1>2. PICK l : l = <<u, c>>  OBVIOUS
<1>3. l[1] = u /\ l[2] = c  BY <1>2
<1> QED  BY <1>1, <1>2, <1>3, LoginParts

LEMMA UnloggedNext ==
  ASSUME NEW cs, Len(cs) \in Nat, NEW c \in 1 .. Len(cs), Unlogged(cs, c - 1),
         Accepts(cs[c], Pass) => \A u : ~Holding(cs, c - 1, u)
  PROVE  Unlogged(cs, c)
<1> SUFFICES ASSUME NEW l \in Logins(cs)  PROVE l[2] > c
  BY DEF Unlogged
<1>1. PICK u \in 1 .. Len(cs), d \in 1 .. Len(cs) : l[2] = d /\ Holding(cs, d - 1, u) /\ Accepts(cs[d], Pass)
  BY LoginParts
<1>2. d > c - 1  BY <1>1 DEF Unlogged
<1>3. d # c  BY <1>1
<1> QED  BY <1>1, <1>2, <1>3

\* A command while no user is held.
LEMMA WithoutMoves ==
  ASSUME NEW d, CommandOk(d), NEW w, w = Command(d).bytes, NEW n \in 1 .. Len(w) - 1,
         NEW p, IsParser(p), WithoutUser(d, n, p), NEW q, q = SpoofByte(p, CLIENT, w[n + 1])
  PROVE  IsParser(q) /\ WithoutUser(d, n + 1, q)
<1>1. PICK l \in Nat, m \in Nat : l = Len(d.arg) /\ w \in Seq(Byte) /\ Len(w) = l + m + 4 /\ w[2] = d.string[2]
  BY Zenon, LayoutParts
<1>2. w \in Seq(Byte) /\ Len(w) = l + m + 4 /\ w[2] = d.string[2]  BY <1>1
<1>3. /\ d.string[2] \in Byte /\ d.string[2] < 128
      /\ d.string = User <=> d.string[1] = User[1] /\ d.string[2] = User[2]
  BY CharacterBytes, StringIs DEF CommandOk
<1>4. n + 1 > 1 /\ ~(n + 1 = 1)  OBVIOUS
<1>5. CASE n = 1 /\ d.string[1] = User[1]
  <2>1. In(p, "CHECKING_USER", 1, 0, <<>>)  BY <1>5 DEF WithoutUser
  <2>2. IF d.string[2] = User[2] THEN Became(p, q, "EXTRACTING_USER", 0, 0, <<>>)
        ELSE Became(p, q, "USER_CLIENT_CONSUME", 0, 0, <<>>)
    <3>1. w[n + 1] = d.string[2]  BY <1>2, <1>5
    <3> QED  BY <1>3, <2>1, <3>1, UserSecond
  <2>3. CASE d.string = User
    <3>1. IsParser(q) /\ In(q, "EXTRACTING_USER", 0, 0, <<>>)  BY <1>3, <2>2, <2>3 DEF Became
    <3>2. SubSeq(d.arg, 1, (n + 1) - 2) = <<>>  BY <1>5, SubSeqEmpty
    <3>3. n + 1 <= l + 2  BY <1>5
    <3> QED  BY <1>1, <1>4, <2>3, <3>1, <3>2, <3>3 DEF WithoutUser, Argument
  <2>4. CASE d.string # User
    BY <1>3, <1>4, <1>5, <2>2, <2>4 DEF Became, WithoutUser
  <2> QED  BY <2>3, <2>4
<1>6. CASE n > 1 /\ d.string = User
  <2>1. Argument(d, n, p, "EXTRACTING_USER", "USER_RESPONSE", "user")  BY <1>6 DEF WithoutUser
  <2>2. n \in 2 .. Len(w) - 1  BY <1>6
  <2>3. IsParser(q) /\ Argument(d, n + 1, q, "EXTRACTING_USER", "USER_RESPONSE", "user")
    BY ZenonT(40), <2>1, <2>2, ArgumentMoves
  <2> QED  BY <1>4, <1>6, <2>3 DEF WithoutUser
<1>7. CASE ~(n = 1 /\ d.string[1] = User[1]) /\ ~(n > 1 /\ d.string = User)
  <2>1. In(p, "USER_CLIENT_CONSUME", 0, 0, <<>>)  BY <1>7 DEF WithoutUser
  <2>2. q = p  BY <2>1, Stays, WaitingStates DEF In
  <2>3. d.string # User  BY <1>3, <1>7
  <2> QED  BY <1>4, <2>1, <2>2, <2>3 DEF WithoutUser
<1> QED  BY <1>5, <1>6, <1>7

\* And while one is.
LEMMA WithMoves ==
  ASSUME NEW d, CommandOk(d), NEW w, w = Command(d).bytes, NEW n \in 1 .. Len(w) - 1, NEW user,
         NEW p, IsParser(p), WithUser(d, n, p, user), NEW q, q = SpoofByte(p, CLIENT, w[n + 1])
  PROVE  IsParser(q) /\ WithUser(d, n + 1, q, user)
<1>1. PICK l \in Nat, m \in Nat : l = Len(d.arg) /\ w \in Seq(Byte) /\ Len(w) = l + m + 4 /\ w[2] = d.string[2]
  BY Zenon, LayoutParts
<1>2. w \in Seq(Byte) /\ Len(w) = l + m + 4 /\ w[2] = d.string[2]  BY <1>1
<1>3. /\ d.string[2] \in Byte /\ d.string[2] < 128
      /\ d.string = User <=> d.string[1] = User[1] /\ d.string[2] = User[2]
      /\ d.string = Pass <=> d.string[1] = Pass[1] /\ d.string[2] = Pass[2]
      /\ User # Pass /\ User[1] # Pass[1]
  BY CharacterBytes, StringIs DEF CommandOk
<1>4. n + 1 > 1 /\ ~(n + 1 = 1)  OBVIOUS
<1>5. CASE n = 1 /\ d.string[1] \in {User[1], Pass[1]}
  <2>1. /\ d.string[1] = User[1] => In(p, "CHECKING_PASS", NEQ, 1, <<>>)
        /\ d.string[1] = Pass[1] => In(p, "CHECKING_PASS", 1, NEQ, <<>>)
        /\ p.user = user
    BY <1>3, <1>5 DEF WithUser
  <2>2. /\ d.string[1] = User[1] => p.k1 # 1 /\ p.k2 = 1
        /\ d.string[1] = Pass[1] => p.k1 = 1 /\ p.k2 # 1
    BY SMTT(40), <2>1, Strings DEF In
  <2>3. IF p.k1 = 1 /\ d.string[2] = Pass[2] THEN Became(p, q, "EXTRACTING_PASS", 0, 0, <<>>)
        ELSE IF p.k2 = 1 /\ d.string[2] = User[2] THEN Became(p, q, "EXTRACTING_USER", 0, 0, <<>>)
        ELSE Became(p, q, "PASS_CLIENT_CONSUME", 0, 0, <<>>)
    <3>1. w[n + 1] = d.string[2]  BY <1>2, <1>5
    <3>2. In(p, "CHECKING_PASS", 1, NEQ, <<>>) \/ In(p, "CHECKING_PASS", NEQ, 1, <<>>)  BY <1>5, <2>1
    <3> QED  BY <1>3, <3>1, <3>2, PassSecond
  <2>4. SubSeq(d.arg, 1, (n + 1) - 2) = <<>> /\ n + 1 <= l + 2
    <3>1. (n + 1) - 2 < 1 /\ (n + 1) - 2 \in Int /\ n + 1 <= l + 2  BY <1>5
    <3> QED  BY <3>1, SubSeqEmpty
  <2>5. CASE d.string = User
    <3>1. IsParser(q) /\ In(q, "EXTRACTING_USER", 0, 0, <<>>)  BY <1>3, <2>2, <2>3, <2>5 DEF Became
    <3> QED  BY <1>1, <1>3, <1>4, <2>4, <2>5, <3>1 DEF WithUser, Argument
  <2>6. CASE d.string = Pass
    <3>1. IsParser(q) /\ In(q, "EXTRACTING_PASS", 0, 0, <<>>) /\ q.user = user  BY <1>3, <2>1, <2>2, <2>3, <2>6 DEF Became
    <3> QED  BY <1>1, <1>3, <1>4, <2>4, <2>6, <3>1 DEF WithUser, Argument
  <2>7. CASE d.string # User /\ d.string # Pass
    <3>1. Became(p, q, "PASS_CLIENT_CONSUME", 0, 0, <<>>)  BY <1>3, <1>5, <2>2, <2>3, <2>7
    <3> QED  BY <1>4, <2>1, <2>7, <3>1 DEF Became, WithUser
  <2> QED  BY <2>5, <2>6, <2>7
<1>6. CASE n > 1 /\ d.string = User
  <2>1. Argument(d, n, p, "EXTRACTING_USER", "USER_RESPONSE", "user")  BY <1>6 DEF WithUser
  <2>2. n \in 2 .. Len(w) - 1  BY <1>6
  <2>3. IsParser(q) /\ Argument(d, n + 1, q, "EXTRACTING_USER", "USER_RESPONSE", "user")
    BY ZenonT(40), <2>1, <2>2, ArgumentMoves
  <2> QED  BY <1>4, <1>6, <2>3 DEF WithUser
<1>7. CASE n > 1 /\ d.string = Pass
  <2>1. Argument(d, n, p, "EXTRACTING_PASS", "PASS_RESPONSE", "pass") /\ p.user = user  BY <1>3, <1>7 DEF WithUser
  <2>2. n \in 2 .. Len(w) - 1  BY <1>7
  <2>3. IsParser(q) /\ Argument(d, n + 1, q, "EXTRACTING_PASS", "PASS_RESPONSE", "pass")
    BY ZenonT(40), <2>1, <2>2, ArgumentMoves
  <2>5. UserKept(p, q, "EXTRACTING_PASS")  BY ZenonT(40), <2>1, <2>2, ArgumentMoves
  <2>4. q.user = p.user  BY <2>5 DEF UserKept
  <2> QED  BY <1>3, <1>4, <1>7, <2>1, <2>3, <2>4 DEF WithUser
<1>8. CASE ~(n = 1 /\ d.string[1] \in {User[1], Pass[1]}) /\ ~(n > 1 /\ d.string \in {User, Pass})
  <2>1. In(p, "PASS_CLIENT_CONSUME", 0, 0, <<>>) /\ p.user = user  BY <1>8 DEF WithUser
  <2>2. q = p  BY <2>1, Stays, WaitingStates DEF In
  <2>3. d.string # User /\ d.string # Pass  BY <1>3, <1>8
  <2> QED  BY <1>4, <2>1, <2>2, <2>3 DEF WithUser
<1> QED  BY <1>5, <1>6, <1>7, <1>8

\* A byte of a command, from its first on.
LEMMA CommandStep ==
  ASSUME NEW cs, Commanded(cs), NEW c \in 1 .. Len(cs), NEW w, w = Command(cs[c]).bytes, NEW n \in 0 .. Len(w) - 1,
         NEW p, IsParser(p), CommandAt(cs, c, n, p), NEW q, q = SpoofByte(p, CLIENT, w[n + 1])
  PROVE  IsParser(q) /\ CommandAt(cs, c, n + 1, q)
<1>1. PICK d : d = cs[c] /\ CommandOk(d)  BY DEF Commanded
<1>2. PICK l \in Nat, m \in Nat : w \in Seq(Byte) /\ Len(w) = l + m + 4 /\ w[1] = d.string[1]
  BY Zenon, <1>1, LayoutParts
<1>3. w \in Seq(Byte) /\ Len(w) = l + m + 4 /\ w[1] = d.string[1]  BY <1>2
<1>4. d.string[1] \in Byte /\ d.string[1] < 128 /\ User[1] # Pass[1]
  BY SMTT(40), <1>1, CharacterBytes, Strings DEF CommandOk
<1>5. SUFFICES IsParser(q) /\ Within(cs, c, n + 1, q)
  <2>1. n + 1 > 0  BY <1>3
  <2> QED  BY <2>1 DEF CommandAt
<1>6. CASE LoggedIn(cs, c - 1, p)
  <2>1. q = p  BY <1>6, Stays DEF LoggedIn
  <2> QED  BY <1>6, <2>1 DEF Within
<1>7. CASE n = 0 /\ Unlogged(cs, c - 1) /\ PassAwaited(cs, c - 1, p)
  <2>1. PICK u \in 1 .. c - 1 :
          Holding(cs, c - 1, u) /\ In(p, "PASS_SERVER_CONSUME", 0, 0, <<>>) /\ p.user = cs[u].arg
    BY <1>7 DEF PassAwaited
  <2>2. IF d.string[1] = Pass[1] THEN Became(p, q, "CHECKING_PASS", 1, NEQ, <<>>)
        ELSE IF d.string[1] = User[1] THEN Became(p, q, "CHECKING_PASS", NEQ, 1, <<>>)
        ELSE Became(p, q, "PASS_CLIENT_CONSUME", 0, 0, <<>>)
    <3>1. w[n + 1] = d.string[1]  BY <1>3, <1>7
    <3> QED  BY <1>4, <2>1, <3>1, PassFirst
  <2>3. n + 1 = 1 /\ ~(n + 1 > 1)  BY <1>7
  <2>4. IsParser(q) /\ WithUser(d, n + 1, q, cs[u].arg)
    BY <1>4, <2>1, <2>2, <2>3 DEF Became, WithUser
  <2> QED  BY <1>1, <1>7, <2>1, <2>4 DEF Within
<1>8. CASE n = 0 /\ Unlogged(cs, c - 1) /\ UserAwaited(cs, c - 1, p)
  <2>1. In(p, "USER_SERVER_CONSUME", 0, 0, <<>>)  BY <1>8 DEF UserAwaited
  <2>2. IF d.string[1] = User[1] THEN Became(p, q, "CHECKING_USER", 1, 0, <<>>)
        ELSE Became(p, q, "USER_CLIENT_CONSUME", 0, 0, <<>>)
    <3>1. w[n + 1] = d.string[1]  BY <1>3, <1>8
    <3> QED  BY <1>4, <2>1, <3>1, UserFirst
  <2>3. n + 1 = 1 /\ ~(n + 1 > 1)  BY <1>8
  <2>4. IsParser(q) /\ WithoutUser(d, n + 1, q)
    BY <1>4, <2>1, <2>2, <2>3 DEF Became, WithoutUser
  <2> QED  BY <1>1, <1>8, <2>4 DEF Within, UserAwaited
<1>9. ~Ahead(cs, c - 1)
  <2>1. c - 1 > 0 => c - 1 \in 1 .. Len(cs) /\ c - 1 # Len(cs)  BY DEF Commanded
  <2> QED  BY <2>1 DEF Ahead, Commanded
<1>10. CASE n > 0 /\ Unlogged(cs, c - 1) /\ (\A u \in 1 .. c - 1 : ~Holding(cs, c - 1, u)) /\ WithoutUser(d, n, p)
  <2>1. n \in 1 .. Len(w) - 1  BY <1>3, <1>10
  <2>2. IsParser(q) /\ WithoutUser(d, n + 1, q)  BY <1>1, <1>10, <2>1, WithoutMoves
  <2> QED  BY <1>1, <1>10, <2>2 DEF Within
<1>11. ASSUME n > 0, Unlogged(cs, c - 1), NEW u \in 1 .. c - 1, Holding(cs, c - 1, u), WithUser(d, n, p, cs[u].arg)
       PROVE  IsParser(q) /\ Within(cs, c, n + 1, q)
  <2>1. n \in 1 .. Len(w) - 1  BY <1>3, <1>11
  <2>2. IsParser(q) /\ WithUser(d, n + 1, q, cs[u].arg)  BY <1>1, <1>11, <2>1, WithMoves
  <2> QED  BY <1>1, <1>11, <2>2 DEF Within
<1>12. CASE n = 0 /\ After(cs, c - 1, p)
  BY <1>6, <1>7, <1>8, <1>9, <1>12 DEF After
<1>13. CASE n > 0 /\ Within(cs, c, n, p)
  BY <1>1, <1>6, <1>10, <1>11, <1>13 DEF Within
<1> QED  BY <1>12, <1>13 DEF CommandAt

\* Once the whole command is in, its argument is, unless more was sent ahead.
LEMMA ArgumentEnds ==
  ASSUME NEW d, CommandOk(d), NEW p, NEW extracting, NEW response, NEW field,
         Argument(d, CommandLength(d), p, extracting, response, field)
  PROVE  \/ d.ahead = <<>> /\ In(p, response, 0, 0, <<>>) /\ p[field] = d.arg
         \/ d.ahead # <<>> /\ Left(p)
<1>1. PICK l \in Nat, m \in Nat : l = Len(d.arg) /\ (d.ahead = <<>> <=> m = 0) /\ Len(Command(d).bytes) = l + m + 4
  BY Zenon, LayoutParts
<1>2. PICK n : n = CommandLength(d) /\ n = l + m + 4  BY <1>1 DEF CommandLength
<1>3. ~(n <= l + 2) /\ n # l + 3 /\ (n = l + 4 <=> m = 0) /\ (n > l + 4 <=> m # 0)
  <2>1. n = l + m + 4  BY <1>2
  <2> QED  BY <2>1
<1> QED  BY <1>1, <1>2, <1>3 DEF Argument

LEMMA UserReplied ==
  ASSUME NEW cs, Commanded(cs), NEW c \in 1 .. Len(cs), cs[c].string = User, Unlogged(cs, c),
         NEW p, IsParser(p), Argument(cs[c], CommandLength(cs[c]), p, "EXTRACTING_USER", "USER_RESPONSE", "user"),
         NEW q, q = SpoofByte(p, SERVER, cs[c].reply)
  PROVE  IsParser(q) /\ After(cs, c, q)
<1>1. CommandOk(cs[c])  BY DEF Commanded
<1>2. PICK b \in Byte : b = cs[c].reply /\ b \in {Plus, Minus} /\ Plus # Minus
  <2>1. cs[c].reply \in {Plus, Minus}  BY <1>1 DEF CommandOk
  <2>2. Plus \in Byte /\ Minus \in Byte /\ Plus # Minus  BY Strings DEF Byte
  <2> QED  BY <2>1, <2>2
<1>3. c \in Nat \ {0} /\ c > 0  OBVIOUS
<1>4. \A u : Holding(cs, c, u) <=> u = c /\ Accepts(cs[c], User)  BY <1>3, HoldingNext
<1>5. CASE cs[c].ahead = <<>> /\ In(p, "USER_RESPONSE", 0, 0, <<>>) /\ p["user"] = cs[c].arg
  <2>0. p.state = "USER_RESPONSE"  BY <1>5 DEF In
  <2>1. CASE b = Plus
    <3>1. Became(p, q, "PASS_SERVER_CONSUME", 0, 0, <<>>)  BY <1>2, <1>5, <2>0, <2>1, ResponseMoves
    <3>2. Holding(cs, c, c)  BY <1>2, <1>4, <1>5, <2>1 DEF Accepts
    <3>3. c \in 1 .. c  OBVIOUS
    <3>4. PassAwaited(cs, c, q)  BY <1>5, <3>1, <3>2, <3>3 DEF Became, PassAwaited
    <3> QED  BY <3>1, <3>4 DEF Became, After
  <2>2. CASE b = Minus
    <3>1. Became(p, q, "USER_SERVER_CONSUME", 0, 0, <<>>)  BY <1>2, <1>5, <2>2, ResponseMoves
    <3>2. \A u \in 1 .. c : ~Holding(cs, c, u)  BY <1>2, <1>4, <2>2 DEF Accepts
    <3>3. UserAwaited(cs, c, q)  BY <3>1, <3>2 DEF Became, UserAwaited
    <3> QED  BY <3>1, <3>3 DEF Became, After
  <2> QED  BY <1>2, <2>1, <2>2
<1>6. CASE cs[c].ahead # <<>> /\ Left(p)
  <2>1. q = p  BY <1>6, Stays DEF Left
  <2> QED  BY <1>3, <1>6, <2>1 DEF After, Ahead
<1> QED  BY <1>1, <1>5, <1>6, ArgumentEnds

LEMMA PassReplied ==
  ASSUME NEW cs, Commanded(cs), NEW c \in 1 .. Len(cs), cs[c].string = Pass, Unlogged(cs, c - 1),
         NEW u \in 1 .. c - 1, Holding(cs, c - 1, u),
         NEW p, IsParser(p), p.user = cs[u].arg,
         Argument(cs[c], CommandLength(cs[c]), p, "EXTRACTING_PASS", "PASS_RESPONSE", "pass"),
         NEW q, q = SpoofByte(p, SERVER, cs[c].reply)
  PROVE  IsParser(q) /\ After(cs, c, q)
<1>1. CommandOk(cs[c]) /\ Len(cs) \in Nat  BY DEF Commanded
<1>2. PICK b \in Byte : b = cs[c].reply /\ b \in {Plus, Minus} /\ Plus # Minus
  <2>1. cs[c].reply \in {Plus, Minus}  BY <1>1 DEF CommandOk
  <2>2. Plus \in Byte /\ Minus \in Byte /\ Plus # Minus  BY Strings DEF Byte
  <2> QED  BY <2>1, <2>2
<1>3. c \in Nat \ {0} /\ c > 0  OBVIOUS
<1>4. \A v : ~Holding(cs, c, v)
  <2>1. Pass # User  BY Strings
  <2> QED  BY <1>3, <2>1, HoldingNext DEF Accepts
<1>5. CASE cs[c].ahead = <<>> /\ In(p, "PASS_RESPONSE", 0, 0, <<>>) /\ p["pass"] = cs[c].arg
  <2>0. p.state = "PASS_RESPONSE"  BY <1>5 DEF In
  <2>1. CASE b = Plus
    <3>1. IsParser(q) /\ q.state = "FINISH" /\ q.success /\ q.user = p.user /\ q.pass = p.pass
      BY <1>2, <1>5, <2>0, <2>1, ResponseMoves
    <3>7. PICK l : l = <<u, c>>  OBVIOUS
    <3>2. l = <<u, c>> /\ l[1] = u /\ l[2] = c  BY <3>7
    <3>3. l \in Logins(cs)  BY <1>1, <1>2, <1>5, <2>1, <3>2, LoginIs DEF Accepts
    <3>4. \A m \in Logins(cs) : l[2] <= m[2]
      <4>1. \A m \in Logins(cs) : m[2] > c - 1 /\ m[2] \in Nat  BY <1>1, LoginParts DEF Unlogged
      <4> QED  BY <3>2, <4>1
    <3>5. l[2] <= c  BY <3>2
    <3>6. LoggedIn(cs, c, q)  BY <1>5, <3>1, <3>2, <3>3, <3>4, <3>5 DEF LoggedIn
    <3> QED  BY <3>1, <3>6 DEF After
  <2>2. CASE b = Minus
    <3>1. Became(p, q, "USER_SERVER_CONSUME", 0, 0, <<>>)  BY <1>2, <1>5, <2>2, ResponseMoves
    <3>2. UserAwaited(cs, c, q)  BY <1>4, <3>1 DEF Became, UserAwaited
    <3>3. Unlogged(cs, c)
      <4>1. ~Accepts(cs[c], Pass)  BY <1>2, <2>2 DEF Accepts
      <4> QED  BY <1>1, <4>1, UnloggedNext
    <3> QED  BY <3>1, <3>2, <3>3 DEF Became, After
  <2> QED  BY <1>2, <2>1, <2>2
<1>6. CASE cs[c].ahead # <<>> /\ Left(p)
  <2>1. q = p  BY <1>6, Stays DEF Left
  <2>2. Unlogged(cs, c)
    <3>1. ~Accepts(cs[c], Pass)  BY <1>6 DEF Accepts
    <3> QED  BY <1>1, <3>1, UnloggedNext
  <2> QED  BY <1>3, <1>6, <2>1, <2>2 DEF After, Ahead
<1> QED  BY <1>1, <1>5, <1>6, ArgumentEnds

LEMMA ReplyFirst ==
  ASSUME NEW cs, Commanded(cs), NEW c \in 1 .. Len(cs), NEW p, IsParser(p), Within(cs, c, CommandLength(cs[c]), p),
         NEW q, q = SpoofByte(p, SERVER, cs[c].reply)
  PROVE  IsParser(q) /\ After(cs, c, q)
<1>1. PICK d : d = cs[c] /\ CommandOk(d) /\ Len(cs) \in Nat /\ c \in Nat \ {0}  BY DEF Commanded
<1>2. PICK n \in Nat : n = CommandLength(d) /\ n > 1 /\ n # 1
  <2>1. PICK l \in Nat, m \in Nat : Len(Command(d).bytes) = l + m + 4  BY Zenon, <1>1, LayoutParts
  <2>2. l + m + 4 \in Nat /\ l + m + 4 > 1  OBVIOUS
  <2> QED  BY <2>1, <2>2 DEF CommandLength
<1>3. User # Pass  BY Strings
<1>4. CASE LoggedIn(cs, c - 1, p)
  <2>1. q = p  BY <1>4, Stays DEF LoggedIn
  <2>2. PICK l \in Logins(cs) :
          /\ l[2] <= c - 1 /\ \A m \in Logins(cs) : l[2] <= m[2]
          /\ p.state = "FINISH" /\ p.success /\ p.user = cs[l[1]].arg /\ p.pass = cs[l[2]].arg
    BY <1>4 DEF LoggedIn
  <2>3. l[2] \in Nat  BY <1>1, LoginParts
  <2>4. l[2] <= c  BY <2>2, <2>3
  <2>5. LoggedIn(cs, c, q)  BY <2>1, <2>2, <2>4 DEF LoggedIn
  <2> QED  BY <2>1, <2>5 DEF After
<1>5. CASE Unlogged(cs, c - 1) /\ (\A u \in 1 .. c - 1 : ~Holding(cs, c - 1, u)) /\ WithoutUser(d, n, p)
  <2>1. \A u : ~Holding(cs, c - 1, u)  BY <1>5 DEF Holding
  <2>2. Unlogged(cs, c)  BY <1>1, <1>5, <2>1, UnloggedNext
  <2>3. CASE d.string = User
    <3>1. Argument(d, n, p, "EXTRACTING_USER", "USER_RESPONSE", "user")  BY <1>2, <1>5, <2>3 DEF WithoutUser
    <3> QED  BY <1>1, <1>2, <2>2, <2>3, <3>1, UserReplied
  <2>4. CASE d.string # User
    <3>1. In(p, "USER_CLIENT_CONSUME", 0, 0, <<>>)  BY <1>2, <1>5, <2>4 DEF WithoutUser
    <3>2. Became(p, q, "USER_SERVER_CONSUME", 0, 0, <<>>)  BY <3>1, ServerSpeaks
    <3>3. \A u \in 1 .. c : ~Holding(cs, c, u)  BY <1>1, <2>1, <2>4, HoldingNext DEF Accepts
    <3>4. UserAwaited(cs, c, q)  BY <3>2, <3>3 DEF Became, UserAwaited
    <3> QED  BY <2>2, <3>2, <3>4 DEF Became, After
  <2> QED  BY <2>3, <2>4
<1>6. ASSUME Unlogged(cs, c - 1), NEW u \in 1 .. c - 1, Holding(cs, c - 1, u), WithUser(d, n, p, cs[u].arg)
      PROVE  IsParser(q) /\ After(cs, c, q)
  <2>1. d.string # Pass => Unlogged(cs, c)
    <3>1. d.string # Pass => ~Accepts(cs[c], Pass)  BY <1>1 DEF Accepts
    <3> QED  BY <1>1, <1>6, <3>1, UnloggedNext
  <2>2. CASE d.string = User
    <3>1. Argument(d, n, p, "EXTRACTING_USER", "USER_RESPONSE", "user")  BY <1>2, <1>6, <2>2 DEF WithUser
    <3> QED  BY <1>1, <1>2, <1>3, <2>1, <2>2, <3>1, UserReplied
  <2>3. CASE d.string = Pass
    <3>1. Argument(d, n, p, "EXTRACTING_PASS", "PASS_RESPONSE", "pass") /\ p.user = cs[u].arg
      BY <1>2, <1>3, <1>6, <2>3 DEF WithUser
    <3> QED  BY <1>1, <1>2, <1>6, <2>3, <3>1, PassReplied
  <2>4. CASE d.string # User /\ d.string # Pass
    <3>1. In(p, "PASS_CLIENT_CONSUME", 0, 0, <<>>) /\ p.user = cs[u].arg  BY <1>2, <1>6, <2>4 DEF WithUser
    <3>2. Became(p, q, "PASS_SERVER_CONSUME", 0, 0, <<>>)  BY <3>1, ServerSpeaks
    <3>3. Holding(cs, c, u) /\ u \in 1 .. c  BY <1>1, <1>6, <2>4, HoldingNext
    <3>4. PassAwaited(cs, c, q)  BY <3>1, <3>2, <3>3 DEF Became, PassAwaited
    <3> QED  BY <2>1, <2>4, <3>2, <3>4 DEF Became, After
  <2> QED  BY <2>2, <2>3, <2>4
<1> QED  BY <1>1, <1>2, <1>4, <1>5, <1>6 DEF Within

\* A byte of a reply, on which the server's verdict is read.
LEMMA ReplyStep ==
  ASSUME NEW cs, Commanded(cs), NEW c \in 1 .. Len(cs), NEW n \in 0 .. 3,
         NEW p, IsParser(p), ReplyAt(cs, c, n, p), NEW q, q = SpoofByte(p, SERVER, Reply(cs[c]).bytes[n + 1])
  PROVE  IsParser(q) /\ ReplyAt(cs, c, n + 1, q)
<1>1. SUFFICES IsParser(q) /\ After(cs, c, q)
  <2>1. n + 1 > 0  OBVIOUS
  <2> QED  BY <2>1 DEF ReplyAt
<1>2. CASE n = 0
  <2>1. Reply(cs[c]).bytes[n + 1] = cs[c].reply  BY <1>2 DEF Reply, Says
  <2>2. CommandAt(cs, c, CommandLength(cs[c]), p)  BY <1>2 DEF ReplyAt
  <2>3. CommandLength(cs[c]) > 0 /\ CommandLength(cs[c]) # 0
    <3>1. CommandOk(cs[c])  BY DEF Commanded
    <3>2. PICK l \in Nat, m \in Nat : Len(Command(cs[c]).bytes) = l + m + 4  BY Zenon, <3>1, LayoutParts
    <3>3. l + m + 4 > 0  OBVIOUS
    <3> QED  BY <3>2, <3>3 DEF CommandLength
  <2>4. Within(cs, c, CommandLength(cs[c]), p)  BY <2>2, <2>3 DEF CommandAt
  <2> QED  BY <2>1, <2>4, ReplyFirst
<1>3. CASE n > 0
  <2>1. After(cs, c, p)  BY <1>3 DEF ReplyAt
  <2>2. p.state \in {"FINISH", "PASS_SERVER_CONSUME", "USER_SERVER_CONSUME"}
    BY <2>1 DEF After, LoggedIn, PassAwaited, UserAwaited, In, Left
  <2>3. q = p  BY <2>2, Stays, WaitingStates
  <2> QED  BY <2>1, <2>3
<1> QED  BY <1>2, <1>3

-----------------------------------------------------------------------------
(***************************************************************************)
(* POP3: the conversation                                                  *)
(***************************************************************************)

Spoken(ps) == ps \in Seq(PieceSet) /\ \A i \in 1 .. Len(ps) : Len(ps[i].bytes) \in Nat \ {0}

LEMMA GreetingBytes ==
  /\ Greeting.who = SERVER /\ Greeting.bytes \in Seq(Byte) /\ Len(Greeting.bytes) = 5
  /\ Greeting.bytes[1] = Ok[1] /\ Greeting.bytes[2] = Ok[2]
<1>1. PICK s, z : s = Ok /\ z = <<1, CR, LF>>  OBVIOUS
<1>2. s \in Seq(Byte) /\ Len(s) = 2  BY <1>1 DEF Ok, Plus, Byte
<1>3. z \in Seq(Byte) /\ Len(z) = 3  BY <1>1, Strings DEF Byte
<1>4. PICK g : g = s \o z  OBVIOUS
<1>5. g \in Seq(Byte) /\ Len(g) = 2 + 3 /\ \A i \in 1 .. 2 : g[i] = s[i]
  <2>1. Joined(g, s, 2, z, 3)  BY <1>2, <1>3, <1>4, JoinedParts
  <2> QED  BY <2>1 DEF Joined
<1>6. g[1] = s[1] /\ g[2] = s[2] /\ Len(g) = 5
  <2>1. 1 \in 1 .. 2 /\ 2 \in 1 .. 2 /\ 2 + 3 = 5  OBVIOUS
  <2> QED  BY <1>5, <2>1
<1> QED  BY Zenon, <1>1, <1>4, <1>5, <1>6 DEF Greeting, Says

LEMMA ReplyBytes ==
  ASSUME NEW d, CommandOk(d)
  PROVE  Reply(d).who = SERVER /\ Reply(d).bytes \in Seq(Byte) /\ Len(Reply(d).bytes) = 4
<1>1. PICK r : r = d.reply /\ r \in Byte  BY SMTT(40), Strings DEF CommandOk, Byte
<1>2. PICK g : g = <<r, 111, CR, LF>>  OBVIOUS
<1>3. g \in Seq(Byte) /\ Len(g) = 4  BY <1>1, <1>2, Strings DEF Byte
<1> QED  BY <1>1, <1>2, <1>3 DEF Reply, Says

PopShape(ps, cs, k) ==
  /\ k \in Nat /\ Len(ps) = 2 * k + 1 /\ ps = [i \in 1 .. 2 * k + 1 |-> ps[i]]
  /\ ps[1] = Greeting
  /\ \A c \in 1 .. k : ps[2 * c] = Command(cs[c]) /\ ps[2 * c + 1] = Reply(cs[c])
  /\ \A i \in 1 .. 2 * k + 1 : i = 1 \/ \E c \in 1 .. k : i = 2 * c \/ i = 2 * c + 1

LEMMA PopPiece ==
  ASSUME NEW t, IsPop(t), NEW cs, cs = t.commands, NEW ps, ps = PopPieces(t), NEW k, k = Len(cs)
  PROVE  PopShape(ps, cs, k)
<1>1. k \in Nat  BY PopCommands DEF Commanded
<1>2. ps = [i \in 1 .. 2 * k + 1 |->
              IF i = 1 THEN Greeting ELSE IF i % 2 = 0 THEN Command(cs[i \div 2]) ELSE Reply(cs[i \div 2])]
  BY DEF PopPieces
<1>3. Len(ps) = 2 * k + 1 /\ ps = [i \in 1 .. 2 * k + 1 |-> ps[i]]  BY <1>1, <1>2
<1>4. ps[1] = Greeting
  <2>1. 1 \in 1 .. 2 * k + 1  BY <1>1
  <2> QED  BY <1>2, <2>1
<1>5. ASSUME NEW c \in 1 .. k  PROVE ps[2 * c] = Command(cs[c]) /\ ps[2 * c + 1] = Reply(cs[c])
  <2>1. /\ 2 * c \in 1 .. 2 * k + 1 /\ 2 * c + 1 \in 1 .. 2 * k + 1 /\ 2 * c # 1 /\ 2 * c + 1 # 1
        /\ (2 * c) % 2 = 0 /\ (2 * c) \div 2 = c /\ (2 * c + 1) % 2 = 1 /\ (2 * c + 1) \div 2 = c
    BY <1>1
  <2> QED  BY <1>2, <2>1
<1>6. ASSUME NEW i \in 1 .. 2 * k + 1, i # 1  PROVE \E c \in 1 .. k : i = 2 * c \/ i = 2 * c + 1
  <2>1. i \div 2 \in 1 .. k /\ (i = 2 * (i \div 2) \/ i = 2 * (i \div 2) + 1)  BY <1>1, <1>6
  <2> QED  BY <2>1
<1> QED  BY ZenonT(40), <1>1, <1>3, <1>4, <1>5, <1>6 DEF PopShape

LEMMA SaysPiece ==
  ASSUME NEW x, NEW who \in {CLIENT, SERVER}, NEW b \in Seq(Byte), x = Says(who, b)
  PROVE  x \in PieceSet
BY DEF Says, PieceSet

LEMMA PopSpoken == ASSUME NEW t, IsPop(t)  PROVE Spoken(PopPieces(t))
<1>1. PICK cs, ps, k : cs = t.commands /\ ps = PopPieces(t) /\ k = Len(cs)  OBVIOUS
<1>2. /\ k \in Nat /\ Len(ps) = 2 * k + 1 /\ ps = [i \in 1 .. 2 * k + 1 |-> ps[i]]
      /\ ps[1] = Greeting
      /\ \A c \in 1 .. k : ps[2 * c] = Command(cs[c]) /\ ps[2 * c + 1] = Reply(cs[c])
      /\ \A i \in 1 .. 2 * k + 1 : i = 1 \/ \E c \in 1 .. k : i = 2 * c \/ i = 2 * c + 1
  <2>1. PopShape(ps, cs, k)  BY <1>1, PopPiece
  <2> QED  BY Zenon, <2>1 DEF PopShape
<1>3. ASSUME NEW i \in 1 .. 2 * k + 1  PROVE ps[i] \in PieceSet /\ Len(ps[i].bytes) \in Nat \ {0}
  <2>1. CASE i = 1
    <3>1. Greeting \in PieceSet  BY GreetingBytes, SaysPiece DEF Greeting, Says
    <3> QED  BY <1>2, <2>1, <3>1, GreetingBytes
  <2>2. ASSUME NEW c \in 1 .. k, i = 2 * c  PROVE ps[i] \in PieceSet /\ Len(ps[i].bytes) \in Nat \ {0}
    <3>1. CommandOk(cs[c])  BY <1>1, PopCommands DEF Commanded
    <3>2. PICK l \in Nat, m \in Nat :
            Command(cs[c]).bytes \in Seq(Byte) /\ Len(Command(cs[c]).bytes) = l + m + 4
      BY Zenon, <3>1, LayoutParts
    <3>3. l + m + 4 \in Nat \ {0}  OBVIOUS
    <3>4. Command(cs[c]) \in PieceSet  BY <3>2, SaysPiece DEF Command, Says
    <3>5. ps[i] = Command(cs[c])  BY <1>2, <2>2
    <3> QED  BY <3>2, <3>3, <3>4, <3>5
  <2>3. ASSUME NEW c \in 1 .. k, i = 2 * c + 1  PROVE ps[i] \in PieceSet /\ Len(ps[i].bytes) \in Nat \ {0}
    <3>1. CommandOk(cs[c])  BY <1>1, PopCommands DEF Commanded
    <3>2. Reply(cs[c]) \in PieceSet  BY <3>1, ReplyBytes, SaysPiece DEF Reply, Says
    <3>3. Len(Reply(cs[c]).bytes) = 4  BY <3>1, ReplyBytes
    <3>4. ps[i] = Reply(cs[c])  BY Zenon, <1>2, <2>3
    <3>5. 4 \in Nat \ {0}  OBVIOUS
    <3> QED  BY <3>2, <3>3, <3>4, <3>5
  <2> QED  BY <1>2, <2>1, <2>2, <2>3
<1>4. ps \in Seq(PieceSet)
  <2>1. ps \in [1 .. 2 * k + 1 -> PieceSet] /\ 2 * k + 1 \in Nat  BY <1>2, <1>3
  <2> QED  BY <2>1, SeqDef
<1> QED  BY <1>1, <1>2, <1>3, <1>4 DEF Spoken

LEMMA GreetingStep ==
  ASSUME NEW n \in 0 .. 4, NEW p, IsParser(p), GreetingAt(n, p),
         NEW q, q = SpoofByte(p, SERVER, Greeting.bytes[n + 1])
  PROVE  IsParser(q) /\ GreetingAt(n + 1, q)
<1>1. Ok[1] \in Byte /\ Ok[2] \in Byte  BY Strings DEF Byte
<1>2. CASE n = 0 /\ In(p, "INIT", 0, 0, <<>>)
  <2>1. Greeting.bytes[n + 1] = Ok[1]  BY <1>2, GreetingBytes
  <2>2. Became(p, q, "CONFIRM_POP", 1, 0, <<>>)  BY <1>1, <1>2, <2>1, StartMoves
  <2> QED  BY <1>2, <2>2 DEF Became, GreetingAt
<1>3. CASE n = 1 /\ In(p, "CONFIRM_POP", 1, 0, <<>>)
  <2>1. Greeting.bytes[n + 1] = Ok[2]  BY <1>3, GreetingBytes
  <2>2. Became(p, q, "USER_SERVER_CONSUME", 0, 0, <<>>)  BY <1>1, <1>3, <2>1, ConfirmMoves
  <2> QED  BY <1>3, <2>2 DEF Became, GreetingAt
<1>4. CASE n > 1 /\ In(p, "USER_SERVER_CONSUME", 0, 0, <<>>)
  <2>1. q = p  BY <1>4, Stays, WaitingStates DEF In
  <2> QED  BY <1>4, <2>1 DEF GreetingAt
<1> QED  BY <1>2, <1>3, <1>4 DEF GreetingAt

\* POP3: a byte, and the turn of the other side.
LEMMA PopStep ==
  ASSUME NEW t, IsPop(t), NEW ps, ps = PopPieces(t), NEW i \in 1 .. Len(ps), NEW n \in 0 .. Len(ps[i].bytes) - 1,
         NEW p, IsParser(p), PopAt(t, i, n, p), NEW q, q = SpoofByte(p, ps[i].who, ps[i].bytes[n + 1])
  PROVE  IsParser(q) /\ PopAt(t, i, n + 1, q)
<1>1. PICK cs, k : cs = t.commands /\ k = Len(cs) /\ Commanded(cs)  BY PopCommands
<1>2. /\ k \in Nat /\ Len(ps) = 2 * k + 1 /\ ps[1] = Greeting
      /\ \A c \in 1 .. k : ps[2 * c] = Command(cs[c]) /\ ps[2 * c + 1] = Reply(cs[c])
  <2>1. PopShape(ps, cs, k)  BY <1>1, PopPiece
  <2> QED  BY Zenon, <2>1 DEF PopShape
<1>3. \A c \in 1 .. k : CommandOk(cs[c])  BY <1>1 DEF Commanded
<1>4. CASE i = 1 /\ GreetingAt(n, p)
  <2>1. n \in 0 .. 4 /\ q = SpoofByte(p, SERVER, Greeting.bytes[n + 1])  BY <1>2, <1>4, GreetingBytes
  <2>2. IsParser(q) /\ GreetingAt(n + 1, q)  BY <1>4, <2>1, GreetingStep
  <2> QED  BY <1>4, <2>2 DEF PopAt
<1>5. ASSUME NEW c \in 1 .. k, i = 2 * c, CommandAt(cs, c, n, p)
      PROVE  IsParser(q) /\ PopAt(t, i, n + 1, q)
  <2>1. PICK w : w = Command(cs[c]).bytes  OBVIOUS
  <2>2. ps[i] = Command(cs[c]) /\ Command(cs[c]).who = CLIENT  BY <1>2, <1>3, <1>5, CommandLayout
  <2>3. IsParser(q) /\ CommandAt(cs, c, n + 1, q)  BY ZenonT(40), <1>1, <1>5, <2>1, <2>2, CommandStep
  <2> QED  BY <1>1, <1>5, <2>3 DEF PopAt
<1>6. ASSUME NEW c \in 1 .. k, i = 2 * c + 1, ReplyAt(cs, c, n, p)
      PROVE  IsParser(q) /\ PopAt(t, i, n + 1, q)
  <2>0. Reply(cs[c]).who = SERVER /\ Len(Reply(cs[c]).bytes) = 4  BY Zenon, <1>3, ReplyBytes
  <2>1. ps[i] = Reply(cs[c]) /\ Reply(cs[c]).who = SERVER /\ n \in 0 .. 3
    <3>1. ps[i] = Reply(cs[c])  BY <1>2, <1>6
    <3>2. n \in 0 .. Len(Reply(cs[c]).bytes) - 1  BY <3>1
    <3> QED  BY <2>0, <3>1, <3>2
  <2>2. IsParser(q) /\ ReplyAt(cs, c, n + 1, q)  BY <1>1, <1>6, <2>1, ReplyStep
  <2> QED  BY <1>1, <1>6, <2>2 DEF PopAt
<1>7. i # 2 * k + 2  BY <1>2
<1> QED  BY <1>1, <1>4, <1>5, <1>6, <1>7 DEF PopAt

LEMMA PopTurn ==
  ASSUME NEW t, IsPop(t), NEW ps, ps = PopPieces(t), NEW i \in 1 .. Len(ps),
         NEW p, PopAt(t, i, Len(ps[i].bytes), p)
  PROVE  PopAt(t, i + 1, 0, p)
<1>1. PICK cs, k : cs = t.commands /\ k = Len(cs) /\ Commanded(cs)  BY PopCommands
<1>2. /\ k \in Nat /\ Len(ps) = 2 * k + 1 /\ ps[1] = Greeting
      /\ \A c \in 1 .. k : ps[2 * c] = Command(cs[c]) /\ ps[2 * c + 1] = Reply(cs[c])
  <2>1. PopShape(ps, cs, k)  BY <1>1, PopPiece
  <2> QED  BY Zenon, <2>1 DEF PopShape
<1>3. \A c \in 1 .. k : CommandOk(cs[c])  BY <1>1 DEF Commanded
<1>4. ASSUME NEW c \in 0 .. k, After(cs, c, p), i = 2 * c + 1  PROVE PopAt(t, i + 1, 0, p)
  <2>1. CASE c = k
    <3>1. i + 1 = 2 * k + 2  BY <1>4, <2>1
    <3> QED  BY <1>1, <1>4, <2>1, <3>1 DEF PopAt
  <2>2. CASE c # k
    <3>1. PICK d \in 1 .. k : d = c + 1 /\ d - 1 = c /\ i + 1 = 2 * d  BY <1>2, <1>4, <2>2
    <3>2. CommandAt(cs, d, 0, p)  BY <1>4, <3>1 DEF CommandAt
    <3> QED  BY <1>1, <3>1, <3>2 DEF PopAt
  <2> QED  BY <2>1, <2>2
<1>5. CASE i = 1 /\ GreetingAt(Len(ps[i].bytes), p)
  <2>1. GreetingAt(5, p)  BY <1>2, <1>5, GreetingBytes
  <2>2. In(p, "USER_SERVER_CONSUME", 0, 0, <<>>)  BY <2>1 DEF GreetingAt
  <2>3. Unlogged(cs, 0)
    <3>1. \A l \in Logins(cs) : l[2] \in 1 .. Len(cs)  BY <1>1, <1>2, LoginParts
    <3> QED  BY <3>1 DEF Unlogged
  <2>4. UserAwaited(cs, 0, p)  BY <2>2 DEF UserAwaited
  <2>5. After(cs, 0, p) /\ 0 \in 0 .. k /\ i = 2 * 0 + 1  BY <1>2, <1>5, <2>3, <2>4 DEF After
  <2> QED  BY <1>4, <2>5
<1>6. ASSUME NEW c \in 1 .. k, i = 2 * c, CommandAt(cs, c, Len(ps[i].bytes), p)
      PROVE  PopAt(t, i + 1, 0, p)
  <2>1. ReplyAt(cs, c, 0, p)  BY <1>2, <1>6 DEF ReplyAt, CommandLength
  <2>2. i + 1 = 2 * c + 1  BY <1>6
  <2> QED  BY <1>1, <2>1, <2>2 DEF PopAt
<1>7. ASSUME NEW c \in 1 .. k, i = 2 * c + 1, ReplyAt(cs, c, Len(ps[i].bytes), p)
      PROVE  PopAt(t, i + 1, 0, p)
  <2>1. Len(ps[i].bytes) = 4  BY <1>2, <1>3, <1>7, ReplyBytes
  <2>2. After(cs, c, p)  BY <1>7, <2>1 DEF ReplyAt
  <2>3. c \in 0 .. k  OBVIOUS
  <2> QED  BY <1>4, <1>7, <2>2, <2>3
<1>8. i # 2 * k + 2  BY SMTT(40), <1>2
<1> QED  BY <1>1, <1>5, <1>6, <1>7, <1>8 DEF PopAt

\* What a parser says of a conversation that is over for it, or ends here.
Settled(t, p) == p.state = "FINISH" /\ p.success
Told(t, p) == Settled(t, p) => Accepted(t) = <<p.user, p.pass>>
Silent(t, p, over) == (over \/ p.state = "FINISH") /\ ~Settled(t, p) => Accepted(t) = NoPair

LEMMA PopLoginIs ==
  ASSUME NEW t, IsPop(t), NEW cs, cs = t.commands, NEW l \in Logins(cs), \A m \in Logins(cs) : l[2] <= m[2]
  PROVE  PopLogin(t) = <<cs[l[1]].arg, cs[l[2]].arg>>
<1>1. Len(cs) \in Nat  BY PopCommands DEF Commanded
<1>2. \A m \in Logins(cs) : m[1] \in Nat /\ m[2] \in Nat /\ Holding(cs, m[2] - 1, m[1])
  <2>1. ASSUME NEW m \in Logins(cs)  PROVE m[1] \in Nat /\ m[2] \in Nat /\ Holding(cs, m[2] - 1, m[1])
    <3>1. PICK u \in 1 .. Len(cs), c \in 1 .. Len(cs) : m[1] = u /\ m[2] = c /\ Holding(cs, c - 1, u)
      BY <1>1, LoginParts
    <3> QED  BY <1>1, <3>1
  <2> QED  BY <2>1
<1>3. PICK first : first = CHOOSE k \in Logins(cs) : \A m \in Logins(cs) : k[2] <= m[2]  OBVIOUS
<1>4. first \in Logins(cs) /\ \A m \in Logins(cs) : first[2] <= m[2]  BY <1>3
<1>5. first[2] = l[2]
  <2>1. first[2] <= l[2] /\ l[2] <= first[2]  BY <1>4
  <2>2. first[2] \in Nat /\ l[2] \in Nat  BY <1>2, <1>4
  <2> QED  BY <2>1, <2>2
<1>6. first[1] = l[1]
  <2>1. PICK c : c = l[2] - 1 /\ c \in Int  BY <1>2
  <2>2. Holding(cs, c, first[1]) /\ Holding(cs, c, l[1])  BY <1>2, <1>4, <1>5, <2>1
  <2> QED  BY <2>1, <2>2, HeldOnce
<1>7. Logins(cs) # {}  OBVIOUS
<1> QED  BY <1>3, <1>5, <1>6, <1>7 DEF PopLogin

\* A success is a login.
PopWon(cs, p) ==
  \E l \in Logins(cs) :
    /\ \A m \in Logins(cs) : l[2] <= m[2]
    /\ p.state = "FINISH" /\ p.success /\ p.user = cs[l[1]].arg /\ p.pass = cs[l[2]].arg

LEMMA ArgumentOpen ==
  ASSUME NEW d, NEW n, NEW p, NEW extracting, NEW response, NEW field,
         Argument(d, n, p, extracting, response, field)
  PROVE  ~p.success
BY DEF Argument, In, Left

LEMMA WithinWon ==
  ASSUME NEW cs, NEW c, NEW n, NEW p, Within(cs, c, n, p), p.success
  PROVE  PopWon(cs, p)
<1>1. ~WithoutUser(cs[c], n, p)  BY ArgumentOpen DEF WithoutUser, In
<1>2. \A user : ~WithUser(cs[c], n, p, user)  BY ArgumentOpen DEF WithUser, In
<1>3. LoggedIn(cs, c - 1, p)  BY <1>1, <1>2 DEF Within
<1> QED  BY <1>3 DEF LoggedIn, PopWon

LEMMA AfterWon ==
  ASSUME NEW cs, NEW c, NEW p, After(cs, c, p), p.success
  PROVE  PopWon(cs, p)
<1>1. LoggedIn(cs, c, p)  BY DEF After, PassAwaited, UserAwaited, In, Left
<1> QED  BY <1>1 DEF LoggedIn, PopWon

\* POP3: what was found is the login, and none is missed.
LEMMA PopTold ==
  ASSUME NEW t, IsPop(t), t.kind = "pop", NEW i, NEW n, NEW p, PopAt(t, i, n, p)
  PROVE  Told(t, p)
<1> SUFFICES ASSUME p.success  PROVE Accepted(t) = <<p.user, p.pass>>
  BY DEF Told, Settled
<1>1. PICK cs : cs = t.commands  OBVIOUS
<1>2. ~GreetingAt(n, p)  BY DEF GreetingAt, In
<1>3. \A c, k : CommandAt(cs, c, k, p) => PopWon(cs, p)  BY WithinWon, AfterWon DEF CommandAt
<1>4. \A c : ReplyAt(cs, c, n, p) => PopWon(cs, p)  BY <1>3, AfterWon DEF ReplyAt
<1>5. PopWon(cs, p)  BY <1>1, <1>2, <1>3, <1>4, AfterWon DEF PopAt
<1>6. PICK l \in Logins(cs) :
        (\A m \in Logins(cs) : l[2] <= m[2]) /\ p.user = cs[l[1]].arg /\ p.pass = cs[l[2]].arg
  BY <1>5 DEF PopWon
<1>7. PopLogin(t) = <<p.user, p.pass>>  BY <1>1, <1>6, PopLoginIs
<1> QED  BY <1>7 DEF Accepted

\* A parser that has finished without one was sent more ahead of the last reply.
LEMMA ArgumentLeft ==
  ASSUME NEW d, CommandOk(d), NEW n \in 0 .. CommandLength(d), NEW p,
         NEW extracting, NEW response, extracting # "FINISH", response # "FINISH", NEW field,
         Argument(d, n, p, extracting, response, field), p.state = "FINISH"
  PROVE  d.ahead # <<>>
<1>1. PICK l \in Nat, m \in Nat : l = Len(d.arg) /\ (d.ahead = <<>> <=> m = 0) /\ Len(Command(d).bytes) = l + m + 4
  BY Zenon, LayoutParts
<1>2. n > l + 4  BY <1>1 DEF Argument, In
<1>3. n <= l + m + 4  BY <1>1 DEF CommandLength
<1>4. m # 0
  <2>1. n \in Nat  BY <1>1 DEF CommandLength
  <2> QED  BY <1>2, <1>3, <2>1
<1> QED  BY <1>1, <1>4

LEMMA WithinLeft ==
  ASSUME NEW cs, Commanded(cs), NEW c \in 1 .. Len(cs), NEW n \in 1 .. CommandLength(cs[c]), NEW p, Within(cs, c, n, p),
         p.state = "FINISH", ~p.success
  PROVE  Unlogged(cs, Len(cs))
<1>1. CommandOk(cs[c]) /\ Len(cs) \in Nat  BY DEF Commanded
<1>2. n \in 0 .. CommandLength(cs[c])  OBVIOUS
<1>3. WithoutUser(cs[c], n, p) => cs[c].ahead # <<>>
  <2>1. WithoutUser(cs[c], n, p) => Argument(cs[c], n, p, "EXTRACTING_USER", "USER_RESPONSE", "user")
    BY DEF WithoutUser, In
  <2> QED  BY <1>1, <1>2, <2>1, ArgumentLeft
<1>4. \A user : WithUser(cs[c], n, p, user) => cs[c].ahead # <<>>
  <2>1. ASSUME NEW user, WithUser(cs[c], n, p, user)
        PROVE  \/ Argument(cs[c], n, p, "EXTRACTING_USER", "USER_RESPONSE", "user")
               \/ Argument(cs[c], n, p, "EXTRACTING_PASS", "PASS_RESPONSE", "pass")
    BY <2>1 DEF WithUser, In
  <2> QED  BY <1>1, <1>2, <2>1, ArgumentLeft
<1>5. ~LoggedIn(cs, c - 1, p)  BY DEF LoggedIn
<1>6. Unlogged(cs, c - 1) /\ cs[c].ahead # <<>>  BY <1>3, <1>4, <1>5 DEF Within
<1>7. c = Len(cs) /\ ~Accepts(cs[c], Pass)  BY <1>6 DEF Commanded, Accepts
<1> QED  BY <1>1, <1>6, <1>7, UnloggedNext

LEMMA AfterLeft ==
  ASSUME NEW cs, Commanded(cs), NEW c \in 0 .. Len(cs), NEW p, After(cs, c, p), c = Len(cs) \/ p.state = "FINISH", ~p.success
  PROVE  Unlogged(cs, Len(cs))
<1>1. Unlogged(cs, c)  BY DEF After, LoggedIn
<1>2. c = Len(cs)
  <2>1. CASE p.state = "FINISH"
    <3>1. Ahead(cs, c)  BY <2>1 DEF After, LoggedIn, PassAwaited, UserAwaited, In
    <3>2. c \in 1 .. Len(cs)  BY <3>1 DEF Ahead
    <3> QED  BY <3>1, <3>2 DEF Ahead, Commanded
  <2> QED  BY <2>1
<1> QED  BY <1>1, <1>2

LEMMA PopSilent ==
  ASSUME NEW t, IsPop(t), t.kind = "pop", NEW ps, ps = PopPieces(t), NEW i \in 1 .. Len(ps) + 1,
         NEW n, n \in 0 .. (IF i > Len(ps) THEN 0 ELSE Len(ps[i].bytes)), NEW p, PopAt(t, i, n, p)
  PROVE  Silent(t, p, i > Len(ps))
<1>1. PICK cs, k : cs = t.commands /\ k = Len(cs) /\ Commanded(cs)  BY PopCommands
<1>2. /\ k \in Nat /\ Len(ps) = 2 * k + 1 /\ ps[1] = Greeting
      /\ \A c \in 1 .. k : ps[2 * c] = Command(cs[c]) /\ ps[2 * c + 1] = Reply(cs[c])
  <2>1. PopShape(ps, cs, k)  BY <1>1, PopPiece
  <2> QED  BY Zenon, <2>1 DEF PopShape
<1> SUFFICES ASSUME i > Len(ps) \/ p.state = "FINISH", ~(p.state = "FINISH" /\ p.success)
             PROVE  PopLogin(t) = NoPair
  BY DEF Silent, Settled, Accepted
<1>3. ~p.success
  <2>1. p.success => PopWon(cs, p)
    <3>1. ~(p.success /\ GreetingAt(n, p))  BY DEF GreetingAt, In
    <3>2. \A c, x : p.success /\ CommandAt(cs, c, x, p) => PopWon(cs, p)  BY WithinWon, AfterWon DEF CommandAt
    <3>3. \A c : p.success /\ ReplyAt(cs, c, n, p) => PopWon(cs, p)  BY <3>2, AfterWon DEF ReplyAt
    <3> QED  BY <1>1, <3>1, <3>2, <3>3, AfterWon DEF PopAt
  <2> QED  BY <2>1 DEF PopWon
<1>4. ASSUME Unlogged(cs, k)  PROVE PopLogin(t) = NoPair
  <2>1. \A l \in Logins(cs) : l[2] \in 1 .. k  BY SMTT(40), <1>1, <1>2, LoginParts
  <2>2. \A l \in Logins(cs) : l[2] > k  BY <1>4 DEF Unlogged
  <2>3. \A l \in Logins(cs) : FALSE  BY <1>2, <2>1, <2>2
  <2>4. Logins(cs) = {}  BY <2>3
  <2> QED  BY <1>1, <2>4 DEF PopLogin
<1>5. CASE i = 1 /\ GreetingAt(n, p)
  <2>1. p.state # "FINISH" /\ ~(i > Len(ps))  BY <1>2, <1>5 DEF GreetingAt, In
  <2> QED  BY <2>1
<1>6. ASSUME NEW c \in 1 .. k, NEW x, x \in 0 .. CommandLength(cs[c]), CommandAt(cs, c, x, p), p.state = "FINISH"
      PROVE  Unlogged(cs, k)
  <2>1. CASE x = 0 /\ After(cs, c - 1, p)
    <3>1. c - 1 \in 0 .. Len(cs)  BY <1>1, <1>2
    <3> QED  BY <1>1, <1>3, <1>6, <2>1, <3>1, AfterLeft
  <2>2. CASE x > 0 /\ Within(cs, c, x, p)
    <3>1. x \in 1 .. CommandLength(cs[c]) /\ c \in 1 .. Len(cs)  BY <1>1, <1>6, <2>2
    <3> QED  BY <1>1, <1>3, <1>6, <2>2, <3>1, WithinLeft
  <2> QED  BY <1>6, <2>1, <2>2 DEF CommandAt
<1>7. ASSUME NEW c \in 1 .. k, i = 2 * c, CommandAt(cs, c, n, p)
      PROVE  PopLogin(t) = NoPair
  <2>1. i <= Len(ps) /\ ~(i > Len(ps))  BY <1>2, <1>7
  <2>2. n \in 0 .. CommandLength(cs[c])  BY <1>2, <1>7, <2>1 DEF CommandLength
  <2> QED  BY <1>4, <1>6, <1>7, <2>1, <2>2
<1>8. ASSUME NEW c \in 1 .. k, i = 2 * c + 1, ReplyAt(cs, c, n, p)
      PROVE  PopLogin(t) = NoPair
  <2>1. i <= Len(ps) /\ ~(i > Len(ps))  BY <1>2, <1>8
  <2>2. p.state = "FINISH"  BY <2>1
  <2>3. CASE n = 0 /\ CommandAt(cs, c, CommandLength(cs[c]), p)
    <3>1. CommandOk(cs[c])  BY <1>1 DEF Commanded
    <3>2. PICK l \in Nat, m \in Nat : Len(Command(cs[c]).bytes) = l + m + 4  BY Zenon, <3>1, LayoutParts
    <3>3. CommandLength(cs[c]) \in Nat  BY <3>2 DEF CommandLength
    <3>4. CommandLength(cs[c]) \in 0 .. CommandLength(cs[c])  BY <3>3
    <3> QED  BY <1>4, <1>6, <2>2, <2>3, <3>4
  <2>4. CASE After(cs, c, p)
    <3>1. c \in 0 .. Len(cs)  BY <1>1
    <3>2. Unlogged(cs, k)  BY <1>1, <1>3, <2>2, <2>4, <3>1, AfterLeft
    <3> QED  BY <1>4, <3>2
  <2> QED  BY <1>8, <2>3, <2>4 DEF ReplyAt
<1>9. CASE i = 2 * k + 2 /\ After(cs, k, p)
  <2>1. k \in 0 .. Len(cs)  BY <1>1, <1>2
  <2>2. Unlogged(cs, k)  BY <1>1, <1>3, <1>9, <2>1, AfterLeft
  <2> QED  BY <1>4, <2>2
<1> QED  BY <1>1, <1>5, <1>7, <1>8, <1>9 DEF PopAt

(***************************************************************************)
(* HTTP: the states                                                        *)
(***************************************************************************)

\* A parser that goes on.
Is(p, state, k1, k2, text) == IsParser(p) /\ In(p, state, k1, k2, text)
Gone(p) == IsParser(p) /\ Left(p)

LEMMA MovedIs ==
  ASSUME NEW p, NEW q, NEW state, NEW k1, NEW k2, NEW k3, NEW k4, NEW from, NEW text,
         Is(p, from, k3, k4, text), Moved(p, q, state, k1, k2)
  PROVE  Is(q, state, k1, k2, text) /\ q.spaces = p.spaces /\ q.user = p.user /\ q.pass = p.pass
BY DEF Is, In, Moved

LEMMA FinishGone ==
  ASSUME NEW p, IsParser(p), ~p.success, NEW q, q = Finish(p)
  PROVE  Gone(q)
<1>1. Moved(p, q, "FINISH", p.k1, p.k2)  BY FinishMoves
<1> QED  BY <1>1 DEF Moved, Gone, Left

LEMMA HttpMoves ==
  ASSUME NEW h, NEW k \in {0, 1}, Is(h, "CONFIRM_HTTP", k, 0, <<>>), NEW b \in Byte, NEW q, q = ConfirmHttp(h, CLIENT, b)
  PROVE  /\ ~Ascii(b) \/ b = LF => Gone(q)
         /\ Ascii(b) /\ b # LF /\ k = 1 /\ b = Http1[2] => Is(q, "SEARCHING_AUTH", 0, 0, <<>>)
         /\ Ascii(b) /\ b # LF /\ ~(k = 1 /\ b = Http1[2]) =>
              Is(q, "CONFIRM_HTTP", IF k = 0 /\ b = Http1[1] THEN 1 ELSE 0, 0, <<>>)
<1>1. IsParser(h) /\ h.k1 = k /\ h.k2 = 0 /\ h.state = "CONFIRM_HTTP" /\ ~h.success /\ h.text = <<>>  BY DEF Is, In
<1>2. CLIENT # SERVER  BY WaitingStates
<1>3. ASSUME ~Ascii(b) \/ b = LF  PROVE Gone(q)
  <2>1. q = Finish(h)  BY <1>3 DEF ConfirmHttp
  <2> QED  BY <1>1, <2>1, FinishGone
<1>4. PICK c : c = Compare(Http1, k, b)  OBVIOUS
<1>5. /\ Compare(Http1, 0, b) = IF b = Http1[1] THEN 1 ELSE NEQ
      /\ Compare(Http1, 1, b) = IF b = Http1[2] THEN 2 ELSE NEQ
      /\ EQ(Http1, 2) /\ ~EQ(Http1, 1) /\ ~EQ(Http1, NEQ)
  <2>1. Len(Http1) = 2  BY Strings
  <2> QED  BY ZenonT(40), <2>1, CompareTwo
<1>6. ASSUME Ascii(b), b # LF, k = 1, b = Http1[2]  PROVE Is(q, "SEARCHING_AUTH", 0, 0, <<>>)
  <2>1. c = 2  BY <1>4, <1>5, <1>6
  <2>2. q = Fresh(h, "SEARCHING_AUTH")  BY <1>1, <1>2, <1>4, <1>5, <1>6, <2>1 DEF ConfirmHttp
  <2>3. Moved(h, q, "SEARCHING_AUTH", 0, 0)  BY <1>1, <2>2, FreshMoves
  <2> QED  BY <2>3, MovedIs
<1>7. ASSUME Ascii(b), b # LF, ~(k = 1 /\ b = Http1[2])
      PROVE  Is(q, "CONFIRM_HTTP", IF k = 0 /\ b = Http1[1] THEN 1 ELSE 0, 0, <<>>)
  <2>1. c = (IF k = 0 /\ b = Http1[1] THEN 1 ELSE NEQ) /\ ~EQ(Http1, c)  BY <1>4, <1>5, <1>7
  <2>2. PICK r : r = Restarted(c)  OBVIOUS
  <2>3. r = (IF k = 0 /\ b = Http1[1] THEN 1 ELSE 0)  BY <2>1, <2>2, Strings DEF Restarted
  <2>4. q = [h EXCEPT !.k1 = r]  BY <1>1, <1>2, <1>4, <1>7, <2>1, <2>2 DEF ConfirmHttp
  <2>5. Moved(h, q, "CONFIRM_HTTP", r, 0)  BY <1>1, <2>4, Compared
  <2> QED  BY <2>3, <2>5, MovedIs
<1> QED  BY <1>3, <1>6, <1>7

LEMMA HttpSpeaks ==
  ASSUME NEW p, NEW b
  PROVE  /\ Is(p, "INIT", 0, 0, <<>>) =>
              \E h : Is(h, "CONFIRM_HTTP", 0, 0, <<>>) /\ SpoofByte(p, CLIENT, b) = ConfirmHttp(h, CLIENT, b)
         /\ \A k : Is(p, "CONFIRM_HTTP", k, 0, <<>>) => SpoofByte(p, CLIENT, b) = ConfirmHttp(p, CLIENT, b)
<1>1. ASSUME Is(p, "INIT", 0, 0, <<>>)
      PROVE  \E h : Is(h, "CONFIRM_HTTP", 0, 0, <<>>) /\ SpoofByte(p, CLIENT, b) = ConfirmHttp(h, CLIENT, b)
  <2>1. PICK h : h = Handed(p, CLIENT)  OBVIOUS
  <2>2. p.state = "INIT" /\ IsParser(p) /\ p.k1 = 0 /\ p.k2 = 0  BY <1>1 DEF Is, In
  <2>3. h = Goto(p, "CONFIRM_HTTP")  BY <2>1, <2>2, HandedIs
  <2>4. Moved(p, h, "CONFIRM_HTTP", 0, 0)  BY <2>2, <2>3, GotoMoves
  <2>5. Is(h, "CONFIRM_HTTP", 0, 0, <<>>)  BY <1>1, <2>4, MovedIs
  <2>6. h.state = "CONFIRM_HTTP"  BY <2>4 DEF Moved
  <2> QED  BY <2>1, <2>5, <2>6, Dispatch
<1>2. ASSUME NEW k, Is(p, "CONFIRM_HTTP", k, 0, <<>>)  PROVE SpoofByte(p, CLIENT, b) = ConfirmHttp(p, CLIENT, b)
  <2>1. p.state = "CONFIRM_HTTP"  BY <1>2 DEF Is, In
  <2>2. Handed(p, CLIENT) = p  BY <2>1, HandedIs, WaitingStates
  <2> QED  BY <2>1, <2>2, Dispatch
<1> QED  BY <1>1, <1>2

\* A comparison after a byte that does not complete it.
Onward(string, k, b) == IF b = string[k + 1] THEN k + 1 ELSE 0

\* A byte of the head: the empty line and the credentials' name are looked for at once.
LEMMA SearchMoves ==
  ASSUME NEW p, NEW k \in 0 .. 2, NEW e \in 0 .. 3, Is(p, "SEARCHING_AUTH", k, e, <<>>), NEW b \in Byte, b < 128,
         NEW q, q = SpoofByte(p, CLIENT, b)
  PROVE  /\ k = 2 /\ b = Authorization[3] => Is(q, "CONFIRM_BASIC", 0, 0, <<>>) /\ q.spaces
         /\ ~(k = 2 /\ b = Authorization[3]) /\ e = 3 /\ b = LF => Gone(q)
         /\ ~(k = 2 /\ b = Authorization[3]) /\ ~(e = 3 /\ b = LF) =>
              Is(q, "SEARCHING_AUTH", Onward(Authorization, k, b), Onward(EmptyLine, e, b), <<>>)
<1>1. IsParser(p) /\ p.k1 = k /\ p.k2 = e /\ p.state = "SEARCHING_AUTH" /\ ~p.success /\ p.text = <<>>  BY DEF Is, In
<1>2. CLIENT # SERVER /\ Ascii(b)  BY WaitingStates DEF Ascii
<1>3. Handed(p, CLIENT) = p  BY <1>1, HandedIs, WaitingStates
<1>4. q = SearchingAuth(p, CLIENT, b)  BY <1>1, <1>3, Dispatch
<1>5. PICK c, d : c = Compare(Authorization, k, b) /\ d = Compare(EmptyLine, e, b)  OBVIOUS
<1>6. /\ c = (IF b = Authorization[k + 1] THEN k + 1 ELSE NEQ)
      /\ EQ(Authorization, c) <=> k = 2 /\ b = Authorization[3]
  <2>1. k = 0 \/ k = 1 \/ k = 2  OBVIOUS
  <2>2. /\ Compare(Authorization, 0, b) = IF b = Authorization[1] THEN 1 ELSE NEQ
        /\ Compare(Authorization, 1, b) = IF b = Authorization[2] THEN 2 ELSE NEQ
        /\ Compare(Authorization, 2, b) = IF b = Authorization[3] THEN 3 ELSE NEQ
        /\ EQ(Authorization, 3) /\ ~EQ(Authorization, 2) /\ ~EQ(Authorization, 1) /\ ~EQ(Authorization, NEQ)
    <3>1. Len(Authorization) = 3  BY Strings
    <3> QED  BY ZenonT(40), <3>1, CompareThree
  <2>3. CASE k = 0  BY <1>5, <2>2, <2>3
  <2>4. CASE k = 1  BY <1>5, <2>2, <2>4
  <2>5. CASE k = 2  BY <1>5, <2>2, <2>5
  <2> QED  BY <2>1, <2>3, <2>4, <2>5
<1>7. /\ d = (IF b = EmptyLine[e + 1] THEN e + 1 ELSE NEQ)
      /\ EQ(EmptyLine, d) <=> e = 3 /\ b = LF
  <2>1. e = 0 \/ e = 1 \/ e = 2 \/ e = 3  OBVIOUS
  <2>2. EmptyLine[1] = CR /\ EmptyLine[2] = LF /\ EmptyLine[3] = CR /\ EmptyLine[4] = LF  BY DEF EmptyLine
  <2>3. CASE e = 0  BY <1>5, <2>2, <2>3, CompareFour
  <2>4. CASE e = 1  BY <1>5, <2>2, <2>4, CompareFour
  <2>5. CASE e = 2  BY <1>5, <2>2, <2>5, CompareFour
  <2>6. CASE e = 3  BY <1>5, <2>2, <2>6, CompareFour
  <2> QED  BY <2>1, <2>3, <2>4, <2>5, <2>6
<1>8. ASSUME k = 2, b = Authorization[3]  PROVE Is(q, "CONFIRM_BASIC", 0, 0, <<>>) /\ q.spaces
  <2>1. PICK r : r = Fresh(p, "CONFIRM_BASIC")  OBVIOUS
  <2>2. Moved(p, r, "CONFIRM_BASIC", 0, 0)  BY <1>1, <2>1, FreshMoves
  <2>3. Is(r, "CONFIRM_BASIC", 0, 0, <<>>)  BY <2>2, MovedIs
  <2>4. q = [r EXCEPT !.spaces = TRUE]  BY <1>1, <1>2, <1>4, <1>5, <1>6, <1>8, <2>1 DEF SearchingAuth
  <2> QED  BY <2>3, <2>4 DEF Is, In, IsParser
<1>9. ASSUME ~(k = 2 /\ b = Authorization[3]), e = 3, b = LF  PROVE Gone(q)
  <2>1. q = Finish(p)  BY <1>1, <1>2, <1>4, <1>5, <1>6, <1>7, <1>9 DEF SearchingAuth
  <2> QED  BY <1>1, <2>1, FinishGone
<1>10. ASSUME ~(k = 2 /\ b = Authorization[3]), ~(e = 3 /\ b = LF)
       PROVE  Is(q, "SEARCHING_AUTH", Onward(Authorization, k, b), Onward(EmptyLine, e, b), <<>>)
  <2>1. PICK r, s : r = Restarted(c) /\ s = Restarted(d)  OBVIOUS
  <2>2. r = Onward(Authorization, k, b) /\ s = Onward(EmptyLine, e, b)
    <3>1. k + 1 # NEQ /\ e + 1 # NEQ  BY SMTT(40), Strings
    <3> QED  BY <1>6, <1>7, <2>1, <3>1 DEF Restarted, Onward
  <2>3. q = [p EXCEPT !.k1 = r, !.k2 = s]
    BY <1>1, <1>2, <1>4, <1>5, <1>6, <1>7, <1>10, <2>1 DEF SearchingAuth
  <2>4. Moved(p, q, "SEARCHING_AUTH", r, s)  BY <1>1, <2>3, ComparedBoth
  <2> QED  BY <2>2, <2>4, MovedIs
<1> QED  BY <1>8, <1>9, <1>10

LEMMA SchemeMoves ==
  ASSUME NEW p, NEW b \in Byte, b < 128, NEW q, q = SpoofByte(p, CLIENT, b)
  PROVE  /\ Is(p, "CONFIRM_BASIC", 0, 0, <<>>) /\ p.spaces /\ b = Blank => q = p
         /\ Is(p, "CONFIRM_BASIC", 0, 0, <<>>) /\ b # Blank =>
              IF b = Basic[1] THEN Is(q, "CONFIRM_BASIC", 1, 0, <<>>) /\ ~q.spaces ELSE Gone(q)
         /\ Is(p, "CONFIRM_BASIC", 1, 0, <<>>) /\ ~p.spaces =>
              IF b = Basic[2] THEN Is(q, "CREDENTIALS", 0, 0, <<>>) /\ q.spaces ELSE Gone(q)
<1> SUFFICES ASSUME NEW k \in {0, 1}, Is(p, "CONFIRM_BASIC", k, 0, <<>>)
             PROVE  /\ p.spaces /\ b = Blank => q = p
                    /\ k = 0 /\ b # Blank =>
                         IF b = Basic[1] THEN Is(q, "CONFIRM_BASIC", 1, 0, <<>>) /\ ~q.spaces ELSE Gone(q)
                    /\ k = 1 /\ ~p.spaces =>
                         IF b = Basic[2] THEN Is(q, "CREDENTIALS", 0, 0, <<>>) /\ q.spaces ELSE Gone(q)
  OBVIOUS
<1>1. IsParser(p) /\ p.k1 = k /\ p.k2 = 0 /\ p.state = "CONFIRM_BASIC" /\ ~p.success /\ p.text = <<>>  BY DEF Is, In
<1>2. CLIENT # SERVER /\ Ascii(b)  BY WaitingStates DEF Ascii
<1>3. Handed(p, CLIENT) = p  BY <1>1, HandedIs, WaitingStates
<1>4. q = ConfirmBasic(p, CLIENT, b)  BY <1>1, <1>3, Dispatch
<1>5. PICK c : c = Compare(Basic, k, b)  OBVIOUS
<1>6. /\ Compare(Basic, 0, b) = IF b = Basic[1] THEN 1 ELSE NEQ
      /\ Compare(Basic, 1, b) = IF b = Basic[2] THEN 2 ELSE NEQ
      /\ EQ(Basic, 2) /\ ~EQ(Basic, 1) /\ ~EQ(Basic, NEQ) /\ NEQ # 1
  <2>1. Len(Basic) = 2 /\ NEQ # 1  BY Strings
  <2> QED  BY ZenonT(40), <2>1, CompareTwo
<1>7. p.spaces /\ b = Blank => q = p  BY <1>2, <1>4 DEF ConfirmBasic
<1>8. ASSUME c = NEQ, ~(p.spaces /\ b = Blank)  PROVE Gone(q)
  <2>1. q = Finish(p)  BY <1>1, <1>2, <1>4, <1>5, <1>6, <1>8 DEF ConfirmBasic
  <2> QED  BY <1>1, <2>1, FinishGone
<1>9. ASSUME k = 0, b # Blank, b = Basic[1]  PROVE Is(q, "CONFIRM_BASIC", 1, 0, <<>>) /\ ~q.spaces
  <2>1. c = 1  BY <1>5, <1>6, <1>9
  <2>2. q = [p EXCEPT !.spaces = FALSE, !.k1 = 1]  BY ZenonT(40), <1>1, <1>2, <1>4, <1>5, <1>6, <1>9, <2>1 DEF ConfirmBasic
  <2> QED  BY <1>1, <2>2 DEF Is, In, IsParser
<1>10. ASSUME k = 1, ~p.spaces, b = Basic[2]  PROVE Is(q, "CREDENTIALS", 0, 0, <<>>) /\ q.spaces
  <2>1. c = 2  BY <1>5, <1>6, <1>10
  <2>2. PICK r : r = Fresh(p, "CREDENTIALS")  OBVIOUS
  <2>3. Moved(p, r, "CREDENTIALS", 0, 0)  BY <1>1, <2>2, FreshMoves
  <2>4. Is(r, "CREDENTIALS", 0, 0, <<>>)  BY <2>3, MovedIs
  <2>5. q = [r EXCEPT !.spaces = TRUE]  BY <1>1, <1>2, <1>4, <1>5, <1>6, <1>10, <2>1, <2>2 DEF ConfirmBasic
  <2> QED  BY <2>4, <2>5 DEF Is, In, IsParser
<1>11. (k = 0 /\ b # Basic[1]) \/ (k = 1 /\ b # Basic[2]) => c = NEQ  BY <1>5, <1>6
<1> QED  BY <1>7, <1>8, <1>9, <1>10, <1>11

\* The credentials of a line, and what is made of them.
Clear(l) == l.user \o <<Colon>> \o l.pass

LEMMA CodeParts ==
  ASSUME NEW l, IsLine(l)
  PROVE  /\ Code(l) \in Seq(Byte) /\ Len(Code(l)) \in Nat \ {0}
         /\ \A i \in 1 .. Len(Code(l)) : Code(l)[i] \in Base64Char
         /\ Decode(Code(l)) = Clear(l)
         /\ SubSeq(Clear(l), 1, SelectInSeq(Clear(l), LAMBDA x : x = Colon) - 1) = l.user
         /\ SubSeq(Clear(l), SelectInSeq(Clear(l), LAMBDA x : x = Colon) + 1, Len(Clear(l))) = l.pass
<1>1. PICK a, z, e : a = l.user /\ z = l.pass /\ e = <<Colon>>  OBVIOUS
<1>2. a \in Seq(1 .. 25) /\ z \in Seq(1 .. 25 \cup {Colon})  BY <1>1 DEF IsLine
<1>3. 1 .. 25 \subseteq Byte /\ (1 .. 25 \cup {Colon}) \subseteq Byte  BY Strings DEF Byte
<1>4. a \in Seq(Byte) /\ z \in Seq(Byte)  BY Zenon, <1>2, <1>3, SeqMonotonic
<1>5. e \in Seq(Byte) /\ Len(e) = 1 /\ e[1] = Colon  BY <1>1, Strings DEF Byte
<1>6. PICK j \in Nat, k \in Nat : j = Len(a) /\ k = Len(z)  BY <1>4, LenProperties
<1>7. PICK f, m : f = a \o e /\ m = f \o z  OBVIOUS
<1>8. f \in Seq(Byte) /\ Len(f) = j + 1 /\ (\A i \in 1 .. j : f[i] = a[i]) /\ \A i \in 1 .. 1 : f[j + i] = e[i]
  <2>1. Joined(f, a, j, e, 1)  BY <1>4, <1>5, <1>6, <1>7, JoinedParts
  <2> QED  BY <2>1 DEF Joined
<1>9. m \in Seq(Byte) /\ Len(m) = (j + 1) + k /\ (\A i \in 1 .. j + 1 : m[i] = f[i]) /\ \A i \in 1 .. k : m[(j + 1) + i] = z[i]
  <2>1. Joined(m, f, j + 1, z, k)  BY <1>4, <1>6, <1>7, <1>8, JoinedParts
  <2> QED  BY <2>1 DEF Joined
<1>10. m = Clear(l)  BY <1>1, <1>7 DEF Clear
<1>11. \A i \in 1 .. j : m[i] = a[i] /\ a[i] \in 1 .. 25
  <2>1. \A i \in 1 .. j : i \in 1 .. j + 1  OBVIOUS
  <2>2. \A i \in 1 .. j : a[i] \in 1 .. 25  BY <1>2, <1>6, ElementOfSeq
  <2> QED  BY Zenon, <1>8, <1>9, <2>1, <2>2
<1>12. m[j + 1] = Colon
  <2>1. j + 1 \in 1 .. j + 1 /\ 1 \in 1 .. 1  OBVIOUS
  <2> QED  BY Zenon, <1>5, <1>8, <1>9, <2>1
<1>13. \A i \in 1 .. Len(m) : m[i] \in 1 .. 25 \cup {Colon}
  <2>1. ASSUME NEW i \in 1 .. Len(m)  PROVE m[i] \in 1 .. 25 \cup {Colon}
    <3>1. CASE i <= j
      <4>1. i \in 1 .. j  BY <1>9, <3>1
      <4> QED  BY <1>11, <4>1
    <3>2. CASE i = j + 1  BY <1>12, <3>2
    <3>3. CASE i > j + 1
      <4>1. i - (j + 1) \in 1 .. k /\ i = (j + 1) + (i - (j + 1))  BY <1>9, <3>3
      <4>2. PICK x \in 1 .. k : i = (j + 1) + x  BY <4>1
      <4>3. z[x] \in 1 .. 25 \cup {Colon}  BY <1>2, <1>6, ElementOfSeq
      <4> QED  BY <1>9, <4>2, <4>3
    <3> QED  BY <3>1, <3>2, <3>3
  <2> QED  BY <2>1
<1>14. PICK n \in Nat : n = Len(m) /\ n = (j + 1) + k /\ DOMAIN m = 1 .. n  BY <1>9, LenProperties
<1>15. PICK code : code = Encode(m)  OBVIOUS
<1>16. code = [i \in 1 .. n |-> 97 + (IF m[i] = Colon THEN 0 ELSE m[i])]  BY <1>14, <1>15 DEF Encode
<1>17. \A i \in 1 .. n : code[i] = 97 + (IF m[i] = Colon THEN 0 ELSE m[i]) /\ code[i] \in 97 .. 122
  <2>1. \A i \in 1 .. n : code[i] = 97 + (IF m[i] = Colon THEN 0 ELSE m[i])  BY <1>16
  <2>2. ASSUME NEW i \in 1 .. n  PROVE code[i] \in 97 .. 122
    <3>1. m[i] \in 1 .. 25 \cup {Colon}  BY <1>13, <1>14
    <3>2. PICK x \in 0 .. 25 : x = IF m[i] = Colon THEN 0 ELSE m[i]  BY <3>1
    <3>3. code[i] = 97 + x  BY <2>1, <3>2
    <3>4. 97 + x \in 97 .. 122  OBVIOUS
    <3> QED  BY <3>3, <3>4
  <2> QED  BY Zenon, <2>1, <2>2
<1>18. code \in Seq(Byte) /\ Len(code) = n /\ DOMAIN code = 1 .. n
  <2>1. \A i \in 1 .. n : code[i] \in Byte  BY <1>17 DEF Byte
  <2>2. code \in [1 .. n -> Byte]  BY <1>16, <2>1
  <2>3. code \in Seq(Byte)  BY <2>2, SeqDef
  <2> QED  BY <1>16, <2>3, LenProperties
<1>19. Code(l) = code  BY <1>10, <1>15 DEF Code, Clear
<1>20. Decode(code) = m
  <2>1. PICK d : d = Decode(code)  OBVIOUS
  <2>2. d = [i \in 1 .. n |-> IF code[i] = 97 THEN Colon ELSE code[i] - 97]  BY <1>18, <2>1 DEF Decode
  <2>3. ASSUME NEW i \in 1 .. n  PROVE d[i] = m[i]
    <3>1. d[i] = IF code[i] = 97 THEN Colon ELSE code[i] - 97  BY <2>2
    <3>2. code[i] = 97 + (IF m[i] = Colon THEN 0 ELSE m[i])  BY <1>17
    <3>3. m[i] \in 1 .. 25 \cup {Colon}  BY <1>13, <1>14
    <3>4. CASE m[i] = Colon  BY <3>1, <3>2, <3>4
    <3>5. CASE m[i] # Colon
      <4>1. PICK x \in 1 .. 25 : x = m[i]  BY <3>3, <3>5
      <4>2. code[i] = 97 + x /\ 97 + x # 97 /\ (97 + x) - 97 = x  BY <3>2, <3>5, <4>1
      <4> QED  BY <3>1, <4>1, <4>2
    <3> QED  BY <3>4, <3>5
  <2>4. m = [i \in 1 .. n |-> m[i]]  BY <1>9, <1>14
  <2> QED  BY <2>1, <2>2, <2>3, <2>4
<1>21. SelectInSeq(m, LAMBDA x : x = Colon) = j + 1
  <2> DEFINE I == {i \in 1 .. Len(m) : m[i] = Colon}
  <2>1. j + 1 \in I  BY <1>12, <1>14
  <2>2. \A y \in I : j + 1 <= y
    <3>1. ASSUME NEW y \in 1 .. n, y < j + 1  PROVE m[y] # Colon
      <4>1. y \in 1 .. j  BY <3>1
      <4>2. m[y] \in 1 .. 25  BY <1>11, <4>1
      <4> QED  BY <4>2, Strings
    <3> QED  BY <1>14, <3>1
  <2>3. \A x \in I : (\A y \in I : x <= y) => x = j + 1
    <3>1. \A x \in I : x \in Nat  BY <1>14
    <3> QED  BY <2>1, <2>2, <3>1
  <2>4. I # {}  BY <2>1
  <2>5. SelectInSeq(m, LAMBDA x : x = Colon) = Min(I)  BY <2>4 DEF SelectInSeq
  <2> HIDE DEF I
  <2>6. Min(I) = j + 1  BY <2>1, <2>2, <2>3 DEF Min
  <2> QED  BY <2>5, <2>6
<1>22. SubSeq(m, 1, (j + 1) - 1) = a
  <2>1. (j + 1) - 1 = 1 + Len(a) - 1 /\ 1 \in Nat \ {0} /\ (j + 1) - 1 \in Int  BY <1>6
  <2>2. \A i \in 1 .. Len(a) : m[1 - 1 + i] = a[i]
    <3>1. \A i \in 1 .. j : 1 - 1 + i = i  OBVIOUS
    <3> QED  BY <1>6, <1>11, <3>1
  <2> QED  BY <1>4, <1>9, <2>1, <2>2, SubSeqIs
<1>23. SubSeq(m, (j + 1) + 1, Len(m)) = z
  <2>1. /\ Len(m) = ((j + 1) + 1) + Len(z) - 1 /\ (j + 1) + 1 \in Nat \ {0} /\ Len(m) \in Int
    BY <1>6, <1>14
  <2>2. \A i \in 1 .. Len(z) : m[((j + 1) + 1) - 1 + i] = z[i]
    <3>1. \A i \in 1 .. k : ((j + 1) + 1) - 1 + i = (j + 1) + i  OBVIOUS
    <3> QED  BY <1>6, <1>9, <3>1
  <2> QED  BY <1>4, <1>9, <2>1, <2>2, SubSeqIs
<1>24. Len(Code(l)) \in Nat \ {0}
  <2>1. n \in Nat \ {0}  BY <1>14
  <2> QED  BY <1>18, <1>19, <2>1
<1>25. \A i \in 1 .. Len(Code(l)) : Code(l)[i] \in Base64Char  BY <1>17, <1>18, <1>19 DEF Base64Char
<1>26. SelectInSeq(Clear(l), LAMBDA x : x = Colon) = j + 1  BY Zenon, <1>10, <1>21
<1> QED  BY ZenonT(40), <1>1, <1>10, <1>18, <1>19, <1>20, <1>22, <1>23, <1>24, <1>25, <1>26

LEMMA CredentialMoves ==
  ASSUME NEW p, NEW text, Is(p, "CREDENTIALS", 0, 0, text), NEW b \in Byte, b < 128, NEW q, q = SpoofByte(p, CLIENT, b)
  PROVE  /\ p.spaces /\ b = Blank => q = p
         /\ b \in Base64Char => Is(q, "CREDENTIALS", 0, 0, Append(text, b)) /\ ~q.spaces
         /\ \A l : IsLine(l) /\ ~p.spaces /\ b \in {Blank, LF, CR} /\ text = Code(l) =>
              Is(q, "CLIENT_CONFIRMATION", 0, 0, <<>>) /\ q.user = l.user /\ q.pass = l.pass
<1>1. IsParser(p) /\ p.k1 = 0 /\ p.k2 = 0 /\ p.state = "CREDENTIALS" /\ ~p.success /\ p.text = text  BY DEF Is, In
<1>2. CLIENT # SERVER /\ Ascii(b)  BY WaitingStates DEF Ascii
<1>3. Handed(p, CLIENT) = p  BY <1>1, HandedIs, WaitingStates
<1>4. q = Credentials(p, CLIENT, b)  BY <1>1, <1>3, Dispatch
<1>5. p.spaces /\ b = Blank => q = p  BY <1>2, <1>4 DEF Credentials
<1>6. ASSUME b \in Base64Char  PROVE Is(q, "CREDENTIALS", 0, 0, Append(text, b)) /\ ~q.spaces
  <2>1. b # Blank /\ b \notin {Blank, LF, CR}  BY <1>6, Strings DEF Base64Char
  <2>2. q = [p EXCEPT !.spaces = FALSE, !.text = Append(@, b)]  BY <1>2, <1>4, <1>6, <2>1 DEF Credentials
  <2>3. PICK more : more = Append(text, b)  OBVIOUS
  <2>4. q = [p EXCEPT !.spaces = FALSE, !.text = more]  BY <1>1, <2>2, <2>3
  <2>5. Is(q, "CREDENTIALS", 0, 0, more) /\ ~q.spaces  BY <1>1, <2>4 DEF Is, In, IsParser
  <2> QED  BY <2>3, <2>5
<1>7. ASSUME NEW l, IsLine(l), ~p.spaces, b \in {Blank, LF, CR}, text = Code(l)
      PROVE  Is(q, "CLIENT_CONFIRMATION", 0, 0, <<>>) /\ q.user = l.user /\ q.pass = l.pass
  <2>1. PICK m, i : m = Clear(l) /\ i = SelectInSeq(Clear(l), LAMBDA x : x = Colon)  OBVIOUS
  <2>2. Decode(p.text) = m /\ SubSeq(m, 1, i - 1) = l.user /\ SubSeq(m, i + 1, Len(m)) = l.pass
    BY Zenon, <1>1, <1>7, <2>1, CodeParts
  <2>3. i = SelectInSeq(m, LAMBDA x : x = Colon)  BY Zenon, <2>1
  <2>4. q = [p EXCEPT !.state = "CLIENT_CONFIRMATION", !.spaces = FALSE, !.text = <<>>,
                      !.user = SubSeq(m, 1, i - 1), !.pass = SubSeq(m, i + 1, Len(m))]
    BY ZenonT(40), <1>2, <1>4, <1>7, <2>2, <2>3 DEF Credentials
  <2>5. PICK u, v : u = l.user /\ v = l.pass  OBVIOUS
  <2>6. q = [p EXCEPT !.state = "CLIENT_CONFIRMATION", !.spaces = FALSE, !.text = <<>>, !.user = u, !.pass = v]
    BY Zenon, <2>2, <2>4, <2>5
  <2>7. Is(q, "CLIENT_CONFIRMATION", 0, 0, <<>>) /\ q.user = u /\ q.pass = v
    BY <1>1, <2>6 DEF Is, In, IsParser
  <2> QED  BY <2>5, <2>7
<1> QED  BY <1>5, <1>6, <1>7

-----------------------------------------------------------------------------
(***************************************************************************)
(* HTTP: the reply                                                         *)
(***************************************************************************)

LEMMA MatchNext ==
  ASSUME NEW string, Len(string) = 3, NEW status, NEW n \in 0 .. 2
  PROVE  Compare(string, StatusMatch(string, status, n), status[n + 1]) = StatusMatch(string, status, n + 1)
<1>1. NEQ = -1  BY Strings
<1>2. CASE \A x \in 1 .. n : status[x] = string[x]
  <2>1. StatusMatch(string, status, n) = n  BY <1>2 DEF StatusMatch
  <2>2. Compare(string, n, status[n + 1]) = IF string[n + 1] = status[n + 1] THEN n + 1 ELSE NEQ  BY DEF Compare
  <2>3. \A x \in 1 .. n + 1 : x \in 1 .. n \/ x = n + 1  OBVIOUS
  <2>4. n + 1 \in 1 .. n + 1  OBVIOUS
  <2>5. (\A x \in 1 .. n + 1 : status[x] = string[x]) <=> string[n + 1] = status[n + 1]  BY <1>2, <2>3, <2>4
  <2> QED  BY <2>1, <2>2, <2>5 DEF StatusMatch
<1>3. CASE ~(\A x \in 1 .. n : status[x] = string[x])
  <2>1. StatusMatch(string, status, n) = NEQ  BY <1>3 DEF StatusMatch
  <2>2. Compare(string, NEQ, status[n + 1]) = NEQ  BY <1>1 DEF Compare
  <2>3. \A x \in 1 .. n : x \in 1 .. n + 1  OBVIOUS
  <2>4. ~(\A x \in 1 .. n + 1 : status[x] = string[x])  BY <1>3, <2>3
  <2> QED  BY <2>1, <2>2, <2>4 DEF StatusMatch
<1> QED  BY <1>2, <1>3

LEMMA MatchLost ==
  ASSUME NEW string, NEW status, NEW n \in 0 .. 3, StatusMatch(string, status, n) = NEQ
  PROVE  StatusMatch(string, status, 3) = NEQ
<1>1. n # NEQ  BY Strings
<1>2. ~(\A x \in 1 .. n : status[x] = string[x])  BY <1>1 DEF StatusMatch
<1>3. \A x \in 1 .. n : x \in 1 .. 3  OBVIOUS
<1> QED  BY <1>2, <1>3 DEF StatusMatch

LEMMA GrantsIs ==
  ASSUME NEW status \in Seq(Byte)
  PROVE  Grants(status) <=>
           Len(status) > 2 /\ (StatusMatch(Status11, status, 3) = 3 \/ StatusMatch(Status10, status, 3) = 3)
<1>1. NEQ # 3 /\ Len(Status11) = 3 /\ Len(Status10) = 3  BY Strings
<1>2. Status11 \in Seq(Byte) /\ Status10 \in Seq(Byte)  BY DEF Status11, Status10, Byte
<1>3. ASSUME Len(status) > 2, NEW s \in Seq(Byte), Len(s) = 3
      PROVE  StatusMatch(s, status, 3) = 3 <=> SubSeq(status, 1, 3) = s
  <2>1. 3 \in 0 .. Len(status)  BY <1>3, LenProperties
  <2>2. PICK u \in Seq(Byte) : u = SubSeq(status, 1, 3) /\ Len(u) = 3 /\ \A i \in 1 .. 3 : u[i] = status[i]
    BY ZenonT(40), <2>1, Cut
  <2>3. StatusMatch(s, status, 3) = 3 <=> \A x \in 1 .. 3 : status[x] = s[x]  BY <1>1 DEF StatusMatch
  <2>4. ASSUME \A x \in 1 .. 3 : status[x] = s[x]  PROVE u = s
    <3>1. Len(u) = Len(s) /\ \A i \in 1 .. Len(u) : u[i] = s[i]  BY <1>3, <2>2, <2>4
    <3> QED  BY <2>2, <3>1, SeqEqual
  <2>5. u = s => \A x \in 1 .. 3 : status[x] = s[x]  BY <2>2
  <2> QED  BY <2>2, <2>3, <2>4, <2>5
<1>4. Len(status) > 2 =>
        /\ StatusMatch(Status11, status, 3) = 3 <=> SubSeq(status, 1, 3) = Status11
        /\ StatusMatch(Status10, status, 3) = 3 <=> SubSeq(status, 1, 3) = Status10
  BY Zenon, <1>1, <1>2, <1>3
<1> QED  BY Zenon, <1>4 DEF Grants

LEMMA ConfirmationMoves ==
  ASSUME NEW h, IsParser(h), h.state = "CONFIRMATION", ~h.success, NEW b \in Byte,
         NEW c, NEW d, c = Compare(Status11, h.k1, b), d = Compare(Status10, h.k2, b),
         NEW q, q = CredentialConfirmation(h, SERVER, b)
  PROVE  /\ IsParser(q) /\ q.user = h.user /\ q.pass = h.pass
         /\ c = 3 \/ d = 3 => q.state = "FINISH" /\ q.success
         /\ c = NEQ /\ d = NEQ => Left(q)
         /\ c # 3 /\ d # 3 /\ ~(c = NEQ /\ d = NEQ) => q.state = "CONFIRMATION" /\ ~q.success /\ q.k1 = c /\ q.k2 = d
<1>1. CLIENT # SERVER  BY WaitingStates
<1>2. Len(Status11) = 3 /\ Len(Status10) = 3 /\ NEQ # 3  BY Strings
<1>3. (EQ(Status11, c) <=> c = 3) /\ (EQ(Status10, d) <=> d = 3)  BY <1>2 DEF EQ
<1>4. ~Ascii(b) => c = NEQ /\ d = NEQ
  <2>1. ASSUME ~Ascii(b), NEW i \in 1 .. 3  PROVE Status11[i] # b /\ Status10[i] # b
    <3>1. i = 1 \/ i = 2 \/ i = 3  OBVIOUS
    <3>2. ~(b < 128)  BY <2>1 DEF Ascii
    <3> QED  BY <3>1, <3>2, Strings
  <2>2. \A k \in 0 .. 3 - 1 : k + 1 \in 1 .. 3  OBVIOUS
  <2> QED  BY <1>2, <2>1, <2>2 DEF Compare
<1>5. CASE c = 3 \/ d = 3
  <2>1. Ascii(b)  BY <1>2, <1>4, <1>5
  <2>2. PICK r : r = Fresh(h, "FINISH")  OBVIOUS
  <2>3. Moved(h, r, "FINISH", 0, 0)  BY <2>2, FreshMoves
  <2>4. q = [r EXCEPT !.success = TRUE]  BY <1>1, <1>3, <1>5, <2>1, <2>2 DEF CredentialConfirmation
  <2>5. IsParser(q) /\ q.user = r.user /\ q.pass = r.pass /\ q.state = r.state /\ q.success
    BY <2>3, <2>4 DEF Moved, IsParser
  <2> QED  BY <1>2, <1>5, <2>3, <2>5 DEF Moved
<1>6. CASE c # 3 /\ d # 3 /\ c = NEQ /\ d = NEQ
  <2>1. q = Finish(h)  BY <1>1, <1>3, <1>6 DEF CredentialConfirmation
  <2>2. Moved(h, q, "FINISH", h.k1, h.k2)  BY <2>1, FinishMoves
  <2> QED  BY <1>6, <2>2 DEF Moved, Left
<1>7. CASE c # 3 /\ d # 3 /\ ~(c = NEQ /\ d = NEQ)
  <2>1. Ascii(b)  BY <1>4, <1>7
  <2>2. q = [h EXCEPT !.k1 = c, !.k2 = d]  BY <1>1, <1>3, <1>7, <2>1 DEF CredentialConfirmation
  <2>3. Moved(h, q, "CONFIRMATION", c, d)  BY <2>2, ComparedBoth
  <2> QED  BY <1>7, <2>3 DEF Moved
<1>8. c = NEQ /\ d = NEQ => c # 3 /\ d # 3  BY <1>2
<1> QED  BY <1>5, <1>6, <1>7, <1>8

\* h compares what comes after n bytes of the reply.
LEMMA StatusNext ==
  ASSUME NEW status \in Seq(Byte), NEW n \in 0 .. 2, n < Len(status),
         NEW h, IsParser(h), h.state = "CONFIRMATION", ~h.success,
         h.k1 = StatusMatch(Status11, status, n), h.k2 = StatusMatch(Status10, status, n),
         NEW q, q = CredentialConfirmation(h, SERVER, status[n + 1])
  PROVE  IsParser(q) /\ q.user = h.user /\ q.pass = h.pass /\ StatusAt(status, n + 1, q)
<1>1. PICK c, d : c = StatusMatch(Status11, status, n + 1) /\ d = StatusMatch(Status10, status, n + 1)  OBVIOUS
<1>2. status[n + 1] \in Byte /\ Len(status) \in Nat
  <2>1. n + 1 \in 1 .. Len(status)  BY LenProperties
  <2> QED  BY <2>1, ElementOfSeq, LenProperties
<1>3. Len(Status11) = 3 /\ Len(Status10) = 3 /\ NEQ # 3 /\ NEQ = -1  BY Strings
<1>4. c = Compare(Status11, h.k1, status[n + 1]) /\ d = Compare(Status10, h.k2, status[n + 1])
  BY <1>1, <1>3, MatchNext
<1>5. /\ IsParser(q) /\ q.user = h.user /\ q.pass = h.pass
      /\ c = 3 \/ d = 3 => q.state = "FINISH" /\ q.success
      /\ c = NEQ /\ d = NEQ => Left(q)
      /\ c # 3 /\ d # 3 /\ ~(c = NEQ /\ d = NEQ) => q.state = "CONFIRMATION" /\ ~q.success /\ q.k1 = c /\ q.k2 = d
  BY <1>2, <1>4, ConfirmationMoves
<1>6. (c = n + 1 \/ c = NEQ) /\ (d = n + 1 \/ d = NEQ)  BY <1>1 DEF StatusMatch
<1>7. CASE c = 3 \/ d = 3
  <2>1. n + 1 = 3 /\ Len(status) > 2  BY <1>2, <1>3, <1>6, <1>7
  <2>2. Grants(status)  BY <1>1, <1>7, <2>1, GrantsIs
  <2>3. n + 1 > 2  BY <2>1
  <2> QED  BY <1>5, <1>7, <2>2, <2>3 DEF StatusAt
<1>8. CASE c = NEQ /\ d = NEQ
  <2>1. n + 1 \in 0 .. 3  OBVIOUS
  <2>2. ~Grants(status)  BY <1>1, <1>3, <1>8, <2>1, MatchLost, GrantsIs
  <2> QED  BY <1>5, <1>8, <2>2 DEF StatusAt, Left
<1>9. CASE c # 3 /\ d # 3 /\ ~(c = NEQ /\ d = NEQ)
  <2>1. n + 1 < 3  BY <1>6, <1>9
  <2> QED  BY <1>1, <1>5, <1>9, <2>1 DEF StatusAt
<1> QED  BY <1>7, <1>8, <1>9

\* A byte of the status of the reply.
LEMMA StatusStep ==
  ASSUME NEW status \in Seq(Byte), NEW n \in 1 .. Len(status) - 1, NEW p, IsParser(p), StatusAt(status, n, p),
         NEW q, q = SpoofByte(p, SERVER, status[n + 1])
  PROVE  IsParser(q) /\ q.user = p.user /\ q.pass = p.pass /\ StatusAt(status, n + 1, q)
<1>1. Len(status) \in Nat  BY LenProperties
<1>2. CASE n < 3 /\ p.state = "CONFIRMATION" /\ ~p.success
           /\ p.k1 = StatusMatch(Status11, status, n) /\ p.k2 = StatusMatch(Status10, status, n)
  <2>1. Handed(p, SERVER) = p  BY <1>2, HandedIs, WaitingStates
  <2>2. q = CredentialConfirmation(p, SERVER, status[n + 1])  BY <1>2, <2>1, Dispatch
  <2>3. n \in 0 .. 2 /\ n < Len(status)  BY <1>1, <1>2
  <2> QED  BY <1>2, <2>2, <2>3, StatusNext
<1>3. CASE p.state = "FINISH" /\ (p.success <=> Grants(status)) /\ (p.success => n > 2)
  <2>1. q = p  BY <1>3, Stays
  <2>2. n > 2 => n + 1 > 2  OBVIOUS
  <2> QED  BY <1>3, <2>1, <2>2 DEF StatusAt
<1> QED  BY <1>2, <1>3 DEF StatusAt

LEMMA StatusFirst ==
  ASSUME NEW status \in Seq(Byte), Len(status) > 0, NEW p, Is(p, "CLIENT_CONFIRMATION", 0, 0, <<>>),
         NEW q, q = SpoofByte(p, SERVER, status[1])
  PROVE  IsParser(q) /\ q.user = p.user /\ q.pass = p.pass /\ StatusAt(status, 1, q)
<1>1. IsParser(p) /\ p.state = "CLIENT_CONFIRMATION" /\ p.k1 = 0 /\ p.k2 = 0 /\ ~p.success  BY DEF Is, In
<1>2. PICK h : h = Handed(p, SERVER)  OBVIOUS
<1>3. h = Goto(p, "CONFIRMATION")  BY <1>1, <1>2, HandedIs, WaitingStates
<1>4. Moved(p, h, "CONFIRMATION", 0, 0)  BY <1>1, <1>3, GotoMoves
<1>5. h.state = "CONFIRMATION" /\ IsParser(h) /\ ~h.success /\ h.k1 = 0 /\ h.k2 = 0 /\ h.user = p.user /\ h.pass = p.pass
  BY <1>1, <1>4 DEF Moved
<1>6. q = CredentialConfirmation(h, SERVER, status[1])  BY <1>2, <1>5, Dispatch
<1>7. StatusMatch(Status11, status, 0) = 0 /\ StatusMatch(Status10, status, 0) = 0
  <2>1. \A x \in 1 .. 0 : FALSE  OBVIOUS
  <2> QED  BY <2>1 DEF StatusMatch
<1>8. PICK n \in 0 .. 2 : n = 0 /\ n < Len(status) /\ n + 1 = 1  OBVIOUS
<1>9. IsParser(q) /\ q.user = h.user /\ q.pass = h.pass /\ StatusAt(status, n + 1, q)
  BY <1>5, <1>6, <1>7, <1>8, StatusNext
<1> QED  BY <1>5, <1>8, <1>9

(***************************************************************************)
(* HTTP: the request                                                       *)
(***************************************************************************)

HeadOk(h) ==
  /\ h \in Seq(Byte) /\ Len(h) \in Nat /\ Len(h) > 1 /\ h[1] # LF /\ h[Len(h)] = LF
  /\ \A i \in 1 .. Len(h) : h[i] \in Byte /\ h[i] < 128
  /\ \A i \in 1 .. Len(h) - 1 : h[i] = CR <=> h[i + 1] = LF
  /\ \A i \in 1 .. Len(h) : ~Stands(EmptyLine, h, i) /\ ~Stands(Authorization, h, i)

LEMMA HeadIsOk == ASSUME NEW h, IsHead(h)  PROVE HeadOk(h)
<1>1. h \in Seq(0 .. 127)  BY DEF IsHead
<1>2. Len(h) \in Nat /\ DOMAIN h = 1 .. Len(h) /\ \A i \in 1 .. Len(h) : h[i] \in 0 .. 127
  BY <1>1, LenProperties, ElementOfSeq
<1>3. h \in Seq(Byte)
  <2>1. 0 .. 127 \subseteq Byte  BY DEF Byte
  <2> QED  BY <1>1, <2>1, SeqMonotonic
<1>4. \A i \in 1 .. Len(h) : h[i] \in Byte /\ h[i] < 128
  <2>1. \A x \in 0 .. 127 : x \in Byte /\ x < 128  BY DEF Byte
  <2> QED  BY Zenon, <1>2, <2>1
<1>5. \A i \in 1 .. Len(h) : ~Stands(EmptyLine, h, i) /\ ~Stands(Authorization, h, i)  BY <1>2 DEF IsHead
<1>6. /\ Len(h) > 1 /\ h[1] # LF /\ h[Len(h)] = LF
      /\ \A i \in 1 .. Len(h) - 1 : h[i] = CR <=> h[i + 1] = LF
  BY DEF IsHead
<1> QED  BY Zenon, <1>2, <1>3, <1>4, <1>5, <1>6 DEF HeadOk

\* What the head may not hold, byte by byte.
LEMMA HeadHolds ==
  ASSUME NEW h, HeadOk(h), NEW j \in Nat, j < Len(h)
  PROVE  /\ h[j + 1] = LF => j > 0 /\ h[j] = CR
         /\ j > 0 /\ h[j] = CR => h[j + 1] = LF
         /\ j > 0 /\ h[j] = LF => h[j + 1] # CR
         /\ j > 1 => ~(h[j - 1] = Authorization[1] /\ h[j] = Authorization[2] /\ h[j + 1] = Authorization[3])
<1>0. PICK m \in Nat : m = Len(h)  BY DEF HeadOk
<1>1. /\ h[1] # LF /\ h[m] = LF /\ m > 1
      /\ \A i \in 1 .. m - 1 : h[i] = CR <=> h[i + 1] = LF
      /\ \A i \in 1 .. m : ~Stands(EmptyLine, h, i) /\ ~Stands(Authorization, h, i)
  BY <1>0 DEF HeadOk
<1>2. h[j + 1] = LF => j > 0 /\ h[j] = CR
  <2>1. j > 0 => j \in 1 .. m - 1  BY <1>0
  <2>2. j = 0 => h[j + 1] # LF  BY <1>1
  <2> QED  BY <1>1, <2>1, <2>2
<1>3. j > 0 /\ h[j] = CR => h[j + 1] = LF
  <2>1. j > 0 => j \in 1 .. m - 1  BY <1>0
  <2> QED  BY <1>1, <2>1
<1>4. ASSUME j > 0, h[j] = LF, h[j + 1] = CR  PROVE FALSE
  <2>1. CR # LF  BY Strings
  <2>2. j + 1 # m  BY <1>1, <1>4, <2>1
  <2>3. j + 1 \in 1 .. m - 1  BY <1>0, <2>2
  <2>4. h[(j + 1) + 1] = LF  BY <1>1, <1>4, <2>3
  <2>5. j # 1  BY <1>1, <1>4
  <2>6. PICK i \in 1 .. m - 1 : i = j - 1 /\ i + 1 = j /\ i \in 1 .. m  BY <1>0, <2>5, <1>4
  <2>7. h[i] = CR  BY <1>1, <1>4, <2>6
  <2>8. /\ EmptyLine[1] = CR /\ EmptyLine[2] = LF /\ EmptyLine[3] = CR /\ EmptyLine[4] = LF
        /\ Len(EmptyLine) = 4 /\ DOMAIN EmptyLine = 1 .. 4
    BY DEF EmptyLine
  <2>9. /\ i + 1 - 1 = i /\ i + 2 - 1 = j /\ i + 3 - 1 = j + 1 /\ i + 4 - 1 = (j + 1) + 1
        /\ i + 4 - 1 <= m
    BY <1>0, <2>3, <2>6
  <2>10. /\ h[i + 1 - 1] = EmptyLine[1] /\ h[i + 2 - 1] = EmptyLine[2]
         /\ h[i + 3 - 1] = EmptyLine[3] /\ h[i + 4 - 1] = EmptyLine[4]
    BY <1>4, <2>4, <2>7, <2>8, <2>9
  <2>11. \A k \in DOMAIN EmptyLine : k = 1 \/ k = 2 \/ k = 3 \/ k = 4  BY <2>8
  <2>12. \A k \in DOMAIN EmptyLine : h[i + k - 1] = EmptyLine[k]  BY Zenon, <2>10, <2>11
  <2>13. Stands(EmptyLine, h, i)  BY Zenon, <1>0, <2>8, <2>9, <2>12 DEF Stands
  <2> QED  BY <1>1, <2>6, <2>13
<1>5. ASSUME j > 1, h[j - 1] = Authorization[1], h[j] = Authorization[2], h[j + 1] = Authorization[3]  PROVE FALSE
  <2>1. PICK i \in 1 .. m : i = j - 1  BY <1>0, <1>5
  <2>2. Len(Authorization) = 3 /\ DOMAIN Authorization = 1 .. 3  BY DEF Authorization
  <2>3. i + 1 - 1 = j - 1 /\ i + 2 - 1 = j /\ i + 3 - 1 = j + 1 /\ i + 3 - 1 <= m  BY <1>0, <2>1
  <2>4. h[i + 1 - 1] = Authorization[1] /\ h[i + 2 - 1] = Authorization[2] /\ h[i + 3 - 1] = Authorization[3]
    BY <1>5, <2>3
  <2>5. \A k \in DOMAIN Authorization : k = 1 \/ k = 2 \/ k = 3  BY <2>2
  <2>6. \A k \in DOMAIN Authorization : h[i + k - 1] = Authorization[k]  BY Zenon, <2>4, <2>5
  <2>7. Stands(Authorization, h, i)  BY Zenon, <1>0, <2>2, <2>3, <2>6 DEF Stands
  <2> QED  BY <1>1, <2>7
<1> QED  BY <1>2, <1>3, <1>4, <1>5

\* A byte of the head, none of which ends it or begins the credentials.
LEMMA HeadStep ==
  ASSUME NEW h, HeadOk(h), NEW j \in Nat, j < Len(h), NEW p, IsParser(p), HeadAt(h, j, p),
         NEW q, q = SpoofByte(p, CLIENT, h[j + 1])
  PROVE  IsParser(q) /\ HeadAt(h, j + 1, q)
<1>1. PICK b \in Byte : b = h[j + 1] /\ b < 128
  <2>1. j + 1 \in 1 .. Len(h)  BY DEF HeadOk
  <2> QED  BY <2>1 DEF HeadOk
<1>2. PICK k \in 0 .. 2, e \in 0 .. 2 :
        Begun(Authorization, h, j, k) /\ e = LineEnds(h, j) /\ Is(p, "SEARCHING_AUTH", k, e, <<>>)
  BY DEF HeadAt, Is, LineEnds
<1>3. k <= j /\ \A x \in 1 .. k : h[j - k + x] = Authorization[x]  BY <1>2 DEF Begun
<1>4. ~(k = 2 /\ b = Authorization[3])
  <2>1. ASSUME k = 2, b = Authorization[3]  PROVE FALSE
    <3>1. j > 1 /\ 1 \in 1 .. k /\ 2 \in 1 .. k /\ j - k + 1 = j - 1 /\ j - k + 2 = j  BY <1>3, <2>1
    <3>2. h[j - 1] = Authorization[1] /\ h[j] = Authorization[2]  BY <1>3, <3>1
    <3> QED  BY <1>1, <2>1, <3>1, <3>2, HeadHolds
  <2> QED  BY <2>1
<1>5. e \in 0 .. 3 /\ e # 3  OBVIOUS
<1>6. Is(q, "SEARCHING_AUTH", Onward(Authorization, k, b), Onward(EmptyLine, e, b), <<>>)
  BY <1>1, <1>2, <1>4, <1>5, SearchMoves
<1>7. Onward(EmptyLine, e, b) = LineEnds(h, j + 1)
  <2>1. EmptyLine[1] = CR /\ EmptyLine[2] = LF /\ EmptyLine[3] = CR /\ CR # LF  BY Strings DEF EmptyLine
  <2>2. LineEnds(h, j + 1) = IF b = CR THEN 1 ELSE IF b = LF THEN 2 ELSE 0
    <3>1. j + 1 # 0  OBVIOUS
    <3> QED  BY <1>1, <3>1 DEF LineEnds
  <2>3. /\ b = LF => j > 0 /\ h[j] = CR
        /\ j > 0 /\ h[j] = CR => b = LF
        /\ j > 0 /\ h[j] = LF => b # CR
    BY <1>1, HeadHolds
  <2>4. CASE e = 0
    <3>1. b # LF  BY <1>2, <2>3, <2>4 DEF LineEnds
    <3> QED  BY <2>1, <2>2, <2>4, <3>1 DEF Onward
  <2>5. CASE e = 1
    <3>1. j > 0 /\ h[j] = CR  BY <1>2, <2>5 DEF LineEnds
    <3> QED  BY <2>1, <2>2, <2>3, <2>5, <3>1 DEF Onward
  <2>6. CASE e = 2
    <3>1. j > 0 /\ h[j] = LF  BY <1>2, <2>6 DEF LineEnds
    <3> QED  BY <2>1, <2>2, <2>3, <2>6, <3>1 DEF Onward
  <2> QED  BY <2>4, <2>5, <2>6
<1>8. PICK r : r = Onward(Authorization, k, b)  OBVIOUS
<1>9. r \in 0 .. 2 /\ Begun(Authorization, h, j + 1, r)
  <2>1. Len(Authorization) = 3  BY Strings
  <2>2. CASE b = Authorization[k + 1]
    <3>1. r = k + 1 /\ k # 2  BY <1>4, <1>8, <2>2 DEF Onward
    <3>2. r \in 0 .. 2 /\ r <= j + 1 /\ r \in 0 .. 3 - 1  BY <1>3, <3>1
    <3>3. ASSUME NEW x \in 1 .. r  PROVE h[(j + 1) - r + x] = Authorization[x]
      <4>1. CASE x \in 1 .. k
        <5>1. (j + 1) - r + x = j - k + x  BY <3>1
        <5> QED  BY <1>3, <4>1, <5>1
      <4>2. CASE x = k + 1
        <5>1. (j + 1) - r + x = j + 1  BY <3>1, <4>2
        <5> QED  BY <1>1, <2>2, <4>2, <5>1
      <4> QED  BY <3>1, <4>1, <4>2
    <3> QED  BY <2>1, <3>2, <3>3 DEF Begun
  <2>3. CASE b # Authorization[k + 1]
    <3>1. r = 0  BY <1>8, <2>3 DEF Onward
    <3>2. 0 \in 0 .. 3 - 1 /\ 0 <= j + 1 /\ \A x \in 1 .. 0 : FALSE  OBVIOUS
    <3> QED  BY <2>1, <3>1, <3>2 DEF Begun
  <2> QED  BY <2>2, <2>3
<1> QED  BY <1>6, <1>7, <1>8, <1>9 DEF Is, HeadAt

LEMMA HeadEnds ==
  ASSUME NEW h, HeadOk(h), NEW p, IsParser(p), HeadAt(h, Len(h), p)
  PROVE  Is(p, "SEARCHING_AUTH", 0, 2, <<>>)
<1>1. PICK j \in Nat : j = Len(h) /\ j > 1 /\ h[j] = LF  BY DEF HeadOk
<1>2. PICK k \in 0 .. 2 : Begun(Authorization, h, j, k) /\ In(p, "SEARCHING_AUTH", k, LineEnds(h, j), <<>>)
  BY <1>1 DEF HeadAt
<1>3. LineEnds(h, j) = 2
  <2>1. CR # LF /\ j # 0  BY <1>1, Strings
  <2> QED  BY <1>1, <2>1 DEF LineEnds
<1>4. k = 0
  <2>1. ASSUME k # 0  PROVE FALSE
    <3>1. k \in 1 .. k /\ j - k + k = j /\ (k = 1 \/ k = 2)  BY <2>1
    <3>2. h[j] = Authorization[k]  BY <1>2, <3>1 DEF Begun
    <3>3. Authorization[1] # LF /\ Authorization[2] # LF  BY Strings
    <3> QED  BY <1>1, <3>1, <3>2, <3>3
  <2> QED  BY <2>1
<1> QED  BY <1>2, <1>3, <1>4 DEF Is

\* The empty line.
LEMMA EmptyMoves ==
  ASSUME NEW p
  PROVE  /\ Is(p, "SEARCHING_AUTH", 0, 2, <<>>) => Is(SpoofByte(p, CLIENT, CR), "SEARCHING_AUTH", 0, 3, <<>>)
         /\ Is(p, "SEARCHING_AUTH", 0, 3, <<>>) => Gone(SpoofByte(p, CLIENT, LF))
<1>1. CR \in Byte /\ CR < 128 /\ LF \in Byte /\ LF < 128 /\ CR # LF  BY Strings DEF Byte
<1>2. Onward(Authorization, 0, CR) = 0  BY Strings DEF Onward
<1>3. Onward(EmptyLine, 2, CR) = 3  BY DEF Onward, EmptyLine
<1>4. PICK k \in 0 .. 2, e \in 0 .. 3, f \in 0 .. 3 : k = 0 /\ e = 2 /\ f = 3 /\ k # 2 /\ e # 3  OBVIOUS
<1>5. ASSUME Is(p, "SEARCHING_AUTH", 0, 2, <<>>)  PROVE Is(SpoofByte(p, CLIENT, CR), "SEARCHING_AUTH", 0, 3, <<>>)
  <2>1. Is(p, "SEARCHING_AUTH", k, e, <<>>)  BY <1>4, <1>5
  <2>2. Is(SpoofByte(p, CLIENT, CR), "SEARCHING_AUTH", Onward(Authorization, k, CR), Onward(EmptyLine, e, CR), <<>>)
    BY <1>1, <1>4, <2>1, SearchMoves
  <2> QED  BY <1>2, <1>3, <1>4, <2>2
<1>6. ASSUME Is(p, "SEARCHING_AUTH", 0, 3, <<>>)  PROVE Gone(SpoofByte(p, CLIENT, LF))
  <2>1. Is(p, "SEARCHING_AUTH", k, f, <<>>)  BY <1>4, <1>6
  <2> QED  BY <1>1, <1>4, <2>1, SearchMoves
<1> QED  BY <1>5, <1>6

\* A line with credentials.
LineOk(l) ==
  /\ Len(l.lead) \in Nat /\ Len(l.gap) \in Nat
  /\ \A i \in 1 .. Len(l.lead) : l.lead[i] = Blank
  /\ \A i \in 1 .. Len(l.gap) : l.gap[i] = Blank
  /\ \A i \in 1 .. 2 : l.scheme[i] \in Byte /\ l.scheme[i] < 128
  /\ l.lead \in Seq(Byte) /\ l.gap \in Seq(Byte) /\ l.scheme \in Seq(Byte) /\ Len(l.scheme) = 2
  /\ l.scheme[1] # Blank

LEMMA LineIsOk == ASSUME NEW l, IsLine(l)  PROVE LineOk(l)
<1>1. PICK a, g, s : a = l.lead /\ g = l.gap /\ s = l.scheme  OBVIOUS
<1>2. a \in Seq({Blank}) /\ g \in Seq({Blank}) /\ s \in Seq(0 .. 127) /\ Len(s) = 2 /\ s[1] # Blank  BY <1>1 DEF IsLine
<1>3. /\ Len(a) \in Nat /\ Len(g) \in Nat
      /\ \A i \in 1 .. Len(a) : a[i] \in {Blank}
      /\ \A i \in 1 .. Len(g) : g[i] \in {Blank}
      /\ \A i \in 1 .. Len(s) : s[i] \in 0 .. 127
  BY <1>2, LenProperties, ElementOfSeq
<1>4. {Blank} \subseteq Byte /\ 0 .. 127 \subseteq Byte  BY Strings DEF Byte
<1>5. a \in Seq(Byte) /\ g \in Seq(Byte) /\ s \in Seq(Byte)  BY ZenonT(40), <1>2, <1>4, SeqMonotonic
<1>6. \A i \in 1 .. 2 : s[i] \in Byte /\ s[i] < 128
  <2>1. \A x \in 0 .. 127 : x \in Byte /\ x < 128  BY DEF Byte
  <2> QED  BY Zenon, <1>2, <1>3, <2>1
<1>7. (\A i \in 1 .. Len(a) : a[i] = Blank) /\ \A i \in 1 .. Len(g) : g[i] = Blank  BY <1>3
<1> QED  BY ZenonT(40), <1>1, <1>2, <1>3, <1>5, <1>6, <1>7 DEF LineOk

\* What a line sends: its lengths, and its bytes by their place.
HeaderShape(l, w, a, g, c) ==
  /\ a \in Nat /\ g \in Nat /\ c \in Nat \ {0} /\ a = Len(l.lead) /\ g = Len(l.gap) /\ c = Len(Code(l))
  /\ w \in Seq(Byte) /\ Len(w) = 5 + a + g + c
  /\ \A i \in 1 .. 3 : w[i] = Authorization[i]
  /\ \A i \in 4 .. 3 + a : w[i] = Blank
  /\ w[4 + a] = l.scheme[1] /\ w[5 + a] = l.scheme[2]
  /\ \A i \in 6 + a .. 5 + a + g : w[i] = Blank
  /\ \A i \in 1 .. c : w[5 + a + g + i] = Code(l)[i]

LEMMA HeaderParts ==
  ASSUME NEW l, IsLine(l)
  PROVE  \E a \in Nat, g \in Nat, c \in Nat : HeaderShape(l, Header(l), a, g, c)
<1>1. PICK u, v, s, x, y : u = Authorization /\ v = l.lead /\ s = l.scheme /\ x = l.gap /\ y = Code(l)  OBVIOUS
<1>2. u \in Seq(Byte) /\ Len(u) = 3
  <2>1. u \in Seq(Byte)  BY <1>1 DEF Authorization, Byte
  <2> QED  BY <1>1, <2>1, Strings
<1>3. v \in Seq(Byte) /\ s \in Seq(Byte) /\ x \in Seq(Byte) /\ Len(s) = 2  BY <1>1, LineIsOk DEF LineOk
<1>4. y \in Seq(Byte) /\ Len(y) \in Nat \ {0}  BY Zenon, <1>1, CodeParts
<1>5. PICK a \in Nat, g \in Nat, c \in Nat \ {0} : a = Len(v) /\ g = Len(x) /\ c = Len(y)  BY <1>3, <1>4, LenProperties
<1>6. PICK d, e, f, w : d = u \o v /\ e = d \o s /\ f = e \o x /\ w = f \o y  OBVIOUS
<1>7. Joined(d, u, 3, v, a)  BY <1>2, <1>3, <1>5, <1>6, JoinedParts
<1>8. d \in Seq(Byte) /\ Len(d) = 3 + a  BY <1>7 DEF Joined
<1>9. Joined(e, d, 3 + a, s, 2)  BY <1>3, <1>6, <1>8, JoinedParts
<1>10. e \in Seq(Byte) /\ Len(e) = (3 + a) + 2  BY <1>9 DEF Joined
<1>11. Joined(f, e, (3 + a) + 2, x, g)  BY <1>3, <1>5, <1>6, <1>10, JoinedParts
<1>12. f \in Seq(Byte) /\ Len(f) = ((3 + a) + 2) + g  BY <1>11 DEF Joined
<1>13. Joined(w, f, ((3 + a) + 2) + g, y, c)  BY <1>4, <1>5, <1>6, <1>12, JoinedParts
<1>14. w = Header(l)  BY Zenon, <1>1, <1>6 DEF Header
<1>15. w \in Seq(Byte) /\ Len(w) = 5 + a + g + c
  <2>1. (((3 + a) + 2) + g) + c = 5 + a + g + c  OBVIOUS
  <2> QED  BY <1>13, <2>1 DEF Joined
<1>16. \A i \in 1 .. ((3 + a) + 2) + g : w[i] = f[i]  BY <1>13 DEF Joined
<1>17. \A i \in 1 .. (3 + a) + 2 : w[i] = e[i]
  <2>1. \A i \in 1 .. (3 + a) + 2 : i \in 1 .. ((3 + a) + 2) + g  OBVIOUS
  <2>2. \A i \in 1 .. (3 + a) + 2 : f[i] = e[i]  BY <1>11 DEF Joined
  <2> QED  BY Zenon, <1>16, <2>1, <2>2
<1>18. \A i \in 1 .. 3 + a : w[i] = d[i]
  <2>1. \A i \in 1 .. 3 + a : i \in 1 .. (3 + a) + 2  OBVIOUS
  <2>2. \A i \in 1 .. 3 + a : e[i] = d[i]  BY <1>9 DEF Joined
  <2> QED  BY Zenon, <1>17, <2>1, <2>2
<1>19. \A i \in 1 .. 3 : w[i] = Authorization[i]
  <2>1. \A i \in 1 .. 3 : i \in 1 .. 3 + a  OBVIOUS
  <2>2. \A i \in 1 .. 3 : d[i] = u[i]  BY <1>7 DEF Joined
  <2> QED  BY Zenon, <1>1, <1>18, <2>1, <2>2
<1>20. ASSUME NEW i \in 4 .. 3 + a  PROVE w[i] = Blank
  <2>1. PICK k \in 1 .. a : i = 3 + k
    <3>1. i - 3 \in 1 .. a /\ i = 3 + (i - 3)  OBVIOUS
    <3> QED  BY <3>1
  <2>2. d[3 + k] = v[k]  BY <1>7 DEF Joined
  <2>3. i \in 1 .. 3 + a  OBVIOUS
  <2>4. v[k] = Blank  BY <1>1, <1>5, LineIsOk DEF LineOk
  <2> QED  BY <1>18, <2>1, <2>2, <2>3, <2>4
<1>21. w[4 + a] = s[1] /\ w[5 + a] = s[2]
  <2>1. /\ 1 \in 1 .. 2 /\ 2 \in 1 .. 2 /\ (3 + a) + 1 = 4 + a /\ (3 + a) + 2 = 5 + a
        /\ 4 + a \in 1 .. (3 + a) + 2 /\ 5 + a \in 1 .. (3 + a) + 2
    OBVIOUS
  <2>2. \A i \in 1 .. 2 : e[(3 + a) + i] = s[i]  BY <1>9 DEF Joined
  <2>3. e[4 + a] = s[1] /\ e[5 + a] = s[2]  BY Zenon, <2>1, <2>2
  <2> QED  BY Zenon, <1>17, <2>1, <2>3
<1>22. ASSUME NEW i \in 6 + a .. 5 + a + g  PROVE w[i] = Blank
  <2>1. PICK k \in 1 .. g : i = ((3 + a) + 2) + k
    <3>1. i - (5 + a) \in 1 .. g /\ i = ((3 + a) + 2) + (i - (5 + a))  OBVIOUS
    <3> QED  BY <3>1
  <2>2. f[((3 + a) + 2) + k] = x[k]  BY <1>11 DEF Joined
  <2>3. i \in 1 .. ((3 + a) + 2) + g  OBVIOUS
  <2>4. x[k] = Blank  BY <1>1, <1>5, LineIsOk DEF LineOk
  <2> QED  BY <1>16, <2>1, <2>2, <2>3, <2>4
<1>23. ASSUME NEW i \in 1 .. c  PROVE w[5 + a + g + i] = y[i]
  <2>1. (((3 + a) + 2) + g) + i = 5 + a + g + i  OBVIOUS
  <2>2. w[(((3 + a) + 2) + g) + i] = y[i]  BY <1>13 DEF Joined
  <2> QED  BY <2>1, <2>2
<1>24. HeaderShape(l, w, a, g, c)
  <2>1. a = Len(l.lead) /\ g = Len(l.gap) /\ c = Len(Code(l))  BY <1>1, <1>5
  <2>2. w[4 + a] = l.scheme[1] /\ w[5 + a] = l.scheme[2]  BY <1>1, <1>21
  <2>3. \A i \in 1 .. c : w[5 + a + g + i] = Code(l)[i]  BY <1>1, <1>23
  <2> QED  BY Zenon, <1>5, <1>15, <1>19, <1>20, <1>22, <2>1, <2>2, <2>3 DEF HeaderShape
<1> QED  BY <1>14, <1>24

LEMMA LineFirst ==
  ASSUME NEW p, Is(p, "SEARCHING_AUTH", 0, 2, <<>>), NEW q, q = SpoofByte(p, CLIENT, Authorization[1])
  PROVE  Is(q, "SEARCHING_AUTH", 1, 0, <<>>)
<1>1. PICK k \in 0 .. 2, e \in 0 .. 3 : k = 0 /\ e = 2 /\ k # 2 /\ e # 3  OBVIOUS
<1>2. PICK b \in Byte : b = Authorization[1] /\ b < 128  BY Strings DEF Byte
<1>3. Is(q, "SEARCHING_AUTH", Onward(Authorization, k, b), Onward(EmptyLine, e, b), <<>>)  BY <1>1, <1>2, SearchMoves
<1>4. Onward(Authorization, k, b) = 1  BY <1>1, <1>2 DEF Onward
<1>5. Onward(EmptyLine, e, b) = 0  BY <1>1, <1>2, Strings DEF Onward, EmptyLine
<1> QED  BY <1>3, <1>4, <1>5

\* The scheme of a line, up to its second character.
LEMMA SchemeStep ==
  ASSUME NEW l, LineOk(l), NEW w, NEW a \in Nat, NEW g \in Nat, NEW c \in Nat, HeaderShape(l, w, a, g, c),
         NEW j \in 1 .. 4 + a, NEW p, IsParser(p), SchemeAt(l, j, p), NEW q, q = SpoofByte(p, CLIENT, w[j + 1])
  PROVE  /\ IsParser(q)
         /\ \/ j + 1 < 5 + a /\ SchemeAt(l, j + 1, q)
            \/ j + 1 >= 4 + a /\ Left(q) /\ l.scheme # Basic
            \/ j + 1 = 5 + a /\ l.scheme = Basic /\ In(q, "CREDENTIALS", 0, 0, <<>>) /\ q.spaces
<1>1. /\ a \in Nat /\ a = Len(l.lead)
      /\ \A i \in 1 .. 3 : w[i] = Authorization[i]
      /\ \A i \in 4 .. 3 + a : w[i] = Blank
      /\ w[4 + a] = l.scheme[1] /\ w[5 + a] = l.scheme[2]
  BY Zenon DEF HeaderShape
<1>2. /\ l.scheme[1] \in Byte /\ l.scheme[1] < 128 /\ l.scheme[2] \in Byte /\ l.scheme[2] < 128
      /\ l.scheme[1] # Blank /\ l.scheme \in Seq(Byte) /\ Len(l.scheme) = 2
  <2>1. 1 \in 1 .. 2 /\ 2 \in 1 .. 2  OBVIOUS
  <2> QED  BY Zenon, <2>1 DEF LineOk
<1>3. l.scheme = Basic <=> l.scheme[1] = Basic[1] /\ l.scheme[2] = Basic[2]
  <2>1. Basic \in Seq(Byte) /\ Len(Basic) = 2  BY DEF Basic, Byte
  <2>2. \A i \in 1 .. 2 : i = 1 \/ i = 2  OBVIOUS
  <2>3. l.scheme[1] = Basic[1] /\ l.scheme[2] = Basic[2] => l.scheme = Basic
    BY ZenonT(40), <1>2, <2>1, <2>2, SeqEqual
  <2> QED  BY Zenon, <2>3
<1>4. CASE j = 1 /\ In(p, "SEARCHING_AUTH", j, 0, <<>>)
  <2>1. PICK k \in 0 .. 2, e \in 0 .. 3 : k = 1 /\ e = 0 /\ k # 2 /\ e # 3  OBVIOUS
  <2>2. PICK b \in Byte : b = w[j + 1] /\ b = Authorization[2] /\ b < 128
    <3>1. j + 1 \in 1 .. 3 /\ j + 1 = 2  BY <1>4
    <3>2. w[j + 1] = Authorization[2]  BY <1>1, <3>1
    <3> QED  BY <3>2, Strings DEF Byte
  <2>3. Is(p, "SEARCHING_AUTH", k, e, <<>>)  BY <1>4, <2>1 DEF Is
  <2>4. Is(q, "SEARCHING_AUTH", Onward(Authorization, k, b), Onward(EmptyLine, e, b), <<>>)
    BY <2>1, <2>2, <2>3, SearchMoves
  <2>5. Onward(Authorization, k, b) = 2  BY <2>1, <2>2 DEF Onward
  <2>6. Onward(EmptyLine, e, b) = 0  BY <2>1, <2>2, Strings DEF Onward, EmptyLine
  <2>7. IsParser(q) /\ In(q, "SEARCHING_AUTH", 2, 0, <<>>)  BY <2>4, <2>5, <2>6 DEF Is
  <2>8. j + 1 = 2 /\ j + 1 \in 1 .. 2 /\ j + 1 < 5 + a  BY <1>1, <1>4
  <2> QED  BY <2>7, <2>8 DEF SchemeAt
<1>5. CASE j = 2 /\ In(p, "SEARCHING_AUTH", j, 0, <<>>)
  <2>1. PICK k \in 0 .. 2, e \in 0 .. 3 : k = 2 /\ e = 0  OBVIOUS
  <2>2. PICK b \in Byte : b = w[j + 1] /\ b = Authorization[3] /\ b < 128
    <3>1. j + 1 \in 1 .. 3 /\ j + 1 = 3  BY <1>5
    <3>2. w[j + 1] = Authorization[3]  BY <1>1, <3>1
    <3> QED  BY <3>2, Strings DEF Byte
  <2>3. Is(p, "SEARCHING_AUTH", k, e, <<>>)  BY <1>5, <2>1 DEF Is
  <2>4. Is(q, "CONFIRM_BASIC", 0, 0, <<>>) /\ q.spaces  BY <2>1, <2>2, <2>3, SearchMoves
  <2>5. j + 1 \in 3 .. 3 + a /\ j + 1 < 5 + a  BY <1>1, <1>5
  <2> QED  BY <1>1, <2>4, <2>5 DEF Is, SchemeAt
<1>6. CASE j \in 3 .. 3 + a /\ In(p, "CONFIRM_BASIC", 0, 0, <<>>) /\ p.spaces
  <2>0. Is(p, "CONFIRM_BASIC", 0, 0, <<>>)  BY <1>6 DEF Is
  <2>1. CASE j < 3 + a
    <3>1. j + 1 \in 4 .. 3 + a /\ j + 1 \in 3 .. 3 + a /\ j + 1 < 5 + a  BY SMTT(40), <1>1, <1>6, <2>1
    <3>2. PICK b \in Byte : b = w[j + 1] /\ b = Blank /\ b < 128
      <4>1. w[j + 1] = Blank  BY <1>1, <3>1
      <4> QED  BY <4>1, Strings DEF Byte
    <3>3. q = p  BY <1>6, <2>0, <3>2, SchemeMoves
    <3> QED  BY <1>1, <1>6, <3>1, <3>3 DEF SchemeAt
  <2>2. CASE j = 3 + a
    <3>1. j + 1 = 4 + a /\ w[j + 1] = l.scheme[1] /\ j + 1 < 5 + a /\ j + 1 >= 4 + a
      <4>1. j + 1 = 4 + a /\ 4 + a < 5 + a /\ 4 + a >= 4 + a  BY <1>1, <2>2
      <4> QED  BY <1>1, <4>1
    <3>2. IF l.scheme[1] = Basic[1] THEN Is(q, "CONFIRM_BASIC", 1, 0, <<>>) /\ ~q.spaces ELSE Gone(q)
      BY <1>2, <2>0, <3>1, SchemeMoves
    <3>3. CASE l.scheme[1] = Basic[1]
      <4>1. SchemeAt(l, j + 1, q)  BY <1>1, <3>1, <3>2, <3>3 DEF Is, SchemeAt
      <4> QED  BY <3>1, <3>2, <3>3, <4>1 DEF Is
    <3>4. CASE l.scheme[1] # Basic[1]
      BY <1>3, <3>1, <3>2, <3>4 DEF Gone
    <3> QED  BY <3>3, <3>4
  <2>3. j < 3 + a \/ j = 3 + a  BY <1>1, <1>6
  <2> QED  BY <2>1, <2>2, <2>3
<1>7. CASE j = 4 + a /\ In(p, "CONFIRM_BASIC", 1, 0, <<>>) /\ ~p.spaces /\ l.scheme[1] = Basic[1]
  <2>1. j + 1 = 5 + a /\ w[j + 1] = l.scheme[2] /\ j + 1 >= 4 + a
    <3>1. j + 1 = 5 + a /\ 5 + a >= 4 + a  BY <1>1, <1>7
    <3> QED  BY <1>1, <3>1
  <2>2. Is(p, "CONFIRM_BASIC", 1, 0, <<>>)  BY <1>7 DEF Is
  <2>3. IF l.scheme[2] = Basic[2] THEN Is(q, "CREDENTIALS", 0, 0, <<>>) /\ q.spaces ELSE Gone(q)
    BY <1>2, <1>7, <2>1, <2>2, SchemeMoves
  <2> QED  BY <1>3, <1>7, <2>1, <2>3 DEF Is, Gone
<1>8. j \in 1 .. 2 => j = 1 \/ j = 2  OBVIOUS
<1> QED  BY <1>1, <1>4, <1>5, <1>6, <1>7, <1>8 DEF SchemeAt

\* The credentials, their end, and what follows.
LEMMA BasicStep ==
  ASSUME NEW l, IsLine(l), NEW w, NEW a \in Nat, NEW g \in Nat, NEW c \in Nat, HeaderShape(l, w, a, g, c),
         NEW j \in Nat, j >= 5 + a, NEW p, IsParser(p), BasicAt(l, j, p), NEW b \in Byte,
         j < 5 + a + g + c => b = w[j + 1], j = 5 + a + g + c => b \in {Blank, CR, LF},
         NEW q, q = SpoofByte(p, CLIENT, b)
  PROVE  IsParser(q) /\ BasicAt(l, j + 1, q)
<1>0. /\ \A i \in 6 + a .. 5 + a + g : w[i] = Blank
      /\ \A i \in 1 .. c : w[5 + a + g + i] = Code(l)[i]
  BY Zenon DEF HeaderShape
<1>1. a = Len(l.lead) /\ g = Len(l.gap) /\ c = Len(Code(l)) /\ c # 0
  BY DEF HeaderShape
<1>11. c > 0  BY <1>1
<1>2. PICK code \in Seq(Byte) : code = Code(l) /\ \A i \in 1 .. c : code[i] \in Base64Char  BY Zenon, <1>1, CodeParts
<1>3. Blank < 128 /\ CR < 128 /\ LF < 128 /\ \A x \in Base64Char : x < 128  BY Strings DEF Base64Char
<1>9. PICK e \in Nat, f \in Nat, h \in Nat : e = 5 + a /\ f = 5 + a + g /\ h = 5 + a + g + c
  <2>1. 5 + a \in Nat /\ 5 + a + g \in Nat /\ 5 + a + g + c \in Nat  OBVIOUS
  <2> QED  BY <2>1
<1>10. f = e + g /\ h = f + c  BY <1>9
<1>4. e = 5 + Len(l.lead) /\ f = e + Len(l.gap) /\ h = f + Len(Code(l))  BY Zenon, <1>1, <1>9, <1>10
<1>5. ~(j + 1 < e) /\ ~(j < e)  BY <1>1, <1>9
<1>6. CASE j \in e .. f /\ In(p, "CREDENTIALS", 0, 0, <<>>) /\ p.spaces
  <2>0. Is(p, "CREDENTIALS", 0, 0, <<>>)  BY <1>6 DEF Is
  <2>1. CASE j < f
    <3>1. j + 1 \in 6 + a .. 5 + a + g /\ j + 1 \in e .. f /\ j < 5 + a + g + c  BY <1>6, <1>9, <1>11, <2>1
    <3>2. b = Blank  BY <1>0, <3>1
    <3>3. q = p  BY <1>3, <1>6, <2>0, <3>2, CredentialMoves
    <3> QED  BY <1>4, <1>6, <3>1, <3>3 DEF BasicAt
  <2>2. CASE j = f
    <3>1. 1 \in 1 .. c /\ j + 1 = 5 + a + g + 1 /\ j < 5 + a + g + c /\ j + 1 \in f + 1 .. h /\ (j + 1) - f = 1
      BY <1>9, <1>11, <2>2
    <3>2. b = code[1] /\ b \in Base64Char
      <4>1. w[j + 1] = code[1]  BY Zenon, <1>0, <1>2, <3>1
      <4> QED  BY <1>2, <3>1, <4>1
    <3>3. Is(q, "CREDENTIALS", 0, 0, Append(<<>>, b)) /\ ~q.spaces  BY <1>3, <2>0, <3>2, CredentialMoves
    <3>4. Append(<<>>, b) = SubSeq(code, 1, 1)
      <4>0. c = Len(code)  BY <1>1, <1>2
      <4>1. PICK z \in Nat : z = 0 /\ z < Len(code) /\ z + 1 = 1  BY <1>1, <4>0
      <4>2. Append(SubSeq(code, 1, z), code[z + 1]) = SubSeq(code, 1, z + 1)  BY <4>1, StringGrows
      <4>3. SubSeq(code, 1, z) = <<>>  BY <4>1, SubSeqEmpty
      <4> QED  BY <3>2, <4>1, <4>2, <4>3
    <3>5. In(q, "CREDENTIALS", 0, 0, SubSeq(Code(l), 1, (j + 1) - f))  BY <1>2, <3>1, <3>3, <3>4 DEF Is
    <3> QED  BY <1>4, <3>1, <3>3, <3>5 DEF BasicAt, Is
  <2>3. j < f \/ j = f  BY <1>6
  <2> QED  BY <2>1, <2>2, <2>3
<1>7. CASE j \in f + 1 .. h /\ In(p, "CREDENTIALS", 0, 0, SubSeq(Code(l), 1, j - f)) /\ ~p.spaces
  <2>1. PICK i \in 1 .. c : i = j - f /\ j = f + i
    <3>1. j - f \in 1 .. c /\ j = f + (j - f)  BY <1>7, <1>10
    <3> QED  BY <3>1
  <2>2. PICK text : text = SubSeq(code, 1, i)  OBVIOUS
  <2>3. Is(p, "CREDENTIALS", 0, 0, text)  BY <1>2, <1>7, <2>1, <2>2 DEF Is
  <2>4. CASE i < c
    <3>1. i + 1 \in 1 .. c /\ j + 1 = 5 + a + g + (i + 1) /\ j < 5 + a + g + c /\ j + 1 \in f + 1 .. h /\ (j + 1) - f = i + 1
      BY <1>9, <2>1, <2>4
    <3>2. b = code[i + 1] /\ b \in Base64Char
      <4>1. w[j + 1] = code[i + 1]  BY Zenon, <1>0, <1>2, <3>1
      <4> QED  BY <1>2, <3>1, <4>1
    <3>3. Is(q, "CREDENTIALS", 0, 0, Append(text, b)) /\ ~q.spaces  BY <1>3, <2>3, <3>2, CredentialMoves
    <3>4. Append(text, b) = SubSeq(code, 1, i + 1)
      <4>0. c = Len(code)  BY <1>1, <1>2
      <4>1. i \in Nat /\ i < Len(code) /\ 1 \in Nat \ {0} /\ 1 <= i + 1  BY <1>1, <2>4, <4>0
      <4>2. Append(SubSeq(code, 1, i), code[i + 1]) = SubSeq(code, 1, i + 1)  BY <4>1, StringGrows
      <4> QED  BY <2>2, <3>2, <4>2
    <3>5. In(q, "CREDENTIALS", 0, 0, SubSeq(Code(l), 1, (j + 1) - f))  BY <1>2, <3>1, <3>3, <3>4 DEF Is
    <3> QED  BY <1>4, <3>1, <3>3, <3>5 DEF BasicAt, Is
  <2>5. CASE i = c
    <3>1. j = 5 + a + g + c /\ j + 1 > h  BY <1>9, <2>1, <2>5
    <3>2. b \in {Blank, LF, CR} /\ b < 128  BY <1>3, <3>1
    <3>3. text = Code(l)  BY <1>1, <1>2, <2>2, <2>5, SubSeqFull
    <3>4. Is(q, "CLIENT_CONFIRMATION", 0, 0, <<>>) /\ q.user = l.user /\ q.pass = l.pass
      BY <1>7, <2>3, <3>2, <3>3, CredentialMoves
    <3> QED  BY <1>4, <3>1, <3>4 DEF BasicAt, Is
  <2>6. i < c \/ i = c  OBVIOUS
  <2> QED  BY <2>4, <2>5, <2>6
<1>8. CASE j > h /\ In(p, "CLIENT_CONFIRMATION", 0, 0, <<>>) /\ p.user = l.user /\ p.pass = l.pass
  <2>1. q = p  BY <1>8, Stays, WaitingStates DEF In
  <2>2. j + 1 > h  BY <1>8
  <2> QED  BY <1>4, <1>8, <2>1, <2>2 DEF BasicAt
<1> QED  BY <1>4, <1>5, <1>6, <1>7, <1>8 DEF BasicAt

\* A byte of the line with the credentials, in any scheme.
LEMMA LineStep ==
  ASSUME NEW l, IsLine(l), NEW w, NEW a \in Nat, NEW g \in Nat, NEW c \in Nat, HeaderShape(l, w, a, g, c),
         NEW j \in Nat \ {0}, NEW p, IsParser(p), LineAt(l, j, p), NEW b \in Byte,
         j < 5 + a + g + c => b = w[j + 1], j = 5 + a + g + c => b \in {Blank, CR, LF},
         NEW q, q = SpoofByte(p, CLIENT, b)
  PROVE  IsParser(q) /\ LineAt(l, j + 1, q)
<1>1. LineOk(l)  BY LineIsOk
<1>9. j < 5 + a \/ ~(j < 5 + a)  OBVIOUS
<1>2. a = Len(l.lead) /\ g = Len(l.gap) /\ c = Len(Code(l))  BY Zenon DEF HeaderShape
<1>10. PICK e \in Nat, f \in Nat, h \in Nat :
        /\ e = 5 + a /\ f = 5 + a + g /\ h = 5 + a + g + c
        /\ e = 5 + Len(l.lead) /\ f = 5 + Len(l.lead) + Len(l.gap) /\ h = 5 + Len(l.lead) + Len(l.gap) + Len(Code(l))
  <2>1. 5 + a \in Nat /\ 5 + a + g \in Nat /\ 5 + a + g + c \in Nat  OBVIOUS
  <2> QED  BY <1>2, <2>1
<1>3. CASE j < 5 + a /\ SchemeAt(l, j, p)
  <2>0. j < 5 + a  BY <1>3
  <2>1. j \in 1 .. 4 + a /\ j < 5 + a + g + c  BY <2>0
  <2>2. /\ IsParser(q)
        /\ \/ j + 1 < 5 + a /\ SchemeAt(l, j + 1, q)
           \/ j + 1 >= 4 + a /\ Left(q) /\ l.scheme # Basic
           \/ j + 1 = 5 + a /\ l.scheme = Basic /\ In(q, "CREDENTIALS", 0, 0, <<>>) /\ q.spaces
    BY <1>1, <1>3, <2>1, SchemeStep
  <2>3. CASE j + 1 < 5 + a /\ SchemeAt(l, j + 1, q)
    <3>1. BasicAt(l, j + 1, q) /\ OtherSchemeAt(l, j + 1, q)  BY <1>2, <2>3 DEF BasicAt, OtherSchemeAt
    <3> QED  BY <2>2, <3>1 DEF LineAt
  <2>4. CASE j + 1 >= 4 + a /\ Left(q) /\ l.scheme # Basic
    <3>1. j + 1 >= (5 + Len(l.lead)) - 1  BY <1>2, <2>4
    <3>2. OtherSchemeAt(l, j + 1, q)  BY <2>4, <3>1 DEF OtherSchemeAt
    <3> QED  BY <2>2, <2>4, <3>2 DEF LineAt
  <2>5. CASE j + 1 = 5 + a /\ l.scheme = Basic /\ In(q, "CREDENTIALS", 0, 0, <<>>) /\ q.spaces
    <3>1. j + 1 \in 5 + Len(l.lead) .. 5 + Len(l.lead) + Len(l.gap)
      <4>1. j + 1 \in e .. f  BY <1>10, <2>5
      <4> QED  BY <1>10, <4>1
    <3>2. BasicAt(l, j + 1, q)  BY <2>5, <3>1 DEF BasicAt
    <3> QED  BY <2>2, <2>5, <3>2 DEF LineAt
  <2> QED  BY <2>2, <2>3, <2>4, <2>5
<1>4. CASE l.scheme = Basic /\ ~(j < 5 + a)
  <2>1. BasicAt(l, j, p)  BY <1>4 DEF LineAt
  <2>2. j \in Nat /\ j >= 5 + a  BY <1>2, <1>4
  <2>3. IsParser(q) /\ BasicAt(l, j + 1, q)  BY <2>1, <2>2, BasicStep
  <2> QED  BY <1>4, <2>3 DEF LineAt
<1>5. CASE l.scheme # Basic /\ j >= (5 + Len(l.lead)) - 1 /\ Left(p)
  <2>1. q = p  BY <1>5, Stays DEF Left
  <2>2. j + 1 >= (5 + Len(l.lead)) - 1  BY <1>2, <1>5
  <2>3. OtherSchemeAt(l, j + 1, q)  BY <1>5, <2>1, <2>2 DEF OtherSchemeAt
  <2> QED  BY <1>5, <2>1, <2>3 DEF LineAt
<1>6. CASE l.scheme = Basic /\ j < 5 + a
  <2>1. BasicAt(l, j, p)  BY <1>6 DEF LineAt
  <2>2. /\ ~(j \in 5 + Len(l.lead) .. 5 + Len(l.lead) + Len(l.gap))
        /\ ~(j \in 5 + Len(l.lead) + Len(l.gap) + 1 .. 5 + Len(l.lead) + Len(l.gap) + Len(Code(l)))
        /\ ~(j > 5 + Len(l.lead) + Len(l.gap) + Len(Code(l)))
    <3>1. ~(j \in e .. f) /\ ~(j \in f + 1 .. h) /\ ~(j > h)  BY <1>6, <1>10
    <3> QED  BY <1>10, <3>1
  <2>3. SchemeAt(l, j, p)  BY <2>1, <2>2 DEF BasicAt
  <2> QED  BY <1>3, <1>6, <2>3
<1>7. CASE l.scheme # Basic /\ j < 5 + Len(l.lead) /\ SchemeAt(l, j, p)
  BY <1>2, <1>3, <1>7
<1>8. l.scheme # Basic => \/ j < 5 + Len(l.lead) /\ SchemeAt(l, j, p)
                          \/ j >= (5 + Len(l.lead)) - 1 /\ Left(p)
  BY DEF LineAt, OtherSchemeAt
<1> QED  BY <1>4, <1>5, <1>6, <1>7, <1>8

HttpOk(t) ==
  /\ HeadOk(t.head) /\ t.rest \in Seq(Byte) /\ Len(t.rest) \in Nat
  /\ t.status \in Seq(Byte) /\ Len(t.status) \in Nat /\ Len(t.status) > 0
  /\ t.auth # <<>> => IsLine(t.auth[1]) /\ Len(t.rest) > 0 /\ t.rest[1] \in {Blank, CR, LF}

LEMMA HttpIsOk == ASSUME NEW t, IsHttp(t)  PROVE HttpOk(t)
<1>1. PICK r, s : r = t.rest /\ s = t.status  OBVIOUS
<1>2. r \in Seq(Byte) /\ s \in Seq(Byte) /\ s # <<>>  BY <1>1 DEF IsHttp, Byte
<1>3. Len(r) \in Nat /\ Len(s) \in Nat /\ Len(s) > 0  BY <1>2, LenProperties
<1>4. r # <<>> => Len(r) > 0  BY <1>2, LenProperties
<1>5. HeadOk(t.head)  BY HeadIsOk DEF IsHttp
<1>6. t.auth # <<>> => IsLine(t.auth[1]) /\ r # <<>> /\ r[1] \in {Blank, CR, LF}  BY <1>1 DEF IsHttp
<1> QED  BY Zenon, <1>1, <1>2, <1>3, <1>4, <1>5, <1>6 DEF HttpOk

\* What a request sends: its lengths, and its bytes by their place.
Mid(t) == IF t.auth = <<>> THEN <<CR, LF>> ELSE Header(t.auth[1])
RequestShape(t, w, h, m, r) ==
  /\ h = Len(t.head) /\ m = Len(Mid(t)) /\ r = Len(t.rest) /\ Mid(t) \in Seq(Byte) /\ m > 1
  /\ w \in Seq(Byte) /\ Len(w) = 5 + h + m + r
  /\ w[1] = 71 /\ w[2] = 72 /\ w[3] = Blank /\ w[4] = 72 /\ w[5] = 84
  /\ \A i \in 1 .. h : w[5 + i] = t.head[i]
  /\ \A i \in 1 .. m : w[5 + h + i] = Mid(t)[i]
  /\ \A i \in 1 .. r : w[5 + h + m + i] = t.rest[i]

LEMMA StartBytes ==
  /\ RequestStart \in Seq(Byte) /\ Len(RequestStart) = 5
  /\ RequestStart[1] = 71 /\ RequestStart[2] = 72 /\ RequestStart[3] = Blank /\ RequestStart[4] = 72 /\ RequestStart[5] = 84
<1>1. PICK u, v, x : u = <<71, 72, Blank>> /\ v = Http1 /\ x = u \o v  OBVIOUS
<1>2. u \in Seq(Byte) /\ Len(u) = 3 /\ u[1] = 71 /\ u[2] = 72 /\ u[3] = Blank  BY <1>1, Strings DEF Byte
<1>3. v \in Seq(Byte) /\ Len(v) = 2 /\ v[1] = 72 /\ v[2] = 84  BY <1>1 DEF Http1, Byte
<1>4. Joined(x, u, 3, v, 2)  BY ZenonT(40), <1>1, <1>2, <1>3, JoinedParts
<1>5. x \in Seq(Byte) /\ Len(x) = 3 + 2 /\ (\A i \in 1 .. 3 : x[i] = u[i]) /\ \A i \in 1 .. 2 : x[3 + i] = v[i]
  BY <1>4 DEF Joined
<1>6. x[1] = 71 /\ x[2] = 72 /\ x[3] = Blank
  <2>1. 1 \in 1 .. 3 /\ 2 \in 1 .. 3 /\ 3 \in 1 .. 3  OBVIOUS
  <2> QED  BY <1>2, <1>5, <2>1
<1>7. x[4] = 72 /\ x[5] = 84
  <2>1. 1 \in 1 .. 2 /\ 2 \in 1 .. 2 /\ 3 + 1 = 4 /\ 3 + 2 = 5  OBVIOUS
  <2>2. x[3 + 1] = v[1] /\ x[3 + 2] = v[2]  BY Zenon, <1>5, <2>1
  <2> QED  BY <1>3, <2>1, <2>2
<1>8. x = RequestStart  BY Zenon, <1>1 DEF RequestStart
<1> QED  BY <1>5, <1>6, <1>7, <1>8

LEMMA MidBytes ==
  ASSUME NEW t, HttpOk(t)
  PROVE  Mid(t) \in Seq(Byte) /\ Len(Mid(t)) \in Nat /\ Len(Mid(t)) > 1
<1>1. CASE t.auth = <<>>
  <2>1. PICK x : x = <<CR, LF>>  OBVIOUS
  <2>2. x \in Seq(Byte) /\ Len(x) = 2  BY <2>1, Strings DEF Byte
  <2> QED  BY <1>1, <2>1, <2>2 DEF Mid
<1>2. CASE t.auth # <<>>
  <2>1. IsLine(t.auth[1])  BY <1>2 DEF HttpOk
  <2>2. PICK a \in Nat, g \in Nat, c \in Nat : HeaderShape(t.auth[1], Header(t.auth[1]), a, g, c)
    BY <2>1, HeaderParts
  <2>3. PICK x : x = Header(t.auth[1])  OBVIOUS
  <2>4. x \in Seq(Byte) /\ Len(x) = 5 + a + g + c  BY Zenon, <2>2, <2>3 DEF HeaderShape
  <2>5. 5 + a + g + c \in Nat /\ 5 + a + g + c > 1  OBVIOUS
  <2>6. Len(x) \in Nat /\ Len(x) > 1  BY <2>4, <2>5
  <2> QED  BY Zenon, <1>2, <2>3, <2>4, <2>6 DEF Mid
<1> QED  BY <1>1, <1>2

\* A request, laid out: its first line, its head, the line with the credentials, the rest.
LEMMA RequestParts ==
  ASSUME NEW t, HttpOk(t)
  PROVE  \E h \in Nat, m \in Nat, r \in Nat : RequestShape(t, Request(t), h, m, r)
<1>1. PICK s, u, v, x : s = RequestStart /\ u = t.head /\ v = Mid(t) /\ x = t.rest  OBVIOUS
<1>2. /\ s \in Seq(Byte) /\ Len(s) = 5 /\ s[1] = 71 /\ s[2] = 72 /\ s[3] = Blank /\ s[4] = 72 /\ s[5] = 84
  BY Zenon, <1>1, StartBytes
<1>3. u \in Seq(Byte) /\ Len(u) \in Nat /\ x \in Seq(Byte) /\ Len(x) \in Nat  BY Zenon, <1>1 DEF HttpOk, HeadOk
<1>4. v \in Seq(Byte) /\ Len(v) \in Nat /\ Len(v) > 1  BY Zenon, <1>1, MidBytes
<1>5. PICK h \in Nat, m \in Nat, r \in Nat : h = Len(u) /\ m = Len(v) /\ r = Len(x)  BY <1>3, <1>4
<1>6. PICK d, e, w : d = s \o u /\ e = d \o v /\ w = e \o x  OBVIOUS
<1>7. Joined(d, s, 5, u, h)  BY ZenonT(40), <1>2, <1>3, <1>5, <1>6, JoinedParts
<1>8. d \in Seq(Byte) /\ Len(d) = 5 + h  BY <1>7 DEF Joined
<1>9. Joined(e, d, 5 + h, v, m)  BY <1>4, <1>5, <1>6, <1>8, JoinedParts
<1>10. e \in Seq(Byte) /\ Len(e) = (5 + h) + m  BY <1>9 DEF Joined
<1>11. Joined(w, e, (5 + h) + m, x, r)  BY <1>3, <1>5, <1>6, <1>10, JoinedParts
<1>12. w \in Seq(Byte) /\ Len(w) = 5 + h + m + r  BY <1>11 DEF Joined
<1>13. w = Request(t)  BY Zenon, <1>1, <1>6 DEF Request, Mid
<1>14. \A i \in 1 .. 5 + h : w[i] = d[i]
  <2>1. \A i \in 1 .. 5 + h : i \in 1 .. (5 + h) + m  OBVIOUS
  <2>2. \A i \in 1 .. (5 + h) + m : w[i] = e[i]  BY <1>11 DEF Joined
  <2>3. \A i \in 1 .. 5 + h : e[i] = d[i]  BY <1>9 DEF Joined
  <2> QED  BY Zenon, <2>1, <2>2, <2>3
<1>15. \A i \in 1 .. 5 : w[i] = s[i]
  <2>1. \A i \in 1 .. 5 : i \in 1 .. 5 + h  OBVIOUS
  <2>2. \A i \in 1 .. 5 : d[i] = s[i]  BY <1>7 DEF Joined
  <2> QED  BY Zenon, <1>14, <2>1, <2>2
<1>16. w[1] = 71 /\ w[2] = 72 /\ w[3] = Blank /\ w[4] = 72 /\ w[5] = 84
  <2>1. 1 \in 1 .. 5 /\ 2 \in 1 .. 5 /\ 3 \in 1 .. 5 /\ 4 \in 1 .. 5 /\ 5 \in 1 .. 5  OBVIOUS
  <2>2. w[1] = s[1] /\ w[2] = s[2] /\ w[3] = s[3] /\ w[4] = s[4] /\ w[5] = s[5]  BY Zenon, <1>15, <2>1
  <2> QED  BY <1>2, <2>2
<1>17. \A i \in 1 .. h : w[5 + i] = u[i]
  <2>1. \A i \in 1 .. h : 5 + i \in 1 .. 5 + h  OBVIOUS
  <2>2. \A i \in 1 .. h : d[5 + i] = u[i]  BY <1>7 DEF Joined
  <2> QED  BY Zenon, <1>14, <2>1, <2>2
<1>18. \A i \in 1 .. m : w[5 + h + i] = v[i]
  <2>1. \A i \in 1 .. m : (5 + h) + i \in 1 .. (5 + h) + m  OBVIOUS
  <2>2. \A i \in 1 .. (5 + h) + m : w[i] = e[i]  BY <1>11 DEF Joined
  <2>3. \A i \in 1 .. m : e[(5 + h) + i] = v[i]  BY <1>9 DEF Joined
  <2> QED  BY Zenon, <2>1, <2>2, <2>3
<1>19. \A i \in 1 .. r : w[5 + h + m + i] = x[i]  BY <1>11 DEF Joined
<1>20. RequestShape(t, w, h, m, r)
  <2>1. m > 1  BY <1>4, <1>5
  <2> QED  BY ZenonT(40), <1>1, <1>4, <1>5, <1>12, <1>16, <1>17, <1>18, <1>19, <2>1 DEF RequestShape
<1> QED  BY <1>13, <1>20

LEMMA StartStep ==
  ASSUME NEW n \in 0 .. 4, NEW p, IsParser(p), StartAt(n, p), NEW b \in Byte,
         n = 0 => b = 71, n = 1 => b = 72, n = 2 => b = Blank, n = 3 => b = 72, n = 4 => b = 84,
         NEW q, q = SpoofByte(p, CLIENT, b), NEW h
  PROVE  IsParser(q) /\ (IF n < 4 THEN StartAt(n + 1, q) ELSE HeadAt(h, 0, q))
<1>1. Ascii(b) /\ b # LF
  <2>1. b < 128 /\ b # LF  BY Strings
  <2> QED  BY <2>1 DEF Ascii
<1>2. /\ (n = 0 \/ n = 2) => b # Http1[1] /\ b # Http1[2]
      /\ (n = 1 \/ n = 3) => b = Http1[1]
      /\ n = 4 => b = Http1[2]
  BY Strings
<1>3. ASSUME NEW g, NEW k \in {0, 1}, Is(g, "CONFIRM_HTTP", k, 0, <<>>), k = (IF n = 2 \/ n = 4 THEN 1 ELSE 0),
             q = ConfirmHttp(g, CLIENT, b)
      PROVE  IsParser(q) /\ (IF n < 4 THEN StartAt(n + 1, q) ELSE HeadAt(h, 0, q))
  <2>1. CASE n = 4
    <3>1. Is(q, "SEARCHING_AUTH", 0, 0, <<>>)  BY <1>1, <1>2, <1>3, <2>1, HttpMoves
    <3>2. LineEnds(h, 0) = 0  BY DEF LineEnds
    <3>3. Begun(Authorization, h, 0, 0)
      <4>1. 0 \in 0 .. 3 - 1 /\ 0 <= 0 /\ \A x \in 1 .. 0 : FALSE  OBVIOUS
      <4> QED  BY <4>1, Strings DEF Begun
    <3>4. 0 \in 0 .. 2 /\ ~(n < 4)  BY <2>1
    <3> QED  BY <3>1, <3>2, <3>3, <3>4 DEF Is, HeadAt
  <2>2. CASE n # 4
    <3>1. ~(k = 1 /\ b = Http1[2])  BY <1>2, <1>3, <2>2
    <3>2. Is(q, "CONFIRM_HTTP", IF k = 0 /\ b = Http1[1] THEN 1 ELSE 0, 0, <<>>)  BY <1>1, <1>3, <3>1, HttpMoves
    <3>3. (IF k = 0 /\ b = Http1[1] THEN 1 ELSE 0) = (IF n + 1 \in {2, 4} THEN 1 ELSE 0)  BY <1>2, <1>3, <2>2
    <3>4. n + 1 \in {1, 2, 3, 4} /\ n < 4  BY <2>2
    <3>5. Is(q, "CONFIRM_HTTP", IF n + 1 \in {2, 4} THEN 1 ELSE 0, 0, <<>>)  BY <3>2, <3>3
    <3> QED  BY <3>4, <3>5 DEF Is, StartAt
  <2> QED  BY <2>1, <2>2
<1>4. CASE n = 0 /\ In(p, "INIT", 0, 0, <<>>)
  <2>1. Is(p, "INIT", 0, 0, <<>>)  BY <1>4 DEF Is
  <2>2. PICK g : Is(g, "CONFIRM_HTTP", 0, 0, <<>>) /\ q = ConfirmHttp(g, CLIENT, b)  BY <2>1, HttpSpeaks
  <2>3. PICK k \in {0, 1} : k = 0 /\ k = (IF n = 2 \/ n = 4 THEN 1 ELSE 0)  BY <1>4
  <2> QED  BY <1>3, <2>2, <2>3
<1>5. CASE n \in {1, 3} /\ In(p, "CONFIRM_HTTP", 0, 0, <<>>)
  <2>1. Is(p, "CONFIRM_HTTP", 0, 0, <<>>)  BY <1>5 DEF Is
  <2>2. q = ConfirmHttp(p, CLIENT, b)  BY <2>1, HttpSpeaks
  <2>3. PICK k \in {0, 1} : k = 0 /\ k = (IF n = 2 \/ n = 4 THEN 1 ELSE 0)  BY <1>5
  <2> QED  BY <1>3, <2>1, <2>2, <2>3
<1>6. CASE n \in {2, 4} /\ In(p, "CONFIRM_HTTP", 1, 0, <<>>)
  <2>1. Is(p, "CONFIRM_HTTP", 1, 0, <<>>)  BY <1>6 DEF Is
  <2>2. q = ConfirmHttp(p, CLIENT, b)  BY <2>1, HttpSpeaks
  <2>3. PICK k \in {0, 1} : k = 1 /\ k = (IF n = 2 \/ n = 4 THEN 1 ELSE 0)  BY <1>6
  <2> QED  BY <1>3, <2>1, <2>2, <2>3
<1> QED  BY <1>4, <1>5, <1>6 DEF StartAt

LEMMA NoneStep ==
  ASSUME NEW j \in Nat \ {0}, NEW p, IsParser(p), NoneAt(j, p), NEW b, j = 1 => b = LF,
         NEW q, q = SpoofByte(p, CLIENT, b)
  PROVE  IsParser(q) /\ NoneAt(j + 1, q)
<1>1. j + 1 > 1  OBVIOUS
<1>2. CASE j = 1 /\ In(p, "SEARCHING_AUTH", 0, 3, <<>>)
  <2>1. Is(p, "SEARCHING_AUTH", 0, 3, <<>>)  BY <1>2 DEF Is
  <2>2. Gone(q)  BY <1>2, <2>1, EmptyMoves
  <2> QED  BY <1>1, <2>2 DEF Gone, NoneAt
<1>3. CASE j > 1 /\ Left(p)
  <2>1. q = p  BY <1>3, Stays DEF Left
  <2> QED  BY <1>1, <1>3, <2>1 DEF NoneAt
<1> QED  BY <1>2, <1>3 DEF NoneAt

LEMMA LineBegins ==
  ASSUME NEW l, IsLine(l), NEW q, Is(q, "SEARCHING_AUTH", 1, 0, <<>>)
  PROVE  LineAt(l, 1, q)
<1>1. SchemeAt(l, 1, q)
  <2>1. 1 \in 1 .. 2  OBVIOUS
  <2> QED  BY <2>1 DEF Is, SchemeAt
<1>2. 1 < 5 + Len(l.lead)  BY LineIsOk DEF LineOk
<1> QED  BY <1>1, <1>2 DEF LineAt, BasicAt, OtherSchemeAt

\* A byte of a request, wherever it stands in it.
LEMMA RequestStep ==
  ASSUME NEW t, HttpOk(t), NEW w, w = Request(t), NEW n \in 0 .. Len(w) - 1, NEW p, IsParser(p), RequestAt(t, n, p),
         NEW q, q = SpoofByte(p, CLIENT, w[n + 1])
  PROVE  IsParser(q) /\ RequestAt(t, n + 1, q)
<1>1. PICK h \in Nat, m \in Nat, r \in Nat : RequestShape(t, w, h, m, r)  BY RequestParts
<1>2. w[1] = 71 /\ w[2] = 72 /\ w[3] = Blank /\ w[4] = 72 /\ w[5] = 84  BY Zenon, <1>1 DEF RequestShape
<1>3. \A i \in 1 .. h : w[5 + i] = t.head[i]  BY Zenon, <1>1 DEF RequestShape
<1>4. \A i \in 1 .. m : w[5 + h + i] = Mid(t)[i]  BY Zenon, <1>1 DEF RequestShape
<1>5. \A i \in 1 .. r : w[5 + h + m + i] = t.rest[i]  BY Zenon, <1>1 DEF RequestShape
<1>6. h = Len(t.head) /\ m = Len(Mid(t)) /\ r = Len(t.rest)  BY Zenon, <1>1 DEF RequestShape
<1>7. m > 1 /\ w \in Seq(Byte) /\ Len(w) = 5 + h + m + r  BY Zenon, <1>1 DEF RequestShape
<1>8. n \in Nat /\ n < 5 + h + m + r  BY <1>7
<1>9. PICK b \in Byte : b = w[n + 1]
  <2>1. n + 1 \in 1 .. Len(w)  BY <1>7, <1>8
  <2> QED  BY <1>7, <2>1, ElementOfSeq
<1>10. HeadOk(t.head)  BY Zenon DEF HttpOk
<1>11. PICK top \in Nat : top = Top(t) /\ top = 5 + h
  <2>1. Top(t) = 5 + h /\ 5 + h \in Nat  BY <1>6 DEF Top
  <2> QED  BY <2>1
<1>12. CASE n < 5 /\ StartAt(n, p)
  <2>1. n \in 0 .. 4  BY <1>8, <1>12
  <2>2. n = 0 => n + 1 = 1  OBVIOUS
  <2>3. (n = 0 => b = 71) /\ (n = 1 => b = 72) /\ (n = 2 => b = Blank) /\ (n = 3 => b = 72) /\ (n = 4 => b = 84)
    <3>1. (n = 0 => n + 1 = 1) /\ (n = 1 => n + 1 = 2) /\ (n = 2 => n + 1 = 3) /\ (n = 3 => n + 1 = 4) /\ (n = 4 => n + 1 = 5)
      OBVIOUS
    <3> QED  BY <1>2, <1>9, <3>1
  <2>4. IsParser(q) /\ (IF n < 4 THEN StartAt(n + 1, q) ELSE HeadAt(t.head, 0, q))
    BY <1>9, <1>12, <2>1, <2>3, StartStep
  <2>5. CASE n < 4
    <3>1. n + 1 < 5  BY <2>5
    <3> QED  BY <2>4, <2>5, <3>1 DEF RequestAt
  <2>6. CASE ~(n < 4)
    <3>1. n + 1 \in 5 .. top /\ (n + 1) - 5 = 0  BY <1>11, <2>1, <2>6
    <3> QED  BY <1>11, <2>4, <2>6, <3>1 DEF RequestAt
  <2> QED  BY <2>5, <2>6
<1>13. CASE n \in 5 .. top /\ HeadAt(t.head, n - 5, p) /\ n # top
  <2>1. PICK j \in Nat : j = n - 5 /\ j < h /\ j + 1 \in 1 .. h /\ n + 1 = 5 + (j + 1) /\ n + 1 \in 5 .. top /\ (n + 1) - 5 = j + 1
    <3>1. /\ n - 5 \in Nat /\ n - 5 < h /\ (n - 5) + 1 \in 1 .. h /\ n + 1 = 5 + ((n - 5) + 1)
          /\ n + 1 \in 5 .. top /\ (n + 1) - 5 = (n - 5) + 1
      BY <1>11, <1>13
    <3> QED  BY <3>1
  <2>2. w[n + 1] = t.head[j + 1]  BY Zenon, <1>3, <2>1
  <2>3. IsParser(q) /\ HeadAt(t.head, j + 1, q)
    <3>1. j < Len(t.head)  BY <1>6, <2>1
    <3>2. HeadAt(t.head, j, p)  BY <1>13, <2>1
    <3> QED  BY <1>10, <2>2, <3>1, <3>2, HeadStep
  <2> QED  BY <1>11, <2>1, <2>3 DEF RequestAt
<1>14. CASE n = top /\ HeadAt(t.head, n - 5, p)
  <2>1. n - 5 = h /\ n + 1 = 5 + h + 1 /\ 1 \in 1 .. m /\ n + 1 > top /\ (n + 1) - top = 1 /\ ~(n + 1 < 5) /\ n + 1 \notin 5 .. top
    BY <1>7, <1>11, <1>14
  <2>2. HeadAt(t.head, Len(t.head), p)  BY <1>6, <1>14, <2>1
  <2>3. Is(p, "SEARCHING_AUTH", 0, 2, <<>>)  BY <1>10, <2>2, HeadEnds
  <2>4. w[n + 1] = Mid(t)[1]  BY Zenon, <1>4, <2>1
  <2>5. CASE t.auth = <<>>
    <3>1. w[n + 1] = CR  BY <2>4, <2>5 DEF Mid
    <3>2. Is(q, "SEARCHING_AUTH", 0, 3, <<>>)  BY <2>3, <3>1, EmptyMoves
    <3>3. IsParser(q) /\ NoneAt(1, q)  BY <3>2 DEF Is, NoneAt
    <3> QED  BY <1>11, <2>1, <2>5, <3>3 DEF RequestAt
  <2>6. CASE t.auth # <<>>
    <3>1. IsLine(t.auth[1])  BY <2>6 DEF HttpOk
    <3>2. PICK a \in Nat, g \in Nat, c \in Nat : HeaderShape(t.auth[1], Header(t.auth[1]), a, g, c)  BY <3>1, HeaderParts
    <3>3. Header(t.auth[1])[1] = Authorization[1]
      <4>1. 1 \in 1 .. 3  OBVIOUS
      <4> QED  BY Zenon, <3>2, <4>1 DEF HeaderShape
    <3>4. w[n + 1] = Authorization[1]  BY <2>4, <2>6, <3>3 DEF Mid
    <3>5. Is(q, "SEARCHING_AUTH", 1, 0, <<>>)  BY <2>3, <3>4, LineFirst
    <3>6. IsParser(q) /\ LineAt(t.auth[1], 1, q)  BY <3>1, <3>5, LineBegins DEF Is
    <3> QED  BY <1>11, <2>1, <2>6, <3>6 DEF RequestAt
  <2> QED  BY <2>5, <2>6
<1>15. CASE n > top /\ t.auth = <<>> /\ NoneAt(n - top, p)
  <2>1. PICK j \in Nat \ {0} : j = n - top /\ j + 1 = (n + 1) - top
    <3>1. n - top \in Nat \ {0} /\ (n - top) + 1 = (n + 1) - top  BY <1>8, <1>11, <1>15
    <3> QED  BY <3>1
  <2>2. j = 1 => w[n + 1] = LF
    <3>1. Mid(t) = <<CR, LF>>  BY <1>15 DEF Mid
    <3>2. Mid(t)[2] = LF /\ m = 2  BY <1>6, <3>1
    <3>3. j = 1 => n + 1 = 5 + h + 2  BY <1>11, <2>1
    <3>4. 2 \in 1 .. m  BY <3>2
    <3>5. w[5 + h + 2] = Mid(t)[2]  BY Zenon, <1>4, <3>4
    <3> QED  BY <3>2, <3>3, <3>5
  <2>3. IsParser(q) /\ NoneAt(j + 1, q)  BY <1>15, <2>1, <2>2, NoneStep
  <2>4. n + 1 > top  BY <1>8, <1>15
  <2> QED  BY <1>11, <1>15, <2>1, <2>3, <2>4 DEF RequestAt
<1>16. CASE n > top /\ t.auth # <<>> /\ LineAt(t.auth[1], n - top, p)
  <2>1. PICK j \in Nat \ {0} : j = n - top /\ j + 1 = (n + 1) - top
    <3>1. n - top \in Nat \ {0} /\ (n - top) + 1 = (n + 1) - top  BY SMTT(40), <1>8, <1>11, <1>16
    <3> QED  BY <3>1
  <2>2. IsLine(t.auth[1]) /\ r > 0 /\ t.rest[1] \in {Blank, CR, LF}  BY <1>6, <1>16 DEF HttpOk
  <2>3. PICK a \in Nat, g \in Nat, c \in Nat : HeaderShape(t.auth[1], Header(t.auth[1]), a, g, c)  BY <2>2, HeaderParts
  <2>4. Mid(t) = Header(t.auth[1])  BY <1>16 DEF Mid
  <2>5. m = 5 + a + g + c
    <3>1. Len(Header(t.auth[1])) = 5 + a + g + c  BY Zenon, <2>3 DEF HeaderShape
    <3> QED  BY <1>6, <2>4, <3>1
  <2>6. n + 1 = 5 + h + (j + 1)  BY <1>11, <2>1
  <2>7. j < 5 + a + g + c => b = Header(t.auth[1])[j + 1]
    <3>1. ASSUME j < m  PROVE b = Mid(t)[j + 1]
      <4>1. j + 1 \in 1 .. m  BY <3>1
      <4>2. w[5 + h + (j + 1)] = Mid(t)[j + 1]  BY Zenon, <1>4, <4>1
      <4> QED  BY <1>9, <2>6, <4>2
    <3> QED  BY <2>4, <2>5, <3>1
  <2>8. j = 5 + a + g + c => b \in {Blank, CR, LF}
    <3>1. ASSUME j = m  PROVE b = t.rest[1]
      <4>1. 1 \in 1 .. r /\ 5 + h + (j + 1) = 5 + h + m + 1  BY <2>2, <3>1
      <4>2. w[5 + h + m + 1] = t.rest[1]  BY Zenon, <1>5, <4>1
      <4> QED  BY <1>9, <2>6, <4>1, <4>2
    <3> QED  BY <2>2, <2>5, <3>1
  <2>9. LineAt(t.auth[1], j, p) /\ q = SpoofByte(p, CLIENT, b)  BY <1>9, <1>16, <2>1
  <2>10. IsParser(q) /\ LineAt(t.auth[1], j + 1, q)
    <3>1. PICK l, x : l = t.auth[1] /\ x = Header(t.auth[1])  OBVIOUS
    <3>2. IsLine(l) /\ HeaderShape(l, x, a, g, c) /\ LineAt(l, j, p)  BY Zenon, <2>2, <2>3, <2>9, <3>1
    <3>3. j < 5 + a + g + c => b = x[j + 1]  BY Zenon, <2>7, <3>1
    <3>4. IsParser(q) /\ LineAt(l, j + 1, q)  BY ZenonT(40), <2>8, <2>9, <3>2, <3>3, LineStep
    <3> QED  BY Zenon, <3>1, <3>4
  <2>11. n + 1 > top  BY <1>8, <1>16
  <2> QED  BY <1>11, <1>16, <2>1, <2>10, <2>11 DEF RequestAt
<1> QED  BY <1>11, <1>12, <1>13, <1>14, <1>15, <1>16 DEF RequestAt

\* What the parser says once the request is in.
LEMMA RequestEnds ==
  ASSUME NEW t, HttpOk(t), NEW p, IsParser(p), RequestAt(t, Len(Request(t)), p)
  PROVE  IF t.auth # <<>> /\ t.auth[1].scheme = Basic
         THEN Is(p, "CLIENT_CONFIRMATION", 0, 0, <<>>) /\ p.user = t.auth[1].user /\ p.pass = t.auth[1].pass
         ELSE Left(p)
<1>1. PICK h \in Nat, m \in Nat, r \in Nat : RequestShape(t, Request(t), h, m, r)  BY RequestParts
<1>2. h = Len(t.head) /\ m = Len(Mid(t)) /\ r = Len(t.rest)  BY Zenon, <1>1 DEF RequestShape
<1>3. PICK n \in Nat, top \in Nat, j \in Nat :
        /\ n = Len(Request(t)) /\ top = Top(t) /\ j = m + r /\ n - top = j /\ n > top /\ j > 1
        /\ ~(n < 5) /\ n \notin 5 .. top
  <2>1. Len(Request(t)) = 5 + h + m + r /\ m > 1  BY Zenon, <1>1 DEF RequestShape
  <2>2. Top(t) = 5 + h  BY <1>2 DEF Top
  <2>3. 5 + h + m + r \in Nat /\ 5 + h \in Nat /\ m + r \in Nat /\ (5 + h + m + r) - (5 + h) = m + r
        /\ 5 + h + m + r > 5 + h /\ m + r > 1 /\ ~(5 + h + m + r < 5) /\ 5 + h + m + r \notin 5 .. 5 + h
    BY <2>1
  <2> QED  BY <2>1, <2>2, <2>3
<1>4. IF t.auth = <<>> THEN NoneAt(j, p) ELSE LineAt(t.auth[1], j, p)
  BY <1>3 DEF RequestAt
<1>5. CASE t.auth = <<>>
  <2>1. Left(p)  BY <1>3, <1>4, <1>5 DEF NoneAt
  <2> QED  BY <1>5, <2>1
<1>6. CASE t.auth # <<>>
  <2>1. PICK l : l = t.auth[1]  OBVIOUS
  <2>2. IsLine(l) /\ r > 0  BY <1>2, <1>6, <2>1 DEF HttpOk
  <2>3. PICK a \in Nat, g \in Nat, c \in Nat : HeaderShape(l, Header(l), a, g, c)  BY <2>2, HeaderParts
  <2>4. a = Len(l.lead) /\ g = Len(l.gap) /\ c = Len(Code(l)) /\ Len(Header(l)) = 5 + a + g + c
    BY Zenon, <2>3 DEF HeaderShape
  <2>5. m = 5 + a + g + c  BY Zenon, <1>2, <1>6, <2>1, <2>4 DEF Mid
  <2>6. PICK e \in Nat, f \in Nat, k \in Nat :
          /\ e = 5 + Len(l.lead) /\ f = 5 + Len(l.lead) + Len(l.gap) /\ k = 5 + Len(l.lead) + Len(l.gap) + Len(Code(l))
          /\ j > k /\ ~(j < e) /\ j \notin e .. f /\ j \notin f + 1 .. k
    <3>1. /\ 5 + a \in Nat /\ 5 + a + g \in Nat /\ 5 + a + g + c \in Nat
          /\ j > 5 + a + g + c /\ ~(j < 5 + a) /\ j \notin 5 + a .. 5 + a + g /\ j \notin 5 + a + g + 1 .. 5 + a + g + c
      BY <1>3, <2>2, <2>5
    <3> QED  BY <2>4, <3>1
  <2>7. LineAt(l, j, p)  BY <1>4, <1>6, <2>1
  <2>8. CASE l.scheme = Basic
    <3>1. BasicAt(l, j, p)  BY <2>7, <2>8 DEF LineAt
    <3>2. In(p, "CLIENT_CONFIRMATION", 0, 0, <<>>) /\ p.user = l.user /\ p.pass = l.pass  BY <2>6, <3>1 DEF BasicAt
    <3> QED  BY <1>6, <2>1, <2>8, <3>2 DEF Is
  <2>9. CASE l.scheme # Basic
    <3>1. OtherSchemeAt(l, j, p)  BY <2>7, <2>9 DEF LineAt
    <3>2. Left(p)  BY <2>6, <3>1 DEF OtherSchemeAt
    <3> QED  BY <1>6, <2>1, <2>9, <3>2
  <2> QED  BY <2>8, <2>9
<1> QED  BY <1>5, <1>6

HttpShape(ps, t) ==
  /\ Len(ps) = 2 /\ ps = [i \in 1 .. 2 |-> ps[i]]
  /\ ps[1] = Says(CLIENT, Request(t)) /\ ps[2] = Says(SERVER, t.status)

LEMMA HttpPiece ==
  ASSUME NEW t, NEW ps, ps = HttpPieces(t)
  PROVE  HttpShape(ps, t)
<1>1. PICK x, y : x = Says(CLIENT, Request(t)) /\ y = Says(SERVER, t.status)  OBVIOUS
<1>2. ps = <<x, y>>  BY Zenon, <1>1 DEF HttpPieces
<1>3. Len(ps) = 2 /\ ps[1] = x /\ ps[2] = y /\ ps = [i \in 1 .. 2 |-> ps[i]]  BY <1>2
<1> QED  BY Zenon, <1>1, <1>3 DEF HttpShape

LEMMA HttpParts ==
  ASSUME NEW t, NEW ps, ps = HttpPieces(t)
  PROVE  /\ Len(ps) = 2 /\ ps[1].who = CLIENT /\ ps[1].bytes = Request(t)
         /\ ps[2].who = SERVER /\ ps[2].bytes = t.status
<1>1. HttpShape(ps, t)  BY HttpPiece
<1> QED  BY <1>1 DEF HttpShape, Says

LEMMA HttpSpoken == ASSUME NEW t, IsHttp(t)  PROVE Spoken(HttpPieces(t))
<1>1. PICK ps : ps = HttpPieces(t)  OBVIOUS
<1>2. HttpShape(ps, t)  BY <1>1, HttpPiece
<1>3. HttpOk(t)  BY HttpIsOk
<1>4. PICK h \in Nat, m \in Nat, r \in Nat : RequestShape(t, Request(t), h, m, r)  BY <1>3, RequestParts
<1>5. PICK w, z : w = Request(t) /\ z = t.status  OBVIOUS
<1>6. w \in Seq(Byte) /\ Len(w) \in Nat \ {0}
  <2>1. w \in Seq(Byte) /\ Len(w) = 5 + h + m + r  BY Zenon, <1>4, <1>5 DEF RequestShape
  <2>2. 5 + h + m + r \in Nat \ {0}  OBVIOUS
  <2> QED  BY <2>1, <2>2
<1>7. z \in Seq(Byte) /\ Len(z) \in Nat \ {0}
  <2>1. z \in Seq(Byte) /\ Len(z) \in Nat /\ Len(z) > 0  BY Zenon, <1>3, <1>5 DEF HttpOk
  <2> QED  BY <2>1
<1>8. ps[1] = Says(CLIENT, w) /\ ps[2] = Says(SERVER, z) /\ Len(ps) = 2  BY Zenon, <1>2, <1>5 DEF HttpShape
<1>9. ps[1] \in PieceSet /\ ps[2] \in PieceSet  BY <1>6, <1>7, <1>8, SaysPiece
<1>10. ps[1].bytes = w /\ ps[2].bytes = z  BY <1>8 DEF Says
<1>11. \A i \in 1 .. 2 : i = 1 \/ i = 2  OBVIOUS
<1>12. \A i \in 1 .. 2 : ps[i] \in PieceSet  BY Zenon, <1>9, <1>11
<1>13. ps \in Seq(PieceSet)
  <2>1. ps \in [1 .. 2 -> PieceSet]  BY <1>2, <1>12 DEF HttpShape
  <2>2. 2 \in Nat  OBVIOUS
  <2> QED  BY <2>1, <2>2, SeqDef
<1>14. \A i \in 1 .. Len(ps) : Len(ps[i].bytes) \in Nat \ {0}  BY <1>6, <1>7, <1>8, <1>10
<1> QED  BY Zenon, <1>1, <1>13, <1>14 DEF Spoken

\* HTTP: a byte, and the turn of the other side.
LEMMA HttpStep ==
  ASSUME NEW t, IsHttp(t), NEW ps, ps = HttpPieces(t), NEW i \in 1 .. Len(ps), NEW n \in 0 .. Len(ps[i].bytes) - 1,
         NEW p, IsParser(p), HttpAt(t, i, n, p), NEW q, q = SpoofByte(p, ps[i].who, ps[i].bytes[n + 1])
  PROVE  IsParser(q) /\ HttpAt(t, i, n + 1, q)
<1>1. HttpOk(t)  BY HttpIsOk
<1>2. /\ Len(ps) = 2 /\ ps[1].who = CLIENT /\ ps[1].bytes = Request(t)
      /\ ps[2].who = SERVER /\ ps[2].bytes = t.status
  BY HttpParts
<1>3. PICK w, z : w = Request(t) /\ z = t.status  OBVIOUS
<1>4. z \in Seq(Byte) /\ Len(z) \in Nat /\ Len(z) > 0  BY Zenon, <1>1, <1>3 DEF HttpOk
<1>5. CASE i = 1 /\ RequestAt(t, n, p)
  <2>1. n \in 0 .. Len(w) - 1 /\ q = SpoofByte(p, CLIENT, w[n + 1])  BY <1>2, <1>3, <1>5
  <2>2. IsParser(q) /\ RequestAt(t, n + 1, q)  BY <1>1, <1>3, <1>5, <2>1, RequestStep
  <2> QED  BY <1>5, <2>2 DEF HttpAt
<1>6. CASE i = 2 /\ n = 0 /\ RequestAt(t, Len(Request(t)), p)
  <2>1. q = SpoofByte(p, SERVER, z[1])  BY <1>2, <1>3, <1>6
  <2>2. n + 1 > 0 /\ n + 1 = 1  BY <1>6
  <2>3. CASE t.auth # <<>> /\ t.auth[1].scheme = Basic
    <3>1. Is(p, "CLIENT_CONFIRMATION", 0, 0, <<>>) /\ p.user = t.auth[1].user /\ p.pass = t.auth[1].pass
      BY <1>1, <1>6, <2>3, RequestEnds
    <3>2. IsParser(q) /\ q.user = p.user /\ q.pass = p.pass /\ StatusAt(z, 1, q)
      BY <1>4, <2>1, <3>1, StatusFirst
    <3>3. AnsweredAt(t, 1, q)  BY <1>3, <2>3, <3>1, <3>2 DEF AnsweredAt
    <3> QED  BY <1>6, <2>2, <3>2, <3>3 DEF HttpAt
  <2>4. CASE ~(t.auth # <<>> /\ t.auth[1].scheme = Basic)
    <3>1. Left(p)  BY <1>1, <1>6, <2>4, RequestEnds
    <3>2. q = p  BY <2>1, <3>1, Stays DEF Left
    <3>3. AnsweredAt(t, 1, q)  BY <2>4, <3>1, <3>2 DEF AnsweredAt
    <3> QED  BY <1>6, <2>2, <3>2, <3>3 DEF HttpAt
  <2> QED  BY <2>3, <2>4
<1>7. CASE i = 2 /\ n > 0 /\ AnsweredAt(t, n, p)
  <2>1. n \in 1 .. Len(z) - 1 /\ q = SpoofByte(p, SERVER, z[n + 1])  BY <1>2, <1>3, <1>7
  <2>2. n + 1 > 0  BY <1>7
  <2>3. CASE t.auth # <<>> /\ t.auth[1].scheme = Basic
    <3>1. p.user = t.auth[1].user /\ p.pass = t.auth[1].pass /\ StatusAt(z, n, p)  BY <1>3, <1>7, <2>3 DEF AnsweredAt
    <3>2. IsParser(q) /\ q.user = p.user /\ q.pass = p.pass /\ StatusAt(z, n + 1, q)
      BY <1>4, <2>1, <3>1, StatusStep
    <3>3. AnsweredAt(t, n + 1, q)  BY <1>3, <2>3, <3>1, <3>2 DEF AnsweredAt
    <3> QED  BY <1>7, <2>2, <3>2, <3>3 DEF HttpAt
  <2>4. CASE ~(t.auth # <<>> /\ t.auth[1].scheme = Basic)
    <3>1. Left(p)  BY <1>7, <2>4 DEF AnsweredAt
    <3>2. q = p  BY <2>1, <3>1, Stays DEF Left
    <3>3. AnsweredAt(t, n + 1, q)  BY <2>4, <3>1, <3>2 DEF AnsweredAt
    <3> QED  BY <1>7, <2>2, <3>2, <3>3 DEF HttpAt
  <2> QED  BY <2>3, <2>4
<1>8. i # 3  BY <1>2
<1> QED  BY <1>5, <1>6, <1>7, <1>8 DEF HttpAt

LEMMA HttpTurn ==
  ASSUME NEW t, IsHttp(t), NEW ps, ps = HttpPieces(t), NEW i \in 1 .. Len(ps),
         NEW p, HttpAt(t, i, Len(ps[i].bytes), p)
  PROVE  HttpAt(t, i + 1, 0, p)
<1>1. HttpOk(t)  BY HttpIsOk
<1>2. Len(ps) = 2 /\ ps[1].bytes = Request(t) /\ ps[2].bytes = t.status  BY HttpParts
<1>3. Len(t.status) \in Nat /\ Len(t.status) > 0 /\ Len(t.status) # 0  BY <1>1 DEF HttpOk
<1>4. i = 1 \/ i = 2  BY <1>2
<1>5. CASE i = 1
  <2>1. RequestAt(t, Len(Request(t)), p)  BY <1>2, <1>5 DEF HttpAt
  <2> QED  BY <1>5, <2>1 DEF HttpAt
<1>6. CASE i = 2
  <2>1. AnsweredAt(t, Len(t.status), p)  BY <1>2, <1>3, <1>6 DEF HttpAt
  <2> QED  BY <1>6, <2>1 DEF HttpAt
<1> QED  BY <1>4, <1>5, <1>6

\* While the request comes in, nobody is logged in; and no one will be once it is given up.
LEMMA LineOpen ==
  ASSUME NEW l, NEW j, NEW p, LineAt(l, j, p)
  PROVE  ~p.success /\ (p.state = "FINISH" => l.scheme # Basic)
<1>1. SchemeAt(l, j, p) => ~p.success /\ p.state # "FINISH"  BY DEF SchemeAt, In
<1>2. BasicAt(l, j, p) => ~p.success /\ p.state # "FINISH"  BY <1>1 DEF BasicAt, In
<1>3. OtherSchemeAt(l, j, p) => ~p.success  BY <1>1 DEF OtherSchemeAt, Left
<1> QED  BY <1>2, <1>3 DEF LineAt

LEMMA RequestOpen ==
  ASSUME NEW t, NEW n, NEW p, RequestAt(t, n, p)
  PROVE  ~p.success /\ (p.state = "FINISH" => t.auth = <<>> \/ t.auth[1].scheme # Basic)
<1>1. StartAt(n, p) => ~p.success /\ p.state # "FINISH"  BY DEF StartAt, In
<1>2. \A j : HeadAt(t.head, j, p) => ~p.success /\ p.state # "FINISH"  BY DEF HeadAt, In
<1>3. \A j : NoneAt(j, p) => ~p.success  BY DEF NoneAt, In, Left
<1> QED  BY <1>1, <1>2, <1>3, LineOpen DEF RequestAt

\* HTTP: what was found is the login, and none is missed.
LEMMA HttpTold ==
  ASSUME NEW t, t.kind = "http", NEW i, NEW n, NEW p, HttpAt(t, i, n, p)
  PROVE  Told(t, p)
<1> SUFFICES ASSUME p.success  PROVE HttpLogin(t) = <<p.user, p.pass>>
  BY DEF Told, Settled, Accepted
<1>1. PICK k : AnsweredAt(t, k, p)  BY RequestOpen DEF HttpAt
<1>2. t.auth # <<>> /\ t.auth[1].scheme = Basic  BY <1>1 DEF AnsweredAt, Left
<1>3. p.user = t.auth[1].user /\ p.pass = t.auth[1].pass /\ StatusAt(t.status, k, p)  BY <1>1, <1>2 DEF AnsweredAt
<1>4. Grants(t.status)  BY <1>3 DEF StatusAt
<1> QED  BY <1>2, <1>3, <1>4 DEF HttpLogin

LEMMA HttpSilent ==
  ASSUME NEW t, IsHttp(t), t.kind = "http", NEW ps, ps = HttpPieces(t), NEW i, NEW n, NEW p, HttpAt(t, i, n, p)
  PROVE  Silent(t, p, i > Len(ps))
<1>1. Len(ps) = 2  BY HttpParts
<1> SUFFICES ASSUME i > Len(ps) \/ p.state = "FINISH", ~(p.state = "FINISH" /\ p.success)
             PROVE  HttpLogin(t) = NoPair
  BY DEF Silent, Settled, Accepted
<1>2. CASE \E k : RequestAt(t, k, p) /\ i \in {1, 2}
  <2>1. p.state = "FINISH"  BY <1>1, <1>2
  <2>2. t.auth = <<>> \/ t.auth[1].scheme # Basic  BY <1>2, <2>1, RequestOpen
  <2> QED  BY <2>2 DEF HttpLogin
<1>3. ASSUME NEW k, AnsweredAt(t, k, p), p.state = "FINISH" \/ k = Len(t.status)  PROVE HttpLogin(t) = NoPair
  <2>1. CASE t.auth # <<>> /\ t.auth[1].scheme = Basic
    <3>1. StatusAt(t.status, k, p)  BY <1>3, <2>1 DEF AnsweredAt
    <3>2. CASE p.state = "FINISH"
      <4>1. ~Grants(t.status)  BY <3>1, <3>2 DEF StatusAt
      <4> QED  BY <4>1 DEF HttpLogin
    <3>3. CASE p.state # "FINISH"
      <4>1. k < 3 /\ k = Len(t.status)  BY <1>3, <3>1, <3>3 DEF StatusAt
      <4>2. ~(Len(t.status) > 2)
        <5>1. Len(t.status) \in Nat  BY HttpIsOk DEF HttpOk
        <5> QED  BY <4>1, <5>1
      <4>3. ~Grants(t.status)  BY <4>2 DEF Grants
      <4> QED  BY <4>3 DEF HttpLogin
    <3> QED  BY <3>2, <3>3
  <2>2. CASE ~(t.auth # <<>> /\ t.auth[1].scheme = Basic)  BY <2>2 DEF HttpLogin
  <2> QED  BY <2>1, <2>2
<1>4. CASE i = 2 /\ n > 0 /\ AnsweredAt(t, n, p)
  <2>1. p.state = "FINISH"  BY <1>1, <1>4
  <2> QED  BY <1>3, <1>4, <2>1
<1>5. CASE i = 3 /\ AnsweredAt(t, Len(t.status), p)
  BY <1>3, <1>5
<1> QED  BY <1>2, <1>4, <1>5 DEF HttpAt

(***************************************************************************)
(* Neither protocol                                                        *)
(***************************************************************************)

\* The first piece of such a conversation.
NotPop(f) == ~(f[1] = Ok[1] /\ f[2] = Ok[2])
NotHttp(f, z) ==
  /\ z \in 1 .. Len(f) /\ (~Ascii(f[z]) \/ f[z] = LF)
  /\ \A i \in 1 .. z - 2 : ~(f[i] = Http1[1] /\ f[i + 1] = Http1[2])
OtherOk(t) ==
  LET f == t.pieces[1].bytes
  IN  /\ t.pieces \in Seq(PieceSet) /\ Len(t.pieces) \in Nat \ {0}
      /\ \A i \in 1 .. Len(t.pieces) : Len(t.pieces[i].bytes) \in Nat \ {0}
      /\ \/ t.pieces[1].who = SERVER /\ Len(f) > 1 /\ NotPop(f)
         \/ t.pieces[1].who = CLIENT /\ \E z \in 1 .. Len(f) : NotHttp(f, z)

LEMMA OtherIsOk == ASSUME NEW t, IsOther(t)  PROVE OtherOk(t)
<1>1. PICK ps : ps = t.pieces  OBVIOUS
<1>2. ps \in Seq(PieceSet) /\ ps # <<>>
  <2>1. PieceSet = [who : {CLIENT, SERVER}, bytes : Seq(0 .. 255)]  BY DEF PieceSet, Byte
  <2> QED  BY Zenon, <1>1, <2>1 DEF IsOther
<1>3. Len(ps) \in Nat \ {0} /\ DOMAIN ps = 1 .. Len(ps)  BY <1>2, LenProperties
<1>4. \A i \in 1 .. Len(ps) : ps[i].bytes \in Seq(Byte) /\ ps[i].bytes # <<>>
  <2>1. ASSUME NEW i \in 1 .. Len(ps)  PROVE ps[i].bytes \in Seq(Byte)
    <3>1. ps[i] \in PieceSet  BY <1>2, ElementOfSeq
    <3> QED  BY <3>1 DEF PieceSet
  <2>2. \A i \in 1 .. Len(ps) : ps[i].bytes # <<>>  BY Zenon, <1>1, <1>3 DEF IsOther
  <2> QED  BY Zenon, <2>1, <2>2
<1>5. \A i \in 1 .. Len(ps) : Len(ps[i].bytes) \in Nat \ {0}  BY <1>4, LenProperties
<1>6. PICK f, who : f = ps[1].bytes /\ who = ps[1].who  OBVIOUS
<1>7. Len(f) \in Nat \ {0} /\ f \in Seq(Byte) /\ DOMAIN f = 1 .. Len(f)
  <2>1. 1 \in 1 .. Len(ps)  BY <1>3
  <2>2. f \in Seq(Byte) /\ Len(f) \in Nat \ {0}  BY <1>4, <1>5, <1>6, <2>1
  <2> QED  BY <2>2, LenProperties
<1>8. \/ who = SERVER /\ Len(f) > 1 /\ ~Stands(Ok, f, 1)
      \/ /\ who = CLIENT
         /\ \E n \in DOMAIN f : (~Ascii(f[n]) \/ f[n] = LF) /\ \A i \in 1 .. n - 2 : ~Stands(Http1, f, i)
  BY Zenon, <1>1, <1>6 DEF IsOther
<1>9. ASSUME Len(f) > 1, ~Stands(Ok, f, 1)  PROVE NotPop(f)
  <2>1. SUFFICES ASSUME f[1] = Ok[1], f[2] = Ok[2]  PROVE FALSE  BY DEF NotPop
  <2>2. DOMAIN Ok = 1 .. 2 /\ Len(Ok) = 2  BY DEF Ok
  <2>3. 1 + 1 - 1 = 1 /\ 1 + 2 - 1 = 2 /\ 2 <= Len(f) /\ \A k \in 1 .. 2 : k = 1 \/ k = 2  BY <1>7, <1>9
  <2>4. \A k \in 1 .. 2 : f[1 + k - 1] = Ok[k]  BY <2>1, <2>3
  <2> QED  BY Zenon, <1>9, <2>2, <2>3, <2>4 DEF Stands
<1>10. ASSUME NEW n \in 1 .. Len(f), ~Ascii(f[n]) \/ f[n] = LF, \A i \in 1 .. n - 2 : ~Stands(Http1, f, i)
       PROVE  NotHttp(f, n)
  <2>1. ASSUME NEW i \in 1 .. n - 2, f[i] = Http1[1], f[i + 1] = Http1[2]  PROVE FALSE
    <3>1. DOMAIN Http1 = 1 .. 2 /\ Len(Http1) = 2  BY DEF Http1
    <3>2. i + 1 - 1 = i /\ i + 2 - 1 = i + 1 /\ i + 2 - 1 <= Len(f) /\ \A k \in 1 .. 2 : k = 1 \/ k = 2  BY <1>7
    <3>3. \A k \in 1 .. 2 : f[i + k - 1] = Http1[k]  BY <2>1, <3>2
    <3>4. Stands(Http1, f, i)  BY Zenon, <3>1, <3>2, <3>3 DEF Stands
    <3> QED  BY <1>10, <3>4
  <2> QED  BY <1>10, <2>1 DEF NotHttp
<1>11. \/ who = SERVER /\ Len(f) > 1 /\ NotPop(f)
       \/ who = CLIENT /\ \E z \in 1 .. Len(f) : NotHttp(f, z)
  BY Zenon, <1>7, <1>8, <1>9, <1>10
<1> QED  BY Zenon, <1>1, <1>2, <1>3, <1>5, <1>6, <1>11 DEF OtherOk

LEMMA OtherSpoken == ASSUME NEW t, IsOther(t)  PROVE Spoken(t.pieces)
BY OtherIsOk DEF OtherOk, Spoken

\* The bytes of a first line that is not HTTP.
Unended(f, n) == \A x \in 1 .. n : Ascii(f[x]) /\ f[x] # LF

LEMMA UnendedShort ==
  ASSUME NEW f, NEW z \in Nat, NotHttp(f, z), NEW n \in Nat, Unended(f, n)
  PROVE  /\ n < z
         /\ \A i \in 1 .. n - 1 : ~(f[i] = Http1[1] /\ f[i + 1] = Http1[2])
<1>1. z \notin 1 .. n  BY DEF NotHttp, Unended
<1>2. n < z
  <2>1. z > 0  BY DEF NotHttp
  <2> QED  BY <1>1, <2>1
<1>3. \A i \in 1 .. n - 1 : i \in 1 .. z - 2  BY <1>2
<1> QED  BY <1>2, <1>3 DEF NotHttp

\* A byte of a first line that is not HTTP.
LEMMA FirstLineStep ==
  ASSUME NEW f, NEW z \in Nat, NotHttp(f, z), NEW n \in Nat, NEW b \in Byte, b = f[n + 1],
         Unended(f, n), NEW k \in {0, 1}, Begun(Http1, f, n, k),
         NEW h, Is(h, "CONFIRM_HTTP", k, 0, <<>>), NEW q, q = ConfirmHttp(h, CLIENT, b)
  PROVE  \/ Gone(q)
         \/ Unended(f, n + 1) /\ \E e \in 0 .. 1 : Begun(Http1, f, n + 1, e) /\ Is(q, "CONFIRM_HTTP", e, 0, <<>>)
<1>1. CASE ~Ascii(b) \/ b = LF  BY <1>1, HttpMoves
<1>2. CASE Ascii(b) /\ b # LF
  <2>1. Unended(f, n + 1)
    <3>1. \A x \in 1 .. n + 1 : x \in 1 .. n \/ x = n + 1  OBVIOUS
    <3> QED  BY <1>2, <3>1 DEF Unended
  <2>2. k <= n /\ \A x \in 1 .. k : f[n - k + x] = Http1[x]  BY DEF Begun
  <2>3. ~(k = 1 /\ b = Http1[2])
    <3>1. ASSUME k = 1, b = Http1[2]  PROVE FALSE
      <4>1. 1 \in 1 .. k /\ n - k + 1 = n /\ n \in 1 .. (n + 1) - 1  BY <2>2, <3>1
      <4>2. f[n] = Http1[1]
        <5>1. f[n - k + 1] = Http1[1]  BY Zenon, <2>2, <4>1
        <5> QED  BY <4>1, <5>1
      <4>3. n + 1 \in Nat  OBVIOUS
      <4>4. \A i \in 1 .. (n + 1) - 1 : ~(f[i] = Http1[1] /\ f[i + 1] = Http1[2])  BY <2>1, <4>3, UnendedShort
      <4> QED  BY <3>1, <4>1, <4>2, <4>4
    <3> QED  BY <3>1
  <2>4. PICK e \in 0 .. 1 : e = IF k = 0 /\ b = Http1[1] THEN 1 ELSE 0  OBVIOUS
  <2>5. Is(q, "CONFIRM_HTTP", e, 0, <<>>)  BY <1>2, <2>3, <2>4, HttpMoves
  <2>6. Begun(Http1, f, n + 1, e)
    <3>0. Len(Http1) = 2  BY Strings
    <3>1. CASE e = 1
      <4>1. b = Http1[1]  BY <2>4, <3>1
      <4>2. \A x \in 1 .. 1 : x = 1 /\ (n + 1) - 1 + x = n + 1  OBVIOUS
      <4>3. \A x \in 1 .. 1 : f[(n + 1) - 1 + x] = Http1[x]  BY <4>1, <4>2
      <4>4. 1 \in 0 .. 2 - 1 /\ 1 <= n + 1  OBVIOUS
      <4> QED  BY <3>0, <3>1, <4>3, <4>4 DEF Begun
    <3>2. CASE e = 0
      <4>1. 0 \in 0 .. 2 - 1 /\ 0 <= n + 1 /\ \A x \in 1 .. 0 : FALSE  OBVIOUS
      <4> QED  BY <3>0, <3>2, <4>1 DEF Begun
    <3>3. e = 0 \/ e = 1  OBVIOUS
    <3> QED  BY <3>1, <3>2, <3>3
  <2> QED  BY <2>1, <2>5, <2>6
<1> QED  BY <1>1, <1>2

\* Neither: a byte, and the turn of the other side.
LEMMA OtherStep ==
  ASSUME NEW t, IsOther(t), NEW ps, ps = t.pieces, NEW i \in 1 .. Len(ps), NEW n \in 0 .. Len(ps[i].bytes) - 1,
         NEW p, IsParser(p), OtherAt(t, i, n, p), NEW q, q = SpoofByte(p, ps[i].who, ps[i].bytes[n + 1])
  PROVE  IsParser(q) /\ OtherAt(t, i, n + 1, q)
<1>1. OtherOk(t)  BY OtherIsOk
<1>2. PICK f, who : f = t.pieces[1].bytes /\ who = t.pieces[1].who  OBVIOUS
<1>3. /\ \/ who = SERVER /\ Len(f) > 1 /\ NotPop(f)
         \/ who = CLIENT /\ \E z \in 1 .. Len(f) : NotHttp(f, z)
      /\ ps \in Seq(PieceSet) /\ Len(ps[i].bytes) \in Nat \ {0}
  BY Zenon, <1>1, <1>2 DEF OtherOk
<1>4. PICK b \in Byte : b = ps[i].bytes[n + 1]
  <2>1. ps[i] \in PieceSet  BY <1>3, ElementOfSeq
  <2>2. ps[i].bytes \in Seq(Byte) /\ n + 1 \in 1 .. Len(ps[i].bytes)  BY <1>3, <2>1 DEF PieceSet
  <2> QED  BY <2>2, ElementOfSeq
<1>5. n + 1 > 0 /\ n \in Nat  BY <1>3
<1>6. CLIENT # SERVER  BY WaitingStates
<1>7. CASE Left(p)
  <2>1. q = p  BY <1>7, Stays DEF Left
  <2> QED  BY <1>7, <2>1 DEF OtherAt
<1>8. CASE i = 1 /\ n = 0 /\ who = SERVER /\ In(p, "INIT", 0, 0, <<>>)
  <2>1. q = SpoofByte(p, SERVER, b) /\ b = f[1] /\ n + 1 = 1  BY <1>2, <1>4, <1>8
  <2>2. IF b = Ok[1] THEN Became(p, q, "CONFIRM_POP", 1, 0, <<>>) ELSE IsParser(q) /\ Left(q)
    BY <1>8, <2>1, StartMoves
  <2> QED  BY <1>2, <1>8, <2>1, <2>2 DEF Became, OtherAt
<1>9. CASE i = 1 /\ n = 1 /\ who = SERVER /\ In(p, "CONFIRM_POP", 1, 0, <<>>) /\ f[1] = Ok[1]
  <2>1. q = SpoofByte(p, SERVER, b) /\ b = f[2]  BY <1>2, <1>4, <1>9
  <2>2. b # Ok[2]  BY <1>3, <1>6, <1>9, <2>1 DEF NotPop
  <2>3. IsParser(q) /\ Left(q)  BY <1>9, <2>1, <2>2, ConfirmMoves
  <2> QED  BY <2>3 DEF OtherAt
<1>10. ASSUME i = 1, who = CLIENT, Unended(f, n), NEW k \in {0, 1}, Begun(Http1, f, n, k),
              NEW h, Is(h, "CONFIRM_HTTP", k, 0, <<>>), q = ConfirmHttp(h, CLIENT, b)
       PROVE  IsParser(q) /\ OtherAt(t, i, n + 1, q)
  <2>1. PICK z \in 1 .. Len(f) : NotHttp(f, z)  BY <1>3, <1>6, <1>10
  <2>2. z \in Nat /\ b = f[n + 1]
    <3>1. z \in Nat  BY <2>1
    <3>2. b = f[n + 1]  BY <1>2, <1>4, <1>10
    <3> QED  BY <3>1, <3>2
  <2>3. \/ Gone(q)
        \/ Unended(f, n + 1) /\ \E e \in 0 .. 1 : Begun(Http1, f, n + 1, e) /\ Is(q, "CONFIRM_HTTP", e, 0, <<>>)
    BY <1>5, <1>10, <2>1, <2>2, FirstLineStep
  <2>4. CASE Gone(q)  BY <2>4 DEF Gone, OtherAt
  <2>5. CASE Unended(f, n + 1) /\ \E e \in 0 .. 1 : Begun(Http1, f, n + 1, e) /\ Is(q, "CONFIRM_HTTP", e, 0, <<>>)
    <3>1. PICK e \in 0 .. 1 : Begun(Http1, f, n + 1, e) /\ Is(q, "CONFIRM_HTTP", e, 0, <<>>)  BY <2>5
    <3>2. IsParser(q) /\ In(q, "CONFIRM_HTTP", e, 0, <<>>)  BY <3>1 DEF Is
    <3> QED  BY ZenonT(40), <1>2, <1>5, <1>10, <2>5, <3>1, <3>2 DEF OtherAt, Unended
  <2> QED  BY <2>3, <2>4, <2>5
<1>11. CASE i = 1 /\ n = 0 /\ who = CLIENT /\ In(p, "INIT", 0, 0, <<>>)
  <2>1. q = SpoofByte(p, CLIENT, b)  BY <1>2, <1>4, <1>11
  <2>2. Is(p, "INIT", 0, 0, <<>>)  BY <1>11 DEF Is
  <2>3. PICK h : Is(h, "CONFIRM_HTTP", 0, 0, <<>>) /\ q = ConfirmHttp(h, CLIENT, b)  BY <2>1, <2>2, HttpSpeaks
  <2>4. Unended(f, n)
    <3>1. \A x \in 1 .. 0 : FALSE  OBVIOUS
    <3> QED  BY <1>11, <3>1 DEF Unended
  <2>5. Begun(Http1, f, n, 0)
    <3>1. 0 \in 0 .. 2 - 1 /\ 0 <= n /\ \A x \in 1 .. 0 : FALSE  BY <1>5
    <3> QED  BY <3>1, Strings DEF Begun
  <2>6. PICK k \in {0, 1} : k = 0  OBVIOUS
  <2> QED  BY <1>10, <1>11, <2>3, <2>4, <2>5, <2>6
<1>12. CASE i = 1 /\ who = CLIENT /\ (\A x \in 1 .. n : Ascii(f[x]) /\ f[x] # LF)
            /\ \E k \in 0 .. 1 : Begun(Http1, f, n, k) /\ In(p, "CONFIRM_HTTP", k, 0, <<>>)
  <2>1. q = SpoofByte(p, CLIENT, b)  BY <1>2, <1>4, <1>12
  <2>2. PICK k \in 0 .. 1 : Begun(Http1, f, n, k) /\ In(p, "CONFIRM_HTTP", k, 0, <<>>)  BY <1>12
  <2>3. Is(p, "CONFIRM_HTTP", k, 0, <<>>)  BY <2>2 DEF Is
  <2>4. q = ConfirmHttp(p, CLIENT, b)  BY <2>1, <2>3, HttpSpeaks
  <2>5. Unended(f, n)  BY Zenon, <1>12 DEF Unended
  <2>6. k \in {0, 1}  OBVIOUS
  <2> QED  BY <1>10, <1>12, <2>2, <2>3, <2>4, <2>5, <2>6
<1>13. who = SERVER \/ who = CLIENT  BY <1>3
<1> QED  BY ZenonT(60), <1>2, <1>7, <1>8, <1>9, <1>11, <1>12, <1>13 DEF OtherAt

LEMMA OtherTurn ==
  ASSUME NEW t, IsOther(t), NEW ps, ps = t.pieces, NEW i \in 1 .. Len(ps),
         NEW p, OtherAt(t, i, Len(ps[i].bytes), p)
  PROVE  OtherAt(t, i + 1, 0, p)
<1>1. OtherOk(t)  BY OtherIsOk
<1>2. PICK f, who : f = t.pieces[1].bytes /\ who = t.pieces[1].who  OBVIOUS
<1>3. /\ \/ who = SERVER /\ Len(f) > 1 /\ NotPop(f)
         \/ who = CLIENT /\ \E z \in 1 .. Len(f) : NotHttp(f, z)
      /\ Len(ps[i].bytes) \in Nat \ {0}
  BY Zenon, <1>1, <1>2 DEF OtherOk
<1>4. CLIENT # SERVER  BY WaitingStates
<1>5. i = 1 => Len(ps[i].bytes) = Len(f)  BY <1>2
<1>6. ASSUME i = 1, Len(ps[i].bytes) = 1, who = SERVER  PROVE FALSE
  <2>1. Len(f) = 1  BY Zenon, <1>5, <1>6
  <2>2. Len(f) > 1  BY Zenon, <1>3, <1>4, <1>6
  <2> QED  BY <2>1, <2>2
<1>7. ~(i = 1 /\ who = CLIENT /\ \A x \in 1 .. Len(ps[i].bytes) : Ascii(f[x]) /\ f[x] # LF)
  BY <1>3, <1>4, <1>5 DEF NotHttp
<1>8. Len(ps[i].bytes) # 0  BY <1>3
<1>9. Left(p)  BY ZenonT(40), <1>2, <1>6, <1>7, <1>8 DEF OtherAt
<1> QED  BY <1>9 DEF OtherAt

LEMMA OtherTold ==
  ASSUME NEW t, t.kind = "other", NEW i, NEW n, NEW p, OtherAt(t, i, n, p)
  PROVE  Told(t, p)
BY DEF OtherAt, In, Left, Told, Settled

LEMMA OtherSilent ==
  ASSUME NEW t, t.kind = "other", NEW p, NEW over
  PROVE  Silent(t, p, over)
BY DEF Silent, Accepted

(***************************************************************************)
(* Any conversation                                                        *)
(***************************************************************************)

LEMMA TalkFacts == \A t \in Talks : IsTalk(t) /\ t.kind \in {"pop", "http", "other"}
BY TalksAssumption

\* What is said are pieces, none of them empty.
LEMMA TalkSpoken ==
  ASSUME NEW t \in Talks
  PROVE  Spoken(Pieces(t)) /\ Len(Pieces(t)) \in Nat \ {0}
<1>1. IsTalk(t) /\ t.kind \in {"pop", "http", "other"}  BY TalkFacts
<1>2. CASE t.kind = "pop"
  <2>1. IsPop(t) /\ Pieces(t) = PopPieces(t)  BY <1>1, <1>2 DEF IsTalk, Pieces
  <2>2. PICK k : PopShape(PopPieces(t), t.commands, k)  BY <2>1, PopPiece
  <2>3. k \in Nat /\ Len(PopPieces(t)) = 2 * k + 1  BY <2>2 DEF PopShape
  <2>4. 2 * k + 1 \in Nat \ {0}  BY <2>3
  <2> QED  BY <2>1, <2>3, <2>4, PopSpoken
<1>3. CASE t.kind = "http"
  <2>1. IsHttp(t) /\ Pieces(t) = HttpPieces(t)  BY <1>1, <1>3 DEF IsTalk, Pieces
  <2>2. Len(HttpPieces(t)) = 2  BY HttpParts
  <2>3. 2 \in Nat \ {0}  OBVIOUS
  <2> QED  BY <2>1, <2>2, <2>3, HttpSpoken
<1>4. CASE t.kind = "other"
  <2>1. IsOther(t) /\ Pieces(t) = t.pieces  BY <1>1, <1>4 DEF IsTalk, Pieces
  <2>2. Len(t.pieces) \in Nat \ {0}  BY <2>1, OtherIsOk DEF OtherOk
  <2> QED  BY <2>1, <2>2, OtherSpoken
<1> QED  BY <1>1, <1>2, <1>3, <1>4

\* A byte received, and a piece that is over.
LEMMA TracksStep ==
  ASSUME NEW t \in Talks, NEW ps, ps = Pieces(t), NEW i \in 1 .. Len(ps), NEW n \in 0 .. Len(ps[i].bytes) - 1,
         NEW p, Tracks(t, i, n, p), NEW q, q = SpoofByte(p, ps[i].who, ps[i].bytes[n + 1])
  PROVE  Tracks(t, i, n + 1, q)
<1>1. IsTalk(t) /\ t.kind \in {"pop", "http", "other"} /\ IsParser(p)  BY TalkFacts DEF Tracks
<1>2. CASE t.kind = "pop"
  <2>1. IsPop(t) /\ ps = PopPieces(t) /\ PopAt(t, i, n, p)  BY <1>1, <1>2 DEF IsTalk, Pieces, Tracks
  <2>2. IsParser(q) /\ PopAt(t, i, n + 1, q)  BY <1>1, <2>1, PopStep
  <2> QED  BY <1>2, <2>2 DEF Tracks
<1>3. CASE t.kind = "http"
  <2>1. IsHttp(t) /\ ps = HttpPieces(t) /\ HttpAt(t, i, n, p)  BY <1>1, <1>3 DEF IsTalk, Pieces, Tracks
  <2>2. IsParser(q) /\ HttpAt(t, i, n + 1, q)  BY <1>1, <2>1, HttpStep
  <2> QED  BY <1>3, <2>2 DEF Tracks
<1>4. CASE t.kind = "other"
  <2>1. IsOther(t) /\ ps = t.pieces /\ OtherAt(t, i, n, p)  BY <1>1, <1>4 DEF IsTalk, Pieces, Tracks
  <2>2. IsParser(q) /\ OtherAt(t, i, n + 1, q)  BY <1>1, <2>1, OtherStep
  <2> QED  BY <1>4, <2>2 DEF Tracks
<1> QED  BY <1>1, <1>2, <1>3, <1>4

LEMMA TracksTurn ==
  ASSUME NEW t \in Talks, NEW ps, ps = Pieces(t), NEW i \in 1 .. Len(ps),
         NEW p, Tracks(t, i, Len(ps[i].bytes), p)
  PROVE  Tracks(t, i + 1, 0, p)
<1>1. IsTalk(t) /\ t.kind \in {"pop", "http", "other"} /\ IsParser(p)  BY TalkFacts DEF Tracks
<1>2. CASE t.kind = "pop"
  <2>1. IsPop(t) /\ ps = PopPieces(t) /\ PopAt(t, i, Len(ps[i].bytes), p)  BY <1>1, <1>2 DEF IsTalk, Pieces, Tracks
  <2>2. PopAt(t, i + 1, 0, p)  BY <2>1, PopTurn
  <2> QED  BY <1>1, <1>2, <2>2 DEF Tracks
<1>3. CASE t.kind = "http"
  <2>1. IsHttp(t) /\ ps = HttpPieces(t) /\ HttpAt(t, i, Len(ps[i].bytes), p)  BY <1>1, <1>3 DEF IsTalk, Pieces, Tracks
  <2>2. HttpAt(t, i + 1, 0, p)  BY <2>1, HttpTurn
  <2> QED  BY <1>1, <1>3, <2>2 DEF Tracks
<1>4. CASE t.kind = "other"
  <2>1. IsOther(t) /\ ps = t.pieces /\ OtherAt(t, i, Len(ps[i].bytes), p)  BY <1>1, <1>4 DEF IsTalk, Pieces, Tracks
  <2>2. OtherAt(t, i + 1, 0, p)  BY <2>1, OtherTurn
  <2> QED  BY <1>1, <1>4, <2>2 DEF Tracks
<1> QED  BY <1>1, <1>2, <1>3, <1>4

\* The parser before the first byte, and what it says in the end.
LEMMA TracksStart ==
  ASSUME NEW t \in Talks, NEW p, IsParser(p), In(p, "INIT", 0, 0, <<>>)
  PROVE  Tracks(t, 1, 0, p)
<1>1. t.kind \in {"pop", "http", "other"}  BY TalkFacts
<1>2. PopAt(t, 1, 0, p)  BY DEF PopAt, GreetingAt
<1>3. RequestAt(t, 0, p)
  <2>1. 0 < 5  OBVIOUS
  <2> QED  BY <2>1 DEF RequestAt, StartAt
<1>4. HttpAt(t, 1, 0, p)  BY <1>3 DEF HttpAt
<1>5. OtherAt(t, 1, 0, p)  BY DEF OtherAt
<1> QED  BY <1>1, <1>2, <1>4, <1>5 DEF Tracks

LEMMA TracksTold ==
  ASSUME NEW t \in Talks, NEW i, NEW n, NEW p, Tracks(t, i, n, p)
  PROVE  Told(t, p)
<1>1. IsTalk(t) /\ t.kind \in {"pop", "http", "other"}  BY TalkFacts
<1>2. t.kind = "pop" => IsPop(t) /\ PopAt(t, i, n, p)  BY <1>1 DEF IsTalk, Tracks
<1>3. t.kind = "http" => HttpAt(t, i, n, p)  BY DEF Tracks
<1>4. t.kind = "other" => OtherAt(t, i, n, p)  BY DEF Tracks
<1> QED  BY <1>1, <1>2, <1>3, <1>4, PopTold, HttpTold, OtherTold

LEMMA TracksSilent ==
  ASSUME NEW t \in Talks, NEW ps, ps = Pieces(t), NEW i \in 1 .. Len(ps) + 1,
         NEW n, n \in 0 .. (IF i > Len(ps) THEN 0 ELSE Len(ps[i].bytes) - 1), NEW p, Tracks(t, i, n, p)
  PROVE  Silent(t, p, i > Len(ps))
<1>1. IsTalk(t) /\ t.kind \in {"pop", "http", "other"}  BY TalkFacts
<1>2. CASE t.kind = "pop"
  <2>1. IsPop(t) /\ ps = PopPieces(t) /\ PopAt(t, i, n, p)  BY <1>1, <1>2 DEF IsTalk, Pieces, Tracks
  <2>2. n \in 0 .. (IF i > Len(ps) THEN 0 ELSE Len(ps[i].bytes))
    <3>1. CASE i > Len(ps)  BY <3>1
    <3>2. CASE ~(i > Len(ps))
      <4>1. Len(ps) \in Nat  BY TalkSpoken
      <4>2. i \in 1 .. Len(ps)  BY <3>2, <4>1
      <4>3. Len(ps[i].bytes) \in Nat  BY <4>2, TalkSpoken DEF Spoken
      <4>4. n \in 0 .. Len(ps[i].bytes) - 1  BY <3>2
      <4>5. n \in 0 .. Len(ps[i].bytes)  BY <4>3, <4>4
      <4> QED  BY <3>2, <4>5
    <3> QED  BY <3>1, <3>2
  <2> QED  BY <1>2, <2>1, <2>2, PopSilent
<1>3. CASE t.kind = "http"
  <2>1. IsHttp(t) /\ ps = HttpPieces(t) /\ HttpAt(t, i, n, p)  BY <1>1, <1>3 DEF IsTalk, Pieces, Tracks
  <2> QED  BY <1>3, <2>1, HttpSilent
<1>4. CASE t.kind = "other"  BY <1>4, OtherSilent
<1> QED  BY <1>1, <1>2, <1>3, <1>4

-----------------------------------------------------------------------------
\* The parser after each byte of a receive.
Spoofs(start, who, f, bytes, n) ==
  f = [k \in 0 .. n |-> IF k = 0 THEN {start} ELSE {SpoofByte(p, who, bytes[k]) : p \in f[k - 1]}]

\* There is one such function for any bytes, and it is Spoofed.
LEMMA SpoofsExist ==
  ASSUME NEW start, NEW who, NEW bytes, NEW n \in Nat
  PROVE  \E f : Spoofs(start, who, f, bytes, n)
<1> DEFINE Failing == {k \in Nat : ~ \E f : Spoofs(start, who, f, bytes, k)}
<1>1. SUFFICES ASSUME Failing # {}  PROVE FALSE
  OBVIOUS
<1>2. PICK k \in Failing : \A m \in Failing : k <= m
  <2>1. Failing \in SUBSET Nat  OBVIOUS
  <2> HIDE DEF Failing
  <2> QED  BY <1>1, <2>1, LeastExists
<1>3. k \in Nat /\ ~ \E f : Spoofs(start, who, f, bytes, k)  BY <1>2
<1>4. CASE k = 0
  <2> DEFINE f == [i \in 0 .. 0 |-> {start}]
  <2>1. Spoofs(start, who, f, bytes, 0)  BY DEF Spoofs
  <2> QED  BY <1>3, <1>4, <2>1
<1>5. CASE k # 0
  <2>1. PICK l \in Nat : l = k - 1 /\ l < k  BY <1>3, <1>5
  <2>2. l \notin Failing
    <3>1. \A m \in Failing : m \in Nat  OBVIOUS
    <3> HIDE DEF Failing
    <3> QED  BY <1>2, <1>3, <2>1, <3>1
  <2>3. PICK f : Spoofs(start, who, f, bytes, l)  BY <2>2
  <2>4. \A i \in 0 .. l : f[i] = IF i = 0 THEN {start} ELSE {SpoofByte(p, who, bytes[i]) : p \in f[i - 1]}
    BY <2>3 DEF Spoofs
  <2> DEFINE g == [i \in 0 .. k |-> IF i = k THEN {SpoofByte(p, who, bytes[k]) : p \in f[l]} ELSE f[i]]
  <2>5. \A i \in 0 .. l : g[i] = f[i]  BY <1>3, <2>1
  <2>6. g[k] = {SpoofByte(p, who, bytes[k]) : p \in f[l]}  BY <1>3
  <2>7. g = [i \in 0 .. k |-> g[i]]  OBVIOUS
  <2> HIDE DEF g
  <2>8. ASSUME NEW i \in 0 .. k
        PROVE  g[i] = IF i = 0 THEN {start} ELSE {SpoofByte(p, who, bytes[i]) : p \in g[i - 1]}
    <3>1. CASE i = k
      <4>1. l \in 0 .. l /\ i - 1 = l  BY <2>1, <3>1
      <4> QED  BY <1>5, <2>5, <2>6, <3>1, <4>1
    <3>2. CASE i # k
      <4>1. i \in 0 .. l /\ (i # 0 => i - 1 \in 0 .. l)  BY <1>3, <2>1, <3>2
      <4> QED  BY <2>4, <2>5, <4>1
    <3> QED  BY <3>1, <3>2
  <2>9. Spoofs(start, who, g, bytes, k)  BY <2>7, <2>8 DEF Spoofs
  <2> QED  BY <1>3, <2>9
<1> QED  BY <1>4, <1>5

LEMMA SpoofedIs ==
  ASSUME NEW start, NEW who, NEW bytes \in Seq(Byte)
  PROVE  Spoofs(start, who, Spoofed(start, who, bytes), bytes, Len(bytes))
<1>1. Len(bytes) \in Nat  BY LenProperties
<1> DEFINE Equation(f) ==
             f = [k \in 0 .. Len(bytes) |-> IF k = 0 THEN {start} ELSE {SpoofByte(p, who, bytes[k]) : p \in f[k - 1]}]
<1>2. Spoofed(start, who, bytes) = CHOOSE f : Equation(f)  BY DEF Spoofed
<1>3. \A f : Equation(f) <=> Spoofs(start, who, f, bytes, Len(bytes))  BY DEF Spoofs
<1>4. \E h : Equation(h)  BY <1>1, <1>3, SpoofsExist
<1> HIDE DEF Equation
<1>5. Equation(CHOOSE f : Equation(f))  BY <1>4
<1> QED  BY <1>2, <1>3, <1>5

\* Whatever is received of a piece, the parser follows.
LEMMA SpoofedTracks ==
  ASSUME NEW t \in Talks, NEW ps, ps = Pieces(t), NEW i \in 1 .. Len(ps), NEW n \in Nat,
         NEW start, Tracks(t, i, n, start), NEW bytes \in Seq(Byte), NEW m \in Nat, m = Len(bytes),
         n + m <= Len(ps[i].bytes), \A k \in 1 .. m : bytes[k] = ps[i].bytes[n + k]
  PROVE  \A p \in Spoofed(start, ps[i].who, bytes)[m] : Tracks(t, i, n + m, p)
<1>0. PICK z \in Nat : z = Len(ps[i].bytes)  BY TalkSpoken DEF Spoken
<1>1. PICK who, f : who = ps[i].who /\ f = Spoofed(start, who, bytes) /\ Spoofs(start, who, f, bytes, m)  BY SpoofedIs
<1>2. \A k \in 0 .. m : f[k] = IF k = 0 THEN {start} ELSE {SpoofByte(p, who, bytes[k]) : p \in f[k - 1]}
  BY <1>1 DEF Spoofs
<1> DEFINE Good(k) == \A p \in f[k] : Tracks(t, i, n + k, p)
           Failing == {k \in 0 .. m : ~Good(k)}
<1>3. SUFFICES ASSUME Failing # {}  PROVE FALSE
  <2>1. m \in 0 .. m  OBVIOUS
  <2> QED  BY <1>1, <2>1
<1>4. PICK k \in Failing : \A l \in Failing : k <= l
  <2>1. \A l \in Failing : l \in Nat  OBVIOUS
  <2> HIDE DEF Failing
  <2> QED  BY <1>3, <2>1, LeastExists
<1>5. k \in 0 .. m /\ ~Good(k)  BY <1>4
<1>6. CASE k = 0
  <2>1. 0 \in 0 .. m /\ n + 0 = n  OBVIOUS
  <2>2. f[0] = {start}  BY <1>2, <2>1
  <2>3. \A p \in f[0] : Tracks(t, i, n + 0, p)  BY <2>1, <2>2
  <2> QED  BY <1>5, <1>6, <2>3
<1>7. CASE k # 0
  <2>1. PICK l \in Nat : l = k - 1 /\ l \in 0 .. m /\ l < k /\ l + 1 = k  BY SMTT(40), <1>5, <1>7
  <2>2. Good(l)
    <3>1. l \notin Failing
      <4>1. \A x \in Failing : x \in Nat  OBVIOUS
      <4> HIDE DEF Failing
      <4> QED  BY <1>4, <1>5, <2>1, <4>1
    <3> QED  BY <2>1, <3>1
  <2>3. f[k] = {SpoofByte(p, who, bytes[k]) : p \in f[l]}  BY <1>2, <1>5, <1>7, <2>1
  <2>4. bytes[k] = ps[i].bytes[(n + l) + 1] /\ n + l \in 0 .. Len(ps[i].bytes) - 1 /\ n + k = (n + l) + 1
    <3>0. k \in Nat /\ k <= m /\ n + m <= z
      <4>1. k \in 0 .. m  BY <1>5
      <4>2. n + m <= z  BY <1>0
      <4> QED  BY <4>1, <4>2
    <3>1. k \in 1 .. m /\ n + k = (n + l) + 1 /\ n + l \in 0 .. z - 1  BY <1>0, <1>7, <2>1, <3>0
    <3>2. bytes[k] = ps[i].bytes[n + k]  BY <3>1
    <3> QED  BY <1>0, <3>1, <3>2
  <2>5. ASSUME NEW p \in f[l]  PROVE Tracks(t, i, n + k, SpoofByte(p, who, bytes[k]))
    <3>1. Tracks(t, i, n + l, p)  BY <2>2
    <3>2. Tracks(t, i, (n + l) + 1, SpoofByte(p, who, bytes[k]))  BY Zenon, <1>1, <2>4, <3>1, TracksStep
    <3> QED  BY <2>4, <3>2
  <2> QED  BY <1>5, <2>3, <2>5
<1> QED  BY <1>6, <1>7

\* What is left of a conversation when a piece is over, and while it lasts.
LEMMA PieceOver ==
  ASSUME NEW s \in Seq(PieceSet), s # <<>>
  PROVE  /\ Tail(s) \in Seq(PieceSet) /\ Len(s) \in Nat \ {0} /\ Len(Tail(s)) = Len(s) - 1
         /\ \A j \in 1 .. Len(s) - 1 : Tail(s)[j] = s[1 + j]
         /\ s[1] \in PieceSet /\ Head(s) = s[1]
<1>1. /\ Tail(s) \in Seq(PieceSet) /\ Len(Tail(s)) = Len(s) - 1 /\ Head(s) \in PieceSet
      /\ \A i \in 1 .. Len(Tail(s)) : Tail(s)[i] = s[i + 1]
  BY Zenon, HeadTailProperties
<1>2. Len(s) \in Nat \ {0}  BY EmptySeq, LenProperties
<1>3. Head(s) = s[1]  OBVIOUS
<1>4. ASSUME NEW j \in 1 .. Len(s) - 1  PROVE Tail(s)[j] = s[1 + j]
  <2>1. j + 1 = 1 + j  OBVIOUS
  <2>2. Tail(s)[j] = s[j + 1]  BY <1>1
  <2> QED  BY <2>1, <2>2
<1> QED  BY <1>1, <1>2, <1>3, <1>4

Replaced(u, s, x) ==
  /\ u \in Seq(PieceSet) /\ Len(u) = Len(s) /\ u[1] = x
  /\ \A j \in 1 .. Len(s) - 1 : u[1 + j] = s[1 + j]

LEMMA PieceCut ==
  ASSUME NEW s \in Seq(PieceSet), s # <<>>, NEW x \in PieceSet, NEW u, u = <<x>> \o Tail(s)
  PROVE  Replaced(u, s, x)
<1>1. PICK r \in Seq(PieceSet) : r = Tail(s)  BY PieceOver
<1>2. PICK z \in Nat : z = Len(r) /\ Len(s) = 1 + z
  <2>1. Len(r) \in Nat /\ Len(s) \in Nat \ {0} /\ Len(r) = Len(s) - 1  BY <1>1, PieceOver, LenProperties
  <2> QED  BY <2>1
<1>3. <<x>> \in Seq(PieceSet) /\ Len(<<x>>) = 1 /\ <<x>>[1] = x  OBVIOUS
<1>4. PICK h \in Seq(PieceSet) : h = <<x>> /\ Len(h) = 1 /\ h[1] = x  BY <1>3
<1>5. u = h \o r  BY <1>1, <1>4
<1>6. u \in Seq(PieceSet) /\ Len(u) = 1 + z /\ \A i \in 1 .. 1 + z : u[i] = IF i <= 1 THEN h[i] ELSE r[i - 1]
  <2>1. /\ h \o r \in Seq(PieceSet) /\ Len(h \o r) = Len(h) + Len(r)
        /\ \A i \in 1 .. Len(h) + Len(r) : (h \o r)[i] = IF i <= Len(h) THEN h[i] ELSE r[i - Len(h)]
    BY Zenon, ConcatProperties
  <2> QED  BY <1>2, <1>4, <1>5, <2>1
<1>7. u[1] = x
  <2>1. 1 \in 1 .. 1 + z /\ 1 <= 1  OBVIOUS
  <2> QED  BY <1>4, <1>6, <2>1
<1>8. ASSUME NEW j \in 1 .. Len(s) - 1  PROVE u[1 + j] = s[1 + j]
  <2>1. j \in 1 .. z /\ 1 + j \in 1 .. 1 + z /\ ~(1 + j <= 1) /\ (1 + j) - 1 = j  BY <1>2
  <2>2. u[1 + j] = r[j]  BY <1>6, <2>1
  <2>3. Tail(s)[j] = s[1 + j]  BY PieceOver
  <2> QED  BY <1>1, <2>2, <2>3
<1>9. Len(u) = Len(s)  BY <1>2, <1>6
<1> QED  BY <1>6, <1>7, <1>8, <1>9 DEF Replaced

LEMMA FollowingIs ==
  ASSUME NEW t, NEW ps, ps = Pieces(t), NEW i \in 1 .. Len(ps) + 1,
         NEW n, n \in 0 .. (IF i > Len(ps) THEN 0 ELSE Len(ps[i].bytes) - 1), NEW r, NEW p,
         Remains(r, ps, i, n), Tracks(t, i, n, p)
  PROVE  Following(t, r, p)
BY DEF Following

\* A receive of m bytes of the piece that is being received.
LEMMA Received ==
  ASSUME NEW t \in Talks, NEW ps, ps = Pieces(t), NEW i \in 1 .. Len(ps), NEW n \in Nat,
         NEW r, r # <<>>, Remains(r, ps, i, n), NEW start, Tracks(t, i, n, start),
         NEW x, x = r[1], NEW z \in Nat, z = Len(x.bytes), NEW m \in 1 .. z,
         NEW p \in Spoofed(start, x.who, SubSeq(x.bytes, 1, m))[m], NEW more, more = SubSeq(x.bytes, m + 1, z),
         NEW u, u = IF more = <<>> THEN Tail(r) ELSE <<Says(x.who, more)>> \o Tail(r)
  PROVE  Following(t, u, p)
<1>1. PICK k \in Nat : k = Len(ps) /\ Spoken(ps) /\ i \in 1 .. k
  BY TalkSpoken
<1>2. PICK y \in Nat \ {0} : y = Len(ps[i].bytes)  BY <1>1 DEF Spoken
<1>3. /\ r \in Seq(PieceSet) /\ Len(r) = k + 1 - i /\ x.who = ps[i].who /\ z = y - n
      /\ \A j \in 1 .. y - n : x.bytes[j] = ps[i].bytes[n + j]
      /\ \A j \in 1 .. k - i : r[1 + j] = ps[i + j]
  <2>1. i <= Len(ps)  BY <1>1
  <2> QED  BY <1>1, <1>2, <2>1 DEF Remains
<1>4. x \in PieceSet /\ x.bytes \in Seq(Byte) /\ x.who \in {CLIENT, SERVER}
  <2>1. x \in PieceSet  BY <1>3, PieceOver
  <2> QED  BY <2>1 DEF PieceSet
<1>5. PICK b \in Seq(Byte), c \in Seq(Byte) :
        /\ b = SubSeq(x.bytes, 1, m) /\ Len(b) = m /\ \A j \in 1 .. m : b[j] = x.bytes[j]
        /\ c = more /\ Len(c) = z - m /\ \A j \in 1 .. z - m : c[j] = x.bytes[m + j]
  <2>1. PICK s \in Seq(Byte) : s = x.bytes /\ m \in 0 .. Len(s) /\ Len(s) = z  BY <1>4
  <2>2. /\ SubSeq(s, 1, m) \in Seq(Byte) /\ Len(SubSeq(s, 1, m)) = m
        /\ \A j \in 1 .. m : SubSeq(s, 1, m)[j] = s[j]
        /\ SubSeq(s, m + 1, Len(s)) \in Seq(Byte) /\ Len(SubSeq(s, m + 1, Len(s))) = Len(s) - m
        /\ \A j \in 1 .. Len(s) - m : SubSeq(s, m + 1, Len(s))[j] = s[m + j]
    BY ZenonT(40), <2>1, Cut
  <2>3. SubSeq(s, 1, m) = SubSeq(x.bytes, 1, m) /\ SubSeq(s, m + 1, Len(s)) = more  BY <2>1
  <2>4. PICK e \in Seq(Byte), f \in Seq(Byte) : e = SubSeq(s, 1, m) /\ f = SubSeq(s, m + 1, Len(s))  BY <2>2
  <2>5. e = SubSeq(x.bytes, 1, m) /\ Len(e) = m  BY <2>2, <2>3, <2>4
  <2>6. \A j \in 1 .. m : e[j] = x.bytes[j]  BY <2>1, <2>2, <2>4
  <2>7. f = more /\ Len(f) = z - m  BY <2>1, <2>2, <2>3, <2>4
  <2>8. \A j \in 1 .. z - m : f[j] = x.bytes[m + j]  BY <2>1, <2>2, <2>4
  <2> QED  BY ZenonT(40), <2>5, <2>6, <2>7, <2>8
<1>6. Tracks(t, i, n + m, p)
  <2>1. m \in Nat /\ n + m <= y  BY <1>3
  <2>2. \A j \in 1 .. m : b[j] = ps[i].bytes[n + j]
    <3>1. \A j \in 1 .. m : j \in 1 .. y - n  BY <1>3
    <3> QED  BY ZenonT(40), <1>3, <1>5, <3>1
  <2>3. n + m <= Len(ps[i].bytes)  BY <1>2, <2>1
  <2>4. \A q \in Spoofed(start, ps[i].who, b)[m] : Tracks(t, i, n + m, q)
    BY ZenonT(40), <1>5, <2>1, <2>2, <2>3, SpoofedTracks
  <2> QED  BY <1>3, <1>5, <2>4
<1>7. /\ Tail(r) \in Seq(PieceSet) /\ Len(Tail(r)) = Len(r) - 1
      /\ \A j \in 1 .. Len(r) - 1 : Tail(r)[j] = r[1 + j]
  BY <1>3, PieceOver
<1>a. PICK d \in Nat : d = Len(r) /\ d = k + 1 - i
  <2>1. k + 1 - i \in Nat  BY SMTT(40), <1>1
  <2>2. Len(r) = k + 1 - i  BY <1>3
  <2> QED  BY <2>1, <2>2
<1>8. CASE more = <<>>
  <2>1. n + m = y
    <3>1. Len(c) = 0  BY <1>5, <1>8
    <3> QED  BY SMTT(40), <1>3, <1>5, <3>1
  <2>2. Tracks(t, i, Len(ps[i].bytes), p)  BY <1>2, <1>6, <2>1
  <2>3. Tracks(t, i + 1, 0, p)  BY ZenonT(40), <2>2, TracksTurn
  <2>4. PICK a \in Nat : a = i + 1 /\ a \in 1 .. Len(ps) + 1 /\ a <= k + 1  BY <1>1
  <2>5. u = Tail(r)  BY <1>8
  <2>6. Remains(u, ps, a, 0)
    <3>1. Len(u) = k + 1 - a
      <4>1. Len(u) = d - 1
        <5>1. Len(Tail(r)) = Len(r) - 1  BY <1>7
        <5> QED  BY <1>a, <2>5, <5>1
      <4>2. d - 1 = k + 1 - a  BY <1>a, <2>4
      <4> QED  BY <4>1, <4>2
    <3>2. ASSUME NEW j \in 0 .. k - a  PROVE u[1 + j] = ps[a + j]
      <4>1. 1 + j \in 1 .. Len(r) - 1 /\ 1 + j \in 1 .. k - i /\ i + (1 + j) = a + j
        <5>1. 1 + j \in 1 .. d - 1 /\ 1 + j \in 1 .. k - i /\ i + (1 + j) = a + j  BY <1>1, <1>a, <2>4
        <5> QED  BY <1>a, <5>1
      <4>2. u[1 + j] = r[1 + (1 + j)]  BY Zenon, <1>7, <2>5, <4>1
      <4>3. r[1 + (1 + j)] = ps[i + (1 + j)]  BY <1>3, <4>1
      <4> QED  BY <4>1, <4>2, <4>3
    <3>3. ASSUME a <= k  PROVE u[1] = ps[a] /\ Len(ps[a].bytes) \in Nat
      <4>1. 0 \in 0 .. k - a /\ 1 + 0 = 1 /\ a + 0 = a  BY <2>4, <3>3
      <4>2. u[1] = ps[a]  BY <3>2, <4>1
      <4>3. a \in 1 .. Len(ps)  BY <1>1, <2>4, <3>3
      <4> QED  BY <1>1, <4>2, <4>3 DEF Spoken
    <3>4. ASSUME a <= k
          PROVE  /\ u[1].who = ps[a].who /\ Len(u[1].bytes) = Len(ps[a].bytes) - 0
                 /\ \A j \in 1 .. Len(ps[a].bytes) - 0 : u[1].bytes[j] = ps[a].bytes[0 + j]
      <4>1. PICK w \in Nat : w = Len(ps[a].bytes) /\ u[1] = ps[a]  BY <3>3, <3>4
      <4>2. w - 0 = w /\ \A j \in 1 .. w : 0 + j = j  OBVIOUS
      <4> QED  BY <4>1, <4>2
    <3>5. \A j \in 1 .. k - a : u[1 + j] = ps[a + j]
      <4>1. \A j \in 1 .. k - a : j \in 0 .. k - a  BY <2>4
      <4> QED  BY <3>2, <4>1
    <3> QED  BY ZenonT(40), <1>1, <1>7, <2>5, <3>1, <3>4, <3>5 DEF Remains
  <2>7. 0 \in 0 .. (IF a > Len(ps) THEN 0 ELSE Len(ps[a].bytes) - 1)
    <3>1. CASE a > Len(ps)  BY <3>1
    <3>2. CASE ~(a > Len(ps))
      <4>1. a \in 1 .. Len(ps)  BY <1>1, <2>4, <3>2
      <4>2. Len(ps[a].bytes) \in Nat \ {0}  BY <1>1, <4>1 DEF Spoken
      <4>3. 0 \in 0 .. Len(ps[a].bytes) - 1  BY SMTT(40), <4>2
      <4> QED  BY <3>2, <4>3
    <3> QED  BY <3>1, <3>2
  <2> QED  BY Zenon, <2>3, <2>4, <2>6, <2>7, FollowingIs
<1>9. CASE more # <<>>
  <2>1. PICK a \in Nat : a = n + m /\ a < y /\ y - a = z - m
    <3>1. Len(c) # 0  BY <1>5, <1>9, EmptySeq
    <3>2. z - m # 0  BY <1>5, <3>1
    <3> QED  BY <1>3, <3>2
  <2>2. PICK v \in PieceSet : v = Says(x.who, more) /\ v.who = x.who /\ v.bytes = c
    <3>1. Says(x.who, more) \in PieceSet  BY Zenon, <1>4, <1>5, SaysPiece
    <3>2. Says(x.who, more).who = x.who /\ Says(x.who, more).bytes = more  BY DEF Says
    <3> QED  BY <1>5, <3>1, <3>2
  <2>3. /\ u \in Seq(PieceSet) /\ Len(u) = Len(r) /\ u[1] = v
        /\ \A j \in 1 .. Len(r) - 1 : u[1 + j] = r[1 + j]
    <3>1. u = <<v>> \o Tail(r)  BY <1>9, <2>2
    <3>2. r \in Seq(PieceSet)  BY <1>3
    <3>3. r # <<>>  OBVIOUS
    <3>4. Replaced(u, r, v)  BY Zenon, <3>1, <3>2, <3>3, PieceCut
    <3> QED  BY <3>4 DEF Replaced
  <2>4. Remains(u, ps, i, a)
    <3>1. u[1].who = ps[i].who /\ Len(u[1].bytes) = y - a
      BY <1>3, <1>5, <2>1, <2>2, <2>3
    <3>2. ASSUME NEW j \in 1 .. y - a  PROVE u[1].bytes[j] = ps[i].bytes[a + j]
      <4>1. j \in 1 .. z - m /\ m + j \in 1 .. y - n /\ n + (m + j) = a + j  BY <1>3, <2>1
      <4>2. u[1].bytes = c  BY <2>2, <2>3
      <4>4. c[j] = x.bytes[m + j]  BY Zenon, <1>5, <4>1
      <4>3. x.bytes[m + j] = ps[i].bytes[n + (m + j)]  BY <1>3, <4>1
      <4> QED  BY <4>1, <4>2, <4>3, <4>4
    <3>3. ASSUME NEW j \in 1 .. k - i  PROVE u[1 + j] = ps[i + j]
      <4>1. j \in 1 .. Len(r) - 1
        <5>1. j \in 1 .. d - 1  BY <1>1, <1>a
        <5> QED  BY <1>a, <5>1
      <4> QED  BY <1>3, <2>3, <4>1
    <3> QED  BY ZenonT(40), <1>1, <1>2, <1>3, <2>3, <3>1, <3>2, <3>3 DEF Remains
  <2>5. i \in 1 .. Len(ps) + 1 /\ a \in 0 .. (IF i > Len(ps) THEN 0 ELSE Len(ps[i].bytes) - 1)
    <3>1. i \in 1 .. Len(ps) + 1 /\ ~(i > Len(ps))  BY <1>1
    <3>2. a \in 0 .. Len(ps[i].bytes) - 1  BY SMTT(40), <1>2, <2>1
    <3> QED  BY <3>1, <3>2
  <2>6. Tracks(t, i, a, p)  BY <1>6, <2>1
  <2> QED  BY Zenon, <2>4, <2>5, <2>6, FollowingIs
<1> QED  BY <1>8, <1>9

-----------------------------------------------------------------------------
LEMMA SpoofStarts == ASSUME SpoofInit  PROVE SpoofIInv
<1>1. talk \in Talks /\ said = Pieces(talk) /\ logged = <<>>  BY DEF SpoofInit
<1>2. IsParser(sp) /\ In(sp, "INIT", 0, 0, <<>>)  BY DEF SpoofInit, IsParser, In
<1>3. PICK ps : ps = Pieces(talk)  OBVIOUS
<1>4. Spoken(ps) /\ Len(ps) \in Nat \ {0}  BY <1>1, <1>3, TalkSpoken
<1>5. Len(ps[1].bytes) \in Nat \ {0} /\ 1 \in 1 .. Len(ps)  BY <1>4 DEF Spoken
<1>6. Remains(said, ps, 1, 0)
  <2>1. PICK w \in Nat, k \in Nat : w = Len(ps[1].bytes) /\ k = Len(ps)  BY <1>4, <1>5
  <2>2. w - 0 = w /\ k + 1 - 1 = k /\ \A j \in 1 .. w : 0 + j = j  OBVIOUS
  <2>3. said = ps /\ ps \in Seq(PieceSet)  BY <1>1, <1>3, <1>4 DEF Spoken
  <2> QED  BY <2>1, <2>2, <2>3 DEF Remains
<1>7. Tracks(talk, 1, 0, sp)  BY <1>1, <1>2, TracksStart
<1>8. 1 \in 1 .. Len(ps) + 1 /\ 0 \in 0 .. (IF 1 > Len(ps) THEN 0 ELSE Len(ps[1].bytes) - 1)
  BY <1>4, <1>5
<1>9. Following(talk, said, sp)  BY Zenon, <1>3, <1>6, <1>7, <1>8, FollowingIs
<1>10. sp.state # "FINISH"  BY <1>2 DEF In
<1> QED  BY <1>1, <1>9, <1>10 DEF SpoofIInv

\* forwarding_on_read keeps the parser with what was received, and logs once.
LEMMA SpoofStep == ASSUME SpoofIInv, Relayed  PROVE SpoofIInv'
<1>1. said # <<>> /\ sp.state # "FINISH" /\ talk \in Talks /\ talk' = talk /\ logged = <<>>
  BY DEF Relayed, SpoofIInv
<1>2. logged' = IF sp'.state = "FINISH" /\ sp'.success THEN <<<<sp'.user, sp'.pass>>>> ELSE <<>>
  <2>1. logged' = IF sp'.state = "FINISH" /\ sp'.success THEN Append(logged, <<sp'.user, sp'.pass>>) ELSE logged
    BY DEF Relayed
  <2>2. Append(logged, <<sp'.user, sp'.pass>>) = <<<<sp'.user, sp'.pass>>>>  BY <1>1, AppendPair
  <2> QED  BY <1>1, <2>1, <2>2
<1>3. PICK ps : ps = Pieces(talk)  OBVIOUS
<1>4. PICK i \in 1 .. Len(ps) + 1 :
        \E n \in 0 .. (IF i > Len(ps) THEN 0 ELSE Len(ps[i].bytes) - 1) :
          Remains(said, ps, i, n) /\ Tracks(talk, i, n, sp)
  BY <1>3 DEF SpoofIInv, Following
<1>5. PICK n \in 0 .. (IF i > Len(ps) THEN 0 ELSE Len(ps[i].bytes) - 1) :
        Remains(said, ps, i, n) /\ Tracks(talk, i, n, sp)
  BY <1>4
<1>6. PICK k \in Nat : k = Len(ps) /\ Spoken(ps)  BY <1>1, <1>3, TalkSpoken
<1>7. said \in Seq(PieceSet) /\ Len(said) = k + 1 - i  BY <1>5, <1>6 DEF Remains
<1>8. i \in 1 .. Len(ps)
  <2>1. Len(said) \in Nat \ {0}  BY <1>1, <1>7, PieceOver
  <2> QED  BY <1>6, <1>7, <2>1
<1>9. n \in Nat
  <2>1. PICK y \in Nat : y = Len(ps[i].bytes)  BY <1>6, <1>8 DEF Spoken
  <2>2. ~(i > Len(ps))  BY <1>6, <1>8
  <2>3. n \in 0 .. Len(ps[i].bytes) - 1  BY <2>2
  <2> QED  BY <2>1, <2>3
<1>0. PICK x \in PieceSet : x = said[1] /\ x = Head(said)
  BY <1>1, <1>7, PieceOver
<1>10. PICK z \in Nat : z = Len(x.bytes)
  <2>1. x.bytes \in Seq(Byte)  BY DEF PieceSet
  <2> QED  BY <2>1, LenProperties
<1>11. PICK m \in 1 .. z :
         /\ sp' \in Spoofed(sp, x.who, SubSeq(x.bytes, 1, m))[m]
         /\ said' = IF SubSeq(x.bytes, m + 1, z) = <<>> THEN Tail(said)
                    ELSE <<Says(x.who, SubSeq(x.bytes, m + 1, z))>> \o Tail(said)
  BY <1>0, <1>10 DEF Relayed
<1>12. Following(talk, said', sp')
  BY ZenonT(40), <1>0, <1>1, <1>3, <1>5, <1>8, <1>9, <1>10, <1>11, Received
<1> QED  BY <1>1, <1>2, <1>12 DEF SpoofIInv

\* The parser is always where what was received of the conversation takes it,
\* and a pair is logged when and only when it has seen an accepted login.
THEOREM SpoofFollows == SpoofSpec => []SpoofIInv
<1>1. SpoofInit => SpoofIInv  BY SpoofStarts
<1>2. SpoofIInv /\ [SpoofNext]_spoofVars => SpoofIInv'
  <2>1. SUFFICES ASSUME SpoofIInv, [SpoofNext]_spoofVars  PROVE SpoofIInv'
    OBVIOUS
  <2>2. CASE Relayed  BY <2>1, <2>2, SpoofStep
  <2>3. CASE UNCHANGED spoofVars
    BY <2>1, <2>3 DEF spoofVars, SpoofIInv
  <2>4. SpoofOver => UNCHANGED spoofVars  BY DEF SpoofOver
  <2> QED  BY <2>1, <2>2, <2>3, <2>4 DEF SpoofNext
<1> QED  BY <1>1, <1>2, PTL DEF SpoofSpec

\* What is logged of a conversation that the parser follows.
LEMMA FollowsExact == ASSUME SpoofIInv  PROVE LoggedExact
<1>1. talk \in Talks /\ logged = IF Settled(talk, sp) THEN <<<<sp.user, sp.pass>>>> ELSE <<>>
  BY DEF SpoofIInv, Settled
<1>2. PICK ps : ps = Pieces(talk)  OBVIOUS
<1>3. PICK i \in 1 .. Len(ps) + 1 :
        \E n \in 0 .. (IF i > Len(ps) THEN 0 ELSE Len(ps[i].bytes) - 1) :
          Remains(said, ps, i, n) /\ Tracks(talk, i, n, sp)
  BY <1>2 DEF SpoofIInv, Following
<1>4. PICK n \in 0 .. (IF i > Len(ps) THEN 0 ELSE Len(ps[i].bytes) - 1) :
        Remains(said, ps, i, n) /\ Tracks(talk, i, n, sp)
  BY <1>3
<1>5. Told(talk, sp)  BY <1>1, <1>4, TracksTold
<1>6. Silent(talk, sp, i > Len(ps))  BY Zenon, <1>1, <1>2, <1>4, TracksSilent
<1>7. said = <<>> => i > Len(ps)
  <2>1. PICK k \in Nat : k = Len(ps)  BY <1>1, <1>2, TalkSpoken
  <2>2. Len(said) = k + 1 - i  BY <1>4, <2>1 DEF Remains
  <2>3. ASSUME said = <<>>  PROVE i > Len(ps)
    <3>1. Len(said) = 0  BY <2>3, EmptySeq
    <3> QED  BY <2>1, <2>2, <3>1
  <2> QED  BY <2>3
<1>8. ASSUME logged # <<>>  PROVE logged = <<Accepted(talk)>>
  BY <1>1, <1>5, <1>8 DEF Told
<1>9. ASSUME said = <<>> \/ sp.state = "FINISH", Accepted(talk) # NoPair  PROVE logged # <<>>
  <2>1. Settled(talk, sp)  BY <1>6, <1>7, <1>9 DEF Silent
  <2>2. logged = <<<<sp.user, sp.pass>>>>  BY <1>1, <2>1
  <2> QED  BY <2>2
<1> QED  BY <1>8, <1>9 DEF LoggedExact

\* Of any conversations, cut anywhere: what is logged is the login that the
\* server accepted, once, and no login is missed.
THEOREM LoginLogged == SpoofSpec => []LoggedExact
BY SpoofFollows, FollowsExact, PTL
=============================================================================
