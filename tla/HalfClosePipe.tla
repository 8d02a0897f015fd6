--------------------------- MODULE HalfClosePipe ---------------------------
(***************************************************************************)
(* What a relayed session promises to its two peers, whatever the buffers, *)
(* the selector and the flush states do: each direction is a lossless byte *)
(* stream, the end of a stream is shown to the other peer only after every *)
(* byte of it, and the session is done exactly when both ends were shown.  *)
(* A session may also be cut at any moment (peer error, inactivity).       *)
(***************************************************************************)
EXTENDS Naturals

CONSTANT Sides                 \* the two peers; a stream is named by its source

VARIABLES
  sent,      \* sent[s]: bytes peer s has written so far
  fin,       \* fin[s]: peer s has ended its stream
  fwd,       \* fwd[s]: bytes of s's stream handed to the other peer
  shown,     \* shown[s]: the end of s's stream was handed to the other peer
  outcome    \* "open", "done" or "cut"

pipeVars == <<sent, fin, fwd, shown, outcome>>

PipeInit ==
  /\ sent \in [Sides -> Nat]
  /\ fin \in [Sides -> BOOLEAN]
  /\ fwd = [s \in Sides |-> 0]
  /\ shown = [s \in Sides |-> FALSE]
  /\ outcome = "open"

Write(s) ==
  /\ ~fin[s]
  /\ sent' = [sent EXCEPT ![s] = @ + 1]
  /\ UNCHANGED <<fin, fwd, shown, outcome>>

EndStream(s) ==
  /\ ~fin[s]
  /\ fin' = [fin EXCEPT ![s] = TRUE]
  /\ UNCHANGED <<sent, fwd, shown, outcome>>

\* One step may hand over bytes of one stream and the ends of streams that are
\* then complete; the step that shows the second end finishes the session.
Transfer ==
  /\ outcome = "open"
  /\ \E s \in Sides : \E n \in fwd[s] .. sent[s] :
        fwd' = [fwd EXCEPT ![s] = n]
  /\ \E S \in SUBSET Sides :
        /\ \A s \in S : fin[s] /\ fwd'[s] = sent[s]
        /\ shown' = [s \in Sides |-> shown[s] \/ s \in S]
  /\ outcome' = IF \A s \in Sides : shown'[s] THEN "done" ELSE "open"
  /\ UNCHANGED <<sent, fin>>

Cut ==
  /\ outcome = "open"
  /\ outcome' = "cut"
  /\ UNCHANGED <<sent, fin, fwd, shown>>

PipeNext ==
  \/ \E s \in Sides : Write(s) \/ EndStream(s)
  \/ Transfer
  \/ Cut

PipeSpec == PipeInit /\ [][PipeNext]_pipeVars
=============================================================================
