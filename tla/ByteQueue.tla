----------------------------- MODULE ByteQueue -----------------------------
(***************************************************************************)
(* What the daemon expects of a Buffer: a FIFO of at most Cap bytes.  How  *)
(* many of the offered bytes are accepted is up to the implementation; an  *)
(* accepted byte comes out once, in its place.                             *)
(***************************************************************************)
EXTENDS Integers, Sequences

CONSTANTS Cap, Byte, Zero

VARIABLES
  queue,   \* the bytes held, oldest first
  out      \* what the last operation handed out

Init == queue = << >> /\ out = << >>

\* queue' is queue with some of the offered bytes behind it.
Put ==
  /\ queue' \in Seq(Byte)
  /\ Len(queue) <= Len(queue') /\ Len(queue') <= Cap
  /\ SubSeq(queue', 1, Len(queue)) = queue
  /\ out' = << >>

Take(n) ==
  /\ out' = SubSeq(queue, 1, n)
  /\ queue' = SubSeq(queue, n + 1, Len(queue))

\* An empty queue hands out a zero byte.
TakeEmpty == queue = << >> /\ out' = <<Zero>> /\ UNCHANGED queue

Clear == queue' = << >> /\ out' = << >>

Next ==
  \/ Put
  \/ \E n \in 0 .. Len(queue) : Take(n)
  \/ TakeEmpty
  \/ Clear

Spec == Init /\ [][Next]_<<queue, out>>
=============================================================================
