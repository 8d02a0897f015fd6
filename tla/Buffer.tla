------------------------------- MODULE Buffer -------------------------------
(***************************************************************************)
(* buffer.c: the byte buffer every session, parser and log line goes       *)
(* through.  The pointers are offsets from data; limit is N.  Its callers  *)
(* obtain a pointer and a length, hand them to recv() or send(), and       *)
(* advance by the result, -1 included.                                     *)
(***************************************************************************)
EXTENDS Integers, Sequences

CONSTANTS
  N,      \* capacity given to buffer_init
  Byte,   \* values of a byte
  Zero    \* the byte 0

ASSUME BufferAssumption == N \in Nat \ {0} /\ Zero \in Byte

Index == 0 .. N - 1

VARIABLES
  b,      \* data, read and write of the Buffer
  out     \* history: the bytes the last operation handed to its caller

bufVars == <<b, out>>
-----------------------------------------------------------------------------
BufferReset(x) == [x EXCEPT !.read = 0, !.write = 0]

\* (a slip: <= for <)
CanWriteOffByOne(x) == x.write <= N
CanWrite(x) == x.write < N
CanRead(x)  == x.read < x.write

\* What buffer_read_ptr shows: n bytes from read on.
Shown(x, n) == [i \in 1 .. n |-> x.data[x.read + i - 1]]

\* Bytes stored from write on, through the pointer of buffer_write_ptr.
Store(x, s) ==
  [x EXCEPT !.data = [i \in Index |->
     IF i \in x.write .. x.write + Len(s) - 1 THEN s[i - x.write + 1] ELSE @[i]]]

WriteAdv(x, n) == IF n > -1 THEN [x EXCEPT !.write = @ + n] ELSE x

\* (a slip: the memmove is forgotten)
CompactNoMove(x) == [x EXCEPT !.read = 0, !.write = @ - x.read]
\* A non-empty buffer is moved to the front; bytes past it are left over.
Compact(x) ==
  IF x.read = 0 THEN x
  ELSE IF x.read = x.write THEN BufferReset(x)
  ELSE [data  |-> [i \in Index |-> IF i < x.write - x.read
                                   THEN x.data[x.read + i] ELSE x.data[i]],
        read  |-> 0,
        write |-> x.write - x.read]

\* (a slip: a drained buffer is not rewound)
ReadAdvNoCompact(x, n) == IF n > -1 THEN [x EXCEPT !.read = @ + n] ELSE x
ReadAdv(x, n) ==
  IF n > -1
  THEN LET y == [x EXCEPT !.read = @ + n]
       IN  IF y.read = y.write THEN Compact(y) ELSE y
  ELSE x
-----------------------------------------------------------------------------
\* The memory given to buffer_init is not cleared.
BufInit ==
  /\ b \in [data : [Index -> Byte], read : {0}, write : {0}]
  /\ out = << >>

\* buffer_write_ptr, recv(), buffer_write_adv
ReceiveInto ==
  \E n \in -1 .. N - b.write : \E s \in [1 .. n -> Byte] :
    /\ b' = WriteAdv(Store(b, s), n)
    /\ out' = << >>

\* buffer_write: a byte that does not fit is dropped
WriteByte ==
  \E c \in Byte :
    /\ b' = IF CanWrite(b) THEN WriteAdv(Store(b, <<c>>), 1) ELSE b
    /\ out' = << >>

\* buffer_read_ptr, send(), buffer_read_adv
Send ==
  \E n \in -1 .. b.write - b.read :
    /\ b' = ReadAdv(b, n)
    /\ out' = Shown(b, n)

\* buffer_read, as the parsers call it
ReadByte ==
  /\ b' = IF CanRead(b) THEN ReadAdv(b, 1) ELSE b
  /\ out' = IF CanRead(b) THEN Shown(b, 1) ELSE <<Zero>>

CompactNow == b' = Compact(b) /\ out' = << >>

ResetNow == b' = BufferReset(b) /\ out' = << >>

BufNext == ReceiveInto \/ WriteByte \/ Send \/ ReadByte \/ CompactNow \/ ResetNow

BufSpec == BufInit /\ [][BufNext]_bufVars
-----------------------------------------------------------------------------
\* The pointers stay in order: R <= W <= limit (buffer.h), which is what the
\* asserts of buffer.c check; so no access leaves the memory of the buffer.
BufTypeOK ==
  /\ b \in [data : [Index -> Byte], read : 0 .. N, write : 0 .. N]
  /\ b.read <= b.write
  /\ out \in Seq(Byte)

\* A drained buffer offers its whole capacity again.  The handlers compact by
\* no other means: without this a full buffer would never take another byte.
DrainedIsRewound == b.read = b.write => b.read = 0

\* The buffer is a FIFO: whatever mix of partial sends, single bytes and
\* compactions, bytes come out once, in order, unchanged.
Queue == INSTANCE ByteQueue WITH
           Cap <- N, queue <- Shown(b, b.write - b.read)
Fifo == Queue!Spec
=============================================================================
