---------------------------- MODULE BufferProofs ----------------------------
(***************************************************************************)
(* For every capacity and every set of bytes: the pointers of a Buffer     *)
(* stay in order, a drained Buffer is rewound, and a Buffer is a FIFO.     *)
(***************************************************************************)
EXTENDS Buffer, SequenceTheorems, TLAPS

Inv == BufTypeOK /\ DrainedIsRewound

Buffers == [data : [Index -> Byte], read : 0 .. N, write : 0 .. N]
-----------------------------------------------------------------------------
(* What the functions of buffer.c do to a well-formed buffer.              *)

Good(x) == x \in Buffers /\ x.read <= x.write /\ (x.read = x.write => x.read = 0)
Held(x) == Shown(x, x.write - x.read)

\* buffer_read_ptr shows bytes of the buffer: n of them.
LEMMA ShownIsSeq ==
  ASSUME NEW x \in Buffers, NEW n \in Int, n >= -1, x.read + n <= x.write
  PROVE  /\ Shown(x, n) \in Seq(Byte)
         /\ Len(Shown(x, n)) = IF n = -1 THEN 0 ELSE n
         /\ \A i \in 1 .. n : Shown(x, n)[i] = x.data[x.read + i - 1]
<1> USE BufferAssumption DEF Buffers, Index
<1>1. CASE n = -1
  <2>1. Shown(x, n) = [i \in 1 .. 0 |-> x.data[x.read + i - 1]]
    BY <1>1, 1 .. -1 = 1 .. 0 DEF Shown
  <2>2. \A i \in 1 .. 0 : x.data[x.read + i - 1] \in Byte
    OBVIOUS
  <2> DEFINE none == [i \in 1 .. 0 |-> x.data[x.read + i - 1]]
  <2>3. none \in Seq(Byte) /\ Len(none) = 0
    BY <2>2
  <2> HIDE DEF none
  <2>4. Shown(x, n) \in Seq(Byte) /\ Len(Shown(x, n)) = 0
    BY <2>1, <2>3 DEF none
  <2>5. \A i \in 1 .. n : FALSE
    BY <1>1
  <2> QED BY <1>1, <2>4, <2>5
<1>2. CASE n \in Nat
  <2>1. \A i \in 1 .. n : x.data[x.read + i - 1] \in Byte
    BY <1>2
  <2> QED BY <1>2, <2>1 DEF Shown
<1> QED BY <1>1, <1>2

\* Storing bytes and advancing appends them.
LEMMA StoreAppends ==
  ASSUME NEW x, Good(x), NEW n \in Nat, x.write + n <= N, NEW s \in [1 .. n -> Byte]
  PROVE  /\ Good(WriteAdv(Store(x, s), n))
         /\ Len(Held(x)) + n = Len(Held(WriteAdv(Store(x, s), n)))
         /\ \A i \in 1 .. Len(Held(x)) : Held(WriteAdv(Store(x, s), n))[i] = Held(x)[i]
<1> USE BufferAssumption
<1> DEFINE y == WriteAdv(Store(x, s), n)
<1>1. Len(s) = n /\ s \in Seq(Byte)
  OBVIOUS
<1>2. Store(x, s).data \in [Index -> Byte]
  BY SMTT(40), <1>1 DEF Store, Good, Buffers, Index
<1>3. y \in Buffers /\ y.read = x.read /\ y.write = x.write + n
  <2>1. y = [Store(x, s) EXCEPT !.write = @ + n]
    BY DEF WriteAdv
  <2>2. /\ Store(x, s).read = x.read /\ Store(x, s).write = x.write
        /\ Store(x, s) \in [data : [Index -> Byte], read : 0 .. N, write : 0 .. N]
    BY <1>2 DEF Store, Good, Buffers
  <2>3. x.write + n \in 0 .. N
    BY DEF Good, Buffers
  <2> QED BY <2>1, <2>2, <2>3 DEF Buffers
<1>4. \A i \in Index : i < x.write => y.data[i] = x.data[i]
  BY <1>1 DEF Store, WriteAdv, Good, Buffers, Index
<1>5. Good(y)
  BY <1>3 DEF Good, Buffers
<1>6. /\ Len(Held(x)) = x.write - x.read
      /\ \A i \in 1 .. x.write - x.read : Held(x)[i] = x.data[x.read + i - 1]
  BY SMTT(30), ShownIsSeq DEF Held, Good, Buffers
<1>7. /\ Len(Held(y)) = y.write - y.read
      /\ \A i \in 1 .. y.write - y.read : Held(y)[i] = y.data[y.read + i - 1]
  <2> HIDE DEF y
  <2> DEFINE m == y.write - y.read
  <2>1. y \in Buffers /\ m \in Int /\ m >= -1 /\ y.read + m <= y.write /\ m # -1
    BY <1>3, <1>5 DEF Good, Buffers
  <2> HIDE DEF m
  <2>2. /\ Len(Shown(y, m)) = m
        /\ \A i \in 1 .. m : Shown(y, m)[i] = y.data[y.read + i - 1]
    BY <2>1, ShownIsSeq
  <2> QED BY <2>2 DEF Held, m
<1>8. \A i \in 1 .. x.write - x.read : x.read + i - 1 \in Index /\ x.read + i - 1 < x.write
  BY SMTT(40) DEF Good, Buffers, Index
<1> HIDE DEF y
<1>9. \A i \in 1 .. Len(Held(x)) : Held(y)[i] = Held(x)[i]
  BY SMTT(40), <1>3, <1>4, <1>6, <1>7, <1>8 DEF Good, Buffers
<1> QED BY SMTT(40), <1>3, <1>5, <1>6, <1>7, <1>9 DEF y, Good, Buffers

\* The held bytes, as a sequence.
LEMMA HeldIsSeq ==
  ASSUME NEW x, Good(x)
  PROVE  /\ Held(x) \in Seq(Byte)
         /\ Len(Held(x)) = x.write - x.read
         /\ \A i \in 1 .. x.write - x.read : Held(x)[i] = x.data[x.read + i - 1]
<1> DEFINE m == x.write - x.read
<1>1. x \in Buffers /\ m \in Int /\ m >= -1 /\ x.read + m <= x.write /\ m # -1
  BY DEF Good, Buffers
<1> HIDE DEF m
<1>2. /\ Shown(x, m) \in Seq(Byte)
      /\ Len(Shown(x, m)) = m
      /\ \A i \in 1 .. m : Shown(x, m)[i] = x.data[x.read + i - 1]
  BY <1>1, ShownIsSeq
<1> QED BY <1>2 DEF Held, m

\* buffer_compact changes where the bytes are, not which they are.
LEMMA CompactKeeps ==
  ASSUME NEW x \in Buffers, x.read <= x.write
  PROVE  /\ Good(Compact(x))
         /\ Compact(x).write - Compact(x).read = x.write - x.read
         /\ \A i \in 1 .. x.write - x.read :
              Compact(x).data[Compact(x).read + i - 1] = x.data[x.read + i - 1]
<1> USE BufferAssumption
<1>1. CASE x.read = 0
  BY <1>1 DEF Compact, Good, Buffers
<1>2. CASE x.read # 0 /\ x.read = x.write
  <2>1. Compact(x) = [[x EXCEPT !.read = 0] EXCEPT !.write = 0]
    BY <1>2 DEF Compact, BufferReset
  <2> DEFINE y == Compact(x)
  <2>2. y \in Buffers /\ y.read = 0 /\ y.write = 0
    <3> DEFINE x1 == [x EXCEPT !.read = 0]
    <3>1. 0 \in 0 .. N
      OBVIOUS
    <3>2. x1 \in Buffers /\ x1.read = 0
      BY <3>1 DEF Buffers
    <3>3. y = [x1 EXCEPT !.write = 0]
      BY <2>1
    <3> HIDE DEF x1, y
    <3> QED BY ONLY <3>1, <3>2, <3>3 DEF Buffers
  <2> HIDE DEF y
  <2>3. Good(y) /\ y.write - y.read = 0
    BY <2>2 DEF Good
  <2>4. x.write - x.read = 0 /\ \A i \in 1 .. 0 : FALSE
    BY <1>2 DEF Buffers
  <2>5. \A i \in 1 .. x.write - x.read : FALSE
    BY <2>4
  <2> QED BY <2>3, <2>4, <2>5 DEF y
<1>3. CASE x.read # 0 /\ x.read # x.write
  <2> DEFINE moved == [i \in Index |-> IF i < x.write - x.read
                                       THEN x.data[x.read + i] ELSE x.data[i]]
             m == x.write - x.read
  <2>1. Compact(x) = [data |-> moved, read |-> 0, write |-> m]
    BY <1>3 DEF Compact
  <2>2. m \in 1 .. N
    BY <1>3 DEF Buffers
  <2>3. \A i \in Index : i < m => x.read + i \in Index
    BY DEF Index, Buffers
  <2>4. moved \in [Index -> Byte]
    BY <2>3 DEF Buffers
  <2>5. \A i \in 1 .. m : moved[i - 1] = x.data[x.read + i - 1]
    <3> TAKE i \in 1 .. m
    <3>1. i - 1 \in Index /\ i - 1 < m /\ x.read + (i - 1) = x.read + i - 1
      BY <2>2 DEF Index, Buffers
    <3> QED BY <3>1
  <2> HIDE DEF moved, m
  <2>6. Compact(x) \in Buffers /\ Compact(x).read = 0 /\ Compact(x).write = m
        /\ Compact(x).data = moved
    BY <2>1, <2>2, <2>4 DEF Buffers
  <2>7. Good(Compact(x)) /\ m - 0 = m
    BY <2>2, <2>6 DEF Good
  <2>8. \A i \in 1 .. m : moved[0 + i - 1] = x.data[x.read + i - 1]
    BY <2>2, <2>5
  <2> QED BY <2>6, <2>7, <2>8 DEF m
<1> QED BY <1>1, <1>2, <1>3

LEMMA CompactKeepsHeld ==
  ASSUME NEW x, Good(x)
  PROVE  Good(Compact(x)) /\ Held(Compact(x)) = Held(x)
<1>1. /\ Good(Compact(x))
      /\ Compact(x).write - Compact(x).read = x.write - x.read
      /\ \A i \in 1 .. x.write - x.read :
           Compact(x).data[Compact(x).read + i - 1] = x.data[x.read + i - 1]
  BY CompactKeeps DEF Good
<1> DEFINE y == Compact(x)
<1> HIDE DEF y
<1>2. /\ Held(y) \in Seq(Byte) /\ Held(x) \in Seq(Byte)
      /\ Len(Held(y)) = Len(Held(x))
      /\ \A i \in 1 .. Len(Held(y)) : Held(y)[i] = Held(x)[i]
  BY <1>1, HeldIsSeq DEF y
<1>3. Held(y) = Held(x)
  BY <1>2, SeqEqual
<1> QED BY <1>1, <1>3 DEF y

\* Reading n bytes and advancing takes them off the front.
LEMMA ReadAdvTakes ==
  ASSUME NEW x, Good(x), NEW n \in Nat, n <= x.write - x.read
  PROVE  /\ Good(ReadAdv(x, n))
         /\ Held(ReadAdv(x, n)) = SubSeq(Held(x), n + 1, Len(Held(x)))
         /\ Shown(x, n) = SubSeq(Held(x), 1, n)
<1> DEFINE y == [x EXCEPT !.read = @ + n]
           z == ReadAdv(x, n)
<1>1. y \in Buffers /\ y.read = x.read + n /\ y.write = x.write /\ y.data = x.data
      /\ y.read <= y.write
  <2>1. x \in [data : [Index -> Byte], read : 0 .. N, write : 0 .. N] /\ x.read + n \in 0 .. N
    BY BufferAssumption DEF Good, Buffers
  <2>2. y \in Buffers /\ y.read = x.read + n /\ y.write = x.write /\ y.data = x.data
    BY <2>1 DEF Buffers
  <2>3. x.read + n <= x.write
    BY <2>1
  <2> QED BY <2>2, <2>3
<1>2. z = IF y.read = y.write THEN Compact(y) ELSE y
  BY DEF ReadAdv
<1> HIDE DEF y, z
<1>3. /\ Good(z)
      /\ z.write - z.read = y.write - y.read
      /\ \A i \in 1 .. y.write - y.read : z.data[z.read + i - 1] = y.data[y.read + i - 1]
  BY <1>1, <1>2, CompactKeeps DEF Good
<1>4. x.read \in Nat /\ x.write \in Nat
  BY DEF Good, Buffers
<1>5. /\ Held(z) \in Seq(Byte)
      /\ Len(Held(z)) = x.write - x.read - n
      /\ \A i \in 1 .. x.write - x.read - n : Held(z)[i] = x.data[x.read + n + i - 1]
  <2>1. x.write - (x.read + n) = x.write - x.read - n
    BY <1>4
  <2>2. z.write - z.read = x.write - x.read - n
    BY <1>1, <1>3, <2>1
  <2>3. /\ Held(z) \in Seq(Byte) /\ Len(Held(z)) = x.write - x.read - n
        /\ \A i \in 1 .. x.write - x.read - n : Held(z)[i] = z.data[z.read + i - 1]
    BY <1>3, <2>2, HeldIsSeq
  <2> QED BY <1>1, <1>3, <2>1, <2>3
<1>6. /\ Held(x) \in Seq(Byte)
      /\ Len(Held(x)) = x.write - x.read
      /\ \A i \in 1 .. x.write - x.read : Held(x)[i] = x.data[x.read + i - 1]
  BY HeldIsSeq
<1>7. Held(z) = SubSeq(Held(x), n + 1, Len(Held(x)))
  <2> DEFINE t == SubSeq(Held(x), n + 1, Len(Held(x)))
             m == Len(Held(x))
  <2>1. m \in Nat /\ n <= m /\ \A i \in n + 1 .. m : Held(x)[i] \in Byte
    BY <1>4, <1>6
  <2>2. /\ t \in Seq(Byte)
        /\ Len(t) = IF n + 1 <= m THEN m - (n + 1) + 1 ELSE 0
        /\ \A i \in 1 .. m - (n + 1) + 1 : t[i] = Held(x)[n + 1 + i - 1]
    <3> HIDE DEF m
    <3>1. t = SubSeq(Held(x), n + 1, m)
      BY DEF m
    <3> QED BY SMTT(30), <2>1, <3>1, SubSeqProperties
  <2> HIDE DEF t
  <2>3. Len(t) = Len(Held(z)) /\ m - (n + 1) + 1 = Len(Held(z))
    BY <1>4, <1>5, <1>6, <2>1, <2>2
  <2>4. \A i \in 1 .. Len(Held(z)) : Held(z)[i] = t[i]
    <3> TAKE i \in 1 .. Len(Held(z))
    <3>1. n + 1 + i - 1 \in 1 .. x.write - x.read
          /\ x.read + (n + 1 + i - 1) - 1 = x.read + n + i - 1
      BY SMTT(40), <1>4, <1>5
    <3>2. t[i] = x.data[x.read + n + i - 1]
      BY <1>6, <2>2, <2>3, <3>1
    <3> QED BY <1>5, <3>2
  <2>5. Held(z) = t
    BY <1>5, <2>2, <2>3, <2>4, SeqEqual
  <2> QED BY <2>5 DEF t
<1>8. Shown(x, n) = SubSeq(Held(x), 1, n)
  <2> DEFINE t == SubSeq(Held(x), 1, n)
  <2>1. \A i \in 1 .. n : Held(x)[i] \in Byte
    BY <1>4, <1>6
  <2>2. /\ t \in Seq(Byte)
        /\ Len(t) = IF 1 <= n THEN n - 1 + 1 ELSE 0
        /\ \A i \in 1 .. n - 1 + 1 : t[i] = Held(x)[1 + i - 1]
    BY <2>1, SubSeqProperties
  <2> HIDE DEF t
  <2>3. /\ Shown(x, n) \in Seq(Byte)
        /\ Len(Shown(x, n)) = n
        /\ \A i \in 1 .. n : Shown(x, n)[i] = x.data[x.read + i - 1]
    BY <1>4, ShownIsSeq DEF Good
  <2>4. Len(t) = n /\ \A i \in 1 .. n : t[i] = x.data[x.read + i - 1]
    <3>1. Len(t) = n
      BY <2>2
    <3>2. ASSUME NEW i \in 1 .. n PROVE t[i] = x.data[x.read + i - 1]
      <4>1. i \in 1 .. n - 1 + 1 /\ 1 + i - 1 = i /\ i \in 1 .. x.write - x.read
        BY <1>4, <3>2
      <4>2. t[i] = Held(x)[i]
        BY <2>2, <4>1
      <4> QED BY <1>6, <4>1, <4>2
    <3> QED BY <3>1, <3>2
  <2>5. Shown(x, n) = t
    BY ZenonT(40), <2>2, <2>3, <2>4, SeqEqual
  <2> QED BY <2>5 DEF t
<1> QED BY <1>3, <1>7, <1>8 DEF z
-----------------------------------------------------------------------------
(* The invariant.  Both conjuncts are needed together: a drained buffer is *)
(* rewound because compaction runs whenever read reaches write.            *)

LEMMA GoodIsInv == (BufTypeOK /\ DrainedIsRewound) <=> (Good(b) /\ out \in Seq(Byte))
  BY DEF BufTypeOK, DrainedIsRewound, Good, Buffers

\* Every operation keeps the buffer well formed and is a step of the queue.
LEMMA StepImplements ==
  ASSUME Inv, BufNext
  PROVE  Inv' /\ Queue!Next
<1> USE BufferAssumption
<1>1. Good(b) /\ out \in Seq(Byte)
  BY GoodIsInv DEF Inv
<1>2. /\ Held(b) \in Seq(Byte)
      /\ Len(Held(b)) = b.write - b.read
      /\ b.read \in Nat /\ b.write \in Nat /\ b.read <= b.write /\ b.write <= N
  BY <1>1, HeldIsSeq DEF Good, Buffers
\* n bytes are appended
<1>3. ASSUME NEW n \in Nat, n <= N - b.write, NEW s \in [1 .. n -> Byte],
             b' = WriteAdv(Store(b, s), n), out' = << >>
      PROVE  Inv' /\ Queue!Next
  <2>1. b.write + n <= N
    BY <1>2, <1>3
  <2>2. /\ Good(b')
        /\ Len(Held(b)) + n = Len(Held(b'))
        /\ \A i \in 1 .. Len(Held(b)) : Held(b')[i] = Held(b)[i]
    BY <1>1, <1>3, <2>1, StoreAppends
  <2>3. Held(b') \in Seq(Byte) /\ Len(Held(b')) = b'.write - b'.read
        /\ b'.write \in Nat /\ b'.read \in Nat /\ b'.write <= N
    BY <2>2, HeldIsSeq DEF Good, Buffers
  <2>4. SubSeq(Held(b'), 1, Len(Held(b))) = Held(b)
    <3> DEFINE m == Len(Held(b))
               t == SubSeq(Held(b'), 1, m)
    <3>1. m \in Nat /\ m <= Len(Held(b')) /\ \A i \in 1 .. m : Held(b')[i] \in Byte
      BY SMTT(40), <1>2, <2>2, <2>3
    <3>2. /\ t \in Seq(Byte)
          /\ Len(t) = IF 1 <= m THEN m - 1 + 1 ELSE 0
          /\ \A i \in 1 .. m - 1 + 1 : t[i] = Held(b')[1 + i - 1]
      <4> HIDE DEF m
      <4> QED BY <3>1, SubSeqProperties
    <3> HIDE DEF t
    <3>3. Len(t) = m /\ \A i \in 1 .. m : t[i] = Held(b)[i]
      BY <2>2, <3>1, <3>2
    <3>4. t = Held(b)
      BY <1>2, <3>2, <3>3, SeqEqual
    <3> QED BY <3>4 DEF t
  <2>5. out' \in Seq(Byte)
    BY <1>3
  <2>6. Inv'
    BY <2>2, <2>5 DEF Inv, BufTypeOK, DrainedIsRewound, Good, Buffers
  <2>7. Queue!Put
    BY SMTT(40), <1>2, <1>3, <2>2, <2>3, <2>4 DEF Queue!Put, Held
  <2> QED BY <2>6, <2>7 DEF Queue!Next
\* n bytes are taken
<1>4. ASSUME NEW n \in Nat, n <= b.write - b.read,
             b' = ReadAdv(b, n), out' = Shown(b, n)
      PROVE  Inv' /\ Queue!Next
  <2>1. /\ Good(b')
        /\ Held(b') = SubSeq(Held(b), n + 1, Len(Held(b)))
        /\ out' = SubSeq(Held(b), 1, n)
    BY <1>1, <1>4, ReadAdvTakes
  <2>2. out' \in Seq(Byte)
    <3>1. b \in Buffers /\ n \in Int /\ n >= -1 /\ b.read + n <= b.write
      BY <1>1, <1>2, <1>4 DEF Good
    <3> QED BY <1>4, <3>1, ShownIsSeq
  <2>3. Inv'
    BY <2>1, <2>2 DEF Inv, BufTypeOK, DrainedIsRewound, Good, Buffers
  <2>4. n \in 0 .. Len(Held(b))
    BY <1>2, <1>4
  <2>5. Queue!Take(n)
    BY <2>1 DEF Queue!Take, Held
  <2> QED BY <2>3, <2>4, <2>5 DEF Queue!Next, Held
\* nothing happens to the buffer and nothing is handed out
<1>5. ASSUME b' = b, out' = << >>
      PROVE  Inv' /\ Queue!Next
  <2>1. 0 \in Nat /\ 0 <= N - b.write /\ b.read + 0 = b.read
    BY <1>2
  <2>2. Inv'
    BY <1>1, <1>5 DEF Inv, BufTypeOK, DrainedIsRewound, Good, Buffers
  <2>3. SubSeq(Held(b), 1, Len(Held(b))) = Held(b)
    BY <1>2, SubSeqFull
  <2>4. Held(b') = Held(b)
    BY <1>5
  <2>5. Queue!Put
    BY <1>2, <1>5, <2>3, <2>4 DEF Queue!Put, Held
  <2> QED BY <2>2, <2>5 DEF Queue!Next
<1>6. ASSUME ReceiveInto PROVE Inv' /\ Queue!Next
  <2>0. PICK n \in -1 .. N - b.write : \E s \in [1 .. n -> Byte] :
          b' = WriteAdv(Store(b, s), n) /\ out' = << >>
    BY <1>6 DEF ReceiveInto
  <2>1. PICK s \in [1 .. n -> Byte] : b' = WriteAdv(Store(b, s), n) /\ out' = << >>
    BY <2>0
  <2>2. CASE n = -1
    <3>1. b' = Store(b, s)
      BY <2>1, <2>2 DEF WriteAdv
    <3>2. Len(s) = 0
      BY <2>2, 1 .. -1 = {}
    <3>3. Store(b, s).data = b.data
      BY SMTT(40), <1>1, <1>2, <3>2 DEF Store, Good, Buffers
    <3>4. Store(b, s) = b
      BY <1>1, <3>3 DEF Store, Good, Buffers
    <3> QED BY <1>5, <2>1, <3>1, <3>4
  <2>3. CASE n # -1
    <3>1. n \in Nat /\ n <= N - b.write
      BY <1>2, <2>3
    <3> QED BY <1>3, <2>1, <3>1
  <2> QED BY <2>2, <2>3
<1>7. ASSUME WriteByte PROVE Inv' /\ Queue!Next
  <2>1. PICK c \in Byte :
          /\ b' = IF CanWrite(b) THEN WriteAdv(Store(b, <<c>>), 1) ELSE b
          /\ out' = << >>
    BY <1>7 DEF WriteByte
  <2>2. CASE CanWrite(b)
    <3>1. 1 <= N - b.write
      BY <1>2, <2>2 DEF CanWrite
    <3>2. <<c>> \in [1 .. 1 -> Byte]
      OBVIOUS
    <3>3. b' = WriteAdv(Store(b, <<c>>), 1) /\ out' = << >>
      BY <2>1, <2>2
    <3> QED BY <1>3, <3>1, <3>2, <3>3
  <2> QED BY <1>5, <2>1, <2>2
<1>8. ASSUME Send PROVE Inv' /\ Queue!Next
  <2>1. PICK n \in -1 .. b.write - b.read : b' = ReadAdv(b, n) /\ out' = Shown(b, n)
    BY <1>8 DEF Send
  <2>2. CASE n = -1
    <3>1. b' = b
      BY <2>1, <2>2 DEF ReadAdv
    <3>2. 1 .. -1 = {}
      OBVIOUS
    <3>3. Shown(b, -1) = << >>
      BY <3>2 DEF Shown
    <3> QED BY <1>5, <2>1, <2>2, <3>1, <3>3
  <2>3. CASE n # -1
    <3>1. n \in Nat /\ n <= b.write - b.read
      BY <1>2, <2>3
    <3> QED BY <1>4, <2>1, <3>1
  <2> QED BY <2>2, <2>3
<1>9. ASSUME ReadByte PROVE Inv' /\ Queue!Next
  <2>1. CASE CanRead(b)
    <3>1. 1 <= b.write - b.read
      BY <1>2, <2>1 DEF CanRead
    <3>2. b' = ReadAdv(b, 1) /\ out' = Shown(b, 1)
      BY <1>9, <2>1 DEF ReadByte
    <3> QED BY <1>4, <3>1, <3>2
  <2>2. CASE ~CanRead(b)
    <3>1. Len(Held(b)) = 0
      BY <1>2, <2>2 DEF CanRead
    <3>2. Held(b) = << >>
      BY <1>2, <3>1, EmptySeq
    <3>3. b' = b /\ out' = <<Zero>>
      BY <1>9, <2>2 DEF ReadByte
    <3>4. out' \in Seq(Byte)
      BY <3>3
    <3>5. Inv'
      BY <1>1, <3>3, <3>4 DEF Inv, BufTypeOK, DrainedIsRewound, Good, Buffers
    <3>6. Queue!TakeEmpty
      BY <3>2, <3>3 DEF Queue!TakeEmpty, Held
    <3> QED BY <3>5, <3>6 DEF Queue!Next
  <2> QED BY <2>1, <2>2
<1>10. ASSUME CompactNow PROVE Inv' /\ Queue!Next
  <2>1. Good(b') /\ Held(b') = Held(b) /\ out' = << >>
    BY <1>1, <1>10, CompactKeepsHeld DEF CompactNow
  <2>2. Inv'
    BY <2>1 DEF Inv, BufTypeOK, DrainedIsRewound, Good, Buffers
  <2>3. SubSeq(Held(b), 1, Len(Held(b))) = Held(b) /\ Len(Held(b)) <= N
    BY <1>2, SubSeqFull
  <2>4. Queue!Put
    BY <1>2, <2>1, <2>3 DEF Queue!Put, Held
  <2> QED BY <2>2, <2>4 DEF Queue!Next
<1>11. ASSUME ResetNow PROVE Inv' /\ Queue!Next
  <2>1. b' = [[b EXCEPT !.read = 0] EXCEPT !.write = 0] /\ out' = << >>
    BY <1>11 DEF ResetNow, BufferReset
  <2>2. b' \in Buffers /\ b'.read = 0 /\ b'.write = 0
    <3> DEFINE x1 == [b EXCEPT !.read = 0]
    <3>1. 0 \in 0 .. N
      OBVIOUS
    <3>2. x1 \in Buffers /\ x1.read = 0
      BY <1>1, <3>1 DEF Good, Buffers
    <3>3. b' = [x1 EXCEPT !.write = 0]
      BY <2>1
    <3> HIDE DEF x1
    <3> QED BY ONLY <3>1, <3>2, <3>3 DEF Buffers
  <2>3. Good(b')
    BY <2>2 DEF Good
  <2>4. Inv'
    BY <2>1, <2>3 DEF Inv, BufTypeOK, DrainedIsRewound, Good, Buffers
  <2>5. Held(b') \in Seq(Byte) /\ Len(Held(b')) = 0
    BY <2>2, <2>3, HeldIsSeq
  <2>6. Held(b') = << >>
    BY <2>5, EmptySeq
  <2>7. Queue!Clear
    BY <2>1, <2>6 DEF Queue!Clear, Held
  <2> QED BY <2>4, <2>7 DEF Queue!Next
<1> QED BY <1>6, <1>7, <1>8, <1>9, <1>10, <1>11 DEF BufNext
-----------------------------------------------------------------------------
LEMMA InitGood == BufInit => Inv /\ Queue!Init
<1> SUFFICES ASSUME BufInit PROVE Inv /\ Queue!Init
  OBVIOUS
<1>1. b \in Buffers /\ b.read = 0 /\ b.write = 0 /\ out = << >>
  BY BufferAssumption DEF BufInit, Buffers
<1>2. Good(b) /\ out \in Seq(Byte)
  BY <1>1 DEF Good
<1>3. Held(b) \in Seq(Byte) /\ Len(Held(b)) = 0
  BY <1>1, <1>2, HeldIsSeq
<1>4. Held(b) = << >>
  BY <1>3, EmptySeq
<1> QED BY <1>1, <1>2, <1>4, GoodIsInv DEF Inv, Queue!Init, Held

LEMMA StutterKeeps == Inv /\ UNCHANGED bufVars => Inv'
  BY DEF Inv, BufTypeOK, DrainedIsRewound, bufVars

\* The buffer is always well formed: R <= W <= limit, and a drained one is
\* rewound.
THEOREM WellFormed == BufSpec => []Inv
<1>1. Inv /\ [BufNext]_bufVars => Inv'
  BY StepImplements, StutterKeeps
<1> QED BY <1>1, InitGood, PTL DEF BufSpec

\* The pointers stay in order, so that no assert of buffer.c fails.
THEOREM PointersInOrder == BufSpec => []BufTypeOK
<1>1. Inv => BufTypeOK
  BY DEF Inv
<1> QED BY <1>1, WellFormed, PTL

\* A drained buffer offers its whole capacity again (buffer_read_adv).
THEOREM Rewound == BufSpec => []DrainedIsRewound
<1>1. Inv => DrainedIsRewound
  BY DEF Inv
<1> QED BY <1>1, WellFormed, PTL

\* The buffer is a FIFO: bytes come out once, in order, unchanged.
THEOREM BufferIsFifo == BufSpec => Fifo
<1>1. Inv /\ [BufNext]_bufVars => [Queue!Next]_<<Shown(b, b.write - b.read), out>>
  <2>1. ASSUME UNCHANGED bufVars
        PROVE  UNCHANGED <<Shown(b, b.write - b.read), out>>
    BY <2>1 DEF bufVars, Shown
  <2> QED BY <2>1, StepImplements
<1> QED BY <1>1, InitGood, WellFormed, PTL DEF BufSpec, Fifo, Queue!Spec
=============================================================================
