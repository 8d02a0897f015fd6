---------------------------- MODULE ByteLemmas ----------------------------
(***************************************************************************)
(* What the proofs share: numbers, sequences put together and cut, the     *)
(* messages of a stream, and the login that two parsers read.              *)
(***************************************************************************)
EXTENDS ByteParsers, SequencesExt, FiniteSetTheorems, SequenceTheorems, TLAPS

(***************************************************************************)
(* Numbers                                                                 *)
(***************************************************************************)

\* Every set of numbers that is not empty has a least one.
LEMMA LeastExists ==
  ASSUME NEW S \in SUBSET Nat, S # {}
  PROVE  \E n \in S : \A m \in S : n <= m
<1> DEFINE T == {0 .. n : n \in S}
<1>1. T \subseteq FiniteSubsetsOf(Nat) /\ T # {}
  <2>1. \A n \in Nat : 0 .. n \in SUBSET Nat /\ IsFiniteSet(0 .. n)  BY FS_Interval
  <2> QED  BY <2>1 DEF FiniteSubsetsOf
<1>2. PICK x \in T : \A y \in T : ~(<<y, x>> \in StrictSubsetOrdering(Nat))
  <2> HIDE DEF T
  <2> QED  BY <1>1, FS_StrictSubsetOrderingWellFounded, WFMin
<1>3. PICK n \in S : x = 0 .. n  BY <1>2
<1>4. ASSUME NEW m \in S, m < n  PROVE FALSE
  <2>1. 0 .. m \subseteq 0 .. n /\ n \in 0 .. n /\ n \notin 0 .. m /\ 0 .. m \in T
    BY <1>4
  <2>2. <<0 .. m, x>> \in StrictSubsetOrdering(Nat)
    BY <1>3, <2>1 DEF StrictSubsetOrdering
  <2> QED  BY <1>2, <2>1, <2>2
<1> QED  BY <1>4

LEMMA ModParts ==
  ASSUME NEW x \in Int, NEW M \in Nat \ {0}
  PROVE  x % M \in 0 .. M - 1 /\ x \div M \in Int /\ x = (x \div M) * M + (x % M)
OBVIOUS

LEMMA ModUnique ==
  ASSUME NEW q \in Int, NEW M \in Nat \ {0}, NEW r \in 0 .. M - 1
  PROVE  (q * M + r) % M = r
OBVIOUS

\* A multiple added leaves the remainder.
LEMMA SameMod ==
  ASSUME NEW y \in Int, NEW k \in Int, NEW M \in Nat \ {0}
  PROVE  (y + k * M) % M = y % M
<1>1. PICK q \in Int, r \in 0 .. M - 1 : r = y % M /\ y = q * M + r
  BY ModParts
<1>2. q + k \in Int /\ (q + k) * M = q * M + k * M
  OBVIOUS
<1>3. y + k * M = (q + k) * M + r
  BY <1>1, <1>2
<1>4. ((q + k) * M + r) % M = r
  BY <1>2, ModUnique
<1> QED
  BY <1>1, <1>3, <1>4

LEMMA SmallMod ==
  ASSUME NEW M \in Nat \ {0}, NEW r \in 0 .. M - 1
  PROVE  r % M = r
OBVIOUS

LEMMA ModShift ==
  ASSUME NEW z \in Int, NEW d \in Int, NEW M \in Nat \ {0}
  PROVE  ((z % M) + d) % M = (z + d) % M
<1>1. PICK q \in Int, r \in 0 .. M - 1 : r = z % M /\ z = q * M + r
  BY ModParts
<1>2. PICK x \in Int : x = z + d
  OBVIOUS
<1>3. PICK y \in Int : y = r + d
  OBVIOUS
<1>4. x = y + q * M
  <2>1. q * M \in Int
    OBVIOUS
  <2> QED
    BY SMTT(40), <1>1, <1>2, <1>3, <2>1
<1>5. x % M = y % M
  <2>1. (y + q * M) % M = y % M
    BY ZenonT(40), SameMod
  <2> QED
    BY <1>4, <2>1
<1> QED
  BY <1>1, <1>2, <1>3, <1>5

(***************************************************************************)
(* Sequences put together                                                  *)
(***************************************************************************)

\* f[i] is the first i sequences, one after the other.
Joins(f, seqs, n) == \A i \in 1 .. n : f[i] = IF i = 1 THEN seqs[1] ELSE f[i - 1] \o seqs[i]

LEMMA JoinExists ==
  ASSUME NEW S, NEW n \in Nat, NEW seqs \in [1 .. n -> Seq(S)]
  PROVE  \E f \in [1 .. n -> Seq(S)] : Joins(f, seqs, n)
<1> DEFINE Unjoined(k) == k <= n /\ ~ \E f \in [1 .. k -> Seq(S)] : Joins(f, seqs, k)
           Failing == {k \in Nat : Unjoined(k)}
<1>1. SUFFICES ASSUME Failing # {}  PROVE FALSE
  OBVIOUS
<1>2. PICK k \in Failing : \A m \in Failing : k <= m
  <2> HIDE DEF Failing
  <2> QED  BY <1>1, LeastExists DEF Failing
<1>3. k \in Nat /\ k <= n /\ Unjoined(k)
  BY <1>2
<1>a. k # 0
  <2>1. [i \in 1 .. 0 |-> <<>>] \in [1 .. 0 -> Seq(S)]  OBVIOUS
  <2>2. Joins([i \in 1 .. 0 |-> <<>>], seqs, 0)  BY DEF Joins
  <2> QED  BY <1>3, <2>1, <2>2
<1>4. k - 1 \in Nat /\ k - 1 < k /\ k - 1 <= n /\ k - 1 \notin Failing
  <2>1. k - 1 \in Nat /\ k - 1 < k /\ k - 1 <= n  BY <1>3, <1>a
  <2> HIDE DEF Failing
  <2> QED  BY <1>2, <2>1, <1>3
<1>5. PICK f \in [1 .. k - 1 -> Seq(S)] : Joins(f, seqs, k - 1)
  BY <1>4
<1>6. DEFINE g == [i \in 1 .. k |-> IF i < k THEN f[i]
                                   ELSE IF k = 1 THEN seqs[1] ELSE f[k - 1] \o seqs[k]]
<1>7. g \in [1 .. k -> Seq(S)]
  <2>1. k # 1 => f[k - 1] \o seqs[k] \in Seq(S)
    <3>1. k # 1 => f[k - 1] \in Seq(S) /\ seqs[k] \in Seq(S)
      BY <1>3, <1>4, <1>5
    <3> QED  BY <3>1, ConcatProperties
  <2>2. \A i \in 1 .. k : i < k => f[i] \in Seq(S)
    BY <1>4, <1>5
  <2>3. k = 1 => seqs[1] \in Seq(S)
    BY <1>4
  <2> QED  BY <2>1, <2>2, <2>3, <1>4
<1>8. Joins(g, seqs, k)
  <2>1. \A i \in 1 .. k : i < k => g[i] = f[i]
    BY <1>4
  <2>2. g[k] = IF k = 1 THEN seqs[1] ELSE f[k - 1] \o seqs[k]
    BY <1>3, <1>4
  <2>3. \A i \in 1 .. k - 1 : f[i] = IF i = 1 THEN seqs[1] ELSE f[i - 1] \o seqs[i]
    BY <1>5 DEF Joins
  <2> HIDE DEF g
  <2>4. ASSUME NEW i \in 1 .. k
        PROVE  g[i] = IF i = 1 THEN seqs[1] ELSE g[i - 1] \o seqs[i]
    <3>1. i # 1 => i - 1 \in 1 .. k /\ i - 1 < k  BY <1>4
    <3>2. CASE i < k
      <4>1. i \in 1 .. k - 1  BY <3>2, <1>4
      <4> QED  BY <2>1, <2>3, <3>1, <3>2, <4>1
    <3>3. CASE i = k
      BY <2>1, <2>2, <3>1, <3>3
    <3> QED  BY <3>2, <3>3, <1>4
  <2> QED  BY <2>4 DEF Joins
<1> QED  BY <1>2, <1>7, <1>8

LEMMA JoinUnique ==
  ASSUME NEW f, NEW g, NEW seqs, NEW k \in Nat \ {0},
         Joins(f, seqs, k), Joins(g, seqs, k)
  PROVE  f[k] = g[k]
<1> DEFINE Apart == {i \in 1 .. k : f[i] # g[i]}
<1>1. SUFFICES ASSUME Apart # {}  PROVE FALSE
  <2>1. k \in 1 .. k  OBVIOUS
  <2> QED  BY <2>1
<1>2. PICK i \in Apart : \A m \in Apart : i <= m
  <2>1. Apart \in SUBSET Nat  OBVIOUS
  <2> HIDE DEF Apart
  <2> QED  BY <1>1, <2>1, LeastExists
<1>3. i \in 1 .. k  BY <1>2
<1>4. f[i] = (IF i = 1 THEN seqs[1] ELSE f[i - 1] \o seqs[i])
      /\ g[i] = (IF i = 1 THEN seqs[1] ELSE g[i - 1] \o seqs[i])
  BY <1>3 DEF Joins
<1>5. i # 1 => f[i - 1] = g[i - 1]
  BY <1>2, <1>3
<1> QED  BY <1>2, <1>4, <1>5

\* What FlattenSeq computes.
LEMMA FlattenJoins ==
  ASSUME NEW S, NEW n \in Nat \ {0}, NEW seqs \in [1 .. n -> Seq(S)],
         NEW f \in [1 .. n -> Seq(S)], Joins(f, seqs, n)
  PROVE  FlattenSeq(seqs) = f[n]
<1> DEFINE Equation(h) == h = [i \in 1 .. Len(seqs) |-> IF i = 1 THEN seqs[i] ELSE h[i - 1] \o seqs[i]]
           flatten == CHOOSE h : Equation(h)
<1>1. Len(seqs) = n  OBVIOUS
<1>2. FlattenSeq(seqs) = flatten[n]
  BY <1>1 DEF FlattenSeq
<1>3. Equation(f)
  BY <1>1 DEF Joins
<1>4. Equation(flatten)
  <2> HIDE DEF Equation
  <2> QED  BY <1>3
<1>5. Joins(flatten, seqs, n)
  <2> HIDE DEF flatten
  <2> QED  BY ZenonT(40), <1>1, <1>4 DEF Joins
<1>6. n \in 1 .. n  OBVIOUS
<1> HIDE DEF flatten
<1>7. flatten[n] = f[n]
  BY <1>5, <1>6, JoinUnique
<1> QED  BY <1>2, <1>7

LEMMA FlattenEmpty == ASSUME NEW seqs, seqs = <<>>  PROVE  FlattenSeq(seqs) = <<>>
BY DEF FlattenSeq

LEMMA FlattenType ==
  ASSUME NEW S, NEW n \in Nat, NEW seqs \in [1 .. n -> Seq(S)]
  PROVE  FlattenSeq(seqs) \in Seq(S)
<1>1. CASE n = 0
  <2>1. seqs = <<>>  BY <1>1
  <2> QED  BY <2>1, FlattenEmpty, EmptySeq
<1>2. CASE n # 0
  <2>1. PICK f \in [1 .. n -> Seq(S)] : Joins(f, seqs, n)  BY JoinExists
  <2>2. n \in Nat \ {0} /\ n \in 1 .. n  BY <1>2
  <2>3. FlattenSeq(seqs) = f[n]  BY <2>1, <2>2, FlattenJoins
  <2> QED  BY <2>1, <2>2, <2>3
<1> QED  BY <1>1, <1>2

LEMMA FlattenLast ==
  ASSUME NEW S, NEW n \in Nat \ {0}, NEW seqs \in [1 .. n -> Seq(S)],
         NEW first, first = [i \in 1 .. n - 1 |-> seqs[i]]
  PROVE  FlattenSeq(seqs) = FlattenSeq(first) \o seqs[n]
<1>1. PICK f \in [1 .. n -> Seq(S)] : Joins(f, seqs, n)  BY JoinExists
<1>2. FlattenSeq(seqs) = f[n]  BY <1>1, FlattenJoins
<1>3. f[n] = IF n = 1 THEN seqs[1] ELSE f[n - 1] \o seqs[n]
  <2>1. n \in 1 .. n  OBVIOUS
  <2> QED  BY <1>1, <2>1 DEF Joins
<1>4. CASE n = 1
  <2>1. first = <<>>  BY <1>4
  <2>2. FlattenSeq(first) = <<>>  BY <2>1, FlattenEmpty
  <2>3. seqs[n] \in Seq(S)  OBVIOUS
  <2>4. <<>> \o seqs[n] = seqs[n]  BY <2>3, ConcatEmptySeq
  <2> QED  BY <1>2, <1>3, <1>4, <2>2, <2>4
<1>5. CASE n # 1
  <2>p. PICK before \in Nat : before = n - 1  OBVIOUS
  <2>0. before \in Nat \ {0} /\ before <= n /\ before \in 1 .. before /\ 1 \in 1 .. before  BY <1>5, <2>p
  <2>1. first \in [1 .. before -> Seq(S)] /\ first = [i \in 1 .. before |-> seqs[i]]
    BY <2>0, <2>p
  <2>a. \A i \in 1 .. before : first[i] = seqs[i] /\ i \in 1 .. n
    BY <2>0, <2>p
  <2>b. first[1] = seqs[1]
    BY <2>a, <2>0
  <2>2. PICK g \in [1 .. before -> Seq(S)] : Joins(g, first, before)  BY <2>0, <2>1, JoinExists
  <2>3. FlattenSeq(first) = g[before]  BY <2>0, <2>1, <2>2, FlattenJoins
  <2>4. Joins(f, first, before)
    BY <1>1, <2>a, <2>b DEF Joins
  <2>5. f[before] = g[before]
    BY ZenonT(40), <2>0, <2>2, <2>4, JoinUnique
  <2> QED  BY <1>2, <1>3, <1>5, <2>3, <2>5, <2>p
<1> QED  BY <1>4, <1>5

(***************************************************************************)
(* The messages of a stream                                                *)
(***************************************************************************)

Messages(s) == s \in Seq(Range(s)) /\ \A i \in DOMAIN s : s[i].bytes \in Seq(Byte)

\* The bytes of the messages k + 1 to n.
BytesOf(s, k, n) == FlattenSeq([i \in 1 .. n - k |-> s[k + i].bytes])

LEMMA MessageBytes ==
  ASSUME NEW s, Messages(s)
  PROVE  /\ Len(s) \in Nat /\ DOMAIN s = 1 .. Len(s)
         /\ \A i \in 1 .. Len(s) : s[i].bytes \in Seq(Byte)
<1>1. s \in Seq(Range(s))  BY DEF Messages
<1>2. Len(s) \in Nat /\ DOMAIN s = 1 .. Len(s)  BY <1>1, LenProperties
<1> QED  BY <1>2 DEF Messages

LEMMA BytesOfType ==
  ASSUME NEW s, Messages(s), NEW k \in Nat, NEW n \in k .. Len(s)
  PROVE  /\ BytesOf(s, k, n) \in Seq(Byte)
         /\ [i \in 1 .. n - k |-> s[k + i].bytes] \in [1 .. n - k -> Seq(Byte)]
<1>1. n - k \in Nat /\ \A i \in 1 .. n - k : k + i \in 1 .. Len(s)
  BY MessageBytes
<1>2. \A i \in 1 .. n - k : s[k + i].bytes \in Seq(Byte)
  BY <1>1, MessageBytes
<1> DEFINE f == [i \in 1 .. n - k |-> s[k + i].bytes]
<1>3. f \in [1 .. n - k -> Seq(Byte)]
  BY <1>2
<1>4. BytesOf(s, k, n) = FlattenSeq(f)
  BY DEF BytesOf
<1> HIDE DEF f
<1>5. FlattenSeq(f) \in Seq(Byte)
  BY <1>1, <1>3, FlattenType
<1> QED  BY <1>3, <1>4, <1>5 DEF f

LEMMA BytesOfNone ==
  ASSUME NEW s, NEW k \in Nat
  PROVE  BytesOf(s, k, k) = <<>>
<1>1. [i \in 1 .. k - k |-> s[k + i].bytes] = <<>>  OBVIOUS
<1> QED  BY <1>1, FlattenEmpty DEF BytesOf

LEMMA BytesOfLast ==
  ASSUME NEW s, Messages(s), NEW k \in Nat, NEW n \in k + 1 .. Len(s)
  PROVE  BytesOf(s, k, n) = BytesOf(s, k, n - 1) \o s[n].bytes
<1>0. Len(s) \in Nat  BY MessageBytes
<1> DEFINE f == [i \in 1 .. n - k |-> s[k + i].bytes]
           g == [i \in 1 .. (n - 1) - k |-> s[k + i].bytes]
<1>1. PICK l \in Nat \ {0} : l = n - k  BY <1>0
<1>2. f \in [1 .. l -> Seq(Byte)]
  <2>1. n \in k .. Len(s)  BY <1>0
  <2> QED  BY <1>1, <2>1, BytesOfType
<1>3. g = [i \in 1 .. l - 1 |-> f[i]]
  BY <1>0, <1>1
<1>4. f[l] = s[n].bytes
  BY <1>0, <1>1
<1>5. BytesOf(s, k, n) = FlattenSeq(f) /\ BytesOf(s, k, n - 1) = FlattenSeq(g)
  BY DEF BytesOf
<1> HIDE DEF f, g
<1>6. FlattenSeq(f) = FlattenSeq(g) \o f[l]
  BY <1>1, <1>2, <1>3, FlattenLast
<1> QED  BY <1>4, <1>5, <1>6

LEMMA BytesOfFirst ==
  ASSUME NEW s, Messages(s), NEW k \in Nat, NEW n \in k + 1 .. Len(s)
  PROVE  BytesOf(s, k, n) = s[k + 1].bytes \o BytesOf(s, k + 1, n)
<1>0. Len(s) \in Nat /\ k + 1 \in Nat  BY MessageBytes
<1> DEFINE Split(m) == BytesOf(s, k, m) = s[k + 1].bytes \o BytesOf(s, k + 1, m)
           Failing == {m \in k + 1 .. Len(s) : ~ Split(m)}
<1>1. SUFFICES ASSUME Failing # {}  PROVE FALSE
  OBVIOUS
<1>2. PICK m \in Failing : \A l \in Failing : m <= l
  <2>1. \A l \in Failing : l \in Nat  BY <1>0
  <2> HIDE DEF Failing
  <2> QED  BY <1>1, <2>1, LeastExists
<1>3. m \in k + 1 .. Len(s) /\ ~Split(m)  BY <1>2
<1>4. m - 1 \notin Failing
  <2>1. m - 1 < m /\ m - 1 \in Int /\ m \in Int /\ \A l \in Failing : l \in Int  BY <1>0, <1>3
  <2> HIDE DEF Failing
  <2> QED  BY <1>2, <2>1
<1>5. s[m].bytes \in Seq(Byte) /\ s[k + 1].bytes \in Seq(Byte)
  <2>1. m \in 1 .. Len(s) /\ k + 1 \in 1 .. Len(s)  BY <1>0, <1>3
  <2> QED  BY <2>1, MessageBytes
<1>6. BytesOf(s, k, m) = BytesOf(s, k, m - 1) \o s[m].bytes
  BY <1>3, BytesOfLast
<1>7. CASE m = k + 1
  <2>1. BytesOf(s, k, m - 1) = <<>> /\ BytesOf(s, k + 1, m) = <<>>
    <3>1. m - 1 = k  BY <1>7
    <3> QED  BY <1>0, <1>7, <3>1, BytesOfNone
  <2>2. <<>> \o s[m].bytes = s[m].bytes /\ s[m].bytes \o <<>> = s[m].bytes
    BY SMTT(30), <1>5, ConcatEmptySeq
  <2> QED  BY <1>3, <1>6, <1>7, <2>1, <2>2
<1>8. CASE m # k + 1
  <2>1. Split(m - 1)
    <3>1. m - 1 \in k + 1 .. Len(s)  BY <1>0, <1>3, <1>8
    <3> QED  BY <1>4, <3>1
  <2>2. BytesOf(s, k + 1, m) = BytesOf(s, k + 1, m - 1) \o s[m].bytes
    <3>1. m \in (k + 1) + 1 .. Len(s)  BY <1>0, <1>3, <1>8
    <3> QED  BY <1>0, <3>1, BytesOfLast
  <2>3. BytesOf(s, k + 1, m - 1) \in Seq(Byte)
    <3>1. m - 1 \in k + 1 .. Len(s)  BY <1>0, <1>3, <1>8
    <3> QED  BY SMTT(40), <1>0, <3>1, BytesOfType
  <2>4. (s[k + 1].bytes \o BytesOf(s, k + 1, m - 1)) \o s[m].bytes
        = s[k + 1].bytes \o (BytesOf(s, k + 1, m - 1) \o s[m].bytes)
    <3>1. PICK a \in Seq(Byte), b \in Seq(Byte), c \in Seq(Byte) :
            a = s[k + 1].bytes /\ b = BytesOf(s, k + 1, m - 1) /\ c = s[m].bytes
      BY <1>5, <2>3
    <3>2. (a \o b) \o c = a \o (b \o c)  BY SMTT(60), ConcatAssociative
    <3> QED  BY <3>1, <3>2
  <2> QED  BY ZenonT(30), <1>3, <1>6, <2>1, <2>2, <2>4
<1> QED  BY <1>7, <1>8
(***************************************************************************)
(* Bytes and strings                                                       *)
(***************************************************************************)

LEMMA ByteSize == \A x \in Byte \ {0} : x \in 1 .. 255 /\ x \in Nat /\ x # 0 /\ x \in Byte
BY DEF Byte

LEMMA SubSeqIs ==
  ASSUME NEW b \in Seq(Byte), NEW t \in Seq(Byte), NEW first \in Nat \ {0}, NEW last \in Int,
         last = first + Len(t) - 1, \A i \in 1 .. Len(t) : b[first - 1 + i] = t[i]
  PROVE  SubSeq(b, first, last) = t
<1>0. Len(t) \in Nat  BY LenProperties
<1>1. \A i \in first .. last : b[i] \in Byte
  <2>1. ASSUME NEW i \in first .. last  PROVE b[i] \in Byte
    <3>1. PICK k \in 1 .. Len(t) : k = i - first + 1  BY <1>0
    <3>2. first - 1 + k = i  BY <1>0, <3>1
    <3>3. t[k] \in Byte  BY <3>1, ElementOfSeq
    <3> QED  BY <3>1, <3>2, <3>3
  <2> QED  BY <2>1
<1>2. PICK s \in Seq(Byte) : s = SubSeq(b, first, last) /\ Len(s) = Len(t)
                             /\ \A i \in 1 .. last - first + 1 : s[i] = b[first + i - 1]
  <2>1. /\ SubSeq(b, first, last) \in Seq(Byte)
        /\ Len(SubSeq(b, first, last)) = IF first <= last THEN last - first + 1 ELSE 0
        /\ \A i \in 1 .. last - first + 1 : SubSeq(b, first, last)[i] = b[first + i - 1]
    BY <1>1, SubSeqProperties
  <2>2. (IF first <= last THEN last - first + 1 ELSE 0) = Len(t)  BY <1>0
  <2> QED  BY <2>1, <2>2
<1>3. ASSUME NEW i \in 1 .. Len(t)  PROVE t[i] = s[i]
  <2>1. i \in 1 .. last - first + 1 /\ first + i - 1 = first - 1 + i  BY SMTT(40), <1>0
  <2> QED  BY <1>2, <2>1
<1> QED  BY <1>2, <1>3, SeqEqual

LEMMA ConcatParts ==
  ASSUME NEW a \in Seq(Byte), NEW z \in Seq(Byte)
  PROVE  /\ a \o z \in Seq(Byte) /\ Len(a \o z) = Len(a) + Len(z)
         /\ \A i \in 1 .. Len(a) : (a \o z)[i] = a[i]
         /\ \A i \in 1 .. Len(z) : (a \o z)[Len(a) + i] = z[i]
<1>0. Len(a) \in Nat /\ Len(z) \in Nat  BY LenProperties
<1>1. /\ a \o z \in Seq(Byte) /\ Len(a \o z) = Len(a) + Len(z)
      /\ \A i \in 1 .. Len(a) + Len(z) : (a \o z)[i] = IF i <= Len(a) THEN a[i] ELSE z[i - Len(a)]
  BY ConcatProperties
<1>2. \A i \in 1 .. Len(a) : i \in 1 .. Len(a) + Len(z) /\ i <= Len(a)  BY <1>0
<1>3. \A i \in 1 .. Len(z) : /\ Len(a) + i \in 1 .. Len(a) + Len(z) /\ ~(Len(a) + i <= Len(a))
                             /\ Len(a) + i - Len(a) = i
  BY <1>0
<1> QED  BY <1>1, <1>2, <1>3

LEMMA Pasted ==
  ASSUME NEW a \in Seq(Byte), NEW z \in Seq(Byte)
  PROVE  \E d \in Seq(Byte) : /\ d = a \o z /\ Len(d) = Len(a) + Len(z)
                              /\ \A i \in 1 .. Len(a) : d[i] = a[i]
                              /\ \A i \in 1 .. Len(z) : d[Len(a) + i] = z[i]
BY ZenonT(40), ConcatParts

\* A byte in front of a sequence.
LEMMA OnePrefix ==
  ASSUME NEW x \in Byte, NEW s \in Seq(Byte)
  PROVE  /\ <<x>> \o s \in Seq(Byte) /\ Len(<<x>> \o s) = 1 + Len(s) /\ (<<x>> \o s)[1] = x
         /\ \A i \in 1 .. Len(s) : (<<x>> \o s)[1 + i] = s[i]
<1>1. <<x>> \in Seq(Byte) /\ Len(<<x>>) = 1 /\ <<x>>[1] = x /\ Len(s) \in Nat  OBVIOUS
<1>2. PICK a \in Seq(Byte) : a = <<x>>  BY <1>1
<1>3. /\ a \o s \in Seq(Byte) /\ Len(a \o s) = Len(a) + Len(s)
      /\ \A i \in 1 .. Len(a) + Len(s) : (a \o s)[i] = IF i <= Len(a) THEN a[i] ELSE s[i - Len(a)]
  BY ConcatProperties
<1>4. (a \o s)[1] = x  BY <1>1, <1>2, <1>3
<1>5. ASSUME NEW i \in 1 .. Len(s)  PROVE (a \o s)[1 + i] = s[i]
  <2>1. 1 + i \in 1 .. Len(a) + Len(s) /\ ~(1 + i <= Len(a)) /\ 1 + i - Len(a) = i
    BY <1>1, <1>2
  <2> QED  BY <1>3, <2>1
<1> QED  BY <1>1, <1>2, <1>3, <1>4, <1>5

LEMMA StrParts ==
  ASSUME NEW s \in Seq(Byte), Len(s) \in Byte
  PROVE  /\ Str(s) \in Seq(Byte) /\ Len(Str(s)) = 1 + Len(s) /\ Str(s)[1] = Len(s)
         /\ \A i \in 1 .. Len(s) : Str(s)[1 + i] = s[i]
BY OnePrefix DEF Str

\* A version and a field.
LEMMA FieldParts ==
  ASSUME NEW v \in Byte, NEW name \in Seq(Byte), Len(name) \in Byte
  PROVE  /\ <<v>> \o Str(name) \in Seq(Byte) /\ Len(<<v>> \o Str(name)) = 2 + Len(name)
         /\ (<<v>> \o Str(name))[1] = v /\ (<<v>> \o Str(name))[2] = Len(name)
         /\ \A i \in 1 .. Len(name) : (<<v>> \o Str(name))[2 + i] = name[i]
<1>0. PICK n \in Nat : n = Len(name)  BY DEF Byte
<1>1. PICK t \in Seq(Byte) : /\ t = Str(name) /\ Len(t) = 1 + n /\ t[1] = n
                             /\ \A i \in 1 .. n : t[1 + i] = name[i]
  BY <1>0, StrParts
<1> DEFINE a == <<v>> \o t
<1>2. /\ a \in Seq(Byte) /\ Len(a) = 1 + Len(t) /\ a[1] = v
      /\ \A i \in 1 .. Len(t) : a[1 + i] = t[i]
  BY OnePrefix
<1> HIDE DEF a
<1>3. 1 + (1 + n) = 2 + n /\ 1 \in 1 .. 1 + n /\ 1 + 1 = 2  OBVIOUS
<1>4. a[2] = n  BY <1>1, <1>2, <1>3
<1>5. ASSUME NEW i \in 1 .. n  PROVE a[2 + i] = name[i]
  <2>1. 1 + i \in 1 .. 1 + n /\ 1 + (1 + i) = 2 + i  OBVIOUS
  <2> QED  BY <1>1, <1>2, <2>1
<1>6. Len(a) = 2 + n  BY <1>1, <1>2, <1>3
<1>7. a = <<v>> \o Str(name)  BY <1>1 DEF a
<1> QED  BY SMTT(40), <1>0, <1>2, <1>4, <1>5, <1>6, <1>7

\* The string after j bytes, and after one more.
LEMMA StringGrows ==
  ASSUME NEW b \in Seq(Byte), NEW first \in Nat \ {0}, NEW j \in Nat, j < Len(b), first <= j + 1
  PROVE  /\ SubSeq(b, first, j) \in Seq(Byte) /\ SubSeq(b, first, j + 1) \in Seq(Byte)
         /\ Append(SubSeq(b, first, j), b[j + 1]) = SubSeq(b, first, j + 1)
         /\ Len(SubSeq(b, first, j + 1)) = j + 2 - first
<1>0. Len(b) \in Nat  BY LenProperties
<1>1. \A i \in first .. j + 1 : b[i] \in Byte
  <2>1. ASSUME NEW i \in first .. j + 1  PROVE b[i] \in Byte
    <3>1. i \in 1 .. Len(b)  BY <1>0
    <3> QED  BY <3>1, ElementOfSeq
  <2> QED  BY <2>1
<1>2. PICK x \in Byte : x = b[j + 1]
  <2>1. j + 1 \in first .. j + 1  OBVIOUS
  <2> QED  BY <1>1, <2>1
<1>3. PICK s \in Seq(Byte) : s = SubSeq(b, first, j) /\ Len(s) = j + 1 - first
                             /\ \A i \in 1 .. j - first + 1 : s[i] = b[first + i - 1]
  <2>1. \A i \in first .. j : b[i] \in Byte
    <3>1. \A i \in first .. j : i \in first .. j + 1  OBVIOUS
    <3> QED  BY <1>1, <3>1
  <2>2. /\ SubSeq(b, first, j) \in Seq(Byte)
        /\ Len(SubSeq(b, first, j)) = IF first <= j THEN j - first + 1 ELSE 0
        /\ \A i \in 1 .. j - first + 1 : SubSeq(b, first, j)[i] = b[first + i - 1]
    BY SMTT(40), <2>1, SubSeqProperties
  <2>3. (IF first <= j THEN j - first + 1 ELSE 0) = j + 1 - first  OBVIOUS
  <2> QED  BY <2>2, <2>3
<1>4. PICK t \in Seq(Byte) : t = SubSeq(b, first, j + 1) /\ Len(t) = j + 2 - first
                             /\ \A i \in 1 .. j + 1 - first + 1 : t[i] = b[first + i - 1]
  <2>m. PICK m \in Nat : m = j + 1  OBVIOUS
  <2>n. \A i \in first .. m : b[i] \in Byte  BY <1>1, <2>m
  <2>r. /\ SubSeq(b, first, m) \in Seq(Byte)
        /\ Len(SubSeq(b, first, m)) = IF first <= m THEN m - first + 1 ELSE 0
        /\ \A i \in 1 .. m - first + 1 : SubSeq(b, first, m)[i] = b[first + i - 1]
    BY SMTT(60), <2>n, SubSeqProperties
  <2>1. /\ SubSeq(b, first, j + 1) \in Seq(Byte)
        /\ Len(SubSeq(b, first, j + 1)) = IF first <= j + 1 THEN j + 1 - first + 1 ELSE 0
        /\ \A i \in 1 .. j + 1 - first + 1 : SubSeq(b, first, j + 1)[i] = b[first + i - 1]
    BY <2>m, <2>r
  <2>2. (IF first <= j + 1 THEN j + 1 - first + 1 ELSE 0) = j + 2 - first  OBVIOUS
  <2> QED  BY <2>1, <2>2
<1>5. Append(s, x) = t
  <2>1. /\ Append(s, x) \in Seq(Byte) /\ Len(Append(s, x)) = Len(s) + 1
        /\ \A i \in 1 .. Len(s) : Append(s, x)[i] = s[i]
        /\ Append(s, x)[Len(s) + 1] = x
    BY AppendProperties
  <2>2. ASSUME NEW i \in 1 .. Len(t)  PROVE Append(s, x)[i] = t[i]
    <3>1. CASE i \in 1 .. Len(s)
      BY <1>3, <1>4, <2>1, <3>1
    <3>2. CASE i = Len(s) + 1
      BY <1>2, <1>3, <1>4, <2>1, <3>2
    <3> QED  BY <1>3, <1>4, <3>1, <3>2
  <2>3. Len(t) = Len(Append(s, x))  BY <1>3, <1>4, <2>1
  <2> QED  BY <2>1, <2>2, <2>3, SeqEqual
<1> QED  BY <1>2, <1>3, <1>4, <1>5

LEMMA AppendPair ==
  ASSUME NEW s, NEW x
  PROVE  (s = <<>> => Append(s, x) = <<x>>) /\ \A y : s = <<y>> => Append(s, x) = <<y, x>>
<1>1. Append(<<>>, x) = <<x>>  OBVIOUS
<1>2. ASSUME NEW y  PROVE Append(<<y>>, x) = <<y, x>>
  <2> DEFINE S == {x, y}
  <2>1. x \in S /\ y \in S  OBVIOUS
  <2> HIDE DEF S
  <2>2. <<y>> \in Seq(S) /\ <<y, x>> \in Seq(S)  BY <2>1
  <2>3. PICK a \in Seq(S), d \in Seq(S) : /\ a = <<y>> /\ Len(a) = 1 /\ a[1] = y
                                          /\ d = <<y, x>> /\ Len(d) = 2 /\ d[1] = y /\ d[2] = x
    BY <2>2
  <2>4. /\ Append(a, x) \in Seq(S) /\ Len(Append(a, x)) = Len(a) + 1
        /\ \A i \in 1 .. Len(a) : Append(a, x)[i] = a[i]
        /\ Append(a, x)[Len(a) + 1] = x
    BY <2>1, AppendProperties
  <2>5. Append(a, x)[1] = d[1] /\ Append(a, x)[2] = d[2] /\ Len(Append(a, x)) = 2  BY <2>3, <2>4
  <2>6. \A i \in 1 .. 2 : i = 1 \/ i = 2  OBVIOUS
  <2>7. Append(a, x) = d  BY ZenonT(40), <2>3, <2>4, <2>5, <2>6, SeqEqual
  <2> QED  BY <2>3, <2>7
<1> QED  BY <1>1, <1>2

LEMMA Cut ==
  ASSUME NEW s \in Seq(Byte), NEW n \in 0 .. Len(s)
  PROVE  /\ SubSeq(s, 1, n) \in Seq(Byte) /\ Len(SubSeq(s, 1, n)) = n
         /\ \A i \in 1 .. n : SubSeq(s, 1, n)[i] = s[i]
         /\ SubSeq(s, n + 1, Len(s)) \in Seq(Byte) /\ Len(SubSeq(s, n + 1, Len(s))) = Len(s) - n
         /\ \A i \in 1 .. Len(s) - n : SubSeq(s, n + 1, Len(s))[i] = s[n + i]
<1>0. PICK l \in Nat : l = Len(s)  BY LenProperties
<1>1. \A i \in 1 .. l : s[i] \in Byte  BY <1>0, ElementOfSeq
<1>2. /\ SubSeq(s, 1, n) \in Seq(Byte)
      /\ Len(SubSeq(s, 1, n)) = IF 1 <= n THEN n - 1 + 1 ELSE 0
      /\ \A i \in 1 .. n - 1 + 1 : SubSeq(s, 1, n)[i] = s[1 + i - 1]
  <2>1. \A i \in 1 .. n : s[i] \in Byte  BY <1>0, <1>1
  <2>2. 1 \in Int /\ n \in Int  BY <1>0
  <2> QED  BY <2>1, <2>2, SubSeqProperties
<1>3. (IF 1 <= n THEN n - 1 + 1 ELSE 0) = n /\ n - 1 + 1 = n /\ \A i \in 1 .. n : 1 + i - 1 = i
  BY <1>0
<1>4. /\ SubSeq(s, n + 1, l) \in Seq(Byte)
      /\ Len(SubSeq(s, n + 1, l)) = IF n + 1 <= l THEN l - (n + 1) + 1 ELSE 0
      /\ \A i \in 1 .. l - (n + 1) + 1 : SubSeq(s, n + 1, l)[i] = s[(n + 1) + i - 1]
  <2>1. \A i \in n + 1 .. l : s[i] \in Byte  BY <1>0, <1>1
  <2>2. n + 1 \in Int /\ l \in Int  BY <1>0
  <2> QED  BY <2>1, <2>2, SubSeqProperties
<1>5. (IF n + 1 <= l THEN l - (n + 1) + 1 ELSE 0) = l - n /\ l - (n + 1) + 1 = l - n
      /\ \A i \in 1 .. l - n : (n + 1) + i - 1 = n + i
  BY <1>0
<1>6. Len(SubSeq(s, 1, n)) = n /\ \A i \in 1 .. n : SubSeq(s, 1, n)[i] = s[i]
  BY <1>2, <1>3
<1>7. Len(SubSeq(s, n + 1, l)) = l - n /\ \A i \in 1 .. l - n : SubSeq(s, n + 1, l)[i] = s[n + i]
  BY <1>4, <1>5
<1> QED  BY <1>0, <1>2, <1>4, <1>6, <1>7

(***************************************************************************)
(* A part of a stream                                                      *)
(***************************************************************************)

\* s is what t has after its first u bytes.
Lies(s, t, u) ==
  s \in Seq(Byte) /\ u + Len(s) <= Len(t) /\ \A i \in 1 .. Len(s) : s[i] = t[u + i]

LEMMA LiesNone == ASSUME NEW t \in Seq(Byte), NEW u \in Nat, u <= Len(t), NEW e, e = <<>>  PROVE Lies(e, t, u)
<1>1. e \in Seq(Byte) /\ Len(e) = 0  BY EmptySeq
<1> QED  BY <1>1 DEF Lies

LEMMA LiesCut ==
  ASSUME NEW s, NEW t \in Seq(Byte), NEW u \in Nat, Lies(s, t, u), NEW n \in 0 .. Len(s)
  PROVE  Lies(SubSeq(s, 1, n), t, u) /\ Lies(SubSeq(s, n + 1, Len(s)), t, u + n)
<1>0. PICK l \in Nat, k \in Nat : l = Len(s) /\ k = Len(t) /\ n \in 0 .. l  BY LenProperties DEF Lies
<1>1. s \in Seq(Byte) /\ u + l <= k /\ \A i \in 1 .. l : s[i] = t[u + i]  BY <1>0 DEF Lies
<1>2. PICK a, c : a = SubSeq(s, 1, n) /\ c = SubSeq(s, n + 1, Len(s))  OBVIOUS
<1>3. /\ a \in Seq(Byte) /\ Len(a) = n /\ \A i \in 1 .. n : a[i] = s[i]
      /\ c \in Seq(Byte) /\ Len(c) = l - n /\ \A i \in 1 .. l - n : c[i] = s[n + i]
  BY SMTT(40), <1>0, <1>1, <1>2, Cut
<1>4. Lies(a, t, u)
  <2>1. u + n <= k /\ \A i \in 1 .. n : i \in 1 .. l  BY <1>0, <1>1
  <2> QED  BY <1>0, <1>1, <1>3, <2>1 DEF Lies
<1>5. Lies(c, t, u + n)
  <2>1. (u + n) + (l - n) <= k  BY <1>0, <1>1
  <2>2. ASSUME NEW i \in 1 .. l - n  PROVE c[i] = t[(u + n) + i]
    <3>1. n + i \in 1 .. l /\ u + (n + i) = (u + n) + i  BY <1>0
    <3>2. s[n + i] = t[u + (n + i)]  BY <1>1, <3>1
    <3> QED  BY <1>3, <3>1, <3>2
  <2> QED  BY <1>0, <1>3, <2>1, <2>2 DEF Lies
<1> QED  BY <1>2, <1>4, <1>5

LEMMA LiesJoin ==
  ASSUME NEW s, NEW r, NEW t \in Seq(Byte), NEW u \in Nat, Lies(s, t, u), Lies(r, t, u + Len(s))
  PROVE  Lies(s \o r, t, u) /\ Len(s \o r) = Len(s) + Len(r)
<1>0. s \in Seq(Byte) /\ r \in Seq(Byte)  BY DEF Lies
<1>1. PICK l \in Nat, k \in Nat, n \in Nat : l = Len(s) /\ k = Len(r) /\ n = Len(t)  BY <1>0, LenProperties
<1>2. PICK d \in Seq(Byte) :
        /\ d = s \o r /\ Len(d) = Len(s) + Len(r)
        /\ \A i \in 1 .. Len(s) : d[i] = s[i]
        /\ \A i \in 1 .. Len(r) : d[Len(s) + i] = r[i]
  BY <1>0, Pasted
<1>3. /\ u + l <= n /\ \A i \in 1 .. l : s[i] = t[u + i]
      /\ (u + l) + k <= n /\ \A i \in 1 .. k : r[i] = t[(u + l) + i]
  BY <1>1 DEF Lies
<1>4. ASSUME NEW i \in 1 .. l + k  PROVE d[i] = t[u + i]
  <2>1. CASE i \in 1 .. l  BY <1>1, <1>2, <1>3, <2>1
  <2>2. CASE i \notin 1 .. l
    <3>0. i - l \in 1 .. k /\ i = l + (i - l)  BY <2>2
    <3>1. PICK h \in 1 .. k : i = l + h  BY <3>0
    <3>2. d[l + h] = r[h]  BY <1>1, <1>2
    <3>3. r[h] = t[(u + l) + h]  BY <1>3
    <3>4. (u + l) + h = u + i  BY <1>1, <3>1
    <3> QED  BY <3>1, <3>2, <3>3, <3>4
  <2> QED  BY <2>1, <2>2
<1>5. u + (l + k) <= n  BY <1>1, <1>3
<1> QED  BY <1>1, <1>2, <1>4, <1>5 DEF Lies

\* Bytes in front of the stream, and behind it.
LEMMA LiesBehind ==
  ASSUME NEW s, NEW a \in Seq(Byte), NEW z \in Seq(Byte), NEW u \in Nat, Lies(s, a \o z, Len(a) + u)
  PROVE  Lies(s, z, u)
<1>1. PICK l \in Nat, k \in Nat, n \in Nat : l = Len(s) /\ k = Len(a) /\ n = Len(z)
  BY LenProperties DEF Lies
<1>2. PICK d \in Seq(Byte) :
        /\ d = a \o z /\ Len(d) = Len(a) + Len(z)
        /\ \A i \in 1 .. Len(a) : d[i] = a[i]
        /\ \A i \in 1 .. Len(z) : d[Len(a) + i] = z[i]
  BY Pasted
<1>3. s \in Seq(Byte) /\ (k + u) + l <= k + n /\ \A i \in 1 .. l : s[i] = d[(k + u) + i]
  BY <1>1, <1>2 DEF Lies
<1>4. ASSUME NEW i \in 1 .. l  PROVE s[i] = z[u + i]
  <2>1. u + i \in 1 .. n /\ k + (u + i) = (k + u) + i  BY SMTT(40), <1>1, <1>3
  <2>2. d[k + (u + i)] = z[u + i]  BY <1>1, <1>2, <2>1
  <2> QED  BY <1>3, <2>1, <2>2
<1>5. u + l <= n  BY <1>1, <1>3
<1> QED  BY <1>1, <1>3, <1>4, <1>5 DEF Lies

LEMMA LiesBefore ==
  ASSUME NEW s, NEW a \in Seq(Byte), NEW z \in Seq(Byte), NEW u \in Nat, Lies(s, a, u)
  PROVE  Lies(s, a \o z, u)
<1>1. PICK l \in Nat, k \in Nat, n \in Nat : l = Len(s) /\ k = Len(a) /\ n = Len(z)
  BY LenProperties DEF Lies
<1>2. PICK d \in Seq(Byte) :
        /\ d = a \o z /\ Len(d) = Len(a) + Len(z)
        /\ \A i \in 1 .. Len(a) : d[i] = a[i]
        /\ \A i \in 1 .. Len(z) : d[Len(a) + i] = z[i]
  BY Pasted
<1>3. s \in Seq(Byte) /\ u + l <= k /\ \A i \in 1 .. l : s[i] = a[u + i]
  BY <1>1 DEF Lies
<1>4. ASSUME NEW i \in 1 .. l  PROVE s[i] = d[u + i]
  <2>1. u + i \in 1 .. k  BY <1>1, <1>3
  <2>2. d[u + i] = a[u + i]  BY <1>1, <1>2, <2>1
  <2> QED  BY <1>3, <2>2
<1>5. u + l <= k + n  BY <1>1, <1>3
<1> QED  BY <1>1, <1>2, <1>3, <1>4, <1>5 DEF Lies

LEMMA LiesAfter ==
  ASSUME NEW a \in Seq(Byte), NEW z \in Seq(Byte)
  PROVE  Lies(z, a \o z, Len(a)) /\ Lies(a, a \o z, 0) /\ Len(a \o z) = Len(a) + Len(z)
<1>1. PICK k \in Nat, n \in Nat : k = Len(a) /\ n = Len(z)
  BY LenProperties
<1>2. PICK d \in Seq(Byte) :
        /\ d = a \o z /\ Len(d) = Len(a) + Len(z)
        /\ \A i \in 1 .. Len(a) : d[i] = a[i]
        /\ \A i \in 1 .. Len(z) : d[Len(a) + i] = z[i]
  BY Pasted
<1>3. \A i \in 1 .. k : 0 + i = i  OBVIOUS
<1>4. 0 + k <= k + n  BY <1>1
<1> QED  BY <1>1, <1>2, <1>3, <1>4 DEF Lies

LEMMA LiesWhole ==
  ASSUME NEW s, NEW t \in Seq(Byte), Lies(s, t, 0), Len(s) = Len(t)
  PROVE  s = t
<1>1. s \in Seq(Byte) /\ \A i \in 1 .. Len(s) : s[i] = t[0 + i]  BY DEF Lies
<1>2. \A i \in 1 .. Len(s) : 0 + i = i  BY SMTT(40), <1>1, LenProperties
<1> QED  BY <1>1, <1>2, SeqEqual

(***************************************************************************)
(* The login                                                               *)
(***************************************************************************)

LEMMA StringType ==
  ASSUME NEW s, IsString(s)
  PROVE  s \in Seq(Byte) /\ Len(s) \in Byte /\ Len(s) \in Nat /\ Len(s) <= 255
<1>1. \A x \in Byte \ {0} : x \in Byte  OBVIOUS
<1>2. s \in Seq(Byte \ {0}) /\ Len(s) \in Byte  BY DEF IsString
<1>3. Len(s) \in Nat /\ \A i \in 1 .. Len(s) : s[i] \in Byte \ {0}
  BY <1>2, LenProperties, ElementOfSeq
<1>4. s \in Seq(Byte)
  <2>1. s = [i \in 1 .. Len(s) |-> s[i]] /\ \A i \in 1 .. Len(s) : s[i] \in Byte
    BY SMTT(40), <1>2, <1>3, LenProperties
  <2> QED  BY <1>3, <2>1
<1>5. PICK l \in 0 .. 255 : l = Len(s)  BY <1>2 DEF Byte
<1>6. l <= 255  OBVIOUS
<1> QED  BY <1>2, <1>3, <1>4, <1>5, <1>6

LEMMA FieldType ==
  ASSUME NEW s, IsField(s)
  PROVE  s \in Seq(Byte) /\ Len(s) \in Byte \ {0}
<1>1. s \in Seq(Byte) /\ Len(s) \in Byte /\ s # <<>>  BY StringType DEF IsField
<1>2. Len(s) # 0  BY <1>1, EmptySeq
<1> QED  BY <1>1, <1>2

\* What the bytes b of a login are: it may stop at a wrong version or at an
\* empty field.
LoginBytes(b, seen) ==
  /\ b \in Seq(Byte)
  /\ \/ Len(b) = 1 /\ b[1] # AuthVersion /\ seen = <<>>
     \/ Len(b) = 2 /\ b[1] = AuthVersion /\ b[2] = 0 /\ seen = <<>>
     \/ /\ b[1] = AuthVersion /\ b[2] \in Byte \ {0} /\ b[3 + b[2]] = 0
        /\ Len(b) = 3 + b[2] /\ seen = <<SubSeq(b, 3, 2 + b[2])>>
     \/ /\ b[1] = AuthVersion /\ b[2] \in Byte \ {0} /\ b[3 + b[2]] \in Byte \ {0}
        /\ Len(b) = 3 + b[2] + b[3 + b[2]]
        /\ seen = <<SubSeq(b, 3, 2 + b[2]), SubSeq(b, 4 + b[2], 3 + b[2] + b[3 + b[2]])>>

LEMMA LoginShape ==
  ASSUME NEW m, m.bytes \in Seq(Byte), IsLogin(m)
  PROVE  LoginBytes(m.bytes, m.seen)
<1>1. PICK b \in Seq(Byte) : b = m.bytes  OBVIOUS
<1>a. AuthVersion \in Byte /\ 0 \in Byte  BY DEF AuthVersion, Byte
<1>2. CASE Len(m.seen) = 0
  <2>1. m.seen = <<>> /\ (b = <<AuthVersion, 0>> \/ \E x \in Byte \ {AuthVersion} : b = <<x>>)
    BY <1>1, <1>2 DEF IsLogin
  <2>2. CASE b = <<AuthVersion, 0>>
    <3>1. Len(b) = 2 /\ b[1] = AuthVersion /\ b[2] = 0  BY <2>2
    <3> QED  BY <1>1, <2>1, <3>1 DEF LoginBytes
  <2>3. CASE \E x \in Byte \ {AuthVersion} : b = <<x>>
    <3>1. Len(b) = 1 /\ b[1] # AuthVersion  BY <2>3
    <3> QED  BY <1>1, <2>1, <3>1 DEF LoginBytes
  <2> QED  BY <2>1, <2>2, <2>3
<1>4. CASE Len(m.seen) = 1
  <2>0. IsField(m.seen[1])  BY <1>4 DEF IsLogin
  <2>1. PICK name \in Seq(Byte), n \in Byte \ {0} : name = m.seen[1] /\ n = Len(name)
    BY <2>0, FieldType
  <2>2. m.seen = <<name>> /\ b = (<<AuthVersion>> \o Str(name)) \o <<0>>
    BY <1>1, <1>4, <2>1 DEF IsLogin
  <2>3. n \in Nat /\ n \in Byte  BY ByteSize
  <2>4. PICK a \in Seq(Byte) :
          /\ a = <<AuthVersion>> \o Str(name) /\ Len(a) = 2 + n /\ a[1] = AuthVersion
          /\ a[2] = n /\ \A i \in 1 .. n : a[2 + i] = name[i]
    <3>1. /\ <<AuthVersion>> \o Str(name) \in Seq(Byte) /\ Len(<<AuthVersion>> \o Str(name)) = 2 + n
          /\ (<<AuthVersion>> \o Str(name))[1] = AuthVersion /\ (<<AuthVersion>> \o Str(name))[2] = n
          /\ \A i \in 1 .. n : (<<AuthVersion>> \o Str(name))[2 + i] = name[i]
      BY SMTT(20), <1>a, <2>1, <2>3, FieldParts
    <3> QED  BY <3>1
  <2>5. PICK z \in Seq(Byte) : z = <<0>> /\ Len(z) = 1 /\ z[1] = 0
    <3>1. <<0>> \in Seq(Byte) /\ Len(<<0>>) = 1 /\ <<0>>[1] = 0  BY <1>a
    <3> QED  BY <3>1
  <2>6. 2 + n \in Nat /\ 1 \in Nat /\ (2 + n) + 1 = 3 + n  BY <2>3
  <2>7. /\ Len(a \o z) = (2 + n) + 1 /\ \A i \in 1 .. 2 + n : (a \o z)[i] = a[i]
        /\ \A i \in 1 .. 1 : (a \o z)[(2 + n) + i] = z[i]
    BY SMTT(40), <2>4, <2>5, ConcatParts
  <2>8. b = a \o z  BY <2>2, <2>4, <2>5
  <2>9. Len(b) = 3 + n /\ b[1] = AuthVersion /\ b[2] = n
    <3>1. 1 \in 1 .. 2 + n /\ 2 \in 1 .. 2 + n  BY <2>3
    <3> QED  BY <2>4, <2>6, <2>7, <2>8, <3>1
  <2>10. b[3 + n] = 0
    <3>1. 1 \in 1 .. 1  OBVIOUS
    <3> QED  BY <2>5, <2>6, <2>7, <2>8, <3>1
  <2>11. SubSeq(b, 3, 2 + n) = name
    <3>1. \A i \in 1 .. n : 3 - 1 + i = 2 + i /\ 2 + i \in 1 .. 2 + n  BY SMTT(40), <2>3
    <3>2. \A i \in 1 .. Len(name) : b[3 - 1 + i] = name[i]  BY <2>1, <2>4, <2>7, <2>8, <3>1
    <3>3. 2 + n = 3 + Len(name) - 1 /\ 2 + n \in Int /\ 3 \in Nat \ {0}  BY SMTT(40), <2>1, <2>3
    <3> QED  BY SMTT(40), <3>2, <3>3, SubSeqIs
  <2> QED  BY <1>1, <2>2, <2>9, <2>10, <2>11 DEF LoginBytes
<1>5. CASE Len(m.seen) = 2
  <2>f. IsField(m.seen[1]) /\ IsField(m.seen[2])
    <3>1. 1 \in 1 .. 2 /\ 2 \in 1 .. 2  OBVIOUS
    <3> QED  BY <1>5, <3>1 DEF IsLogin
  <2>0. PICK name \in Seq(Byte), n \in Byte \ {0} : name = m.seen[1] /\ n = Len(name)
    BY <2>f, FieldType
  <2>1. PICK pass \in Seq(Byte), w \in Byte \ {0} : pass = m.seen[2] /\ w = Len(pass)
    BY <2>f, FieldType
  <2>2. m.seen = <<name, pass>> /\ b = (<<AuthVersion>> \o Str(name)) \o Str(pass)
    <3>1. m = Login(AuthVersion, name, pass)  BY <1>5, <2>0, <2>1 DEF IsLogin
    <3> QED  BY <1>1, <3>1 DEF Login
  <2>3. n \in Nat /\ n \in Byte /\ w \in Nat /\ w \in Byte  BY ByteSize
  <2>s. Len(name) = n /\ Len(pass) = w /\ Len(name) \in Byte  BY <2>0, <2>1, <2>3
  <2>4. PICK a \in Seq(Byte) :
          /\ a = <<AuthVersion>> \o Str(name) /\ Len(a) = 2 + n /\ a[1] = AuthVersion
          /\ a[2] = n /\ \A i \in 1 .. n : a[2 + i] = name[i]
    <3>1. /\ <<AuthVersion>> \o Str(name) \in Seq(Byte) /\ Len(<<AuthVersion>> \o Str(name)) = 2 + n
          /\ (<<AuthVersion>> \o Str(name))[1] = AuthVersion /\ (<<AuthVersion>> \o Str(name))[2] = n
          /\ \A i \in 1 .. n : (<<AuthVersion>> \o Str(name))[2 + i] = name[i]
      BY SMTT(40), <1>a, <2>s, FieldParts
    <3> QED  BY <3>1
  <2>5. PICK z \in Seq(Byte) : /\ z = Str(pass) /\ Len(z) = 1 + w /\ z[1] = w
                               /\ \A i \in 1 .. w : z[1 + i] = pass[i]
    BY ZenonT(40), <2>1, <2>3, StrParts
  <2>6. 2 + n \in Nat /\ 1 + w \in Nat /\ (2 + n) + (1 + w) = 3 + n + w /\ (2 + n) + 1 = 3 + n  BY <2>3
  <2>7. /\ Len(a \o z) = (2 + n) + (1 + w) /\ \A i \in 1 .. 2 + n : (a \o z)[i] = a[i]
        /\ \A i \in 1 .. 1 + w : (a \o z)[(2 + n) + i] = z[i]
    BY SMTT(60), <2>4, <2>5, ConcatParts
  <2>8. b = a \o z  BY <2>2, <2>4, <2>5
  <2>a. \A i \in 1 .. 1 + w : b[(2 + n) + i] = z[i]  BY <2>7, <2>8
  <2>9. Len(b) = 3 + n + w /\ b[1] = AuthVersion /\ b[2] = n
    <3>1. 1 \in 1 .. 2 + n /\ 2 \in 1 .. 2 + n  BY <2>3
    <3> QED  BY <2>4, <2>6, <2>7, <2>8, <3>1
  <2>10. b[3 + n] = w
    <3>1. 1 \in 1 .. 1 + w  BY <2>3
    <3> QED  BY ZenonT(40), <2>5, <2>6, <2>7, <2>8, <3>1
  <2>11. SubSeq(b, 3, 2 + n) = name
    <3>1. \A i \in 1 .. n : 3 - 1 + i = 2 + i /\ 2 + i \in 1 .. 2 + n  BY SMTT(40), <2>3
    <3>2. \A i \in 1 .. Len(name) : b[3 - 1 + i] = name[i]  BY <2>0, <2>4, <2>7, <2>8, <3>1
    <3>3. 2 + n = 3 + Len(name) - 1 /\ 2 + n \in Int /\ 3 \in Nat \ {0}  BY <2>0, <2>3
    <3> QED  BY SMTT(40), <3>2, <3>3, SubSeqIs
  <2>12. SubSeq(b, 4 + n, 3 + n + w) = pass
    <3>1. ASSUME NEW i \in 1 .. w  PROVE b[(4 + n) - 1 + i] = pass[i]
      <4>1. 1 + i \in 1 .. 1 + w /\ (4 + n) - 1 + i = (2 + n) + (1 + i)  BY <2>3
      <4>2. b[(2 + n) + (1 + i)] = z[1 + i]  BY <2>a, <4>1
      <4> QED  BY <2>5, <4>1, <4>2
    <3>2. \A i \in 1 .. Len(pass) : b[(4 + n) - 1 + i] = pass[i]  BY <2>1, <3>1
    <3>3. 3 + n + w = (4 + n) + Len(pass) - 1 /\ 3 + n + w \in Int /\ 4 + n \in Nat \ {0}  BY <2>s, <2>3
    <3> QED  BY ZenonT(40), <3>2, <3>3, SubSeqIs
  <2> QED  BY <1>1, <2>2, <2>9, <2>10, <2>11, <2>12 DEF LoginBytes
<1> QED  BY <1>2, <1>4, <1>5 DEF IsLogin

\* The states of the parser of a login, and what a login moves of it, whatever
\* else the parser records.
LoginEnds == {"DONE", "BAD_VERSION", "BAD_LENGTH"}
LoginStates == {"VERSION", "ULEN", "UNAME", "PLEN", "PASSWORD"} \cup LoginEnds

Core == [state : LoginStates, len : Int, str : Seq(Byte), args : Seq(Seq(Byte))]
CoreOf(p) == [state |-> p.state, len |-> p.len, str |-> p.str, args |-> p.args]

\* What the parser p of a login has after the j first of the bytes b.
LoginAt(b, j, p) ==
  \/ j = 0 /\ p.state = "VERSION" /\ p.args = <<>>
  \/ j = 1 /\ p.args = <<>> /\ p.state = IF b[1] = AuthVersion THEN "ULEN" ELSE "BAD_VERSION"
  \/ j = 2 /\ b[2] = 0 /\ p.args = <<>> /\ p.state = "BAD_LENGTH"
  \/ /\ b[2] \in Byte \ {0} /\ j \in 2 .. 1 + b[2]
     /\ p.state = "UNAME" /\ p.args = <<>> /\ p.len = b[2] /\ p.str = SubSeq(b, 3, j)
  \/ /\ b[2] \in Byte \ {0} /\ j >= 2 + b[2] /\ j \in Nat
     /\ \/ j = 2 + b[2] /\ p.state = "PLEN" /\ p.args = <<SubSeq(b, 3, 2 + b[2])>>
        \/ /\ j = 3 + b[2] /\ b[3 + b[2]] = 0
           /\ p.state = "BAD_LENGTH" /\ p.args = <<SubSeq(b, 3, 2 + b[2])>>
        \/ /\ b[3 + b[2]] \in Byte \ {0} /\ j \in 3 + b[2] .. 2 + b[2] + b[3 + b[2]]
           /\ p.state = "PASSWORD" /\ p.args = <<SubSeq(b, 3, 2 + b[2])>>
           /\ p.len = b[3 + b[2]] /\ p.str = SubSeq(b, 4 + b[2], j)
        \/ /\ b[3 + b[2]] \in Byte \ {0} /\ j = 3 + b[2] + b[3 + b[2]] /\ p.state = "DONE"
           /\ p.args = <<SubSeq(b, 3, 2 + b[2]), SubSeq(b, 4 + b[2], 3 + b[2] + b[3 + b[2]])>>

\* A string of p.len bytes from the position first: p is inside it after j bytes,
\* and q is what one byte more makes of p.
Inside(b, first, j, p) ==
  /\ first \in Nat \ {0} /\ j \in Nat /\ j < Len(b)
  /\ p.len \in 1 .. 255 /\ first <= j + 1 /\ j + 1 < first + p.len /\ p.str = SubSeq(b, first, j)
CoreMore(b, first, j, p, next, q) ==
  /\ q \in Core /\ q.len = p.len
  /\ j + 2 < first + p.len => q.state = p.state /\ q.args = p.args /\ q.str = SubSeq(b, first, j + 1)
  /\ j + 2 = first + p.len => q.state = next /\ q.args = Append(p.args, SubSeq(b, first, j + 1))

LEMMA CoreChar ==
  ASSUME NEW b \in Seq(Byte), NEW first, NEW j, NEW p \in Core, Inside(b, first, j, p),
         NEW x, x = b[j + 1], NEW next \in LoginStates
  PROVE  CoreMore(b, first, j, p, next, Char(p, x, next))
<1>1. PICK f \in Nat \ {0}, k \in Nat, d \in 1 .. 255 :
         f = first /\ k = j /\ d = p.len /\ k < Len(b) /\ f <= k + 1 /\ k + 1 < f + d
  <2>1. p.len \in 1 .. 255  BY DEF Inside
  <2> QED  BY ZenonT(40), <2>1 DEF Inside
<1>2. PICK s \in Seq(Byte), t \in Seq(Byte) :
         /\ s = SubSeq(b, f, k) /\ t = SubSeq(b, f, k + 1) /\ Append(s, x) = t /\ Len(t) = k + 2 - f
  BY ZenonT(40), <1>1, StringGrows
<1>3. Char(p, x, next) = IF Len(t) = p.len THEN [p EXCEPT !.state = next, !.args = Append(@, t)]
                                          ELSE [p EXCEPT !.str = t]
  BY <1>1, <1>2 DEF Char, Inside
<1>4. Append(p.args, t) \in Seq(Seq(Byte))
  BY AppendProperties DEF Core
<1>5. CASE k + 2 = f + d
  <2>0. Len(t) = p.len /\ ~(k + 2 < f + d)  BY <1>1, <1>2, <1>5
  <2>1. Char(p, x, next) = [p EXCEPT !.state = next, !.args = Append(@, t)]  BY <1>3, <2>0
  <2> DEFINE q == [p EXCEPT !.state = next, !.args = Append(@, t)]
  <2>2. q \in Core  BY <1>4 DEF Core
  <2>3. /\ q.len = p.len
        /\ q.state = next /\ q.args = Append(p.args, t)
    BY DEF Core
  <2> HIDE DEF q
  <2> QED  BY ZenonT(40), <1>1, <1>2, <2>0, <2>1, <2>2, <2>3 DEF CoreMore, q
<1>6. CASE k + 2 # f + d
  <2>0. Len(t) # p.len  BY SMTT(60), <1>1, <1>2, <1>6
  <2>1. Char(p, x, next) = [p EXCEPT !.str = t]  BY <1>3, <2>0
  <2> DEFINE q == [p EXCEPT !.str = t]
  <2>2. q \in Core  BY DEF Core
  <2>3. /\ q.len = p.len
        /\ q.state = p.state /\ q.args = p.args /\ q.str = t
    BY DEF Core
  <2> HIDE DEF q
  <2> QED  BY ZenonT(40), <1>1, <1>2, <1>6, <2>1, <2>2, <2>3 DEF CoreMore, q
<1> QED  BY <1>5, <1>6

LEMMA CoreLength ==
  ASSUME NEW p \in Core, NEW x \in Byte, NEW next \in LoginStates, NEW otherwise \in LoginStates
  PROVE  LET q == Length(p, x, next, otherwise)
         IN  /\ q \in Core /\ q.args = p.args
             /\ x = 0 => q.state = otherwise
             /\ x # 0 => q.state = next /\ q.len = x /\ q.str = <<>>
<1>1. x < 1 <=> x = 0  BY DEF Byte
<1>2. CASE x = 0
  <2>1. Length(p, x, next, otherwise) = [p EXCEPT !.state = otherwise]  BY <1>1, <1>2 DEF Length
  <2> QED  BY <1>2, <2>1 DEF Core
<1>3. CASE x # 0
  <2>1. PICK e \in Seq(Byte) : e = <<>>  BY EmptySeq
  <2>2. Length(p, x, next, otherwise) = [p EXCEPT !.state = next, !.len = x, !.str = e]
    BY <1>1, <1>3, <2>1 DEF Length
  <2>i. x \in Int  BY DEF Byte
  <2>3. Length(p, x, next, otherwise) \in Core  BY <2>2, <2>i DEF Core
  <2> QED  BY <1>3, <2>1, <2>2, <2>3 DEF Core
<1> QED  BY <1>2, <1>3

\* What is recorded beside a login does not change how it is read.
LEMMA CoreUpdates ==
  ASSUME NEW s, NEW l, NEW t, NEW a, NEW next, NEW x, NEW e, NEW r,
         NEW c, c = [state |-> s, len |-> l, str |-> t, args |-> a]
  PROVE  /\ r = [c EXCEPT !.state = next, !.len = x, !.str = e]
              => r = [state |-> next, len |-> x, str |-> e, args |-> a]
         /\ r = [c EXCEPT !.state = next, !.args = e]
              => r = [state |-> next, len |-> l, str |-> t, args |-> e]
<1>d. PICK d : d = [c EXCEPT !.state = next]  OBVIOUS
<1>f. PICK f : f = [d EXCEPT !.len = x]  OBVIOUS
<1>1. d = [state |-> next, len |-> l, str |-> t, args |-> a]  BY <1>d
<1>2. f = [state |-> next, len |-> x, str |-> t, args |-> a]  BY <1>f, <1>1
<1>3. [d EXCEPT !.args = e] = [state |-> next, len |-> l, str |-> t, args |-> e]  BY <1>1
<1>4. [f EXCEPT !.str = e] = [state |-> next, len |-> x, str |-> e, args |-> a]  BY <1>2
<1>5. [c EXCEPT !.state = next, !.args = e] = [d EXCEPT !.args = e]  BY <1>d
<1>6. [c EXCEPT !.state = next, !.len = x, !.str = e] = [f EXCEPT !.str = e]  BY SMTT(30), <1>d, <1>f
<1> QED  BY <1>3, <1>4, <1>5, <1>6

LEMMA LoginStep ==
  ASSUME NEW b, NEW seen, LoginBytes(b, seen), NEW j \in 0 .. Len(b) - 1,
         NEW p \in Core, LoginAt(b, j, p)
  PROVE  /\ AuthFeed(p, b[j + 1]) \in Core
         /\ LoginAt(b, j + 1, AuthFeed(p, b[j + 1]))
<1>0. b \in Seq(Byte)  BY DEF LoginBytes
<1>1. PICK n \in Nat : n = Len(b)  BY <1>0, LenProperties
<1>2. j \in 0 .. n - 1  BY <1>1
<1>3. PICK x \in Byte : x = b[j + 1]
  <2>1. j + 1 \in 1 .. Len(b)  BY <1>1, <1>2
  <2> QED  BY <1>0, <2>1, ElementOfSeq
<1>4. "UNAME" \in LoginStates /\ "PLEN" \in LoginStates /\ "PASSWORD" \in LoginStates
      /\ "BAD_LENGTH" \in LoginStates /\ "BAD_VERSION" \in LoginStates /\ "ULEN" \in LoginStates
      /\ "DONE" \in LoginStates
  BY DEF LoginStates, LoginEnds
<1>5. CASE j = 0 /\ p.state = "VERSION" /\ p.args = <<>>
  <2>1. p.state = "VERSION" /\ p.args = <<>>  BY <1>5
  <2>2. PICK st \in LoginStates : st = IF x = AuthVersion THEN "ULEN" ELSE "BAD_VERSION"  BY <1>4
  <2>3. AuthFeed(p, x) = [p EXCEPT !.state = st]  BY <2>1, <2>2 DEF AuthFeed
  <2>4. AuthFeed(p, x) \in Core /\ AuthFeed(p, x).args = <<>> /\ AuthFeed(p, x).state = st
    BY <2>1, <2>3 DEF Core
  <2>5. j + 1 = 1  BY <1>5
  <2> QED  BY <1>3, <2>2, <2>4, <2>5 DEF LoginAt
<1>6. CASE j = 1 /\ p.args = <<>> /\ p.state = IF b[1] = AuthVersion THEN "ULEN" ELSE "BAD_VERSION"
  <2>1. b[1] = AuthVersion  BY <1>1, <1>2, <1>6 DEF LoginBytes
  <2>2. p.state = "ULEN"  BY <1>6, <2>1
  <2>3. AuthFeed(p, x) = Length(p, x, "UNAME", "BAD_LENGTH")  BY <2>2 DEF AuthFeed
  <2>4. j + 1 = 2 /\ x = b[2]  BY <1>3, <1>6
  <2>5. /\ AuthFeed(p, x) \in Core /\ AuthFeed(p, x).args = <<>>
        /\ x = 0 => AuthFeed(p, x).state = "BAD_LENGTH"
        /\ x # 0 => AuthFeed(p, x).state = "UNAME" /\ AuthFeed(p, x).len = x /\ AuthFeed(p, x).str = <<>>
    <3> DEFINE q == AuthFeed(p, x)
    <3>n. PICK next \in LoginStates, bad \in LoginStates : next = "UNAME" /\ bad = "BAD_LENGTH"  BY <1>4
    <3>q. q = Length(p, x, next, bad)  BY <2>3, <3>n
    <3>1. /\ q \in Core /\ q.args = p.args
          /\ x = 0 => q.state = bad
          /\ x # 0 => q.state = next /\ q.len = x /\ q.str = <<>>
      <4> HIDE DEF q
      <4> QED  BY <3>q, CoreLength
    <3> HIDE DEF q
    <3>2. q.args = <<>>  BY <1>6, <3>1
    <3> QED  BY <3>1, <3>2, <3>n DEF q
  <2>6. CASE x = 0
    BY <1>3, <2>4, <2>5, <2>6 DEF LoginAt
  <2>7. CASE x # 0
    <3>1. SubSeq(b, 3, 2) = <<>>  BY SubSeqEmpty
    <3>2. b[2] \in Byte \ {0} /\ 2 \in 2 .. 1 + b[2]
      <4>1. x \in 1 .. 255 /\ x \in Byte \ {0}  BY <2>7, ByteSize
      <4>2. 2 \in 2 .. 1 + x  BY <4>1
      <4> QED  BY <2>4, <4>1, <4>2
    <3> QED  BY <1>3, <2>4, <2>5, <2>7, <3>1, <3>2 DEF LoginAt
  <2> QED  BY <2>6, <2>7
<1>7. CASE j = 2 /\ b[2] = 0
  <2>1. FALSE  BY <1>1, <1>2, <1>7 DEF LoginBytes
  <2> QED  BY <2>1
<1>8. CASE /\ b[2] \in Byte \ {0} /\ j \in 2 .. 1 + b[2]
           /\ p.state = "UNAME" /\ p.args = <<>> /\ p.len = b[2] /\ p.str = SubSeq(b, 3, j)
  <2>1. PICK u \in Byte \ {0} : u = b[2]  BY <1>8
  <2>2. u \in 1 .. 255  BY ZenonT(40), ByteSize
  <2>3. AuthFeed(p, x) = Char(p, x, "PLEN")  BY <1>8 DEF AuthFeed
  <2>4. 3 <= j + 1 /\ j + 1 < 3 + u /\ j < n /\ j \in Nat /\ 3 \in Nat \ {0}
    <3>1. j \in 2 .. 1 + u  BY <1>8, <2>1
    <3> QED  BY <1>2, <2>2, <3>1
  <2>5. /\ AuthFeed(p, x) \in Core /\ AuthFeed(p, x).len = u
        /\ j + 2 < 3 + u => /\ AuthFeed(p, x).state = p.state /\ AuthFeed(p, x).args = p.args
                            /\ AuthFeed(p, x).str = SubSeq(b, 3, j + 1)
        /\ j + 2 = 3 + u => /\ AuthFeed(p, x).state = "PLEN"
                            /\ AuthFeed(p, x).args = Append(p.args, SubSeq(b, 3, j + 1))
    <3>1. p.len = u /\ p.str = SubSeq(b, 3, j) /\ j < Len(b)  BY <1>1, <1>8, <2>1, <2>4
    <3> DEFINE q == AuthFeed(p, x)
    <3>n. PICK next \in LoginStates : next = "PLEN"  BY <1>4
    <3>2. Inside(b, 3, j, p)  BY <2>2, <2>4, <3>1 DEF Inside
    <3>3. CoreMore(b, 3, j, p, next, Char(p, x, next))  BY <1>0, <1>3, <3>2, CoreChar
    <3>4. q = Char(p, x, next)  BY <2>3, <3>n
    <3> HIDE DEF q
    <3> QED  BY <3>1, <3>3, <3>4, <3>n DEF q, CoreMore
  <2>6. CASE j + 2 < 3 + u
    <3>1. j + 1 \in 2 .. 1 + u  BY SMTT(40), <2>2, <2>4, <2>6
    <3> QED  BY <1>3, <1>8, <2>1, <2>5, <2>6, <3>1 DEF LoginAt
  <2>7. CASE j + 2 = 3 + u
    <3>1. j + 1 = 2 + u /\ j + 1 >= 2 + u /\ j + 1 \in Nat  BY <2>2, <2>4, <2>7
    <3>2. AuthFeed(p, x).args = <<SubSeq(b, 3, 2 + u)>>  BY SMTT(40), <1>8, <2>5, <2>7, <3>1
    <3> QED  BY <1>3, <2>1, <2>5, <2>7, <3>1, <3>2 DEF LoginAt
  <2> QED  BY <2>2, <2>4, <2>6, <2>7
<1>9. CASE b[2] \in Byte \ {0} /\ j = 2 + b[2] /\ p.state = "PLEN" /\ p.args = <<SubSeq(b, 3, 2 + b[2])>>
  <2>1. PICK u \in Byte \ {0} : u = b[2]  BY <1>9
  <2>2. u \in 1 .. 255  BY ByteSize
  <2>3. AuthFeed(p, x) = Length(p, x, "PASSWORD", "BAD_LENGTH")  BY <1>9 DEF AuthFeed
  <2>4. j + 1 = 3 + u /\ x = b[3 + u] /\ j + 1 >= 2 + u /\ j + 1 \in Nat
    <3>1. j = 2 + u  BY <1>9, <2>1
    <3>2. j + 1 = 3 + u /\ j + 1 >= 2 + u /\ j + 1 \in Nat  BY <2>2, <3>1
    <3> QED  BY <1>3, <3>2
  <2>5. /\ AuthFeed(p, x) \in Core /\ AuthFeed(p, x).args = <<SubSeq(b, 3, 2 + u)>>
        /\ x = 0 => AuthFeed(p, x).state = "BAD_LENGTH"
        /\ x # 0 => /\ AuthFeed(p, x).state = "PASSWORD" /\ AuthFeed(p, x).len = x
                    /\ AuthFeed(p, x).str = <<>>
    <3> DEFINE q == AuthFeed(p, x)
    <3>n. PICK next \in LoginStates, bad \in LoginStates : next = "PASSWORD" /\ bad = "BAD_LENGTH"  BY <1>4
    <3>q. q = Length(p, x, next, bad)  BY <2>3, <3>n
    <3>1. /\ q \in Core /\ q.args = p.args
          /\ x = 0 => q.state = bad
          /\ x # 0 => q.state = next /\ q.len = x /\ q.str = <<>>
      <4> HIDE DEF q
      <4> QED  BY SMTT(40), <3>q, CoreLength
    <3> HIDE DEF q
    <3>2. q.args = <<SubSeq(b, 3, 2 + u)>>  BY <1>9, <2>1, <3>1
    <3> QED  BY <3>1, <3>2, <3>n DEF q
  <2>6. CASE x = 0
    BY <1>3, <2>1, <2>4, <2>5, <2>6 DEF LoginAt
  <2>7. CASE x # 0
    <3>1. SubSeq(b, 4 + u, 3 + u) = <<>>
      <4>1. 3 + u < 4 + u /\ 3 + u \in Int /\ 4 + u \in Int  BY <2>2
      <4> QED  BY <4>1, SubSeqEmpty
    <3>2. x \in Byte \ {0} /\ 3 + u \in 3 + u .. 2 + u + x
      <4>1. x \in 1 .. 255 /\ x \in Byte \ {0}  BY <2>7, ByteSize
      <4> QED  BY <2>2, <4>1
    <3> QED  BY <1>3, <2>1, <2>4, <2>5, <2>7, <3>1, <3>2 DEF LoginAt
  <2> QED  BY <2>6, <2>7
<1>10. CASE b[2] \in Byte \ {0} /\ j = 3 + b[2] /\ b[3 + b[2]] = 0
  <2>1. PICK u \in Byte \ {0} : u = b[2]  BY <1>10
  <2>2. u \in 1 .. 255 /\ j = 3 + u /\ b[3 + u] = 0  BY <1>10, <2>1, ByteSize
  <2>3. n = 3 + u
    <3>1. n # 1 /\ n # 2  BY <1>2, <2>2
    <3> QED  BY <1>1, <2>1, <2>2, <3>1 DEF LoginBytes
  <2> QED  BY <1>2, <2>2, <2>3
<1>11. CASE /\ b[2] \in Byte \ {0} /\ b[3 + b[2]] \in Byte \ {0} /\ j \in 3 + b[2] .. 2 + b[2] + b[3 + b[2]]
            /\ p.state = "PASSWORD" /\ p.args = <<SubSeq(b, 3, 2 + b[2])>>
            /\ p.len = b[3 + b[2]] /\ p.str = SubSeq(b, 4 + b[2], j)
  <2>1. PICK u \in Byte \ {0} : u = b[2]  BY <1>11
  <2>w. PICK w \in Byte \ {0} : w = b[3 + u]  BY <1>11, <2>1
  <2>2. u \in 1 .. 255 /\ w \in 1 .. 255  BY ByteSize
  <2>3. AuthFeed(p, x) = Char(p, x, "DONE")  BY <1>11 DEF AuthFeed
  <2>a. j \in 3 + u .. 2 + u + w  BY <1>11, <2>1, <2>w
  <2>4. 4 + u <= j + 1 /\ j + 1 < 4 + u + w /\ j < n /\ j \in Nat /\ 4 + u \in Nat \ {0}
    BY <1>2, <2>2, <2>a
  <2>5. /\ AuthFeed(p, x) \in Core /\ AuthFeed(p, x).len = w
        /\ j + 2 < 4 + u + w => /\ AuthFeed(p, x).state = p.state /\ AuthFeed(p, x).args = p.args
                                /\ AuthFeed(p, x).str = SubSeq(b, 4 + u, j + 1)
        /\ j + 2 = 4 + u + w => /\ AuthFeed(p, x).state = "DONE"
                                /\ AuthFeed(p, x).args = Append(p.args, SubSeq(b, 4 + u, j + 1))
    <3>1. p.len = w /\ p.str = SubSeq(b, 4 + u, j) /\ j < Len(b)  BY <1>1, <1>11, <2>1, <2>w, <2>4
    <3> DEFINE q == AuthFeed(p, x)
    <3>n. PICK next \in LoginStates : next = "DONE"  BY <1>4
    <3>2. Inside(b, 4 + u, j, p)  BY <2>2, <2>4, <3>1 DEF Inside
    <3>3. CoreMore(b, 4 + u, j, p, next, Char(p, x, next))  BY <1>0, <1>3, <3>2, CoreChar
    <3>4. q = Char(p, x, next)  BY <2>3, <3>n
    <3> HIDE DEF q
    <3> QED  BY <3>1, <3>3, <3>4, <3>n DEF q, CoreMore
  <2>b. j + 1 >= 2 + u /\ j + 1 \in Nat  BY SMTT(40), <2>2, <2>4
  <2>6. CASE j + 2 < 4 + u + w
    <3>1. j + 1 \in 3 + u .. 2 + u + w  BY <2>2, <2>4, <2>6
    <3> QED  BY <1>3, <1>11, <2>1, <2>w, <2>5, <2>6, <2>b, <3>1 DEF LoginAt
  <2>7. CASE j + 2 = 4 + u + w
    <3>1. j + 1 = 3 + u + w  BY <2>2, <2>4, <2>7
    <3>2. AuthFeed(p, x).args = <<SubSeq(b, 3, 2 + u), SubSeq(b, 4 + u, 3 + u + w)>>
      BY SMTT(40), <1>11, <2>1, <2>5, <2>7, <3>1
    <3> QED  BY <1>3, <2>1, <2>w, <2>5, <2>7, <2>b, <3>1, <3>2 DEF LoginAt
  <2> QED  BY <2>2, <2>4, <2>6, <2>7
<1>12. CASE b[2] \in Byte \ {0} /\ b[3 + b[2]] \in Byte \ {0} /\ j = 3 + b[2] + b[3 + b[2]]
  <2>1. PICK u \in Byte \ {0} : u = b[2]  BY <1>12
  <2>2. PICK w \in Byte \ {0} : w = b[3 + u]  BY <1>12, <2>1
  <2>3. u \in 1 .. 255 /\ w \in 1 .. 255 /\ j = 3 + u + w  BY ZenonT(40), <1>12, <2>1, <2>2, ByteSize
  <2>4. n = 3 + u \/ n = 3 + u + w
    <3>1. n # 1 /\ n # 2  BY <1>2, <2>3
    <3> QED  BY <1>1, <2>1, <2>2, <2>3, <3>1 DEF LoginBytes
  <2> QED  BY <1>2, <2>3, <2>4
<1> QED  BY ZenonT(30), <1>5, <1>6, <1>7, <1>8, <1>9, <1>10, <1>11, <1>12 DEF LoginAt

LEMMA LoginEnd ==
  ASSUME NEW b, NEW seen, LoginBytes(b, seen), NEW j \in 0 .. Len(b), NEW p, LoginAt(b, j, p)
  PROVE  /\ p.state \in LoginStates /\ (p.state \in LoginEnds <=> j = Len(b))
         /\ p.state \in LoginEnds => p.args = seen /\ (p.state = "DONE" <=> Len(seen) = 2)
<1>0. PICK n \in Nat : n = Len(b)  BY LenProperties DEF LoginBytes
<1>1. j \in 0 .. n  BY <1>0
<1>2. CASE j = 0 /\ p.state = "VERSION"
  <2>1. p.state \in LoginStates /\ p.state \notin LoginEnds  BY <1>2 DEF LoginStates, LoginEnds
  <2>2. n # 0
    <3>1. SUFFICES ASSUME n = 0  PROVE FALSE
      OBVIOUS
    <3>2. PICK u \in 1 .. 255, w \in 1 .. 255 : 0 = 3 + u \/ 0 = 3 + u + w
      BY SMTT(60), <1>0, <3>1, ByteSize DEF LoginBytes
    <3> QED  BY <3>2
  <2> QED  BY <1>0, <1>2, <2>1, <2>2
<1>3. CASE j = 1 /\ p.args = <<>> /\ p.state = IF b[1] = AuthVersion THEN "ULEN" ELSE "BAD_VERSION"
  <2>1. CASE b[1] = AuthVersion
    <3>1. p.state \in LoginStates /\ p.state \notin LoginEnds  BY <1>3, <2>1 DEF LoginStates, LoginEnds
    <3>2. n # 1
      <4>1. SUFFICES ASSUME n = 1  PROVE FALSE
        OBVIOUS
      <4>2. Len(b) = 1 /\ Len(b) # 2 /\ b[1] = AuthVersion  BY <1>0, <2>1, <4>1
      <4>3. CASE b[2] \in Byte \ {0} /\ Len(b) = 3 + b[2]  BY <4>2, <4>3, ByteSize
      <4>4. CASE b[2] \in Byte \ {0} /\ b[3 + b[2]] \in Byte \ {0} /\ Len(b) = 3 + b[2] + b[3 + b[2]]
        <5>1. PICK u \in 1 .. 255, w \in 1 .. 255 : Len(b) = 3 + u + w  BY ZenonT(30), <4>4, ByteSize
        <5> QED  BY SMTT(60), <4>2, <5>1
      <4> QED  BY <4>2, <4>3, <4>4 DEF LoginBytes
    <3> QED  BY <1>0, <1>3, <3>1, <3>2
  <2>2. CASE b[1] # AuthVersion
    <3>1. n = 1 /\ seen = <<>>  BY <1>0, <2>2 DEF LoginBytes
    <3>2. p.state = "BAD_VERSION"  BY <1>3, <2>2
    <3>3. p.state \in LoginEnds /\ p.state \in LoginStates  BY <3>2 DEF LoginStates, LoginEnds
    <3>4. Len(seen) = 0  BY <3>1
    <3> QED  BY <1>0, <1>3, <3>1, <3>2, <3>3, <3>4
  <2> QED  BY <2>1, <2>2
<1>4. CASE j = 2 /\ b[2] = 0 /\ p.args = <<>> /\ p.state = "BAD_LENGTH"
  <2>1. n = 2 /\ seen = <<>>
    <3>1. b[2] \notin Byte \ {0} /\ n # 1  BY <1>1, <1>4
    <3> QED  BY <1>0, <3>1 DEF LoginBytes
  <2>2. p.state \in LoginEnds /\ p.state \in LoginStates  BY <1>4 DEF LoginStates, LoginEnds
  <2>3. Len(seen) = 0  BY <2>1
  <2> QED  BY <1>0, <1>4, <2>1, <2>2, <2>3
<1>5. CASE b[2] \in Byte \ {0} /\ j >= 2
  <2>1. PICK u \in Byte \ {0} : u = b[2]  BY <1>5
  <2>2. u \in 1 .. 255  BY ByteSize
  <2>3. \/ /\ b[3 + u] = 0 /\ n = 3 + u /\ seen = <<SubSeq(b, 3, 2 + u)>>
        \/ \E w \in Byte \ {0} : /\ b[3 + u] = w /\ n = 3 + u + w
                                 /\ seen = <<SubSeq(b, 3, 2 + u), SubSeq(b, 4 + u, 3 + u + w)>>
    <3>1. n # 1 /\ u # 0  BY <1>1, <1>5, <2>2
    <3> QED  BY <1>0, <2>1, <3>1 DEF LoginBytes
  <2>4. \/ j \in 2 .. 1 + u /\ p.state = "UNAME"
        \/ j = 2 + u /\ p.state = "PLEN"
        \/ j = 3 + u /\ b[3 + u] = 0 /\ p.state = "BAD_LENGTH" /\ p.args = <<SubSeq(b, 3, 2 + u)>>
        \/ \E w \in Byte \ {0} : b[3 + u] = w /\ j \in 3 + u .. 2 + u + w /\ p.state = "PASSWORD"
        \/ \E w \in Byte \ {0} : /\ b[3 + u] = w /\ j = 3 + u + w /\ p.state = "DONE"
                                 /\ p.args = <<SubSeq(b, 3, 2 + u), SubSeq(b, 4 + u, 3 + u + w)>>
    <3>1. j # 0 /\ j # 1 /\ u # 0  BY <1>5, <2>2
    <3> QED  BY <2>1, <3>1 DEF LoginAt
  <2>5. CASE j \in 2 .. 1 + u /\ p.state = "UNAME"
    <3>1. p.state \in LoginStates /\ p.state \notin LoginEnds  BY <2>5 DEF LoginStates, LoginEnds
    <3>2. j # n
      <4>1. CASE n = 3 + u  BY <2>2, <2>5, <4>1
      <4>2. CASE \E w \in 1 .. 255 : n = 3 + u + w  BY <2>2, <2>5, <4>2
      <4> QED  BY <2>3, <4>1, <4>2, ByteSize
    <3> QED  BY <1>0, <3>1, <3>2
  <2>6. CASE j = 2 + u /\ p.state = "PLEN"
    <3>1. p.state \in LoginStates /\ p.state \notin LoginEnds  BY <2>6 DEF LoginStates, LoginEnds
    <3>2. j # n
      <4>1. CASE n = 3 + u  BY <2>2, <2>6, <4>1
      <4>2. CASE \E w \in 1 .. 255 : n = 3 + u + w  BY <2>2, <2>6, <4>2
      <4> QED  BY <2>3, <4>1, <4>2, ByteSize
    <3> QED  BY <1>0, <3>1, <3>2
  <2>7. CASE j = 3 + u /\ b[3 + u] = 0 /\ p.state = "BAD_LENGTH" /\ p.args = <<SubSeq(b, 3, 2 + u)>>
    <3>1. p.state \in LoginEnds /\ p.state \in LoginStates  BY <2>7 DEF LoginStates, LoginEnds
    <3>2. n = 3 + u /\ seen = <<SubSeq(b, 3, 2 + u)>>  BY <2>3, <2>7
    <3>3. Len(seen) = 1  BY <3>2
    <3> QED  BY <1>0, <2>7, <3>1, <3>2, <3>3
  <2>8. CASE \E w \in Byte \ {0} : b[3 + u] = w /\ j \in 3 + u .. 2 + u + w /\ p.state = "PASSWORD"
    <3>1. PICK w \in Byte \ {0} : b[3 + u] = w /\ j \in 3 + u .. 2 + u + w /\ p.state = "PASSWORD"
      BY <2>8
    <3>2. w \in 1 .. 255  BY ByteSize
    <3>3. n = 3 + u + w  BY <2>3, <3>1, <3>2
    <3>4. j # n  BY <2>2, <3>1, <3>2, <3>3
    <3>5. p.state \in LoginStates /\ p.state \notin LoginEnds  BY <3>1 DEF LoginStates, LoginEnds
    <3> QED  BY <1>0, <3>4, <3>5
  <2>9. CASE \E w \in Byte \ {0} : /\ b[3 + u] = w /\ j = 3 + u + w /\ p.state = "DONE"
                                   /\ p.args = <<SubSeq(b, 3, 2 + u), SubSeq(b, 4 + u, 3 + u + w)>>
    <3>1. PICK w \in Byte \ {0} : /\ b[3 + u] = w /\ j = 3 + u + w /\ p.state = "DONE"
                                  /\ p.args = <<SubSeq(b, 3, 2 + u), SubSeq(b, 4 + u, 3 + u + w)>>
      BY <2>9
    <3>2. w # 0  BY ByteSize
    <3>3. n = 3 + u + w /\ seen = <<SubSeq(b, 3, 2 + u), SubSeq(b, 4 + u, 3 + u + w)>>
      BY SMTT(30), <2>3, <3>1, <3>2
    <3>4. p.state \in LoginEnds /\ p.state \in LoginStates  BY <3>1 DEF LoginStates, LoginEnds
    <3>5. Len(seen) = 2  BY <3>3
    <3> QED  BY <1>0, <3>1, <3>3, <3>4, <3>5
  <2> QED  BY <2>4, <2>5, <2>6, <2>7, <2>8, <2>9
<1>6. LoginAt(b, j, p) => \/ j = 0 /\ p.state = "VERSION"
                          \/ j = 1 /\ p.args = <<>> /\ p.state = IF b[1] = AuthVersion THEN "ULEN" ELSE "BAD_VERSION"
                          \/ j = 2 /\ b[2] = 0 /\ p.args = <<>> /\ p.state = "BAD_LENGTH"
                          \/ b[2] \in Byte \ {0} /\ j >= 2
  <2>1. \A u \in 1 .. 255 : j >= 2 + u => j >= 2  BY <1>1
  <2>2. \A u \in 1 .. 255 : j \in 2 .. 1 + u => j >= 2  BY <1>1
  <2> QED  BY ZenonT(40), <2>1, <2>2, ByteSize DEF LoginAt
<1> QED  BY <1>2, <1>3, <1>4, <1>5, <1>6

=============================================================================
