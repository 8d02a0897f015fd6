-------------------------- MODULE HandshakeProofs --------------------------
(***************************************************************************)
(* The handshake for every script a client may send, every way its bytes   *)
(* may be cut, any users and any sizes of the buffers.                     *)
(***************************************************************************)
EXTENDS Handshake, ByteLemmas

(***************************************************************************)
(* The messages of a script                                                *)
(***************************************************************************)

IsScript(s) == s \in Seq(Range(s)) /\ \A i \in DOMAIN s :
                  IsMessage(s[i]) /\ (i \in DOMAIN Turns(s) => s[i].kind = Turns(s)[i])

LEMMA ScriptMessages == ASSUME NEW s, IsScript(s)  PROVE Messages(s)
BY DEF IsScript, IsMessage, Messages

-----------------------------------------------------------------------------
(***************************************************************************)
(* What a parser knows after j bytes of a message                          *)
(***************************************************************************)

ParserStates == {"VERSION", "NMETHODS", "METHODS", "ULEN", "UNAME", "PLEN", "PASSWORD",
                 "COMMAND", "RESERVED", "ADD_TYPE", "DOMAIN_LENGTH", "ADDRESS", "PORT_HIGH", "PORT_LOW",
                 "DONE", "BAD_VERSION", "BAD_LENGTH", "BAD_TYPE"}
Parser == [state : ParserStates, version : Byte, cmd : Byte, type : Byte, len : Byte, method : Byte,
           str : Seq(Byte), args : Seq(Seq(Byte))]

LEMMA NewIsParser == NewParser \in Parser
<1>1. <<>> \in Seq(Byte) /\ <<>> \in Seq(Seq(Byte))  BY EmptySeq
<1>2. 0 \in Byte /\ NoAcceptable \in Byte  BY DEF Byte, NoAcceptable
<1>3. PICK e : e = <<>> /\ e \in Seq(Byte) /\ e \in Seq(Seq(Byte))  BY <1>1
<1>4. NewParser = [state |-> "VERSION", version |-> 0, cmd |-> 0, type |-> 0, len |-> 0,
                   method |-> NoAcceptable, str |-> e, args |-> e]
  BY <1>3 DEF NewParser
<1>5. "VERSION" \in ParserStates  BY DEF ParserStates
<1> QED  BY <1>2, <1>3, <1>4, <1>5 DEF Parser

\* What the bytes b of a hello are.
HelloBytes(b, seen) ==
  /\ b \in Seq(Byte) /\ Len(b) \in 2 .. 257 /\ b[2] = Len(b) - 2
  /\ seen = <<b[1], Best(SubSeq(b, 3, Len(b)))>>

HelloAt(b, j, p) ==
  \/ j = 0 /\ p = NewParser
  \/ j = 1 /\ p.state = "NMETHODS" /\ p.version = b[1] /\ p.method = NoAcceptable
  \/ /\ j >= 2 /\ p.version = b[1] /\ p.method = Best(SubSeq(b, 3, j)) /\ p.len = Len(b) - j
     /\ p.state = IF j = Len(b) THEN "DONE" ELSE "METHODS"

LEMMA HelloShape ==
  ASSUME NEW m, IsHello(m)
  PROVE  HelloBytes(m.bytes, m.seen)
<1> DEFINE methods == SubSeq(m.bytes, 3, Len(m.bytes))
<1>1. methods \in Seq(Byte) /\ Len(methods) \in Byte  BY DEF IsHello
<1>2. PICK v \in Byte : m = Hello(v, methods)  BY DEF IsHello
<1>3. m.bytes = <<v>> \o (<<Len(methods)>> \o methods) /\ m.seen = <<v, Best(methods)>>
  BY <1>2 DEF Hello, Str
<1>4. PICK ms \in Seq(Byte) : ms = methods  BY <1>1
<1>5. Len(ms) \in Nat /\ <<v>> \in Seq(Byte) /\ <<Len(ms)>> \in Seq(Byte)
  BY <1>1, <1>4
<1>a. Len(ms) \in Byte  BY <1>1, <1>4
<1>6. PICK t \in Seq(Byte) : t = Str(ms) /\ Len(t) = 1 + Len(ms) /\ t[1] = Len(ms)
  BY <1>a, StrParts
<1>7. m.bytes = <<v>> \o t  BY <1>3, <1>4, <1>6 DEF Str
<1>8. m.bytes \in Seq(Byte) /\ Len(m.bytes) = 1 + Len(t) /\ m.bytes[1] = v /\ m.bytes[2] = t[1]
  BY <1>5, <1>6, <1>7, OnePrefix
<1>9. m.seen = <<m.bytes[1], Best(SubSeq(m.bytes, 3, Len(m.bytes)))>>  BY <1>3, <1>8
<1>10. Len(m.bytes) \in 2 .. 257 /\ m.bytes[2] = Len(m.bytes) - 2
  <2>1. Len(ms) \in 0 .. 255  BY SMTT(40), <1>a DEF Byte
  <2>2. Len(m.bytes) = 2 + Len(ms) /\ m.bytes[2] = Len(ms)  BY <1>5, <1>6, <1>8
  <2>3. PICK l \in 0 .. 255 : l = Len(ms)  BY SMTT(40), <2>1
  <2>4. Len(m.bytes) = 2 + l /\ m.bytes[2] = l  BY <2>2, <2>3
  <2>5. 2 + l \in 2 .. 257 /\ (2 + l) - 2 = l  OBVIOUS
  <2> QED  BY SMTT(40), <2>4, <2>5
<1> QED  BY <1>8, <1>9, <1>10 DEF HelloBytes

\* Counting one more method keeps the best.
LEMMA OnAuthMethodBest ==
  ASSUME NEW b \in Seq(Byte), NEW j \in 2 .. Len(b) - 1
  PROVE  OnAuthMethod(Best(SubSeq(b, 3, j)), b[j + 1]) = Best(SubSeq(b, 3, j + 1))
<1> DEFINE s == SubSeq(b, 3, j)
           t == SubSeq(b, 3, j + 1)
<1>0. Len(b) \in Nat /\ \A i \in 1 .. Len(b) : b[i] \in Byte
  BY LenProperties
<1>1. s \in Seq(Byte) /\ Len(s) = j - 2 /\ \A i \in 1 .. j - 2 : s[i] = b[i + 2]
  <2>1. \A i \in 3 .. j : b[i] \in Byte  BY <1>0
  <2>2. /\ s \in Seq(Byte) /\ Len(s) = IF 3 <= j THEN j - 3 + 1 ELSE 0
        /\ \A i \in 1 .. j - 3 + 1 : s[i] = b[3 + i - 1]
    BY <2>1, <1>0, SubSeqProperties
  <2> QED  BY <2>2, <1>0
<1>2. t \in Seq(Byte) /\ Len(t) = j - 1 /\ \A i \in 1 .. j - 1 : t[i] = b[i + 2]
  <2>1. \A i \in 3 .. j + 1 : b[i] \in Byte  BY <1>0
  <2>2. /\ t \in Seq(Byte) /\ Len(t) = IF 3 <= j + 1 THEN (j + 1) - 3 + 1 ELSE 0
        /\ \A i \in 1 .. (j + 1) - 3 + 1 : t[i] = b[3 + i - 1]
    BY <2>1, <1>0, SubSeqProperties
  <2> QED  BY <2>2, <1>0
<1> HIDE DEF s, t
<1>3. Range(s) = {s[i] : i \in 1 .. Len(s)} /\ Range(t) = {t[i] : i \in 1 .. Len(t)}
  BY <1>1, <1>2, RangeEquality
<1>4. Range(t) = Range(s) \cup {b[j + 1]}
  <2>1. ASSUME NEW x \in Range(s)  PROVE x \in Range(t)
    <3>1. PICK i \in 1 .. Len(s) : x = s[i]  BY <1>3
    <3>2. i \in 1 .. Len(t) /\ t[i] = x  BY <1>0, <1>1, <1>2, <3>1
    <3> QED  BY <1>3, <3>2
  <2>2. b[j + 1] \in Range(t)
    <3>1. j - 1 \in 1 .. Len(t) /\ t[j - 1] = b[j + 1]  BY <1>0, <1>2
    <3> QED  BY <1>3, <3>1
  <2>3. ASSUME NEW x \in Range(t)  PROVE x \in Range(s) \/ x = b[j + 1]
    <3>1. PICK i \in 1 .. Len(t) : x = t[i]  BY <1>3
    <3>2. CASE i \in 1 .. Len(s)
      <4>1. s[i] = x  BY <1>0, <1>1, <1>2, <3>1, <3>2
      <4> QED  BY <1>3, <3>2, <4>1
    <3>3. CASE i = Len(s) + 1
      BY <1>0, <1>1, <1>2, <3>1, <3>3
    <3> QED  BY SMTT(40), <1>0, <1>1, <1>2, <3>2, <3>3
  <2> QED  BY <2>1, <2>2, <2>3
<1>5. \A r : Rank(r) = IF r = UserPassword THEN 3 ELSE IF r = NoAuthentication THEN 2 ELSE 1
  <2>0. DOMAIN Priority = {1, 2, 3} /\ Priority[1] = 255 /\ Priority[2] = 0 /\ Priority[3] = 2
    BY DEF Priority, UserPassword, NoAuthentication, NoAcceptable
  <2>1. Range(Priority) = {255, 0, 2}
    BY <2>0 DEF Range
  <2>2. \A i \in DOMAIN Priority : i \in Nat /\ i <= 3 /\ i >= 1
    BY <2>0
  <2> HIDE DEF Priority
  <2>3. ASSUME NEW r  PROVE Rank(r) = IF r = UserPassword THEN 3 ELSE IF r = NoAuthentication THEN 2 ELSE 1
    <3>1. CASE r \in Range(Priority)
      <4>1. \E i \in DOMAIN Priority : Priority[i] = r
        BY <3>1, <2>0, <2>1
      <4>2. PICK i \in DOMAIN Priority : i = (CHOOSE k \in DOMAIN Priority : Priority[k] = r) /\ Priority[i] = r
        BY <4>1
      <4>3. Rank(r) = i  BY <3>1, <4>2 DEF Rank
      <4> QED  BY <2>0, <4>2, <4>3 DEF UserPassword, NoAuthentication
    <3>2. CASE r \notin Range(Priority)
      BY <2>1, <3>2 DEF Rank, UserPassword, NoAuthentication
    <3> QED  BY <3>1, <3>2
  <2> QED  BY <2>3
<1>6. Best(t) = OnAuthMethod(Best(s), b[j + 1])
  BY SMTT(40), <1>4, <1>5 DEF OnAuthMethod, Best, UserPassword, NoAuthentication, NoAcceptable
<1> QED  BY <1>6 DEF s, t

LEMMA HelloStep ==
  ASSUME NEW b, NEW seen, HelloBytes(b, seen), NEW j \in 0 .. Len(b) - 1,
         NEW p \in Parser, HelloAt(b, j, p)
  PROVE  /\ HelloFeed(p, b[j + 1]) \in Parser
         /\ HelloAt(b, j + 1, HelloFeed(p, b[j + 1]))
<1>0. b \in Seq(Byte) /\ Len(b) \in 2 .. 257 /\ b[2] = Len(b) - 2 /\ Len(b) \in Nat
  BY SMTT(60) DEF HelloBytes
<1>n. PICK n \in 2 .. 257 : n = Len(b) /\ j \in 0 .. n - 1 /\ b[2] = n - 2  BY ZenonT(40), <1>0
<1>1. PICK x \in Byte : x = b[j + 1]
  <2>1. j + 1 \in 1 .. Len(b)  BY <1>0
  <2> QED  BY SMTT(40), <1>0, <2>1, ElementOfSeq
<1>2. CASE j = 0
  <2>1. p = NewParser  BY <1>2 DEF HelloAt
  <2>2. HelloFeed(p, x) = [p EXCEPT !.version = x, !.state = "NMETHODS"]
    BY <2>1 DEF HelloFeed, NewParser
  <2>a. PICK st \in ParserStates : st = "NMETHODS"  BY DEF ParserStates
  <2>3. HelloFeed(p, x) \in Parser
    <3>1. HelloFeed(p, x) = [p EXCEPT !.version = x, !.state = st]  BY <2>2, <2>a
    <3> QED  BY ZenonT(40), <3>1 DEF Parser
  <2>4. HelloFeed(p, x).state = "NMETHODS" /\ HelloFeed(p, x).version = x /\ HelloFeed(p, x).method = NoAcceptable
    BY ZenonT(40), <2>1, <2>2 DEF NewParser
  <2> QED  BY <1>1, <1>2, <2>3, <2>4 DEF HelloAt
<1>3. CASE j = 1
  <2>1. p.state = "NMETHODS" /\ p.version = b[1] /\ p.method = NoAcceptable  BY <1>3 DEF HelloAt, NewParser
  <2>2. HelloFeed(p, x) = [p EXCEPT !.len = x, !.state = IF x > 0 THEN "METHODS" ELSE "DONE"]
    BY <2>1 DEF HelloFeed
  <2>a. PICK st \in ParserStates : st = IF x > 0 THEN "METHODS" ELSE "DONE"  BY DEF ParserStates
  <2>3. HelloFeed(p, x) \in Parser
    <3>1. HelloFeed(p, x) = [p EXCEPT !.len = x, !.state = st]  BY <2>2, <2>a
    <3> QED  BY ZenonT(40), <3>1 DEF Parser
  <2>4. x = n - 2  BY SMTT(20), <1>n, <1>1, <1>3
  <2>5. Best(SubSeq(b, 3, 2)) = NoAcceptable
    <3>1. SubSeq(b, 3, 2) = <<>>  BY SubSeqEmpty
    <3>2. Range(<<>>) = {}  BY DEF Range
    <3> QED  BY <3>1, <3>2 DEF Best
  <2>6. /\ HelloFeed(p, x).version = b[1] /\ HelloFeed(p, x).method = NoAcceptable
        /\ HelloFeed(p, x).len = x /\ HelloFeed(p, x).state = IF x > 0 THEN "METHODS" ELSE "DONE"
    BY <2>1, <2>2 DEF Parser
  <2>7. x > 0 <=> 2 # n  BY SMTT(40), <2>4
  <2> QED  BY SMTT(20), <1>n, <1>1, <1>3, <2>3, <2>4, <2>5, <2>6, <2>7 DEF HelloAt
<1>4. CASE j >= 2
  <2>1. p.version = b[1] /\ p.method = Best(SubSeq(b, 3, j)) /\ p.len = n - j /\ p.state = "METHODS"
    BY SMTT(60), <1>n, <1>4 DEF HelloAt, NewParser
  <2>a. j \in 2 .. n - 1  BY <1>n, <1>4
  <2>2. HelloFeed(p, x) = [p EXCEPT !.method = OnAuthMethod(@, x), !.len = @ - 1,
                                    !.state = IF p.len - 1 = 0 THEN "DONE" ELSE "METHODS"]
    BY SMTT(40), <2>1 DEF HelloFeed, MethodsLeft
  <2>3. OnAuthMethod(p.method, x) = Best(SubSeq(b, 3, j + 1))
    <3>1. j \in 2 .. Len(b) - 1  BY SMTT(20), <1>0, <1>4
    <3> QED  BY SMTT(40), <1>0, <1>1, <2>1, <3>1, OnAuthMethodBest
  <2>4. OnAuthMethod(p.method, x) \in Byte
    BY <1>1 DEF OnAuthMethod, Parser
  <2>5. p.len - 1 \in Byte /\ p.len - 1 = n - (j + 1)
    <3>1. p.len = n - j  BY <2>1
    <3> QED  BY <2>a, <3>1 DEF Byte
  <2>6. HelloFeed(p, x) \in Parser
    <3>1. PICK st \in ParserStates : st = IF p.len - 1 = 0 THEN "DONE" ELSE "METHODS"  BY DEF ParserStates
    <3>2. PICK best \in Byte, l \in Byte : best = OnAuthMethod(p.method, x) /\ l = p.len - 1  BY <2>4, <2>5
    <3>3. HelloFeed(p, x) = [p EXCEPT !.method = best, !.len = l, !.state = st]  BY <2>2, <3>1, <3>2
    <3> QED  BY ZenonT(40), <3>3 DEF Parser
  <2>7. /\ HelloFeed(p, x).version = b[1] /\ HelloFeed(p, x).method = Best(SubSeq(b, 3, j + 1))
        /\ HelloFeed(p, x).len = n - (j + 1)
        /\ HelloFeed(p, x).state = IF p.len - 1 = 0 THEN "DONE" ELSE "METHODS"
    BY <2>1, <2>2, <2>3, <2>5 DEF Parser
  <2>8. p.len - 1 = 0 <=> j + 1 = n
    <3>1. p.len = n - j  BY <2>1
    <3> QED  BY <2>a, <3>1
  <2>9. j + 1 >= 2  BY <1>4
  <2> QED  BY SMTT(40), <1>n, <1>1, <2>6, <2>7, <2>8, <2>9 DEF HelloAt
<1> QED  BY <1>2, <1>3, <1>4

LEMMA HelloEnd ==
  ASSUME NEW b, NEW seen, HelloBytes(b, seen), NEW j \in 0 .. Len(b), NEW p, HelloAt(b, j, p)
  PROVE  /\ Done(p) <=> j = Len(b)
         /\ Done(p) => p.state = "DONE" /\ <<p.version, p.method>> = seen
<1>0. PICK n \in 2 .. 257 : n = Len(b) /\ j \in 0 .. n  BY ZenonT(40) DEF HelloBytes
<1>1. CASE j = 0
  <2>1. p.state = "VERSION"  BY <1>1 DEF HelloAt, NewParser
  <2> QED  BY SMTT(60), <1>0, <1>1, <2>1 DEF Done
<1>2. CASE j = 1
  <2>1. p.state = "NMETHODS"  BY <1>2 DEF HelloAt
  <2>2. ~Done(p)  BY <2>1 DEF Done
  <2>3. j # n  BY <1>2
  <2> QED  BY ZenonT(40), <1>0, <2>2, <2>3
<1>3. CASE j >= 2
  <2>1. p.version = b[1] /\ p.method = Best(SubSeq(b, 3, j)) /\ p.state = IF j = n THEN "DONE" ELSE "METHODS"
    BY SMTT(60), <1>0, <1>3 DEF HelloAt
  <2>2. seen = <<b[1], Best(SubSeq(b, 3, n))>>  BY ZenonT(40), <1>0 DEF HelloBytes
  <2>3. CASE j = n
    <3>1. p.state = "DONE" /\ <<p.version, p.method>> = seen  BY SMTT(40), <2>1, <2>2, <2>3
    <3> QED  BY ZenonT(40), <1>0, <2>3, <3>1 DEF Done
  <2>4. CASE j # n
    <3>1. p.state = "METHODS"  BY <2>1, <2>4
    <3> QED  BY <1>0, <2>4, <3>1 DEF Done
  <2> QED  BY SMTT(40), <2>3, <2>4
<1>4. j = 0 \/ j = 1 \/ j >= 2  BY <1>0
<1> QED  BY ZenonT(40), <1>1, <1>2, <1>3, <1>4

-----------------------------------------------------------------------------
(* A string of p.len bytes: q is what one byte more makes of p.             *)

OneMore(b, first, j, p, next, q) ==
  /\ q \in Parser
  /\ q.version = p.version /\ q.cmd = p.cmd /\ q.type = p.type /\ q.len = p.len
  /\ j + 2 < first + p.len => q.state = p.state /\ q.args = p.args /\ q.str = SubSeq(b, first, j + 1)
  /\ j + 2 = first + p.len => q.state = next /\ q.args = Append(p.args, SubSeq(b, first, j + 1))

LEMMA CharStep ==
  ASSUME NEW b \in Seq(Byte), NEW first, NEW j, NEW p \in Parser, Inside(b, first, j, p),
         NEW x, x = b[j + 1], NEW next \in ParserStates
  PROVE  OneMore(b, first, j, p, next, Char(p, x, next))
<1>1. PICK f \in Nat \ {0}, k \in Nat, d \in 1 .. 255 :
         f = first /\ k = j /\ d = p.len /\ k < Len(b) /\ f <= k + 1 /\ k + 1 < f + d
  BY ZenonT(40) DEF Inside
<1>2. PICK s \in Seq(Byte), t \in Seq(Byte) :
         /\ s = SubSeq(b, f, k) /\ t = SubSeq(b, f, k + 1) /\ Append(s, x) = t /\ Len(t) = k + 2 - f
  BY ZenonT(40), <1>1, StringGrows
<1>3. Char(p, x, next) = IF Len(t) = p.len THEN [p EXCEPT !.state = next, !.args = Append(@, t)]
                                          ELSE [p EXCEPT !.str = t]
  BY <1>1, <1>2 DEF Char, Inside
<1>4. Append(p.args, t) \in Seq(Seq(Byte))
  BY AppendProperties DEF Parser
<1>5. CASE k + 2 = f + d
  <2>0. Len(t) = p.len /\ ~(k + 2 < f + d)  BY <1>1, <1>2, <1>5
  <2>1. Char(p, x, next) = [p EXCEPT !.state = next, !.args = Append(@, t)]  BY <1>3, <2>0
  <2> DEFINE q == [p EXCEPT !.state = next, !.args = Append(@, t)]
  <2>2. q \in Parser  BY <1>4 DEF Parser
  <2>3. /\ q.version = p.version /\ q.cmd = p.cmd /\ q.type = p.type /\ q.len = p.len
        /\ q.state = next /\ q.args = Append(p.args, t)
    BY DEF Parser
  <2> HIDE DEF q
  <2> QED  BY ZenonT(40), <1>1, <1>2, <2>0, <2>1, <2>2, <2>3 DEF OneMore, q
<1>6. CASE k + 2 # f + d
  <2>0. Len(t) # p.len  BY SMTT(60), <1>1, <1>2, <1>6
  <2>1. Char(p, x, next) = [p EXCEPT !.str = t]  BY <1>3, <2>0
  <2> DEFINE q == [p EXCEPT !.str = t]
  <2>2. q \in Parser  BY DEF Parser
  <2>3. /\ q.version = p.version /\ q.cmd = p.cmd /\ q.type = p.type /\ q.len = p.len
        /\ q.state = p.state /\ q.args = p.args /\ q.str = t
    BY DEF Parser
  <2> HIDE DEF q
  <2> QED  BY ZenonT(40), <1>1, <1>2, <1>6, <2>1, <2>2, <2>3 DEF OneMore, q
<1> QED  BY <1>5, <1>6

-----------------------------------------------------------------------------
-----------------------------------------------------------------------------
(* The parser of a login.                                                   *)

LEMMA LoginFeed ==
  ASSUME NEW p \in Parser, p.state \in LoginStates \ LoginEnds, NEW x \in Byte
  PROVE  AuthFeed(p, x) \in Parser /\ CoreOf(AuthFeed(p, x)) = AuthFeed(CoreOf(p), x)
<1>1. PICK c \in Core : c = CoreOf(p)
  <2>1. p.str \in Seq(Byte) /\ p.args \in Seq(Seq(Byte))  BY DEF Parser
  <2>b. p.len \in Byte  BY DEF Parser
  <2>i. \A l \in Byte : l \in Int  BY DEF Byte
  <2>2. p.len \in Int  BY <2>b, <2>i
  <2>3. p.state \in LoginStates  OBVIOUS
  <2> QED  BY <2>1, <2>2, <2>3 DEF Core, CoreOf
<1>2. c.state = p.state /\ c.len = p.len /\ c.str = p.str /\ c.args = p.args  BY <1>1 DEF CoreOf
<1>3. PICK e \in Seq(Byte) : e = <<>>  BY EmptySeq
<1>4. PICK s \in Seq(Byte) : s = Append(p.str, x)  BY AppendProperties DEF Parser
<1>5. PICK a \in Seq(Seq(Byte)) : a = Append(p.args, s)  BY AppendProperties DEF Parser
<1>6. ASSUME NEW next \in ParserStates, NEW q \in Parser, q = [p EXCEPT !.state = next]
      PROVE  CoreOf(q) = [c EXCEPT !.state = next]
  <2>1. c = [state |-> p.state, len |-> p.len, str |-> p.str, args |-> p.args]  BY <1>1 DEF CoreOf
  <2>2. q.state = next /\ q.len = p.len /\ q.str = p.str /\ q.args = p.args  BY <1>6 DEF Parser
  <2> QED  BY SMTT(40), <2>1, <2>2 DEF CoreOf
<1>7. ASSUME NEW next \in ParserStates, NEW otherwise \in ParserStates
      PROVE  /\ Length(p, x, next, otherwise) \in Parser
             /\ CoreOf(Length(p, x, next, otherwise)) = Length(c, x, next, otherwise)
  <2>1. CASE x < 1
    <3>1. PICK q \in Parser : q = [p EXCEPT !.state = otherwise]  BY DEF Parser
    <3> QED  BY <1>6, <2>1, <3>1 DEF Length
  <2>2. CASE ~(x < 1)
    <3>1. PICK q \in Parser : q = [p EXCEPT !.state = next, !.len = x, !.str = e]  BY DEF Parser
    <3>2. CoreOf(q) = [c EXCEPT !.state = next, !.len = x, !.str = e]
      <4>1. c = [state |-> p.state, len |-> p.len, str |-> p.str, args |-> p.args]  BY <1>1 DEF CoreOf
      <4>2. q.state = next /\ q.len = x /\ q.str = e /\ q.args = p.args  BY <3>1 DEF Parser
      <4>3. CoreOf(q) = [state |-> next, len |-> x, str |-> e, args |-> p.args]  BY <4>2 DEF CoreOf
      <4>4. [c EXCEPT !.state = next, !.len = x, !.str = e]
            = [state |-> next, len |-> x, str |-> e, args |-> p.args]
        <5>1. PICK r : r = [c EXCEPT !.state = next, !.len = x, !.str = e]  OBVIOUS
        <5>2. r = [state |-> next, len |-> x, str |-> e, args |-> p.args]  BY Zenon, <4>1, <5>1, CoreUpdates
        <5> QED  BY <5>1, <5>2
      <4> QED  BY <4>3, <4>4
    <3> QED  BY <1>3, <2>2, <3>1, <3>2 DEF Length
  <2> QED  BY <2>1, <2>2
<1>8. ASSUME NEW next \in ParserStates
      PROVE  Char(p, x, next) \in Parser /\ CoreOf(Char(p, x, next)) = Char(c, x, next)
  <2>1. CASE Len(s) = p.len
    <3>1. PICK q \in Parser : q = [p EXCEPT !.state = next, !.args = a]  BY DEF Parser
    <3>2. CoreOf(q) = [c EXCEPT !.state = next, !.args = a]
      <4>1. c = [state |-> p.state, len |-> p.len, str |-> p.str, args |-> p.args]  BY <1>1 DEF CoreOf
      <4>2. q.state = next /\ q.len = p.len /\ q.str = p.str /\ q.args = a  BY <3>1 DEF Parser
      <4>3. CoreOf(q) = [state |-> next, len |-> p.len, str |-> p.str, args |-> a]  BY <4>2 DEF CoreOf
      <4>4. [c EXCEPT !.state = next, !.args = a]
            = [state |-> next, len |-> p.len, str |-> p.str, args |-> a]
        <5>1. PICK r : r = [c EXCEPT !.state = next, !.args = a]  OBVIOUS
        <5>2. r = [state |-> next, len |-> p.len, str |-> p.str, args |-> a]  BY Zenon, <4>1, <5>1, CoreUpdates
        <5> QED  BY <5>1, <5>2
      <4> QED  BY <4>3, <4>4
    <3>3. Char(p, x, next) = q  BY <1>4, <1>5, <2>1, <3>1 DEF Char
    <3>4. Char(c, x, next) = CoreOf(q)  BY <1>2, <1>4, <1>5, <2>1, <3>2 DEF Char
    <3> QED  BY <3>3, <3>4
  <2>2. CASE Len(s) # p.len
    <3>1. PICK q \in Parser : q = [p EXCEPT !.str = s]  BY DEF Parser
    <3>2. CoreOf(q) = [c EXCEPT !.str = s]
      <4>1. c = [state |-> p.state, len |-> p.len, str |-> p.str, args |-> p.args]  BY <1>1 DEF CoreOf
      <4>2. q.state = p.state /\ q.len = p.len /\ q.str = s /\ q.args = p.args  BY <3>1 DEF Parser
      <4>3. CoreOf(q) = [state |-> p.state, len |-> p.len, str |-> s, args |-> p.args]  BY <4>2 DEF CoreOf
      <4>4. [c EXCEPT !.str = s] = [state |-> p.state, len |-> p.len, str |-> s, args |-> p.args]  BY <4>1
      <4> QED  BY <4>3, <4>4
    <3>3. Char(p, x, next) = q  BY <1>4, <2>2, <3>1 DEF Char
    <3>4. Char(c, x, next) = CoreOf(q)  BY <1>2, <1>4, <2>2, <3>2 DEF Char
    <3> QED  BY <3>3, <3>4
  <2> QED  BY <2>1, <2>2
<1>9. /\ "UNAME" \in ParserStates /\ "PLEN" \in ParserStates /\ "PASSWORD" \in ParserStates
      /\ "BAD_LENGTH" \in ParserStates /\ "BAD_VERSION" \in ParserStates /\ "ULEN" \in ParserStates
      /\ "DONE" \in ParserStates
  BY DEF ParserStates
<1>10. p.state \in {"VERSION", "ULEN", "UNAME", "PLEN", "PASSWORD"}  BY DEF LoginStates
<1>11. CASE p.state = "VERSION"
  <2>1. PICK next \in ParserStates : next = IF x = AuthVersion THEN "ULEN" ELSE "BAD_VERSION"  BY <1>9
  <2>2. PICK q \in Parser : q = [p EXCEPT !.state = next]  BY DEF Parser
  <2>3. AuthFeed(p, x) = q  BY <1>11, <2>1, <2>2 DEF AuthFeed
  <2>4. AuthFeed(c, x) = [c EXCEPT !.state = next]  BY <1>2, <1>11, <2>1 DEF AuthFeed
  <2> QED  BY <1>1, <1>6, <2>2, <2>3, <2>4
<1>12. CASE p.state = "ULEN"
  <2>1. AuthFeed(p, x) = Length(p, x, "UNAME", "BAD_LENGTH")  BY <1>12 DEF AuthFeed
  <2>2. AuthFeed(c, x) = Length(c, x, "UNAME", "BAD_LENGTH")  BY <1>2, <1>12 DEF AuthFeed
  <2> QED  BY <1>1, <1>7, <1>9, <2>1, <2>2
<1>13. CASE p.state = "UNAME"
  <2>1. AuthFeed(p, x) = Char(p, x, "PLEN")  BY <1>13 DEF AuthFeed
  <2>2. AuthFeed(c, x) = Char(c, x, "PLEN")  BY <1>2, <1>13 DEF AuthFeed
  <2> QED  BY <1>1, <1>8, <1>9, <2>1, <2>2
<1>14. CASE p.state = "PLEN"
  <2>1. AuthFeed(p, x) = Length(p, x, "PASSWORD", "BAD_LENGTH")  BY <1>14 DEF AuthFeed
  <2>2. AuthFeed(c, x) = Length(c, x, "PASSWORD", "BAD_LENGTH")  BY <1>2, <1>14 DEF AuthFeed
  <2> QED  BY <1>1, <1>7, <1>9, <2>1, <2>2
<1>15. CASE p.state = "PASSWORD"
  <2>1. AuthFeed(p, x) = Char(p, x, "DONE")  BY <1>15 DEF AuthFeed
  <2>2. AuthFeed(c, x) = Char(c, x, "DONE")  BY <1>2, <1>15 DEF AuthFeed
  <2> QED  BY <1>1, <1>8, <1>9, <2>1, <2>2
<1> QED  BY <1>10, <1>11, <1>12, <1>13, <1>14, <1>15

LEMMA LoginDone ==
  ASSUME NEW b, NEW seen, LoginBytes(b, seen), NEW j \in 0 .. Len(b), NEW p, LoginAt(b, j, p)
  PROVE  /\ Done(p) <=> j = Len(b)
         /\ Done(p) => p.args = seen /\ (p.state = "DONE" <=> Len(seen) = 2)
<1>1. /\ p.state \in LoginStates /\ (p.state \in LoginEnds <=> j = Len(b))
      /\ p.state \in LoginEnds => p.args = seen /\ (p.state = "DONE" <=> Len(seen) = 2)
  BY LoginEnd
<1>2. Done(p) <=> p.state \in LoginEnds  BY <1>1 DEF Done, LoginStates, LoginEnds
<1> QED  BY <1>1, <1>2

LEMMA LoginFed ==
  ASSUME NEW b, NEW seen, LoginBytes(b, seen), NEW j \in 0 .. Len(b) - 1, NEW p \in Parser, LoginAt(b, j, p)
  PROVE  AuthFeed(p, b[j + 1]) \in Parser /\ LoginAt(b, j + 1, AuthFeed(p, b[j + 1]))
<1>0. b \in Seq(Byte) /\ Len(b) \in Nat /\ j \in 0 .. Len(b) /\ j # Len(b) /\ j + 1 \in 1 .. Len(b)
  BY LenProperties DEF LoginBytes
<1>1. b[j + 1] \in Byte  BY <1>0, ElementOfSeq
<1>2. p.state \in LoginStates \ LoginEnds  BY <1>0, LoginEnd
<1>3. PICK c \in Core : c = CoreOf(p)
  <2>1. p.str \in Seq(Byte) /\ p.args \in Seq(Seq(Byte))  BY DEF Parser
  <2>b. p.len \in Byte  BY DEF Parser
  <2>i. \A l \in Byte : l \in Int  BY DEF Byte
  <2>2. p.len \in Int  BY <2>b, <2>i
  <2>3. p.state \in LoginStates  BY SMTT(40), <1>2
  <2> QED  BY <2>1, <2>2, <2>3 DEF Core, CoreOf
<1>4. LoginAt(b, j, c)  BY SMTT(40), <1>3 DEF LoginAt, CoreOf
<1>5. LoginAt(b, j + 1, AuthFeed(c, b[j + 1]))  BY <1>4, LoginStep
<1>6. PICK q \in Parser : q = AuthFeed(p, b[j + 1]) /\ CoreOf(q) = AuthFeed(c, b[j + 1])
  BY <1>1, <1>2, <1>3, LoginFeed
<1>7. PICK d : d = CoreOf(q) /\ LoginAt(b, j + 1, d)  BY <1>5, <1>6
<1>8. d.state = q.state /\ d.len = q.len /\ d.str = q.str /\ d.args = q.args  BY SMTT(40), <1>7 DEF CoreOf
<1>9. LoginAt(b, j + 1, q)  BY <1>7, <1>8 DEF LoginAt
<1> QED  BY <1>6, <1>9

-----------------------------------------------------------------------------
\* What the bytes b of a request are: it may stop at a type that there is not.
\* Its address has size bytes from the position start + 1.
Types == {Ip4, DomainName, Ip6}
RequestBytes(b, seen, start, size) ==
  /\ b \in Seq(Byte)
  /\ \/ b[4] \notin Types /\ Len(b) = 4 /\ seen = <<b[4]>>
     \/ /\ \/ b[4] = DomainName /\ start = 5 /\ size = b[5]
           \/ b[4] = Ip4 /\ start = 4 /\ size = 4
           \/ b[4] = Ip6 /\ start = 4 /\ size = 16
        /\ size \in Byte /\ Len(b) = start + size + 2
        /\ seen = <<b[1], b[2], b[4], SubSeq(b, start + 1, start + size),
                    <<b[start + size + 1], b[start + size + 2]>>>>

Recorded(b, j, p) ==
  (j >= 1 => p.version = b[1]) /\ (j >= 2 => p.cmd = b[2]) /\ (j >= 4 => p.type = b[4])

RequestAt(b, start, size, j, p) ==
  /\ Recorded(b, j, p)
  /\ \/ j = 0 /\ p = NewParser
     \/ j = 1 /\ p.state = "COMMAND" /\ p.args = <<>>
     \/ j = 2 /\ p.state = "RESERVED" /\ p.args = <<>>
     \/ j = 3 /\ p.state = "ADD_TYPE" /\ p.args = <<>>
     \/ j = 4 /\ b[4] \notin Types /\ p.state = "BAD_TYPE"
     \/ j = 4 /\ b[4] = DomainName /\ p.state = "DOMAIN_LENGTH" /\ p.args = <<>>
     \/ /\ b[4] \in Types /\ j \in start .. start + size - 1 /\ p.state = "ADDRESS" /\ p.args = <<>>
        /\ p.len = size /\ p.str = SubSeq(b, start + 1, j)
     \/ /\ b[4] \in Types /\ j = start + size /\ p.state = "PORT_HIGH"
        /\ p.args = <<SubSeq(b, start + 1, start + size)>>
     \/ /\ b[4] \in Types /\ j = start + size + 1 /\ p.state = "PORT_LOW"
        /\ p.args = <<SubSeq(b, start + 1, start + size)>> /\ p.str = <<b[start + size + 1]>>
     \/ /\ b[4] \in Types /\ j = start + size + 2 /\ p.state = "DONE"
        /\ p.args = <<SubSeq(b, start + 1, start + size), <<b[start + size + 1], b[start + size + 2]>>>>

LEMMA ThreeAndTwo ==
  ASSUME NEW x, NEW y, NEW z, NEW t, NEW u
  PROVE  <<x, y, z>> \o <<t, u>> = <<x, y, z, t, u>>
<1> DEFINE S == {x, y, z, t, u}
<1>0. x \in S /\ y \in S /\ z \in S /\ t \in S /\ u \in S  OBVIOUS
<1> HIDE DEF S
<1>t. /\ <<x, y, z>> \in Seq(S) /\ <<t, u>> \in Seq(S)
      /\ <<x, y, z, t, u>> \in Seq(S)
  BY <1>0
<1>1. PICK a \in Seq(S) : a = <<x, y, z>> /\ Len(a) = 3 /\ a[1] = x /\ a[2] = y /\ a[3] = z
  BY <1>t
<1>2. PICK c \in Seq(S) : c = <<t, u>> /\ Len(c) = 2 /\ c[1] = t /\ c[2] = u
  BY <1>t
<1>3. PICK d \in Seq(S) : /\ d = <<x, y, z, t, u>> /\ Len(d) = 5
                          /\ d[1] = x /\ d[2] = y /\ d[3] = z /\ d[4] = t /\ d[5] = u
  BY <1>t
<1>4. /\ a \o c \in Seq(S) /\ Len(a \o c) = Len(a) + Len(c)
      /\ \A i \in 1 .. Len(a) + Len(c) : (a \o c)[i] = IF i <= Len(a) THEN a[i] ELSE c[i - Len(a)]
  BY ConcatProperties
<1>5. ASSUME NEW i \in 1 .. 5  PROVE (a \o c)[i] = d[i]
  <2>1. i = 1 \/ i = 2 \/ i = 3 \/ i = 4 \/ i = 5  OBVIOUS
  <2> QED  BY <1>1, <1>2, <1>3, <1>4, <2>1
<1>6. Len(a \o c) = 5  BY <1>1, <1>2, <1>4
<1>7. a \o c = d  BY ZenonT(40), <1>3, <1>4, <1>5, <1>6, SeqEqual
<1> QED  BY <1>1, <1>2, <1>3, <1>7

LEMMA RequestEnd ==
  ASSUME NEW b, NEW seen, NEW start, NEW size, RequestBytes(b, seen, start, size),
         NEW j \in 0 .. Len(b), NEW p, RequestAt(b, start, size, j, p)
  PROVE  /\ Done(p) <=> j = Len(b)
         /\ Done(p) => /\ seen = IF p.state = "BAD_TYPE" THEN <<p.type>>
                                  ELSE <<p.version, p.cmd, p.type>> \o p.args
                       /\ p.state \in {"BAD_TYPE", "DONE"}
                       /\ p.state = "DONE" => p.type \in Types /\ Len(seen) = 5
                       /\ p.state = "BAD_TYPE" => Len(seen) = 1
<1>0. PICK n \in Nat : n = Len(b)  BY LenProperties DEF RequestBytes
<1>1. j \in 0 .. n  BY <1>0
<1>2. CASE b[4] \notin Types
  <2>1. n = 4 /\ seen = <<b[4]>>  BY <1>0, <1>2 DEF RequestBytes, Types
  <2>2. p.state # "BAD_TYPE" => j # 4 /\ ~Done(p)
    BY <1>2 DEF RequestAt, Types, Done, NewParser
  <2>3. p.state = "BAD_TYPE" => j = 4 /\ Done(p) /\ p.type = b[4]
    BY <1>2 DEF RequestAt, Types, Done, Recorded, NewParser
  <2>4. Len(seen) = 1  BY <2>1
  <2> QED  BY <1>0, <2>1, <2>2, <2>3, <2>4
<1>3. CASE b[4] \in Types
  <2>1. start \in 4 .. 5 /\ size \in 0 .. 255 /\ n = start + size + 2
        /\ seen = <<b[1], b[2], b[4], SubSeq(b, start + 1, start + size),
                    <<b[start + size + 1], b[start + size + 2]>>>>
    BY <1>0, <1>3 DEF RequestBytes, Byte
  <2>a. n >= 6  BY SMTT(40), <2>1
  <2>2. CASE p.state = "DONE"
    <3>1. /\ j = start + size + 2
          /\ p.args = <<SubSeq(b, start + 1, start + size), <<b[start + size + 1], b[start + size + 2]>>>>
      BY <2>2 DEF RequestAt, NewParser
    <3>2. Done(p) /\ j = n  BY <2>1, <2>2, <3>1 DEF Done
    <3>3. p.version = b[1] /\ p.cmd = b[2] /\ p.type = b[4]
      BY <2>a, <3>2 DEF RequestAt, Recorded
    <3>4. PICK ad, po : ad = SubSeq(b, start + 1, start + size) /\ po = <<b[start + size + 1], b[start + size + 2]>>
      OBVIOUS
    <3>5. seen = <<b[1], b[2], b[4], ad, po>> /\ p.args = <<ad, po>>  BY <2>1, <3>1, <3>4
    <3>6. <<b[1], b[2], b[4]>> \o <<ad, po>> = <<b[1], b[2], b[4], ad, po>>  BY ThreeAndTwo
    <3>7. Len(seen) = 5  BY <3>5
    <3> QED  BY <1>0, <1>3, <2>2, <3>2, <3>3, <3>5, <3>6, <3>7
  <2>3. CASE p.state # "DONE"
    <3>1. ~Done(p)  BY <1>3, <2>3 DEF RequestAt, NewParser, Done
    <3>2. j # n
      <4>1. j \in 0 .. 4 \/ j \in start .. start + size - 1 \/ j = start + size \/ j = start + size + 1
        BY SMTT(40), <2>3 DEF RequestAt
      <4> QED  BY <2>1, <2>a, <4>1
    <3> QED  BY <1>0, <3>1, <3>2
  <2> QED  BY <2>2, <2>3
<1> QED  BY <1>2, <1>3

\* What the parser recorded before, and what one more byte changes.
LEMMA RecordedMore ==
  ASSUME NEW b, NEW j \in Nat, NEW p, NEW q, Recorded(b, j, p), j >= 4,
         q.version = p.version, q.cmd = p.cmd, q.type = p.type
  PROVE  Recorded(b, j + 1, q)
BY DEF Recorded

LEMMA RequestStep ==
  ASSUME NEW b, NEW seen, NEW start, NEW size, RequestBytes(b, seen, start, size),
         NEW j \in 0 .. Len(b) - 1, NEW p \in Parser, RequestAt(b, start, size, j, p)
  PROVE  /\ RequestFeed(p, b[j + 1]) \in Parser
         /\ RequestAt(b, start, size, j + 1, RequestFeed(p, b[j + 1]))
<1>0. b \in Seq(Byte)  BY DEF RequestBytes
<1>1. PICK n \in Nat : n = Len(b)  BY <1>0, LenProperties
<1>2. j \in 0 .. n - 1 /\ j \in Nat  BY <1>1
<1>3. PICK x \in Byte : x = b[j + 1]
  <2>1. j + 1 \in 1 .. Len(b)  BY <1>1, <1>2
  <2> QED  BY <1>0, <2>1, ElementOfSeq
<1>e. PICK e \in Seq(Byte) : e = <<>> /\ e \in Seq(Seq(Byte))  BY EmptySeq
<1>r. Recorded(b, j, p)  BY DEF RequestAt
<1> DEFINE q == RequestFeed(p, x)
<1>s. SUFFICES q \in Parser /\ RequestAt(b, start, size, j + 1, q)
  BY <1>3
<1>5. CASE j = 0 /\ p = NewParser
  <2>1. p.state = "VERSION" /\ p.args = <<>>  BY <1>5 DEF NewParser
  <2>2. q = [p EXCEPT !.version = x, !.state = "COMMAND"]  BY <2>1 DEF RequestFeed
  <2>3. q \in Parser /\ q.version = x /\ q.state = "COMMAND" /\ q.args = <<>>
    BY ZenonT(40), <2>1, <2>2 DEF Parser, ParserStates
  <2>4. j + 1 = 1  BY <1>5
  <2> HIDE DEF q
  <2>5. Recorded(b, 1, q)  BY <1>3, <1>5, <2>3 DEF Recorded
  <2> QED  BY <2>3, <2>4, <2>5 DEF RequestAt
<1>6. CASE j = 1 /\ p.state = "COMMAND" /\ p.args = <<>>
  <2>2. q = [p EXCEPT !.cmd = x, !.state = "RESERVED"]  BY <1>6 DEF RequestFeed
  <2>3. q \in Parser /\ q.cmd = x /\ q.version = p.version /\ q.state = "RESERVED" /\ q.args = <<>>
    BY ZenonT(40), <1>6, <2>2 DEF Parser, ParserStates
  <2>4. j + 1 = 2  BY <1>6
  <2> HIDE DEF q
  <2>5. Recorded(b, 2, q)  BY <1>3, <1>6, <1>r, <2>3 DEF Recorded
  <2> QED  BY <2>3, <2>4, <2>5 DEF RequestAt
<1>7. CASE j = 2 /\ p.state = "RESERVED" /\ p.args = <<>>
  <2>2. q = [p EXCEPT !.state = "ADD_TYPE"]  BY <1>7 DEF RequestFeed
  <2>3. q \in Parser /\ q.cmd = p.cmd /\ q.version = p.version /\ q.state = "ADD_TYPE" /\ q.args = <<>>
    BY <1>7, <2>2 DEF Parser, ParserStates
  <2>4. j + 1 = 3  BY <1>7
  <2> HIDE DEF q
  <2>5. Recorded(b, 3, q)  BY <1>7, <1>r, <2>3 DEF Recorded
  <2> QED  BY <2>3, <2>4, <2>5 DEF RequestAt
<1>8. CASE j = 3 /\ p.state = "ADD_TYPE" /\ p.args = <<>>
  <2>0. j + 1 = 4 /\ x = b[4]  BY <1>3, <1>8
  <2>f. q = LET a == [p EXCEPT !.type = x]
            IN  CASE x = DomainName -> [a EXCEPT !.state = "DOMAIN_LENGTH"]
                  [] x = Ip4 -> Address(a, 4)
                  [] x = Ip6 -> Address(a, 16)
                  [] OTHER -> [a EXCEPT !.state = "BAD_TYPE"]
    BY <1>8 DEF RequestFeed
  <2>1. CASE x = DomainName
    <3>1. q = [p EXCEPT !.type = x, !.state = "DOMAIN_LENGTH"]  BY <2>f, <2>1 DEF DomainName, Ip4, Ip6, Parser
    <3>2. q \in Parser /\ q.cmd = p.cmd /\ q.version = p.version /\ q.type = x
          /\ q.state = "DOMAIN_LENGTH" /\ q.args = <<>>
      BY ZenonT(40), <1>8, <3>1 DEF Parser, ParserStates
    <3> HIDE DEF q
    <3>3. Recorded(b, 4, q)  BY <1>8, <1>r, <2>0, <3>2 DEF Recorded
    <3> QED  BY <2>0, <2>1, <3>2, <3>3 DEF RequestAt
  <2>2. CASE x \in {Ip4, Ip6}
    <3>0. PICK l \in Byte : l = IF x = Ip4 THEN 4 ELSE 16  BY DEF Byte
    <3>1. q = [p EXCEPT !.type = x, !.len = l, !.str = e, !.state = "ADDRESS"]
      <4>1. CASE x = Ip4
        <5>1. q = Address([p EXCEPT !.type = x], 4)  BY <2>f, <4>1 DEF DomainName, Ip4, Ip6
        <5> QED  BY <1>e, <3>0, <4>1, <5>1 DEF Parser, Address
      <4>2. CASE x = Ip6
        <5>1. q = Address([p EXCEPT !.type = x], 16)  BY <2>f, <4>2 DEF DomainName, Ip4, Ip6
        <5>2. l = 16  BY <3>0, <4>2 DEF Ip4, Ip6
        <5> QED  BY <1>e, <4>2, <5>1, <5>2 DEF Parser, Address
      <4> QED  BY <2>2, <4>1, <4>2
    <3>2. q \in Parser /\ q.cmd = p.cmd /\ q.version = p.version /\ q.type = x /\ q.len = l /\ q.str = e
          /\ q.state = "ADDRESS" /\ q.args = <<>>
      BY ZenonT(40), <1>8, <3>1 DEF Parser, ParserStates
    <3> HIDE DEF q
    <3>3. Recorded(b, 4, q)  BY <1>8, <1>r, <2>0, <3>2 DEF Recorded
    <3>4. start = 4 /\ size = l /\ x \in Types
      BY <2>0, <2>2, <3>0 DEF RequestBytes, Types, DomainName, Ip4, Ip6
    <3>5. SubSeq(b, start + 1, 4) = <<>>
      <4>1. start + 1 = 5  BY <3>4
      <4> QED  BY <4>1, SubSeqEmpty
    <3>6. 4 \in start .. start + size - 1  BY <3>0, <3>4
    <3> QED  BY <1>e, <2>0, <3>2, <3>3, <3>4, <3>5, <3>6 DEF RequestAt
  <2>3. CASE x \notin Types
    <3>1. q = [p EXCEPT !.type = x, !.state = "BAD_TYPE"]  BY <2>f, <2>3 DEF Types, Parser
    <3>2. q \in Parser /\ q.cmd = p.cmd /\ q.version = p.version /\ q.type = x /\ q.state = "BAD_TYPE"
      BY ZenonT(40), <3>1 DEF Parser, ParserStates
    <3> HIDE DEF q
    <3>3. Recorded(b, 4, q)  BY <1>8, <1>r, <2>0, <3>2 DEF Recorded
    <3> QED  BY <2>0, <2>3, <3>2, <3>3 DEF RequestAt
  <2> QED  BY <2>1, <2>2, <2>3 DEF Types
<1>9. CASE j = 4 /\ b[4] \notin Types
  <2>1. n = 4  BY <1>1, <1>9 DEF RequestBytes, Types
  <2> QED  BY <1>2, <1>9, <2>1
<1>t. ASSUME b[4] \in Types
      PROVE  start \in {4, 5} /\ size \in 0 .. 255 /\ n = start + size + 2 /\ size \in Byte
  BY <1>1, <1>t DEF RequestBytes, Byte
<1>10. CASE j = 4 /\ b[4] = DomainName /\ p.state = "DOMAIN_LENGTH" /\ p.args = <<>>
  <2>0. j >= 4 /\ j + 1 = 5 /\ x = b[5] /\ start = 5 /\ size = x /\ b[4] \in Types
    BY <1>3, <1>10 DEF RequestBytes, Types, DomainName, Ip4, Ip6
  <2>1. q = DomainLength(p, x)  BY <1>10 DEF RequestFeed
  <2>2. CASE x > 0
    <3>1. q = [p EXCEPT !.len = x, !.str = e, !.state = "ADDRESS"]
      BY <1>e, <2>1, <2>2 DEF DomainLength, Address
    <3>2. q \in Parser /\ q.cmd = p.cmd /\ q.version = p.version /\ q.type = p.type /\ q.len = x /\ q.str = e
          /\ q.state = "ADDRESS" /\ q.args = <<>>
      BY ZenonT(40), <1>10, <3>1 DEF Parser, ParserStates
    <3> HIDE DEF q
    <3>3. Recorded(b, j + 1, q)  BY <1>2, <2>0, <1>r, <3>2, RecordedMore
    <3>5. SubSeq(b, start + 1, 5) = <<>>
      <4>1. start + 1 = 6  BY <2>0
      <4> QED  BY <4>1, SubSeqEmpty
    <3>6. 5 \in start .. start + size - 1  BY <2>0, <2>2 DEF Byte
    <3> QED  BY <1>e, <2>0, <3>2, <3>3, <3>5, <3>6 DEF RequestAt
  <2>3. CASE x = 0
    <3>0. <<e>> \in Seq(Seq(Byte))  BY <1>e
    <3>1. q = [p EXCEPT !.args = <<e>>, !.state = "PORT_HIGH"]
      BY <1>e, <2>1, <2>3 DEF DomainLength
    <3>2. q \in Parser /\ q.cmd = p.cmd /\ q.version = p.version /\ q.type = p.type
          /\ q.state = "PORT_HIGH" /\ q.args = <<e>>
      BY <3>0, <3>1 DEF Parser, ParserStates
    <3> HIDE DEF q
    <3>3. Recorded(b, j + 1, q)  BY <1>2, <2>0, <1>r, <3>2, RecordedMore
    <3>5. SubSeq(b, start + 1, start + size) = <<>>
      <4>1. start + 1 = 6 /\ start + size = 5  BY <2>0, <2>3
      <4> QED  BY <4>1, SubSeqEmpty
    <3>6. j + 1 = start + size  BY <2>0, <2>3
    <3> QED  BY <1>e, <2>0, <3>2, <3>3, <3>5, <3>6 DEF RequestAt
  <2> QED  BY SMTT(40), <2>2, <2>3 DEF Byte
<1>11. CASE /\ b[4] \in Types /\ j \in start .. start + size - 1 /\ p.state = "ADDRESS" /\ p.args = <<>>
            /\ p.len = size /\ p.str = SubSeq(b, start + 1, j)
  <2>1. PICK f \in {4, 5}, z \in 0 .. 255 : f = start /\ z = size /\ n = f + z + 2  BY ZenonT(40), <1>t, <1>11
  <2>2. j \in f .. f + z - 1 /\ j >= 4 /\ z # 0 /\ j < n /\ f + 1 <= j + 1 /\ j + 1 < (f + 1) + z
        /\ f + 1 \in Nat \ {0}
    BY <1>11, <2>1
  <2>n. PICK next \in ParserStates : next = "PORT_HIGH"  BY DEF ParserStates
  <2>3. q = Char(p, x, next)  BY <1>11, <2>n DEF RequestFeed
  <2> HIDE DEF q
  <2>4. Inside(b, f + 1, j, p)  BY <1>1, <1>2, <1>11, <2>1, <2>2 DEF Inside
  <2>5. OneMore(b, f + 1, j, p, next, q)  BY <1>0, <1>3, <2>3, <2>4, CharStep
  <2>6. Recorded(b, j + 1, q) /\ q \in Parser
    BY <1>2, <1>r, <2>2, <2>5, RecordedMore DEF OneMore
  <2>7. CASE j + 2 < (f + 1) + z
    <3>1. j + 1 \in f .. f + z - 1  BY <2>2, <2>7
    <3>2. q.state = p.state /\ q.args = p.args /\ q.str = SubSeq(b, f + 1, j + 1) /\ q.len = z
      BY <1>11, <2>1, <2>5, <2>7 DEF OneMore
    <3> QED  BY <1>11, <2>1, <2>6, <3>1, <3>2 DEF RequestAt
  <2>8. CASE j + 2 = (f + 1) + z
    <3>1. j + 1 = f + z  BY <2>1, <2>2, <2>8
    <3>2. q.state = "PORT_HIGH" /\ q.args = Append(p.args, SubSeq(b, f + 1, j + 1))
      BY <1>11, <2>1, <2>n, <2>5, <2>8 DEF OneMore
    <3>3. q.args = <<SubSeq(b, f + 1, f + z)>>  BY <1>11, <3>1, <3>2, AppendPair
    <3> QED  BY <1>11, <2>1, <2>6, <3>1, <3>2, <3>3 DEF RequestAt
  <2> QED  BY <2>1, <2>2, <2>7, <2>8
<1>12. CASE /\ b[4] \in Types /\ j = start + size /\ p.state = "PORT_HIGH"
            /\ p.args = <<SubSeq(b, start + 1, start + size)>>
  <2>1. start \in {4, 5} /\ size \in 0 .. 255  BY <1>t, <1>12
  <2>0. <<x>> \in Seq(Byte)  OBVIOUS
  <2>2. q = [p EXCEPT !.str = <<x>>, !.state = "PORT_LOW"]  BY <1>12 DEF RequestFeed
  <2>3. q \in Parser /\ q.cmd = p.cmd /\ q.version = p.version /\ q.type = p.type
        /\ q.state = "PORT_LOW" /\ q.args = p.args /\ q.str = <<x>>
    BY ZenonT(40), <2>0, <2>2 DEF Parser, ParserStates
  <2> HIDE DEF q
  <2>4. j >= 4 /\ j + 1 = start + size + 1  BY <1>12, <2>1
  <2>5. Recorded(b, j + 1, q)  BY <1>2, <1>r, <2>3, <2>4, RecordedMore
  <2>6. x = b[start + size + 1]  BY <1>3, <2>4
  <2> QED  BY <1>12, <2>3, <2>4, <2>5, <2>6 DEF RequestAt
<1>13. CASE /\ b[4] \in Types /\ j = start + size + 1 /\ p.state = "PORT_LOW"
            /\ p.args = <<SubSeq(b, start + 1, start + size)>> /\ p.str = <<b[start + size + 1]>>
  <2>1. start \in {4, 5} /\ size \in 0 .. 255  BY <1>t, <1>13
  <2>4. j >= 4 /\ j + 1 = start + size + 2  BY <1>13, <2>1
  <2>6. x = b[start + size + 2]  BY <1>3, <2>4
  <2>p. PICK po : po = <<b[start + size + 1], b[start + size + 2]>>  OBVIOUS
  <2>7. Append(p.str, x) = po  BY <1>13, <2>6, <2>p, AppendPair
  <2>8. po \in Seq(Byte)
    <3>1. p.str \in Seq(Byte)  BY DEF Parser
    <3> QED  BY <2>7, <3>1, AppendProperties
  <2>9. Append(p.args, po) \in Seq(Seq(Byte))
    <3>1. p.args \in Seq(Seq(Byte))  BY DEF Parser
    <3> QED  BY <2>8, <3>1, AppendProperties
  <2>2. q = [p EXCEPT !.args = Append(@, po), !.state = "DONE"]  BY <1>13, <2>7 DEF RequestFeed
  <2>3. q \in Parser /\ q.cmd = p.cmd /\ q.version = p.version /\ q.type = p.type
        /\ q.state = "DONE" /\ q.args = Append(p.args, po)
    BY ZenonT(40), <2>9, <2>2 DEF Parser, ParserStates
  <2> HIDE DEF q
  <2>10. q.args = <<SubSeq(b, start + 1, start + size), po>>  BY <1>13, <2>3, AppendPair
  <2>5. Recorded(b, j + 1, q)  BY <1>2, <1>r, <2>3, <2>4, RecordedMore
  <2> QED  BY <1>13, <2>p, <2>3, <2>4, <2>5, <2>10 DEF RequestAt
<1>14. CASE b[4] \in Types /\ j = start + size + 2
  BY <1>2, <1>14, <1>t
<1> HIDE DEF q
<1> QED  BY <1>5, <1>6, <1>7, <1>8, <1>9, <1>10, <1>11, <1>12, <1>13, <1>14 DEF RequestAt

Start(b) == IF b[4] = DomainName THEN 5 ELSE 4
Size(b) == IF b[4] = Ip4 THEN 4 ELSE IF b[4] = Ip6 THEN 16 ELSE b[5]

\* The first four bytes of a request.
LEMMA HeadParts ==
  ASSUME NEW v \in Byte, NEW cmd \in Byte, NEW type \in Byte
  PROVE  \E h \in Seq(Byte) : /\ h = <<v, cmd, 0, type>> /\ Len(h) = 4
                              /\ h[1] = v /\ h[2] = cmd /\ h[4] = type
<1>1. 0 \in Byte  BY DEF Byte
<1>2. <<v, cmd, 0, type>> \in Seq(Byte)  BY <1>1
<1> QED  BY <1>2

\* Four bytes, some more and two more.
LEMMA ThreeParts ==
  ASSUME NEW h \in Seq(Byte), NEW x \in Seq(Byte), NEW z \in Seq(Byte), Len(h) = 4, Len(z) = 2
  PROVE  \E d \in Seq(Byte) : /\ d = (h \o x) \o z /\ Len(d) = 6 + Len(x)
                              /\ d[1] = h[1] /\ d[2] = h[2] /\ d[4] = h[4]
                              /\ \A i \in 1 .. Len(x) : d[4 + i] = x[i]
                              /\ d[5 + Len(x)] = z[1] /\ d[6 + Len(x)] = z[2]
<1>0. PICK l \in Nat : l = Len(x)  BY LenProperties
<1>1. PICK c \in Seq(Byte) : /\ c = h \o x /\ Len(c) = Len(h) + Len(x)
                             /\ \A i \in 1 .. Len(h) : c[i] = h[i]
                             /\ \A i \in 1 .. Len(x) : c[Len(h) + i] = x[i]
  BY Pasted
<1>2. PICK d \in Seq(Byte) : /\ d = c \o z /\ Len(d) = Len(c) + Len(z)
                             /\ \A i \in 1 .. Len(c) : d[i] = c[i]
                             /\ \A i \in 1 .. Len(z) : d[Len(c) + i] = z[i]
  BY Pasted
<1>3. Len(c) = 4 + l /\ Len(d) = 6 + l  BY <1>0, <1>1, <1>2
<1>4. d[1] = h[1] /\ d[2] = h[2] /\ d[4] = h[4]
  <2>1. 1 \in 1 .. 4 + l /\ 2 \in 1 .. 4 + l /\ 4 \in 1 .. 4 + l  OBVIOUS
  <2>2. 1 \in 1 .. 4 /\ 2 \in 1 .. 4 /\ 4 \in 1 .. 4  OBVIOUS
  <2>3. d[1] = c[1] /\ d[2] = c[2] /\ d[4] = c[4]  BY <1>2, <1>3, <2>1
  <2>4. c[1] = h[1] /\ c[2] = h[2] /\ c[4] = h[4]  BY <1>1, <2>2
  <2> QED  BY <2>3, <2>4
<1>5. ASSUME NEW i \in 1 .. l  PROVE d[4 + i] = x[i]
  <2>1. 4 + i \in 1 .. 4 + l  OBVIOUS
  <2>2. d[4 + i] = c[4 + i]  BY <1>2, <1>3, <2>1
  <2>3. c[4 + i] = x[i]  BY <1>0, <1>1
  <2> QED  BY <2>2, <2>3
<1>6. d[5 + l] = z[1] /\ d[6 + l] = z[2]
  <2>1. 1 \in 1 .. 2 /\ 2 \in 1 .. 2 /\ (4 + l) + 1 = 5 + l /\ (4 + l) + 2 = 6 + l  OBVIOUS
  <2>2. d[(4 + l) + 1] = z[1] /\ d[(4 + l) + 2] = z[2]  BY <1>2, <1>3, <2>1
  <2> QED  BY <2>1, <2>2
<1>7. d = (h \o x) \o z  BY <1>1, <1>2
<1> QED  BY <1>0, <1>3, <1>4, <1>5, <1>6, <1>7

LEMMA RequestShape ==
  ASSUME NEW m, IsRequest(m)
  PROVE  RequestBytes(m.bytes, m.seen, Start(m.bytes), Size(m.bytes))
<1> DEFINE b == m.bytes
           Whole == /\ Len(m.seen) = 5 /\ m.seen[1] \in Byte /\ m.seen[2] \in Byte
                    /\ AddressOf(m.seen[3], m.seen[4]) /\ m.seen[5] \in Byte \X Byte
                    /\ m = Request(m.seen[1], m.seen[2], m.seen[3], m.seen[4], m.seen[5])
<1>1. CASE \E v, cmd \in Byte : \E type \in Byte \ {Ip4, DomainName, Ip6} :
             m = Request(v, cmd, type, <<>>, <<>>)
  <2>1. PICK v \in Byte, cmd \in Byte, type \in Byte \ {Ip4, DomainName, Ip6} :
          m = Request(v, cmd, type, <<>>, <<>>)
    BY <1>1
  <2>2. b = (<<v, cmd, 0, type>> \o <<>>) \o <<>> /\ m.seen = <<type>>
    BY <2>1 DEF Request
  <2>3. PICK h \in Seq(Byte) : /\ h = <<v, cmd, 0, type>> /\ Len(h) = 4
                               /\ h[1] = v /\ h[2] = cmd /\ h[4] = type
    BY HeadParts
  <2>4. b = h
    <3>1. h \o <<>> = h  BY ConcatEmptySeq
    <3> QED  BY <2>2, <2>3, <3>1
  <2>5. b[4] \notin Types /\ Len(b) = 4 /\ m.seen = <<b[4]>> /\ b \in Seq(Byte)
    BY <2>2, <2>3, <2>4 DEF Types
  <2> QED  BY <2>5 DEF RequestBytes
<1>2. CASE Whole
  <2>1. PICK v \in Byte, cmd \in Byte, type \in Types, s \in Seq(Byte), port \in Byte \X Byte :
          /\ v = m.seen[1] /\ cmd = m.seen[2] /\ type = m.seen[3] /\ s = m.seen[4] /\ port = m.seen[5]
          /\ Len(s) \in (IF type = Ip4 THEN {4} ELSE IF type = Ip6 THEN {16} ELSE Byte)
    BY <1>2 DEF AddressOf, Types
  <2>2. m = Request(v, cmd, type, s, port)  BY <1>2, <2>1
  <2>a. b = (<<v, cmd, 0, type>> \o (IF type = DomainName THEN Str(s) ELSE s)) \o port
        /\ m.seen = <<v, cmd, type, s, port>>
    BY <2>2 DEF Request, Types
  <2>3. PICK h0, x0 : /\ h0 = <<v, cmd, 0, type>> /\ x0 = IF type = DomainName THEN Str(s) ELSE s
                      /\ b = (h0 \o x0) \o port /\ m.seen = <<v, cmd, type, s, port>>
    BY <2>a
  <2>4. PICK size \in Byte : /\ size = Len(s) /\ (type = Ip4 => size = 4) /\ (type = Ip6 => size = 16)
    <3>1. Ip4 = 1 /\ Ip6 = 4  BY DEF Ip4, Ip6
    <3>2. 4 \in Byte /\ 16 \in Byte  BY DEF Byte
    <3>3. Len(s) \in Byte  BY <2>1, <3>2
    <3> QED  BY <2>1, <3>1, <3>3
  <2>s. size \in Nat /\ size \in 0 .. 255  BY DEF Byte
  <2>5. PICK start \in {4, 5} : start = IF type = DomainName THEN 5 ELSE 4  OBVIOUS
  <2>6. PICK x \in Seq(Byte) : /\ x = x0
                               /\ Len(x) = start - 4 + size
                               /\ type = DomainName => x[1] = size
                               /\ \A i \in 1 .. size : x[start - 4 + i] = s[i]
    <3>1. CASE type = DomainName
      <4>1. Str(s) \in Seq(Byte) /\ Len(Str(s)) = 1 + size /\ Str(s)[1] = size
            /\ \A i \in 1 .. size : Str(s)[1 + i] = s[i]
        BY <2>4, StrParts
      <4>2. start - 4 = 1  BY <2>5, <3>1
      <4> QED  BY SMTT(40), <2>3, <3>1, <4>1, <4>2
    <3>2. CASE type # DomainName
      <4>1. start - 4 = 0 /\ \A i \in 1 .. size : 0 + i = i  BY <2>5, <2>s, <3>2
      <4>2. 0 + size = size  BY <2>s
      <4> QED  BY <2>3, <2>4, <3>2, <4>1, <4>2
    <3> QED  BY <3>1, <3>2
  <2>7. PICK h \in Seq(Byte) : h = h0 /\ Len(h) = 4 /\ h[1] = v /\ h[2] = cmd /\ h[4] = type
    <3>1. type \in Byte  BY DEF Types, Byte, Ip4, DomainName, Ip6
    <3> QED  BY SMTT(40), <2>3, <3>1, HeadParts
  <2>8. PICK z \in Seq(Byte) : z = port /\ Len(z) = 2 /\ port = <<z[1], z[2]>>
    <3>1. port = <<port[1], port[2]>> /\ port[1] \in Byte /\ port[2] \in Byte  OBVIOUS
    <3>2. <<port[1], port[2]>> \in Seq(Byte)  BY <3>1
    <3> QED  BY <3>1, <3>2
  <2>l. PICK l \in Nat : l = start - 4 + size  BY <2>s
  <2>9. Len(h) = 4 /\ Len(x) = l /\ Len(z) = 2  BY <2>6, <2>7, <2>8, <2>l
  <2>p. PICK d \in Seq(Byte) : /\ d = (h \o x) \o z /\ Len(d) = 6 + Len(x)
                               /\ d[1] = h[1] /\ d[2] = h[2] /\ d[4] = h[4]
                               /\ \A i \in 1 .. Len(x) : d[4 + i] = x[i]
                               /\ d[5 + Len(x)] = z[1] /\ d[6 + Len(x)] = z[2]
    BY ZenonT(40), <2>9, ThreeParts
  <2>10. /\ Len(d) = 6 + l /\ d[1] = h[1] /\ d[2] = h[2] /\ d[4] = h[4]
         /\ \A i \in 1 .. l : d[4 + i] = x[i]
         /\ d[5 + l] = z[1] /\ d[6 + l] = z[2]
    BY <2>9, <2>p
  <2>11. b = d
    <3>1. h = h0 /\ x = x0 /\ z = port  BY <2>6, <2>7, <2>8
    <3>2. b = (h0 \o x0) \o port  BY <2>3
    <3> HIDE DEF b
    <3> QED  BY <2>p, <3>1, <3>2
  <2> HIDE DEF b
  <2>12. b \in Seq(Byte) /\ b[1] = v /\ b[2] = cmd /\ b[4] = type
    BY <2>7, <2>10, <2>11
  <2>13. Len(b) = start + size + 2 /\ b[start + size + 1] = z[1] /\ b[start + size + 2] = z[2]
    <3>1. 6 + l = start + size + 2 /\ 5 + l = start + size + 1  BY <2>l, <2>s
    <3> QED  BY <2>10, <2>11, <3>1
  <2>14. type = DomainName => b[5] = size
    <3>1. ASSUME type = DomainName  PROVE 1 \in 1 .. l /\ 4 + 1 = 5
      <4>1. start = 5  BY <2>5, <3>1
      <4>2. l = 1 + size  BY <2>l, <2>s, <4>1
      <4> QED  BY <2>s, <4>2
    <3> QED  BY <2>6, <2>10, <2>11, <3>1
  <2>15. SubSeq(b, start + 1, start + size) = s
    <3>1. ASSUME NEW i \in 1 .. size  PROVE b[(start + 1) - 1 + i] = s[i]
      <4>1. PICK k \in 1 .. l : k = start - 4 + i /\ 4 + k = (start + 1) - 1 + i
        BY <2>l, <2>s
      <4>2. d[4 + k] = x[k]  BY <2>10
      <4>3. x[k] = s[i]  BY <2>6, <4>1
      <4> QED  BY <2>11, <4>1, <4>2, <4>3
    <3>2. \A i \in 1 .. Len(s) : b[(start + 1) - 1 + i] = s[i]  BY SMTT(40), <2>4, <3>1
    <3>3. start + size = (start + 1) + Len(s) - 1 /\ start + size \in Int /\ start + 1 \in Nat \ {0}
      BY SMTT(60), <2>4, <2>s
    <3> QED  BY ZenonT(40), <2>12, <3>2, <3>3, SubSeqIs
  <2>16. start = Start(b) /\ size = Size(b)
    BY <2>4, <2>5, <2>12, <2>14 DEF Start, Size, Types
  <2>17. m.seen = <<b[1], b[2], b[4], SubSeq(b, start + 1, start + size),
                  <<b[start + size + 1], b[start + size + 2]>>>>
    BY ZenonT(40), <2>3, <2>8, <2>12, <2>13, <2>15
  <2>18. \/ b[4] = DomainName /\ start = 5 /\ size = b[5]
         \/ b[4] = Ip4 /\ start = 4 /\ size = 4
         \/ b[4] = Ip6 /\ start = 4 /\ size = 16
    BY <2>4, <2>5, <2>12, <2>14 DEF Types, Ip4, Ip6, DomainName
  <2>19. RequestBytes(b, m.seen, start, size)
    BY <2>12, <2>13, <2>17, <2>18 DEF RequestBytes
  <2> QED  BY <2>16, <2>19 DEF b
<1> HIDE DEF Whole
<1> QED  BY <1>1, <1>2 DEF IsRequest, Whole

-----------------------------------------------------------------------------
(* A receive: what the parser of the turn makes of the bytes of a message.  *)

Reading == {"HELLO", "AUTH_REQUEST", "REQUEST"}

\* The parser p of the state has had j bytes of the message m.
Reads(m) ==
  /\ IsMessage(m)
  /\ \/ state = "HELLO" /\ m.kind = "hello"
     \/ state = "AUTH_REQUEST" /\ m.kind = "login"
     \/ state = "REQUEST" /\ m.kind = "request"
At(m, j, p) ==
  \/ m.kind = "hello" /\ HelloAt(m.bytes, j, p)
  \/ m.kind = "login" /\ LoginAt(m.bytes, j, p)
  \/ m.kind = "request" /\ RequestAt(m.bytes, Start(m.bytes), Size(m.bytes), j, p)

\* What the handler of the turn makes of the parser is what the message means.
Understood(m, p) ==
  \/ m.kind = "hello" /\ <<p.version, p.method>> = m.seen
  \/ m.kind = "login" /\ p.args = m.seen /\ (p.state = "DONE" <=> Len(m.seen) = 2)
  \/ /\ m.kind = "request" /\ p.state \in {"BAD_TYPE", "DONE"}
     /\ m.seen = IF p.state = "BAD_TYPE" THEN <<p.type>> ELSE <<p.version, p.cmd, p.type>> \o p.args
     /\ p.state = "DONE" => p.type \in Types /\ Len(m.seen) = 5
     /\ p.state = "BAD_TYPE" => Len(m.seen) = 1

LEMMA NothingRead == ASSUME NEW m, Reads(m)  PROVE At(m, 0, NewParser) /\ ~Done(NewParser)
<1>1. Recorded(m.bytes, 0, NewParser)  BY DEF Recorded
<1>2. ~Done(NewParser)  BY DEF Done, NewParser
<1>3. NewParser.state = "VERSION" /\ NewParser.args = <<>>  BY DEF NewParser
<1> QED  BY <1>1, <1>2, <1>3 DEF Reads, At, HelloAt, LoginAt, RequestAt

LEMMA FeedStep ==
  ASSUME NEW m, Reads(m), NEW j \in 0 .. Len(m.bytes) - 1, NEW p \in Parser, At(m, j, p)
  PROVE  Feed(p, m.bytes[j + 1]) \in Parser /\ At(m, j + 1, Feed(p, m.bytes[j + 1]))
<1>1. PICK b, x : b = m.bytes /\ x = b[j + 1]  OBVIOUS
<1>2. CASE state = "HELLO" /\ m.kind = "hello"
  <2>1. HelloBytes(b, m.seen)  BY <1>1, <1>2, HelloShape DEF Reads, IsMessage
  <2>2. HelloAt(b, j, p)  BY <1>1, <1>2 DEF At
  <2>3. HelloFeed(p, x) \in Parser /\ HelloAt(b, j + 1, HelloFeed(p, x))
    BY <1>1, <2>1, <2>2, HelloStep
  <2>4. Feed(p, x) = HelloFeed(p, x)  BY <1>2 DEF Feed
  <2> QED  BY <1>1, <1>2, <2>3, <2>4 DEF At
<1>3. CASE state = "AUTH_REQUEST" /\ m.kind = "login"
  <2>1. LoginBytes(b, m.seen)  BY <1>1, <1>3, LoginShape DEF Reads, IsMessage
  <2>2. LoginAt(b, j, p)  BY <1>1, <1>3 DEF At
  <2>3. AuthFeed(p, x) \in Parser /\ LoginAt(b, j + 1, AuthFeed(p, x))
    BY <1>1, <2>1, <2>2, LoginFed
  <2>4. Feed(p, x) = AuthFeed(p, x)  BY <1>3 DEF Feed
  <2> QED  BY <1>1, <1>3, <2>3, <2>4 DEF At
<1>4. CASE state = "REQUEST" /\ m.kind = "request"
  <2>1. RequestBytes(b, m.seen, Start(b), Size(b))  BY <1>1, <1>4, RequestShape DEF Reads, IsMessage
  <2>2. RequestAt(b, Start(b), Size(b), j, p)  BY <1>1, <1>4 DEF At
  <2>3. RequestFeed(p, x) \in Parser /\ RequestAt(b, Start(b), Size(b), j + 1, RequestFeed(p, x))
    BY <1>1, <2>1, <2>2, RequestStep
  <2>4. Feed(p, x) = RequestFeed(p, x)  BY <1>4 DEF Feed
  <2> QED  BY <1>1, <1>4, <2>3, <2>4 DEF At
<1> QED  BY <1>2, <1>3, <1>4 DEF Reads

LEMMA FeedEnd ==
  ASSUME NEW m, Reads(m), NEW j \in 0 .. Len(m.bytes), NEW p, At(m, j, p)
  PROVE  (Done(p) <=> j = Len(m.bytes)) /\ (Done(p) => Understood(m, p))
<1>1. PICK b : b = m.bytes  OBVIOUS
<1>2. CASE state = "HELLO" /\ m.kind = "hello"
  <2>1. HelloBytes(b, m.seen)  BY <1>1, <1>2, HelloShape DEF Reads, IsMessage
  <2>2. HelloAt(b, j, p)  BY <1>1, <1>2 DEF At
  <2>3. (Done(p) <=> j = Len(b)) /\ (Done(p) => p.state = "DONE" /\ <<p.version, p.method>> = m.seen)
    BY <1>1, <2>1, <2>2, HelloEnd
  <2> QED  BY <1>1, <1>2, <2>3 DEF Understood
<1>3. CASE state = "AUTH_REQUEST" /\ m.kind = "login"
  <2>1. LoginBytes(b, m.seen)  BY <1>1, <1>3, LoginShape DEF Reads, IsMessage
  <2>2. LoginAt(b, j, p)  BY <1>1, <1>3 DEF At
  <2>3. /\ Done(p) <=> j = Len(b)
        /\ Done(p) => p.args = m.seen /\ (p.state = "DONE" <=> Len(m.seen) = 2)
    BY <1>1, <2>1, <2>2, LoginDone
  <2> QED  BY <1>1, <1>3, <2>3 DEF Understood
<1>4. CASE state = "REQUEST" /\ m.kind = "request"
  <2>1. RequestBytes(b, m.seen, Start(b), Size(b))  BY <1>1, <1>4, RequestShape DEF Reads, IsMessage
  <2>2. RequestAt(b, Start(b), Size(b), j, p)  BY <1>1, <1>4 DEF At
  <2>3. /\ Done(p) <=> j = Len(b)
        /\ Done(p) => /\ m.seen = IF p.state = "BAD_TYPE" THEN <<p.type>>
                                  ELSE <<p.version, p.cmd, p.type>> \o p.args
                      /\ p.state \in {"BAD_TYPE", "DONE"}
                      /\ p.state = "DONE" => p.type \in Types /\ Len(m.seen) = 5
                      /\ p.state = "BAD_TYPE" => Len(m.seen) = 1
    BY ZenonT(60), <1>1, <2>1, <2>2, RequestEnd
  <2> QED  BY <1>1, <1>4, <2>3 DEF Understood
<1> QED  BY <1>2, <1>3, <1>4 DEF Reads

\* The parser and the count of bytes after each byte of a receive.
More(a, x) == IF Done(a.p) THEN a ELSE [p |-> Feed(a.p, x), n |-> a.n + 1]
Feeds(f, held, n) == f = [k \in 0 .. n |-> IF k = 0 THEN [p |-> parser, n |-> 0] ELSE More(f[k - 1], held[k])]

LEMMA FeedsExist ==
  ASSUME NEW held, NEW n \in Nat
  PROVE  \E f : Feeds(f, held, n)
<1> DEFINE Failing == {k \in Nat : ~ \E f : Feeds(f, held, k)}
<1>1. SUFFICES ASSUME Failing # {}  PROVE FALSE
  OBVIOUS
<1>2. PICK k \in Failing : \A m \in Failing : k <= m
  <2>1. Failing \in SUBSET Nat  OBVIOUS
  <2> HIDE DEF Failing
  <2> QED  BY <1>1, <2>1, LeastExists
<1>3. k \in Nat /\ ~ \E f : Feeds(f, held, k)  BY <1>2
<1>4. CASE k = 0
  <2> DEFINE f == [i \in 0 .. 0 |-> [p |-> parser, n |-> 0]]
  <2>1. Feeds(f, held, 0)  BY DEF Feeds
  <2> QED  BY <1>3, <1>4, <2>1
<1>5. CASE k # 0
  <2>1. PICK l \in Nat : l = k - 1 /\ l < k  BY <1>3, <1>5
  <2>2. l \notin Failing
    <3>1. \A m \in Failing : m \in Nat  OBVIOUS
    <3> HIDE DEF Failing
    <3> QED  BY <1>2, <1>3, <2>1, <3>1
  <2>3. PICK f : Feeds(f, held, l)  BY <2>2
  <2>4. \A i \in 0 .. l : f[i] = IF i = 0 THEN [p |-> parser, n |-> 0] ELSE More(f[i - 1], held[i])
    BY <2>3 DEF Feeds
  <2> DEFINE g == [i \in 0 .. k |-> IF i = k THEN More(f[l], held[k]) ELSE f[i]]
  <2>5. \A i \in 0 .. l : g[i] = f[i]  BY <1>3, <2>1
  <2>6. g[k] = More(f[l], held[k])  BY <1>3
  <2>7. g = [i \in 0 .. k |-> g[i]]  OBVIOUS
  <2> HIDE DEF g
  <2>8. ASSUME NEW i \in 0 .. k
        PROVE  g[i] = IF i = 0 THEN [p |-> parser, n |-> 0] ELSE More(g[i - 1], held[i])
    <3>1. CASE i = k
      <4>1. l \in 0 .. l /\ i - 1 = l  BY <2>1, <3>1
      <4> QED  BY <1>5, <2>5, <2>6, <3>1, <4>1
    <3>2. CASE i # k
      <4>1. i \in 0 .. l /\ (i # 0 => i - 1 \in 0 .. l)  BY <1>3, <2>1, <3>2
      <4> QED  BY <2>4, <2>5, <4>1
    <3> QED  BY <3>1, <3>2
  <2>9. Feeds(g, held, k)  BY <2>7, <2>8 DEF Feeds
  <2> QED  BY <1>3, <2>9
<1> QED  BY <1>4, <1>5

LEMMA FedIs ==
  ASSUME NEW held \in Seq(Byte)
  PROVE  Feeds(Fed(held), held, Len(held))
<1>1. Len(held) \in Nat  BY LenProperties
<1> DEFINE Equation(f) ==
             f = [k \in 0 .. Len(held) |->
                    IF k = 0 THEN [p |-> parser, n |-> 0]
                    ELSE LET a == f[k - 1]
                         IN  IF Done(a.p) THEN a ELSE [p |-> Feed(a.p, held[k]), n |-> a.n + 1]]
<1>2. Fed(held) = CHOOSE f : Equation(f)  BY DEF Fed
<1>3. \A f : Equation(f) <=> Feeds(f, held, Len(held))  BY DEF Feeds, More
<1>4. \E h : Equation(h)  BY <1>1, <1>3, FeedsExist
<1> HIDE DEF Equation
<1>5. Equation(CHOOSE f : Equation(f))  BY <1>4
<1> QED  BY <1>2, <1>3, <1>5

\* After k bytes of a receive: all of them are used, up to the end of the message.
Good(m, j, f, k) ==
  /\ f[k].p \in Parser /\ f[k].n \in 0 .. k /\ j + f[k].n <= Len(m.bytes)
  /\ At(m, j + f[k].n, f[k].p)
  /\ f[k].n # k => j + f[k].n = Len(m.bytes)

LEMMA FedReads ==
  ASSUME NEW m, Reads(m), parser \in Parser, NEW j \in 0 .. Len(m.bytes), At(m, j, parser),
         NEW held \in Seq(Byte), Len(m.bytes) \in Nat,
         \A i \in 1 .. Len(held) : j + i <= Len(m.bytes) => held[i] = m.bytes[j + i]
  PROVE  Good(m, j, Fed(held), Len(held))
<1>0. PICK n \in Nat, t \in Nat : n = Len(held) /\ t = Len(m.bytes) /\ j \in 0 .. t  BY LenProperties
<1>1. PICK f : f = Fed(held) /\ Feeds(f, held, n)  BY <1>0, FedIs
<1>2. \A k \in 0 .. n : f[k] = IF k = 0 THEN [p |-> parser, n |-> 0] ELSE More(f[k - 1], held[k])
  BY <1>1 DEF Feeds
<1> DEFINE Failing == {k \in 0 .. n : ~ Good(m, j, f, k)}
<1>3. SUFFICES ASSUME Failing # {}  PROVE FALSE
  <2>1. n \in 0 .. n  OBVIOUS
  <2> QED  BY <1>0, <1>1, <2>1
<1>4. PICK k \in Failing : \A l \in Failing : k <= l
  <2>1. \A l \in Failing : l \in Nat  OBVIOUS
  <2> HIDE DEF Failing
  <2> QED  BY <1>3, <2>1, LeastExists
<1>5. k \in 0 .. n /\ ~ Good(m, j, f, k)  BY <1>4
<1>6. CASE k = 0
  <2>1. f[0].p = parser /\ f[0].n = 0  BY <1>2, <1>5, <1>6
  <2>2. 0 \in 0 .. 0 /\ j + 0 = j /\ j <= t  BY <1>0
  <2> QED  BY <1>0, <1>5, <1>6, <2>1, <2>2 DEF Good
<1>7. CASE k # 0
  <2>1. PICK l \in Nat : l = k - 1 /\ l \in 0 .. n /\ l < k /\ l + 1 = k  BY <1>5, <1>7
  <2>2. Good(m, j, f, l)
    <3>1. l \notin Failing
      <4>1. \A i \in Failing : i \in Nat  OBVIOUS
      <4> HIDE DEF Failing
      <4> QED  BY <1>4, <2>1, <1>5, <4>1
    <3> QED  BY <2>1, <3>1
  <2>3. f[k] = More(f[l], held[k])  BY <1>2, <1>5, <1>7, <2>1
  <2>4. PICK p \in Parser, c \in 0 .. l : p = f[l].p /\ c = f[l].n  BY <2>2 DEF Good
  <2>5. j + c <= t /\ j + c \in 0 .. t /\ At(m, j + c, p) /\ (c # l => j + c = t)
    BY SMTT(40), <1>0, <2>2, <2>4 DEF Good
  <2>6. Done(p) <=> j + c = t
    BY <1>0, <2>5, FeedEnd
  <2>7. CASE Done(p)
    <3>1. f[k].p = p /\ f[k].n = c  BY <2>3, <2>4, <2>7 DEF More
    <3>2. c \in 0 .. k  BY <2>1
    <3> QED  BY <1>0, <1>5, <2>5, <2>6, <2>7, <3>1, <3>2 DEF Good
  <2>8. CASE ~Done(p)
    <3>1. f[k].p = Feed(p, held[k]) /\ f[k].n = c + 1  BY <2>3, <2>4, <2>8 DEF More
    <3>a. c = l /\ j + c # t  BY <2>5, <2>6, <2>8
    <3>b. c + 1 = k /\ j + k = (j + c) + 1  BY <1>0, <2>1, <3>a
    <3>2. c = l /\ c + 1 = k /\ j + c < t /\ j + k <= t /\ j + k = (j + c) + 1
      <4>1. j \in Nat /\ t \in Nat /\ c \in Nat /\ j + c <= t /\ j + c # t  BY <1>0, <2>1, <2>5, <3>a
      <4>2. j + c < t /\ (j + c) + 1 <= t  BY <4>1
      <4> QED  BY <3>a, <3>b, <4>2
    <3>3. held[k] = m.bytes[(j + c) + 1]
      <4>1. k \in 1 .. n  BY <1>5, <1>7
      <4> QED  BY <1>0, <3>2, <4>1
    <3>4. j + c \in 0 .. Len(m.bytes) - 1  BY <1>0, <2>4, <3>2
    <3>5. Feed(p, held[k]) \in Parser /\ At(m, (j + c) + 1, Feed(p, held[k]))
      BY <2>5, <3>3, <3>4, FeedStep
    <3>6. f[k].n = k /\ k \in 0 .. k  BY <1>5, <3>1, <3>2
    <3> QED  BY <1>0, <1>5, <3>1, <3>2, <3>5, <3>6 DEF Good
  <2> QED  BY <2>7, <2>8
<1> QED  BY <1>6, <1>7

-----------------------------------------------------------------------------
(***************************************************************************)
(* The stream of a client                                                  *)
(***************************************************************************)

-----------------------------------------------------------------------------
(***************************************************************************)
(* The invariant                                                           *)
(***************************************************************************)

Typed ==
  /\ state \in States /\ parser \in Parser /\ method \in Byte /\ rep \in 0 .. 8
  /\ input \in [off : Nat, held : Seq(Byte)] /\ input.off + Len(input.held) <= InSize
  /\ server \in {"none", "connecting", "up"} \cup Errnos
  /\ wire \in Seq(Byte) /\ delivered \in Seq(Byte)
  /\ gone \in {"no", "fin", "reset"}
  /\ script \in Scripts /\ sent \in 0 .. Len(script)

\* A reply waits whole, or nothing does.
Out ==
  /\ output \in [off : {0}, held : Seq(Byte)] /\ Len(output.held) <= ReplySize
  /\ bytes \in 0 .. ReplySize
  /\ state \in Answers => output.held = Reply(state, method, rep) /\ bytes = Len(output.held)
  /\ state \notin Answers \cup {"CLOSED"} => output.held = <<>>

\* The state, and how far it is in the dialogue.
Secret == script[1].seen[2] = UserPassword
Place(s) == CASE s = "HELLO" -> 0
              [] s \in {"HELLO_ERROR", "AUTH_METHOD_ANNOUNCEMENT", "AUTH_REQUEST"} -> 1
              [] s \in {"AUTH_SUCCESSFUL", "AUTH_ERROR"} -> 2
              [] s = "REQUEST" -> IF Secret THEN 2 ELSE 1
              [] OTHER -> IF Secret THEN 3 ELSE 2
Turn ==
  /\ state # "CLOSED" => Len(handled) = Place(state)
  /\ state \in {"AUTH_REQUEST", "AUTH_SUCCESSFUL", "AUTH_ERROR"} => Secret
  /\ state = "AUTH_METHOD_ANNOUNCEMENT" => method = script[1].seen[2]
  /\ state \in Served \cup {"AUTH_SUCCESSFUL"} =>
       IF Secret THEN user \in DOMAIN Users /\ script[2].seen = <<user, Users[user]>>
                 ELSE user = Anonymous

\* What was handled is what was sent.
Seen(s) == {s[i].seen : i \in 1 .. Len(s)}
Handled ==
  /\ handled \in Seq(Seen(script)) /\ Len(handled) <= sent
  /\ \A i \in 1 .. Len(handled) : handled[i] = script[i].seen

\* What was sent and not handled: u bytes that are used, those of the buffer, and
\* those on their way.
Ahead == BytesOf(script, Len(handled), sent)
Using(u) ==
  IF state \in Reading
  THEN /\ u = 0 => parser = NewParser
       /\ u # 0 => /\ Len(handled) < sent /\ u < Len(script[Len(handled) + 1].bytes)
                   /\ At(script[Len(handled) + 1], u, parser)
  ELSE u = Len(delivered) /\ Lies(delivered, Ahead, 0)
Split(u) ==
  /\ Lies(input.held, Ahead, u)
  /\ IF gone = "reset" THEN wire = <<>>
     ELSE /\ Lies(wire, Ahead, u + Len(input.held))
          /\ Len(Ahead) = u + Len(input.held) + Len(wire)
Stream ==
  state # "CLOSED" =>
    /\ \E u \in 0 .. Len(Ahead) : Split(u) /\ Using(u)
    /\ state \notin {"REQUEST_SUCCESSFUL", "REQUEST_ERROR", "FORWARDING"} => delivered = <<>>

Inv == Typed /\ Out /\ Turn /\ Handled /\ Stream

LEMMA Dialogue ==
  ASSUME Typed
  PROVE  /\ IsScript(script) /\ Messages(script)
         /\ Len(script) \in Nat /\ DOMAIN script = 1 .. Len(script)
         /\ \A i \in 1 .. Len(script) :
              IsMessage(script[i]) /\ (i \in DOMAIN Turns(script) => script[i].kind = Turns(script)[i])
<1>1. IsScript(script)  BY ScriptsAssumption DEF Typed, IsScript
<1>m. Messages(script)  BY <1>1, ScriptMessages
<1>2. Len(script) \in Nat /\ DOMAIN script = 1 .. Len(script)  BY <1>m, MessageBytes
<1> QED  BY <1>1, <1>m, <1>2 DEF IsScript

LEMMA AheadType ==
  ASSUME Typed, Handled
  PROVE  /\ Ahead \in Seq(Byte) /\ Len(Ahead) \in Nat /\ sent \in Nat /\ Len(handled) \in Nat
         /\ Len(handled) <= sent /\ sent <= Len(script)
<1>1. Messages(script) /\ Len(script) \in Nat  BY Dialogue
<1>2. Len(handled) \in Nat  BY LenProperties DEF Handled
<1>3. Len(handled) <= sent /\ sent \in 0 .. Len(script)  BY DEF Handled, Typed
<1>4. sent \in Len(handled) .. Len(script) /\ sent \in Nat /\ sent <= Len(script)  BY <1>1, <1>2, <1>3
<1>5. Ahead \in Seq(Byte)  BY <1>1, <1>2, <1>4, BytesOfType DEF Ahead
<1> QED  BY <1>2, <1>3, <1>4, <1>5, LenProperties

\* The message of the turn is one that its parser reads.
LEMMA TurnReads ==
  ASSUME Typed, Turn, Handled, state \in Reading, Len(handled) < sent
  PROVE  Reads(script[Len(handled) + 1]) /\ Len(script[Len(handled) + 1].bytes) \in Nat
<1>1. PICK k \in Nat : k = Len(handled) /\ k + 1 \in 1 .. Len(script)  BY AheadType
<1>2. IsMessage(script[k + 1]) /\ (k + 1 \in DOMAIN Turns(script) => script[k + 1].kind = Turns(script)[k + 1])
  BY <1>1, Dialogue
<1>3. Len(script[k + 1].bytes) \in Nat  BY <1>2, LenProperties DEF IsMessage
<1>4. CASE Secret
  <2>1. Turns(script) = <<"hello", "login", "request">>  BY <1>4 DEF Turns, Secret
  <2>2. DOMAIN Turns(script) = 1 .. 3 /\ Turns(script)[1] = "hello" /\ Turns(script)[2] = "login"
        /\ Turns(script)[3] = "request"
    BY <2>1
  <2>3. \/ state = "HELLO" /\ k = 0
        \/ state = "AUTH_REQUEST" /\ k = 1
        \/ state = "REQUEST" /\ k = 2
    BY <1>1, <1>4 DEF Turn, Place, Reading
  <2>4. CASE state = "HELLO" /\ k = 0
    <3>1. script[1].kind = "hello"  BY <1>2, <2>2, <2>4
    <3> QED  BY <1>1, <1>2, <1>3, <2>4, <3>1 DEF Reads
  <2>5. CASE state = "AUTH_REQUEST" /\ k = 1
    <3>1. script[2].kind = "login" /\ k + 1 = 2  BY <1>2, <2>2, <2>5
    <3> QED  BY <1>1, <1>2, <1>3, <2>5, <3>1 DEF Reads
  <2>6. CASE state = "REQUEST" /\ k = 2
    <3>1. script[3].kind = "request" /\ k + 1 = 3  BY <1>2, <2>2, <2>6
    <3> QED  BY <1>1, <1>2, <1>3, <2>6, <3>1 DEF Reads
  <2> QED  BY <2>3, <2>4, <2>5, <2>6
<1>5. CASE ~Secret
  <2>1. Turns(script) = <<"hello", "request">>  BY <1>5 DEF Turns, Secret
  <2>2. DOMAIN Turns(script) = 1 .. 2 /\ Turns(script)[1] = "hello" /\ Turns(script)[2] = "request"
    BY <2>1
  <2>3. \/ state = "HELLO" /\ k = 0
        \/ state = "REQUEST" /\ k = 1
    BY <1>1, <1>5 DEF Turn, Place, Reading
  <2>4. k + 1 \in 1 .. 2 /\ script[k + 1].kind = Turns(script)[k + 1]  BY <1>2, <2>2, <2>3
  <2> QED  BY <1>1, <1>2, <1>3, <2>2, <2>3, <2>4 DEF Reads
<1> QED  BY <1>4, <1>5

\* What a receive of n bytes makes of the stream.
StillReading(m, p, held, w) ==
  \E u \in 1 .. Len(Ahead) :
    /\ u < Len(m.bytes) /\ At(m, u, p)
    /\ Lies(held, Ahead, u) /\ Lies(w, Ahead, u + Len(held)) /\ Len(Ahead) = u + Len(held) + Len(w)
ReadWhole(m, p, held, w) ==
  LET after == BytesOf(script, Len(handled) + 1, sent)
  IN  /\ Understood(m, p)
      /\ Lies(held, after, 0) /\ Lies(w, after, Len(held)) /\ Len(after) = Len(held) + Len(w)

\* c is what the parser makes of the first n bytes on their way, w the others.
Consumed(n, c, w) ==
  /\ n \in 1 .. Len(wire) /\ n <= Room(input, InSize) /\ w = SubSeq(wire, n + 1, Len(wire))
  /\ c \in Consume([input EXCEPT !.held = @ \o SubSeq(wire, 1, n)])

LEMMA Receive ==
  ASSUME Typed, Turn, Handled, Stream, state \in Reading,
         NEW n \in Nat, NEW c, NEW w, Consumed(n, c, w)
  PROVE  /\ gone # "reset" /\ Len(handled) < sent /\ w \in Seq(Byte) /\ c.p \in Parser
         /\ c.in \in [off : Nat, held : Seq(Byte)] /\ c.in.off + Len(c.in.held) <= InSize
         /\ IF Done(c.p) THEN ReadWhole(script[Len(handled) + 1], c.p, c.in.held, w)
                         ELSE StillReading(script[Len(handled) + 1], c.p, c.in.held, w)
<1>1. PICK t \in Seq(Byte), k \in Nat, lt \in Nat :
        t = Ahead /\ lt = Len(t) /\ k = Len(handled) /\ k <= sent /\ sent \in Nat /\ sent <= Len(script)
  BY AheadType
<1>2. PICK u \in 0 .. lt : Split(u) /\ Using(u)
  BY <1>1 DEF Stream, Reading
<1>3. PICK held \in Seq(Byte), off \in Nat, l \in Nat, lw \in Nat :
        /\ input = [off |-> off, held |-> held] /\ l = Len(held) /\ lw = Len(wire) /\ n \in 1 .. lw
        /\ off + l <= InSize /\ n <= InSize - off - l /\ wire \in Seq(Byte)
  <2>1. input.held \in Seq(Byte) /\ input.off \in Nat /\ input = [off |-> input.off, held |-> input.held]
        /\ wire \in Seq(Byte) /\ input.off + Len(input.held) <= InSize
    BY DEF Typed
  <2>2. Len(input.held) \in Nat /\ Len(wire) \in Nat  BY <2>1, LenProperties
  <2>3. n \in 1 .. Len(wire) /\ n <= InSize - input.off - Len(input.held)  BY DEF Consumed, Room
  <2> QED  BY <2>1, <2>2, <2>3
<1>4. gone # "reset" /\ Lies(held, t, u) /\ Lies(wire, t, u + l) /\ lt = u + l + lw
  <2>1. wire # <<>>  BY <1>3
  <2> QED  BY <1>1, <1>2, <1>3, <2>1 DEF Split
<1>5. k < sent
  <2>1. SUFFICES ASSUME k = sent  PROVE FALSE
    BY <1>1
  <2>2. t = <<>>  BY <1>1, <2>1, BytesOfNone DEF Ahead
  <2>3. lt = 0  BY <1>1, <2>2
  <2> QED  BY <1>3, <1>4, <2>3
<1>6. PICK m : \E b \in Seq(Byte), lb \in Nat :
                 m = script[k + 1] /\ b = m.bytes /\ lb = Len(b) /\ Reads(m)
  <2>1. Reads(script[k + 1])  BY <1>1, <1>5, TurnReads
  <2>2. script[k + 1].bytes \in Seq(Byte)  BY <2>1 DEF Reads, IsMessage
  <2>3. Len(script[k + 1].bytes) \in Nat  BY <2>2, LenProperties
  <2> QED  BY <2>1, <2>2, <2>3
<1>c. PICK b \in Seq(Byte), lb \in Nat : m = script[k + 1] /\ b = m.bytes /\ lb = Len(b) /\ Reads(m)
  BY SMTT(40), <1>6
<1>7. PICK z \in Seq(Byte), lz \in Nat :
        z = BytesOf(script, k + 1, sent) /\ lz = Len(z) /\ t = b \o z /\ lt = lb + lz /\ Lies(b, t, 0)
  <2>1. Messages(script) /\ Len(script) \in Nat  BY Dialogue
  <2>2. sent \in k + 1 .. Len(script) /\ k + 1 \in Nat  BY <1>1, <1>5, <2>1
  <2>3. t = b \o BytesOf(script, k + 1, sent)  BY ZenonT(40), <1>1, <1>c, <2>1, <2>2, BytesOfFirst DEF Ahead
  <2>4. BytesOf(script, k + 1, sent) \in Seq(Byte)  BY <2>1, <2>2, BytesOfType
  <2>5. PICK z \in Seq(Byte) : z = BytesOf(script, k + 1, sent)  BY <2>4
  <2>6. Len(z) \in Nat /\ Len(b \o z) = Len(b) + Len(z) /\ Lies(b, b \o z, 0)
    BY <1>c, LiesAfter, LenProperties
  <2> QED  BY <1>1, <1>c, <2>3, <2>5, <2>6
<1>8. At(m, u, parser) /\ u < lb
  <2>1. Using(u) /\ state \in Reading  BY <1>2
  <2>2. CASE u = 0
    <3>1. parser = NewParser  BY <2>1, <2>2 DEF Using
    <3>2. At(m, 0, NewParser) /\ ~Done(NewParser)  BY <1>c, NothingRead
    <3>3. 0 \in 0 .. Len(m.bytes)  BY <1>c
    <3>4. lb # 0  BY <1>c, <3>2, <3>3, FeedEnd
    <3> QED  BY <1>c, <2>2, <3>1, <3>2, <3>4
  <2>3. CASE u # 0
    BY <1>1, <1>c, <2>1, <2>3 DEF Using
  <2> QED  BY <2>2, <2>3
<1>9. PICK a \in Seq(Byte) : /\ a = SubSeq(wire, 1, n) /\ Len(a) = n /\ Lies(a, t, u + l)
                             /\ Lies(w, t, (u + l) + n) /\ Len(w) = lw - n /\ w \in Seq(Byte)
  <2>1. n \in 0 .. Len(wire) /\ u + l \in Nat  BY <1>2, <1>3
  <2>w. w = SubSeq(wire, n + 1, Len(wire))  BY DEF Consumed
  <2>2. Lies(SubSeq(wire, 1, n), t, u + l) /\ Lies(w, t, (u + l) + n)  BY <1>4, <2>1, <2>w, LiesCut
  <2>3. Len(SubSeq(wire, 1, n)) = n /\ Len(w) = lw - n /\ SubSeq(wire, 1, n) \in Seq(Byte) /\ w \in Seq(Byte)
    BY <1>3, <2>1, <2>w, Cut
  <2> QED  BY <2>2, <2>3
<1>10. PICK hb \in Seq(Byte), lh \in Nat : hb = held \o a /\ lh = Len(hb) /\ lh = l + n /\ Lies(hb, t, u)
  <2>1. Lies(a, t, u + Len(held))  BY <1>3, <1>9
  <2>2. Lies(held \o a, t, u) /\ Len(held \o a) = Len(held) + Len(a)  BY <1>2, <1>4, <2>1, LiesJoin
  <2>3. Len(held \o a) = l + n /\ l + n \in Nat /\ held \o a \in Seq(Byte)  BY SMTT(40), <1>3, <1>9, <2>2 DEF Lies
  <2> QED  BY <2>2, <2>3
<1>11. PICK p \in Parser, q \in 0 .. lh :
         /\ p = Fed(hb)[lh].p /\ q = Fed(hb)[lh].n /\ u + q <= lb /\ At(m, u + q, p)
         /\ q # lh => u + q = lb
  <2>1. ASSUME NEW i \in 1 .. lh, u + i <= lb  PROVE hb[i] = b[u + i]
    <3>1. hb[i] = t[u + i]  BY <1>10 DEF Lies
    <3>2. u + i \in 1 .. lb /\ 0 + (u + i) = u + i  BY <1>2, <2>1
    <3>3. b[u + i] = t[0 + (u + i)]  BY <1>c, <1>7, <3>2 DEF Lies
    <3> QED  BY <3>1, <3>2, <3>3
  <2>2. u \in 0 .. Len(m.bytes) /\ Len(m.bytes) \in Nat  BY <1>2, <1>c, <1>8
  <2>3. parser \in Parser  BY DEF Typed
  <2>5. \A i \in 1 .. Len(hb) : u + i <= Len(m.bytes) => hb[i] = m.bytes[u + i]  BY <1>c, <1>10, <2>1
  <2>4. Good(m, u, Fed(hb), lh)
    <3>1. Good(m, u, Fed(hb), Len(hb))  BY <1>c, <1>8, <2>2, <2>3, <2>5, FedReads
    <3> QED  BY <1>10, <3>1
  <2> QED  BY <1>c, <2>4 DEF Good
<1>12. PICK rest \in Seq(Byte) : /\ rest = SubSeq(hb, q + 1, lh) /\ Len(rest) = lh - q
                                 /\ Lies(rest, t, u + q)
  <2>1. q \in 0 .. Len(hb)  BY <1>10
  <2>u. u \in Nat  OBVIOUS
  <2>2. Lies(SubSeq(hb, q + 1, Len(hb)), t, u + q)  BY <1>10, <2>1, <2>u, LiesCut
  <2>3. Len(SubSeq(hb, q + 1, Len(hb))) = Len(hb) - q /\ SubSeq(hb, q + 1, Len(hb)) \in Seq(Byte)  BY <2>1, Cut
  <2> QED  BY <1>10, <2>2, <2>3
<1>13. c.p = p /\ c.in = [off |-> IF q = lh THEN 0 ELSE off + q, held |-> rest]
  <2>1. [input EXCEPT !.held = @ \o SubSeq(wire, 1, n)] = [off |-> off, held |-> hb]
    <3>1. input.held \o SubSeq(wire, 1, n) = hb  BY <1>3, <1>9, <1>10
    <3>2. [input EXCEPT !.held = @ \o SubSeq(wire, 1, n)] = [input EXCEPT !.held = hb]  BY <3>1
    <3>3. [[off |-> off, held |-> held] EXCEPT !.held = hb] = [off |-> off, held |-> hb]  OBVIOUS
    <3>4. input = [off |-> off, held |-> held]  BY <1>3
    <3> QED  BY <3>2, <3>3, <3>4
  <2>2. c \in Consume([off |-> off, held |-> hb])  BY <2>1 DEF Consumed
  <2>3. c = [p |-> p, in |-> Advance([off |-> off, held |-> hb], q)]
    BY <1>10, <1>11, <2>2 DEF Consume
  <2> QED  BY <1>10, <1>12, <2>3 DEF Advance
<1>14. c.in \in [off : Nat, held : Seq(Byte)] /\ c.in.off + Len(c.in.held) <= InSize
  <2>1. PICK o \in Nat : o = (IF q = lh THEN 0 ELSE off + q) /\ o + (lh - q) <= InSize
    <3>1. InSize \in Nat /\ off + lh <= InSize  BY <1>3, <1>10, SizesAssumption
    <3>2. CASE q = lh  BY <3>1, <3>2
    <3>3. CASE q # lh  BY <1>10, <3>1, <3>3
    <3> QED  BY <3>2, <3>3
  <2> QED  BY SMTT(60), <1>12, <1>13, <2>1
<1>15. (Done(p) <=> u + q = lb) /\ (Done(p) => Understood(m, p))
  <2>0. u + q \in 0 .. lb  BY SMTT(60), <1>11
  <2>1. u + q \in 0 .. Len(m.bytes)  BY <1>c, <2>0
  <2> QED  BY <1>c, <1>11, <2>1, FeedEnd
<1>16. CASE Done(p)
  <2>1. u + q = lb + 0 /\ (u + l) + n = lb + (lh - q)  BY <1>2, <1>10, <1>15, <1>16
  <2>2. Lies(rest, z, 0)
    <3>1. Lies(rest, b \o z, Len(b) + 0)  BY <1>c, <1>7, <1>12, <2>1
    <3> QED  BY <3>1, LiesBehind
  <2>3. Lies(w, z, lh - q)
    <3>2. lh - q \in Nat  OBVIOUS
    <3>1. Lies(w, b \o z, Len(b) + (lh - q)) /\ lh - q \in Nat  BY <1>c, <1>7, <1>9, <2>1, <3>2
    <3> QED  BY <3>1, LiesBehind
  <2>4. lz = (lh - q) + (lw - n)
    <3>1. lb + lz = u + l + lw /\ lh = l + n /\ u + q = lb  BY <1>4, <1>7, <1>10, <1>15, <1>16
    <3> QED  BY <1>2, <3>1
  <2>5. ReadWhole(m, p, rest, w)
    BY <1>1, <1>7, <1>9, <1>12, <1>15, <1>16, <2>2, <2>3, <2>4 DEF ReadWhole
  <2> QED  BY <1>1, <1>4, <1>5, <1>c, <1>9, <1>11, <1>13, <1>14, <1>16, <2>5
<1>17. CASE ~Done(p)
  <2>a. u + q # lb /\ q = lh /\ u + q <= lb  BY <1>11, <1>15, <1>17
  <2>1. q = lh /\ u + q < lb  BY <2>a
  <2>2. u + q \in 1 .. lt /\ lh - q = 0 /\ (u + l) + n = (u + q) + 0 /\ lt = (u + q) + 0 + (lw - n)
    <3>1. lh = l + n /\ n >= 1 /\ lt = u + l + lw /\ n <= lw /\ q = lh  BY <1>3, <1>4, <1>10, <2>1
    <3> QED  BY <3>1
  <2>3. Lies(w, t, (u + q) + Len(rest)) /\ lt = (u + q) + Len(rest) + Len(w)
    BY <1>9, <1>12, <2>2
  <2>4. StillReading(m, p, rest, w)
    BY <1>1, <1>c, <1>11, <1>12, <2>1, <2>2, <2>3 DEF StillReading
  <2> QED  BY <1>1, <1>4, <1>5, <1>c, <1>9, <1>11, <1>13, <1>14, <1>17, <2>4
<1> QED  BY <1>16, <1>17

-----------------------------------------------------------------------------
(* Replies                                                                  *)

Empty == [off |-> 0, held |-> <<>>]
Shorts == {"AUTH_METHOD_ANNOUNCEMENT", "AUTH_SUCCESSFUL", "HELLO_ERROR", "AUTH_ERROR"}

LEMMA ReplyShape ==
  ASSUME NEW s, NEW m \in Byte, NEW r \in 0 .. 8
  PROVE  Reply(s, m, r) \in Seq(Byte) /\ Len(Reply(s, m, r)) = IF s \in Shorts THEN 2 ELSE ReplySize
<1>1. Version \in Byte /\ 0 \in Byte /\ 255 \in Byte /\ r \in Byte /\ Ip4 \in Byte  BY DEF Version, Byte, Ip4
<1>2. CASE s = "AUTH_METHOD_ANNOUNCEMENT"
  <2>1. Reply(s, m, r) = <<Version, m>>  BY <1>2 DEF Reply
  <2>2. <<Version, m>> \in Seq(Byte) /\ Len(<<Version, m>>) = 2  BY <1>1
  <2>3. s \in Shorts  BY <1>2 DEF Shorts
  <2> QED  BY <2>1, <2>2, <2>3
<1>3. CASE s = "AUTH_SUCCESSFUL"
  <2>1. Reply(s, m, r) = <<Version, 0>>  BY <1>3 DEF Reply
  <2>2. <<Version, 0>> \in Seq(Byte) /\ Len(<<Version, 0>>) = 2  BY <1>1
  <2>3. s \in Shorts  BY <1>3 DEF Shorts
  <2> QED  BY <2>1, <2>2, <2>3
<1>4. CASE s \in {"HELLO_ERROR", "AUTH_ERROR"}
  <2>1. Reply(s, m, r) = <<Version, 255>>  BY <1>4 DEF Reply
  <2> QED  BY <1>1, <1>4, <2>1 DEF Shorts
<1>5. CASE s \notin Shorts
  <2>1. Reply(s, m, r) = <<Version, r, 0, Ip4, 0, 0, 0, 0, 0, 0>>  BY <1>5 DEF Reply, Shorts
  <2> QED  BY <1>1, <1>5, <2>1 DEF ReplySize
<1> QED  BY <1>2, <1>3, <1>4, <1>5 DEF Shorts

\* A reply that finds the buffer empty goes into it whole.
LEMMA MarshallWhole ==
  ASSUME NEW reply \in Seq(Byte), Len(reply) <= ReplySize, NEW out, out = Empty
  PROVE  Marshall(reply, 0, out) = [bytes |-> Len(reply), out |-> [off |-> 0, held |-> reply]]
<1>1. PICK l \in Nat : l = Len(reply) /\ l <= OutSize  BY SizesAssumption, LenProperties DEF ReplySize
<1>2. Room(out, OutSize) = OutSize /\ OutSize \in Nat
  <2>1. out.off = 0 /\ Len(out.held) = 0  BY DEF Empty
  <2> QED  BY <2>1, SizesAssumption DEF Room
<1>3. (IF 0 + Room(out, OutSize) < l THEN 0 + Room(out, OutSize) ELSE l) = l  BY <1>1, <1>2
<1>4. SubSeq(reply, 0 + 1, l) = reply
  <2>1. \A i \in 1 .. Len(reply) : reply[1 - 1 + i] = reply[i]
    <3>1. \A i \in 1 .. Len(reply) : 1 - 1 + i = i  BY <1>1
    <3> QED  BY <3>1
  <2>2. l = 1 + Len(reply) - 1 /\ l \in Int /\ 1 \in Nat \ {0} /\ 0 + 1 = 1  BY <1>1
  <2> QED  BY <2>1, <2>2, SubSeqIs
<1>5. <<>> \o reply = reply  BY ConcatEmptySeq
<1>6. [out EXCEPT !.held = @ \o SubSeq(reply, 0 + 1, l)] = [off |-> 0, held |-> reply]
  <2>1. out.held \o SubSeq(reply, 0 + 1, l) = reply  BY <1>4, <1>5 DEF Empty
  <2>2. [out EXCEPT !.held = @ \o SubSeq(reply, 0 + 1, l)] = [out EXCEPT !.held = reply]  BY <2>1
  <2>3. [[off |-> 0, held |-> <<>>] EXCEPT !.held = reply] = [off |-> 0, held |-> reply]  OBVIOUS
  <2> QED  BY <2>2, <2>3 DEF Empty
<1> QED  BY <1>1, <1>3, <1>6 DEF Marshall

\* and nothing is left of it to put in later.
LEMMA MarshallRest ==
  ASSUME NEW reply \in Seq(Byte), Len(reply) <= ReplySize, NEW n, n = Len(reply), NEW out, out = Empty
  PROVE  Marshall(reply, n, out) = [bytes |-> Len(reply), out |-> Empty]
<1>1. PICK l \in Nat : l = Len(reply) /\ n = l  BY LenProperties
<1>2. Room(out, OutSize) = OutSize /\ OutSize \in Nat
  <2>1. out.off = 0 /\ Len(out.held) = 0  BY DEF Empty
  <2> QED  BY <2>1, SizesAssumption DEF Room
<1>3. (IF l + Room(out, OutSize) < l THEN l + Room(out, OutSize) ELSE l) = l  BY <1>1, <1>2
<1>4. SubSeq(reply, l + 1, l) = <<>>
  <2>1. l < l + 1 /\ l \in Int /\ l + 1 \in Int  OBVIOUS
  <2> QED  BY <2>1, SubSeqEmpty
<1>5. <<>> \o <<>> = <<>>
  <2>1. <<>> \in Seq(Byte)  BY EmptySeq
  <2> QED  BY <2>1, ConcatEmptySeq
<1>6. [out EXCEPT !.held = @ \o SubSeq(reply, l + 1, l)] = Empty
  <2>1. out.held \o SubSeq(reply, l + 1, l) = <<>>  BY <1>4, <1>5 DEF Empty
  <2>2. [out EXCEPT !.held = @ \o SubSeq(reply, l + 1, l)] = [out EXCEPT !.held = <<>>]  BY <2>1
  <2>3. [[off |-> 0, held |-> <<>>] EXCEPT !.held = <<>>] = [off |-> 0, held |-> <<>>]  OBVIOUS
  <2> QED  BY <2>2, <2>3 DEF Empty
<1> QED  BY <1>1, <1>3, <1>6 DEF Marshall

LEMMA OutputEmpty ==
  ASSUME Out, state \notin Answers \cup {"CLOSED"}
  PROVE  output = Empty
BY DEF Out, Empty

LEMMA Arrives ==
  ASSUME output = Empty, NEW s \in Answers, Arrive(s), method' \in Byte, rep' \in 0 .. 8
  PROVE  state' = s /\ Out'
<1>1. PICK reply \in Seq(Byte), l \in 0 .. ReplySize : reply = Reply(s, method', rep') /\ l = Len(reply)
  <2>1. Reply(s, method', rep') \in Seq(Byte) /\ Len(Reply(s, method', rep')) \in {2, ReplySize}
    BY ReplyShape
  <2> QED  BY <2>1 DEF ReplySize
<1>2. Marshall(reply, 0, output) = [bytes |-> l, out |-> [off |-> 0, held |-> reply]]
  BY <1>1, MarshallWhole
<1>3. state' = s /\ bytes' = l /\ output' = [off |-> 0, held |-> reply]
  BY <1>1, <1>2 DEF Arrive
<1> QED  BY <1>1, <1>3 DEF Out

\* A state that waits does not touch the replies.
LEMMA OutWaits ==
  ASSUME Out, UNCHANGED <<output, bytes>>, state \notin Answers \cup {"CLOSED"}, state' \notin Answers
  PROVE  Out'
BY DEF Out

LEMMA OutCloses == ASSUME Out, UNCHANGED <<output, bytes>>, state' = "CLOSED"  PROVE Out'
<1>1. "CLOSED" \notin Answers  BY DEF Answers, Failures
<1> QED  BY <1>1 DEF Out

-----------------------------------------------------------------------------
(* The parts of the invariant that more than one step keeps.                *)

LEMMA HandledSame == ASSUME Handled, UNCHANGED <<script, sent, handled>>  PROVE Handled'
BY DEF Handled

LEMMA HandledMore ==
  ASSUME Typed, Handled, Len(handled) < sent, UNCHANGED <<script, sent>>,
         handled' = Append(handled, script[Len(handled) + 1].seen)
  PROVE  Handled' /\ Len(handled') = Len(handled) + 1
<1>1. PICK k \in Nat : k = Len(handled) /\ k < sent /\ sent \in Nat /\ k + 1 \in 1 .. Len(script)  BY AheadType
<1>2. PICK x \in Seen(script) : x = script[k + 1].seen  BY <1>1 DEF Seen
<1> DEFINE S == Seen(script)
<1>3. handled \in Seq(S) /\ x \in S  BY DEF Handled
<1> HIDE DEF S
<1>4. /\ Append(handled, x) \in Seq(S) /\ Len(Append(handled, x)) = k + 1
      /\ \A i \in 1 .. k : Append(handled, x)[i] = handled[i]
      /\ Append(handled, x)[k + 1] = x
  BY <1>1, <1>3, AppendProperties
<1>5. handled' = Append(handled, x)  BY <1>1, <1>2
<1>6. Len(handled') = k + 1 /\ k + 1 <= sent /\ handled' \in Seq(S)  BY <1>1, <1>4, <1>5
<1>7. ASSUME NEW i \in 1 .. k + 1  PROVE handled'[i] = script[i].seen
  <2>1. CASE i \in 1 .. k  BY <1>1, <1>4, <1>5, <2>1 DEF Handled
  <2>2. CASE i = k + 1
    <3>1. handled'[k + 1] = x /\ x = script[k + 1].seen  BY <1>2, <1>4, <1>5
    <3> QED  BY <2>2, <3>1
  <2>3. i \in 1 .. k \/ i = k + 1  BY <1>1
  <2> QED  BY <2>1, <2>2, <2>3
<1> QED  BY <1>1, <1>6, <1>7 DEF Handled, S

\* A state that does not read, after another, on the same bytes.
LEMMA StreamSame ==
  ASSUME Stream, UNCHANGED <<script, sent, handled, input, wire, gone, delivered>>,
         state \notin Reading \cup {"CLOSED"}, state' \notin Reading,
         state \in {"REQUEST_SUCCESSFUL", "REQUEST_ERROR", "FORWARDING"} =>
           state' \in {"REQUEST_SUCCESSFUL", "REQUEST_ERROR", "FORWARDING"}
  PROVE  Stream'
<1>1. PICK u \in 0 .. Len(Ahead) : Split(u) /\ Using(u)  BY DEF Stream
<1>2. Ahead' = Ahead  BY DEF Ahead
<1>3. Split(u)' /\ Using(u)'  BY <1>1, <1>2 DEF Split, Using
<1> QED  BY <1>1, <1>2, <1>3 DEF Stream

\* The next message begins with a new parser.
LEMMA StreamNext ==
  ASSUME Stream, UNCHANGED <<script, sent, handled, input, wire, gone, delivered>>,
         state \notin Reading \cup {"CLOSED", "REQUEST_SUCCESSFUL", "REQUEST_ERROR", "FORWARDING"},
         state' \in Reading, parser' = NewParser
  PROVE  Stream'
<1>1. PICK u \in 0 .. Len(Ahead) : Split(u) /\ Using(u)  BY DEF Stream
<1>2. Ahead' = Ahead  BY DEF Ahead
<1>3. delivered = <<>>  BY DEF Stream
<1>4. u = 0  BY <1>1, <1>3 DEF Using
<1>5. Split(u)' /\ Using(u)'  BY <1>1, <1>2, <1>4 DEF Split, Using
<1> QED  BY <1>1, <1>2, <1>3, <1>5 DEF Stream

\* A receive that ends no message, and one that ends one.
LEMMA StreamPart ==
  ASSUME Stream, Len(handled) < sent, UNCHANGED <<script, sent, handled, gone, delivered, state>>, state \in Reading,
         StillReading(script[Len(handled) + 1], parser', input'.held, wire'), gone # "reset"
  PROVE  Stream'
<1> DEFINE m == script[Len(handled) + 1]
<1>1. PICK u \in 1 .. Len(Ahead) :
        /\ u < Len(m.bytes) /\ At(m, u, parser')
        /\ Lies(input'.held, Ahead, u) /\ Lies(wire', Ahead, u + Len(input'.held))
        /\ Len(Ahead) = u + Len(input'.held) + Len(wire')
  BY DEF StillReading
<1>2. Ahead' = Ahead /\ u \in 0 .. Len(Ahead) /\ u # 0  BY <1>1 DEF Ahead
<1>3. Split(u)' /\ Using(u)'  BY <1>1, <1>2 DEF Split, Using
<1>4. delivered = <<>>  BY DEF Stream, Reading
<1> QED  BY <1>2, <1>3, <1>4 DEF Stream

LEMMA StreamWhole ==
  ASSUME Typed, Handled, Stream, UNCHANGED <<script, sent, gone, delivered>>,
         state \in Reading, state' \notin Reading, gone # "reset", input'.held \in Seq(Byte),
         NEW m, NEW p, ReadWhole(m, p, input'.held, wire'),
         Len(handled) < sent, Len(handled') = Len(handled) + 1
  PROVE  Stream'
<1>1. PICK t \in Seq(Byte), lt \in Nat : t = Ahead' /\ lt = Len(t)
  <2>1. Messages(script) /\ Len(script) \in Nat  BY Dialogue
  <2>2. Len(handled) + 1 \in Nat /\ sent \in Len(handled) + 1 .. Len(script)  BY <2>1, AheadType
  <2>3. BytesOf(script, Len(handled) + 1, sent) \in Seq(Byte)  BY <2>1, <2>2, BytesOfType
  <2>4. Ahead' = BytesOf(script, Len(handled) + 1, sent)  BY DEF Ahead
  <2> QED  BY <2>3, <2>4, LenProperties
<1>2. t = BytesOf(script, Len(handled) + 1, sent)  BY <1>1 DEF Ahead
<1>3. Lies(input'.held, t, 0) /\ Lies(wire', t, Len(input'.held)) /\ lt = Len(input'.held) + Len(wire')
  BY <1>1, <1>2 DEF ReadWhole
<1>4. delivered = <<>>  BY DEF Stream, Reading
<1>5. Lies(delivered, t, 0) /\ Len(delivered) = 0  BY <1>1, <1>4, LiesNone
<1>6. PICK l \in Nat : l = Len(input'.held)  BY LenProperties
<1>7. 0 + l = l /\ 0 \in 0 .. lt /\ 0 + l + Len(wire') = l + Len(wire')  BY <1>6
<1>8. Split(0)' /\ Using(0)'  BY <1>1, <1>3, <1>5, <1>6, <1>7 DEF Split, Using
<1> QED  BY <1>1, <1>4, <1>7, <1>8 DEF Stream

-----------------------------------------------------------------------------
(***************************************************************************)
(* The steps                                                               *)
(***************************************************************************)

\* What every handler of a whole message finds, and leaves of the stream.
Whole ==
  /\ state \in Reading /\ gone # "reset" /\ Len(handled) < sent
  /\ UNCHANGED <<script, sent, gone, delivered>>
  /\ parser' \in Parser /\ input' \in [off : Nat, held : Seq(Byte)] /\ wire' \in Seq(Byte)
  /\ input'.off + Len(input'.held) <= InSize
  /\ ReadWhole(script[Len(handled) + 1], parser', input'.held, wire')

LEMMA WholeMessage ==
  ASSUME Inv, Whole
  PROVE  /\ Reads(script[Len(handled) + 1]) /\ Understood(script[Len(handled) + 1], parser')
         /\ Len(handled) \in Nat /\ Len(handled) = Place(state)
<1>1. Reads(script[Len(handled) + 1])  BY TurnReads DEF Inv, Whole
<1>2. Understood(script[Len(handled) + 1], parser')  BY DEF Whole, ReadWhole
<1>3. Len(handled) \in Nat /\ Len(handled) = Place(state)
  <2>1. state # "CLOSED"  BY DEF Whole, Reading
  <2> QED  BY <2>1, AheadType DEF Inv, Turn
<1> QED  BY <1>1, <1>2, <1>3

\* and what it has to do with it.
LEMMA WholeKeeps ==
  ASSUME Inv, Whole, handled' = Append(handled, script[Len(handled) + 1].seen),
         state' \in States \ Reading, method' \in Byte, rep' \in 0 .. 8,
         server' \in {"none", "connecting", "up"} \cup Errnos, Out', Turn'
  PROVE  Inv'
<1>1. Typed'  BY DEF Inv, Typed, Whole
<1>2. Handled' /\ Len(handled') = Len(handled) + 1
  BY HandledMore DEF Inv, Whole
<1>3. Stream'
  <2>1. input'.held \in Seq(Byte) /\ state' \notin Reading  BY DEF Whole
  <2>2. ReadWhole(script[Len(handled) + 1], parser', input'.held, wire')  BY DEF Whole
  <2> QED  BY <1>2, <2>1, <2>2, StreamWhole DEF Inv, Whole
<1> QED  BY <1>1, <1>2, <1>3 DEF Inv

LEMMA Handling == Reading \cap (Answers \cup {"CLOSED"}) = {} /\ Answers \subseteq States \ Reading
BY DEF Reading, Answers, Failures, States

LEMMA HelloIsRead ==
  ASSUME Inv, Whole, HelloRead(parser')
  PROVE  Inv'
<1> DEFINE m == script[Len(handled) + 1]
<1>1. state = "HELLO" /\ Len(handled) = 0 /\ Len(handled) + 1 = 1
  <2>1. state = "HELLO"  BY DEF HelloRead
  <2> QED  BY <2>1, WholeMessage DEF Place
<1>2. m.kind = "hello" /\ Understood(m, parser')  BY <1>1, WholeMessage DEF Reads
<1>3. <<parser'.version, parser'.method>> = m.seen  BY <1>2 DEF Understood
<1>4. PICK s \in {"HELLO_ERROR", "AUTH_METHOD_ANNOUNCEMENT"} : Arrive(s)
  BY DEF HelloRead
<1>5. /\ method' = parser'.method /\ method' \in Byte /\ rep' = rep /\ rep' \in 0 .. 8 /\ server' = server
      /\ handled' = Append(handled, <<parser'.version, parser'.method>>)
  BY DEF HelloRead, Whole, Parser, Inv, Typed
<1>6. output = Empty
  <2>1. state \notin Answers \cup {"CLOSED"}  BY <1>1, Handling DEF Reading
  <2> QED  BY <2>1, OutputEmpty DEF Inv
<1>7. s \in Answers  BY DEF Answers, Failures
<1>8. state' = s /\ Out'  BY <1>4, <1>5, <1>6, <1>7, Arrives
<1>9. handled' = Append(handled, m.seen)  BY <1>3, <1>5
<1>10. Turn'
  <2>1. Len(handled') = 1  BY <1>1, <1>9, HandledMore DEF Inv, Whole
  <2>2. method' = script'[1].seen[2]
    <3>1. script' = script  BY DEF Whole
    <3>2. m = script[1]  BY <1>1
    <3> QED  BY <1>3, <1>5, <3>1, <3>2
  <2>3. Place(s) = 1  BY DEF Place
  <2> QED  BY <1>8, <2>1, <2>2, <2>3 DEF Turn, Served, Place
<1>11. state' \in States \ Reading  BY <1>7, <1>8, Handling
<1>12. server' \in {"none", "connecting", "up"} \cup Errnos  BY <1>5 DEF Inv, Typed
<1> HIDE DEF m
<1> QED  BY <1>5, <1>8, <1>9, <1>10, <1>11, <1>12, WholeKeeps DEF m

LEMMA LoginIsRead ==
  ASSUME Inv, Whole, AuthRead(parser')
  PROVE  Inv'
<1> DEFINE m == script[Len(handled) + 1]
<1>1. state = "AUTH_REQUEST" /\ Len(handled) = 1 /\ Len(handled) + 1 = 2 /\ Secret
  <2>1. state = "AUTH_REQUEST"  BY DEF AuthRead
  <2>2. Secret  BY <2>1 DEF Inv, Turn
  <2>3. Place(state) = 1  BY <2>1 DEF Place
  <2>4. Len(handled) = 1  BY <2>3, WholeMessage
  <2> QED  BY <2>1, <2>2, <2>4
<1>2. m.kind = "login" /\ Understood(m, parser') /\ IsMessage(m)  BY <1>1, WholeMessage DEF Reads
<1>3. parser'.args = m.seen /\ (parser'.state = "DONE" => Len(m.seen) = 2)  BY <1>2 DEF Understood
<1>4. PICK s \in {"AUTH_SUCCESSFUL", "AUTH_ERROR"} :
        Arrive(s) /\ (s = "AUTH_SUCCESSFUL" => Accepted(parser') /\ user' = parser'.args[1])
  BY DEF AuthRead
<1>5. /\ method' = method /\ method' \in Byte /\ rep' = rep /\ rep' \in 0 .. 8 /\ server' = server
      /\ handled' = Append(handled, parser'.args)
  BY DEF AuthRead, Inv, Typed
<1>6. output = Empty
  <2>1. state \notin Answers \cup {"CLOSED"}  BY <1>1, Handling DEF Reading
  <2> QED  BY <2>1, OutputEmpty DEF Inv
<1>7. s \in Answers  BY DEF Answers, Failures
<1>8. state' = s /\ Out'  BY <1>4, <1>5, <1>6, <1>7, Arrives
<1>9. handled' = Append(handled, m.seen)  BY <1>3, <1>5
<1>10. s = "AUTH_SUCCESSFUL" => user' \in DOMAIN Users /\ m.seen = <<user', Users[user']>>
  <2>1. SUFFICES ASSUME s = "AUTH_SUCCESSFUL"
                 PROVE  user' \in DOMAIN Users /\ m.seen = <<user', Users[user']>>
    OBVIOUS
  <2>2. /\ parser'.state = "DONE" /\ user' = m.seen[1] /\ user' \in DOMAIN Users
        /\ Users[m.seen[1]] = m.seen[2]
    BY <1>3, <1>4, <2>1 DEF Accepted
  <2>3. m = Login(AuthVersion, m.seen[1], m.seen[2])
    BY <1>2, <1>3, <2>2 DEF IsMessage, IsLogin
  <2>4. m.seen = <<m.seen[1], m.seen[2]>>
    <3>1. Login(AuthVersion, m.seen[1], m.seen[2]).seen = <<m.seen[1], m.seen[2]>>  BY DEF Login
    <3> HIDE DEF m
    <3> QED  BY <2>3, <3>1
  <2> HIDE DEF m
  <2> QED  BY <2>2, <2>4
<1>11. Turn'
  <2>1. Len(handled') = 2  BY <1>1, <1>9, HandledMore DEF Inv, Whole
  <2>2. script' = script  BY DEF Whole
  <2>3. Secret'  BY <1>1, <2>2 DEF Secret
  <2>4. s = "AUTH_SUCCESSFUL" => user' \in DOMAIN Users /\ script'[2].seen = <<user', Users[user']>>
    BY <1>1, <1>10, <2>2
  <2>5. Place(state)' = 2  BY <1>8 DEF Place
  <2>6. state' \notin Served /\ state' \notin {"AUTH_REQUEST", "AUTH_METHOD_ANNOUNCEMENT"}  BY <1>8 DEF Served
  <2> QED  BY <1>8, <2>1, <2>3, <2>4, <2>5, <2>6 DEF Turn
<1>12. state' \in States \ Reading  BY <1>7, <1>8, Handling
<1>13. server' \in {"none", "connecting", "up"} \cup Errnos  BY <1>5 DEF Inv, Typed
<1> HIDE DEF m
<1> QED  BY <1>5, <1>8, <1>9, <1>11, <1>12, <1>13, WholeKeeps DEF m

\* A refusal, and a connection that fails at once.
LEMMA Refuses ==
  ASSUME output = Empty, NEW r \in 0 .. 8, Refuse(r), method' \in Byte
  PROVE  state' = "REQUEST_ERROR" /\ rep' = r /\ Out'
<1>1. "REQUEST_ERROR" \in Answers  BY DEF Answers, Failures
<1>2. PICK s \in Answers : s = "REQUEST_ERROR"  BY <1>1
<1>3. Arrive(s) /\ rep' = r /\ rep' \in 0 .. 8  BY <1>2 DEF Refuse
<1>4. state' = s /\ Out'  BY <1>2, <1>3, Arrives
<1> QED  BY <1>2, <1>3, <1>4

LEMMA ReplyValues == \A e : ReplyValue(e) \in 0 .. 8
BY DEF ReplyValue

LEMMA Failing ==
  ASSUME output = Empty, Fails, method' \in Byte
  PROVE  state' = "REQUEST_ERROR" /\ rep' \in 0 .. 8 /\ server' \in Errnos /\ Out'
<1>1. PICK e \in Errnos : server' = e /\ Refuse(ReplyValue(e))  BY DEF Fails
<1>2. ReplyValue(e) \in 0 .. 8  BY ReplyValues
<1> QED  BY <1>1, <1>2, Refuses

\* The outcomes of a request.
LEMMA RequestOutcome ==
  ASSUME Typed, Out, NEW p, RequestRead(p)
  PROVE  /\ state' \in {"REQUEST_ERROR", "RESOLVING", "IP_CONNECT"} /\ Out' /\ rep' \in 0 .. 8
         /\ server' \in {"none", "connecting", "up"} \cup Errnos
         /\ UNCHANGED <<method, user>>
<1>1. state = "REQUEST" /\ UNCHANGED <<method, user>> /\ method' \in Byte  BY DEF RequestRead, Typed
<1>2. output = Empty
  <2>1. state \notin Answers \cup {"CLOSED"}  BY <1>1, Handling DEF Reading
  <2> QED  BY <2>1, OutputEmpty
<1>3. \/ (Refuse(1) \/ Refuse(7)) /\ UNCHANGED server
      \/ DnsConnection
      \/ IpConnection
  BY DEF RequestRead
<1>w. ASSUME state' \in {"RESOLVING", "IP_CONNECT"}, UNCHANGED <<rep, bytes, output>>
      PROVE  Out' /\ rep' \in 0 .. 8
  <2>1. state \notin Answers \cup {"CLOSED"} /\ state' \notin Answers  BY <1>1, <1>w DEF Answers, Failures
  <2> QED  BY <1>w, <2>1, OutWaits DEF Typed
<1>4. CASE (Refuse(1) \/ Refuse(7)) /\ UNCHANGED server
  BY SMTT(40), <1>1, <1>2, <1>4, Refuses DEF Typed
<1>5. CASE DnsConnection
  <2>1. CASE Refuse(1)  BY <1>1, <1>2, <1>5, <2>1, Refuses DEF Typed, DnsConnection
  <2>2. CASE state' = "RESOLVING" /\ UNCHANGED <<rep, bytes, output>>
    BY <1>1, <1>5, <1>w, <2>2 DEF Typed, DnsConnection
  <2> QED  BY <1>5, <2>1, <2>2 DEF DnsConnection
<1>6. CASE IpConnection
  <2>1. CASE Fails  BY <1>1, <1>2, <2>1, Failing
  <2>2. CASE Connecting("IP_CONNECT")  BY <1>1, <1>w, <2>2 DEF Connecting
  <2> QED  BY <1>6, <2>1, <2>2 DEF IpConnection
<1> QED  BY <1>3, <1>4, <1>5, <1>6

LEMMA RequestIsRead ==
  ASSUME Inv, Whole, RequestRead(parser')
  PROVE  Inv'
<1> DEFINE m == script[Len(handled) + 1]
<1>1. state = "REQUEST" /\ Len(handled) = Place("REQUEST") /\ Len(handled) \in Nat
  <2>1. state = "REQUEST"  BY DEF RequestRead
  <2> QED  BY <2>1, WholeMessage
<1>2. m.kind = "request" /\ Understood(m, parser')  BY <1>1, WholeMessage DEF Reads
<1>3. m.seen = IF parser'.state = "BAD_TYPE" THEN <<parser'.type>>
               ELSE <<parser'.version, parser'.cmd, parser'.type>> \o parser'.args
  BY <1>2 DEF Understood
<1>4. handled' = Append(handled, m.seen)
  <2>1. handled' = Append(handled, IF parser'.state = "BAD_TYPE" THEN <<parser'.type>>
                                   ELSE <<parser'.version, parser'.cmd, parser'.type>> \o parser'.args)
    BY DEF RequestRead
  <2> HIDE DEF m
  <2> QED  BY <1>3, <2>1
<1>5. /\ state' \in {"REQUEST_ERROR", "RESOLVING", "IP_CONNECT"} /\ Out' /\ rep' \in 0 .. 8
      /\ server' \in {"none", "connecting", "up"} \cup Errnos
      /\ UNCHANGED <<method, user>>
  BY RequestOutcome DEF Inv
<1>6. Turn'
  <2>1. Len(handled') = Place("REQUEST") + 1
    <3>1. Len(handled') = Len(handled) + 1
      <4> HIDE DEF m
      <4>1. handled' = Append(handled, script[Len(handled) + 1].seen)  BY <1>4 DEF m
      <4> QED  BY <4>1, HandledMore DEF Inv, Whole
    <3> QED  BY <1>1, <3>1
  <2>2. script' = script /\ user' = user  BY <1>5 DEF Whole
  <2>3. Place(state)' = Place("REQUEST") + 1
    <3>1. Place("REQUEST") = IF Secret THEN 2 ELSE 1  BY DEF Place
    <3>2. Place(state)' = IF Secret THEN 3 ELSE 2  BY <1>5, <2>2 DEF Place, Secret
    <3> QED  BY <3>1, <3>2
  <2>4. state \in Served  BY <1>1 DEF Served
  <2>5. IF Secret THEN user \in DOMAIN Users /\ script[2].seen = <<user, Users[user]>>
                  ELSE user = Anonymous
    BY <2>4 DEF Inv, Turn
  <2>6. (IF Secret THEN user \in DOMAIN Users /\ script[2].seen = <<user, Users[user]>>
                   ELSE user = Anonymous)'
    BY <2>2, <2>5 DEF Secret
  <2>7. state' \notin {"AUTH_REQUEST", "AUTH_SUCCESSFUL", "AUTH_ERROR", "AUTH_METHOD_ANNOUNCEMENT"}  BY <1>5
  <2> QED  BY <2>1, <2>3, <2>6, <2>7 DEF Turn
<1>7. state' \in States \ Reading  BY <1>5 DEF States, Reading, Answers, Failures
<1>8. method' \in Byte  BY <1>5 DEF Inv, Typed
<1> HIDE DEF m
<1> QED  BY <1>4, <1>5, <1>6, <1>7, <1>8, WholeKeeps DEF m

\* A session that closes keeps nothing but its types.
LEMMA Closes ==
  ASSUME Inv, state' = "CLOSED", Typed', Out', UNCHANGED <<script, sent, handled>>
  PROVE  Inv'
<1>1. Handled'  BY HandledSame DEF Inv
<1>2. "CLOSED" \notin Served \cup {"AUTH_REQUEST", "AUTH_SUCCESSFUL", "AUTH_ERROR", "AUTH_METHOD_ANNOUNCEMENT"}
  BY DEF Served
<1>3. Turn'  BY <1>2 DEF Turn
<1>4. Stream'  BY DEF Stream
<1> QED  BY <1>1, <1>3, <1>4 DEF Inv

LEMMA CloseKeeps ==
  ASSUME Inv, Close, UNCHANGED <<header, input, output, server, client, delivered, handled>>
  PROVE  Inv'
<1>1. state' = "CLOSED" /\ wire' = <<>> /\ wire' \in Seq(Byte) /\ state' \in States
  BY EmptySeq DEF Close, States
<1>2. UNCHANGED <<parser, method, rep, bytes, input, output, server, script, sent, gone, delivered, handled>>
  BY DEF header, client
<1>3. Typed'
  BY <1>1, <1>2 DEF Inv, Typed
<1>4. Out'  BY <1>1, <1>2, OutCloses DEF Inv
<1> QED  BY <1>1, <1>2, <1>3, <1>4, Closes

\* What a receive that ends no message leaves.
Part ==
  /\ state \in Reading /\ gone # "reset" /\ Len(handled) < sent
  /\ UNCHANGED <<state, method, user, rep, bytes, output, server, handled, script, sent, gone, delivered>>
  /\ parser' \in Parser /\ input' \in [off : Nat, held : Seq(Byte)] /\ wire' \in Seq(Byte)
  /\ input'.off + Len(input'.held) <= InSize
  /\ StillReading(script[Len(handled) + 1], parser', input'.held, wire')

LEMMA PartKeeps == ASSUME Inv, Part  PROVE Inv'
<1>1. Typed'  BY DEF Inv, Typed, Part
<1>2. Out'  BY DEF Inv, Out, Part
<1>3. Handled'  BY HandledSame DEF Inv, Part
<1>4. Turn'  BY DEF Inv, Turn, Place, Secret, Part
<1>5. Stream'  BY StreamPart DEF Inv, Part
<1> QED  BY <1>1, <1>2, <1>3, <1>4, <1>5 DEF Inv

\* The three ways of a read.
LEMMA ReadCases ==
  ASSUME Inv, Read
  PROVE  /\ UNCHANGED <<script, got>>
         /\ \/ Close /\ UNCHANGED <<header, input, output, server, client, delivered, handled>>
            \/ Part
            \/ Whole /\ (HelloRead(parser') \/ AuthRead(parser') \/ RequestRead(parser'))
<1>1. state \in Reading /\ UNCHANGED <<client, script, sent, gone, delivered, got>>
  BY DEF Read, Reading, client
<1>2. CASE Close /\ UNCHANGED <<header, input, output, server, handled>>
  BY <1>1, <1>2
<1>3. CASE ~ (Close /\ UNCHANGED <<header, input, output, server, handled>>)
  <2>1. PICK n \in 1 .. Len(wire) :
            /\ n <= Room(input, InSize)
            /\ wire' = SubSeq(wire, n + 1, Len(wire))
            /\ \E c \in Consume([input EXCEPT !.held = @ \o SubSeq(wire, 1, n)]) :
                 /\ parser' = c.p /\ input' = c.in
                 /\ IF Done(c.p) THEN HelloRead(c.p) \/ AuthRead(c.p) \/ RequestRead(c.p)
                    ELSE UNCHANGED <<state, method, user, rep, bytes, output, server, handled>>
    BY <1>3 DEF Read
  <2>2. PICK c \in Consume([input EXCEPT !.held = @ \o SubSeq(wire, 1, n)]) :
            /\ parser' = c.p /\ input' = c.in
            /\ IF Done(c.p) THEN HelloRead(c.p) \/ AuthRead(c.p) \/ RequestRead(c.p)
               ELSE UNCHANGED <<state, method, user, rep, bytes, output, server, handled>>
    BY <2>1
  <2>3. n \in Nat  OBVIOUS
  <2>4. Consumed(n, c, wire')  BY <2>1 DEF Consumed
  <2>5. /\ gone # "reset" /\ Len(handled) < sent /\ wire' \in Seq(Byte) /\ c.p \in Parser
        /\ c.in \in [off : Nat, held : Seq(Byte)] /\ c.in.off + Len(c.in.held) <= InSize
        /\ IF Done(c.p) THEN ReadWhole(script[Len(handled) + 1], c.p, c.in.held, wire')
                        ELSE StillReading(script[Len(handled) + 1], c.p, c.in.held, wire')
    <3>1. Typed /\ Turn /\ Handled /\ Stream  BY DEF Inv
    <3> QED  BY <1>1, <2>3, <2>4, <3>1, Receive
  <2>6. CASE Done(c.p)
    <3>1. Whole  BY <1>1, <2>2, <2>5, <2>6 DEF Whole
    <3> QED  BY <1>1, <2>2, <2>6, <3>1
  <2>7. CASE ~Done(c.p)
    <3>1. Part  BY <1>1, <2>2, <2>5, <2>7 DEF Part
    <3> QED  BY <1>1, <3>1
  <2> QED  BY <2>6, <2>7
<1> QED  BY <1>2, <1>3

LEMMA ReadKeeps == ASSUME Inv, Read  PROVE Inv'
BY ReadCases, CloseKeeps, PartKeeps, HelloIsRead, LoginIsRead, RequestIsRead

-----------------------------------------------------------------------------
(* Writing                                                                  *)

LEMMA AnswerOut ==
  ASSUME Inv, state \in Answers
  PROVE  /\ output.held = Reply(state, method, rep) /\ bytes = Len(output.held) /\ output.held \in Seq(Byte)
         /\ output.off = 0 /\ Len(output.held) = (IF state \in Shorts THEN 2 ELSE ReplySize)
         /\ Advance(output, Len(output.held)) = Empty
<1>1. output.held = Reply(state, method, rep) /\ bytes = Len(output.held) /\ output.off = 0
      /\ output.held \in Seq(Byte)
  BY DEF Inv, Out
<1>2. method \in Byte /\ rep \in 0 .. 8  BY DEF Inv, Typed
<1>3. Len(output.held) = IF state \in Shorts THEN 2 ELSE ReplySize  BY <1>1, <1>2, ReplyShape
<1>4. PICK l \in Nat : l = Len(output.held)  BY <1>1, LenProperties
<1>5. SubSeq(output.held, l + 1, l) = <<>>
  <2>1. l < l + 1 /\ l \in Int /\ l + 1 \in Int  OBVIOUS
  <2> QED  BY <2>1, SubSeqEmpty
<1>6. Advance(output, l) = [off |-> 0, held |-> SubSeq(output.held, l + 1, l)]  BY <1>4 DEF Advance
<1>7. Advance(output, l) = Empty  BY <1>5, <1>6 DEF Empty
<1> QED  BY <1>1, <1>3, <1>4, <1>7

\* The first send ends the reply, whichever state it is of.
LEMMA WriteDone ==
  ASSUME Inv, state \in Answers, OnWrite(Advance(output, Len(output.held)))
  PROVE  bytes' = bytes /\ bytes' \in 0 .. ReplySize /\ output' = Empty /\ Proceed
<1>1. PICK e : e = Advance(output, Len(output.held)) /\ e = Empty  BY AnswerOut
<1>2. PICK reply \in Seq(Byte) :
        /\ reply = Reply(state, method, rep) /\ bytes = Len(reply)
        /\ Len(reply) = (IF state \in Shorts THEN 2 ELSE ReplySize)
  <2>1. output.held \in Seq(Byte)  BY AnswerOut
  <2>2. PICK reply \in Seq(Byte) : reply = output.held  BY <2>1
  <2> QED  BY <2>2, AnswerOut
<1>3. Len(reply) <= ReplySize  BY <1>2 DEF ReplySize
<1>4. Marshall(reply, bytes, e) = [bytes |-> Len(reply), out |-> Empty]
  BY <1>1, <1>2, <1>3, MarshallRest
<1>5. PICK a : a = Marshall(Reply(state, method, rep), bytes, e) /\ a.bytes = Len(reply) /\ a.out = Empty
  BY <1>2, <1>4
<1>6. Short <=> state \in Shorts
  BY DEF Short, Shorts, Answers, Failures
<1>7. Short => Sent(e)
  <2>1. e.held = <<>>  BY <1>1 DEF Empty
  <2> QED  BY <1>2, <1>6, <2>1 DEF Sent
<1>8. ~Short => a.bytes = ReplySize  BY <1>2, <1>5, <1>6
<1>9. OnWrite(e)  BY <1>1
<1>10. bytes' = a.bytes /\ output' = a.out /\ Proceed  BY <1>5, <1>7, <1>8, <1>9 DEF OnWrite
<1>11. bytes' = bytes  BY <1>2, <1>5, <1>10
<1>12. bytes \in 0 .. ReplySize  BY DEF Inv, Out
<1> QED  BY <1>5, <1>10, <1>11, <1>12

LEMMA WriteKeeps == ASSUME Inv, Write  PROVE Inv'
<1>1. state \in Answers /\ UNCHANGED <<method, rep, input, server, script, sent, gone, delivered, handled>>
  BY DEF Write, client
<1>2. CASE Close /\ UNCHANGED <<parser, user, bytes, output, answered, got>>
  BY <1>2, CloseKeeps DEF Write, header
<1>3. CASE OnWrite(Advance(output, Len(output.held)))
  <2>1. bytes' \in 0 .. ReplySize /\ output' = Empty /\ Proceed  BY <1>1, <1>3, WriteDone
  <2>2. ASSUME state' \notin Answers  PROVE Out'
    <3>1. output'.held = <<>> /\ output' \in [off : {0}, held : Seq(Byte)] /\ Len(output'.held) = 0
      BY <2>1, EmptySeq DEF Empty
    <3> QED  BY <2>1, <2>2, <3>1 DEF Out, ReplySize
  <2>3. Handled'  BY <1>1, HandledSame DEF Inv
  <2>4. CASE state \in Failures
    <3>1. state' = "CLOSED" /\ wire' = <<>> /\ parser' = parser  BY <2>1, <2>4 DEF Proceed, Close, Failures
    <3>2. state' \notin Answers  BY <3>1, Handling DEF Answers, Failures
    <3>3. wire' \in Seq(Byte) /\ state' \in States  BY <3>1, EmptySeq DEF States
    <3>4. Typed'  BY <1>1, <3>1, <3>3 DEF Inv, Typed
    <3> QED  BY <1>1, <2>2, <3>1, <3>2, <3>4, Closes
  <2>5. CASE state = "REQUEST_SUCCESSFUL"
    <3>1. state' = "FORWARDING" /\ UNCHANGED <<parser, user, wire>>
      BY <2>1, <2>5 DEF Proceed, Failures
    <3>2. state' \notin Answers \cup Reading /\ state' \in States
      BY <3>1 DEF Answers, Failures, Reading, States
    <3>3. Typed'  BY <1>1, <3>1, <3>2 DEF Inv, Typed
    <3>4. Turn'
      <4>1. Len(handled) = Place("REQUEST_SUCCESSFUL")  BY <2>5 DEF Inv, Turn
      <4>2. Place("REQUEST_SUCCESSFUL") = (IF Secret THEN 3 ELSE 2)  BY DEF Place
      <4>3. Place(state)' = IF Secret THEN 3 ELSE 2  BY <1>1, <3>1 DEF Place, Secret
      <4>4. state \in Served  BY <2>5 DEF Served
      <4>5. IF Secret THEN user \in DOMAIN Users /\ script[2].seen = <<user, Users[user]>>
                      ELSE user = Anonymous
        BY <4>4 DEF Inv, Turn
      <4> QED  BY <1>1, <3>1, <4>1, <4>2, <4>3, <4>5 DEF Turn, Secret
    <3>5. Stream'
      <4>1. state \notin Reading \cup {"CLOSED"} /\ state' \notin Reading  BY <2>5, <3>2 DEF Reading
      <4> QED  BY <1>1, <2>5, <3>1, <4>1, StreamSame DEF Inv
    <3> QED  BY <2>2, <2>3, <3>2, <3>3, <3>4, <3>5 DEF Inv
  <2>6. ASSUME state \in {"AUTH_METHOD_ANNOUNCEMENT", "AUTH_SUCCESSFUL"}, state' \in {"AUTH_REQUEST", "REQUEST"},
               parser' = NewParser, wire' = wire, Turn'
        PROVE  Inv'
    <3>1. state' \notin Answers /\ state' \in Reading /\ state' \in States
      BY <2>6 DEF Answers, Failures, Reading, States
    <3>2. Typed'  BY <1>1, <2>6, <3>1, NewIsParser DEF Inv, Typed
    <3>3. Stream'
      <4>1. state \notin Reading \cup {"CLOSED", "REQUEST_SUCCESSFUL", "REQUEST_ERROR", "FORWARDING"}
        BY <2>6 DEF Reading
      <4> QED  BY <1>1, <2>6, <3>1, <4>1, StreamNext DEF Inv
    <3> QED  BY <2>2, <2>3, <2>6, <3>1, <3>2, <3>3 DEF Inv
  <2>7. CASE state = "AUTH_METHOD_ANNOUNCEMENT"
    <3>0. Len(handled) = 1 /\ method = script[1].seen[2] /\ script' = script /\ handled' = handled
      <4>1. Place(state) = 1  BY <2>7 DEF Place
      <4> QED  BY <1>1, <2>7, <4>1 DEF Inv, Turn
    <3>1. CASE method = UserPassword
      <4>1. state' = "AUTH_REQUEST" /\ parser' = NewParser /\ wire' = wire
        BY <2>1, <2>7, <3>1 DEF Proceed, Failures
      <4>2. Secret'  BY <3>0, <3>1 DEF Secret
      <4>3. Turn'
        <5>1. Place(state)' = 1  BY <4>1 DEF Place
        <5> QED  BY <3>0, <4>1, <4>2, <5>1 DEF Turn, Served
      <4> QED  BY <2>6, <2>7, <4>1, <4>3
    <3>2. CASE method # UserPassword
      <4>1. state' = "REQUEST" /\ parser' = NewParser /\ wire' = wire /\ user' = Anonymous
        BY <2>1, <2>7, <3>2 DEF Proceed, Failures
      <4>2. ~Secret'  BY <3>0, <3>2 DEF Secret
      <4>3. Turn'
        <5>1. Place(state)' = 1  BY <4>1, <4>2 DEF Place
        <5> QED  BY <3>0, <4>1, <4>2, <5>1 DEF Turn
      <4> QED  BY <2>6, <2>7, <4>1, <4>3
    <3> QED  BY <3>1, <3>2
  <2>8. CASE state = "AUTH_SUCCESSFUL"
    <3>1. state' = "REQUEST" /\ parser' = NewParser /\ wire' = wire /\ user' = user
      BY <2>1, <2>8 DEF Proceed, Failures
    <3>2. Len(handled) = 2 /\ Secret /\ user \in DOMAIN Users /\ script[2].seen = <<user, Users[user]>>
      <4>1. Place(state) = 2  BY <2>8 DEF Place
      <4>2. Secret  BY <2>8 DEF Inv, Turn
      <4> QED  BY <2>8, <4>1, <4>2 DEF Inv, Turn
    <3>3. Secret'  BY <1>1, <3>2 DEF Secret
    <3>4. Turn'
      <4>1. Place(state)' = 2  BY <3>1, <3>3 DEF Place
      <4> QED  BY <1>1, <3>1, <3>2, <3>3, <4>1 DEF Turn
    <3> QED  BY <2>6, <2>8, <3>1, <3>4
  <2> QED  BY <1>1, <2>4, <2>5, <2>7, <2>8 DEF Answers
<1> QED  BY <1>2, <1>3 DEF Write

-----------------------------------------------------------------------------
(* The connection to the server                                             *)

LEMMA Connects ==
  ASSUME Inv, state \in {"RESOLVING", "IP_CONNECT", "DNS_CONNECT"}
  PROVE  /\ output = Empty /\ delivered = <<>> /\ method \in Byte
         /\ state \notin Answers \cup Reading \cup {"CLOSED", "REQUEST_SUCCESSFUL", "REQUEST_ERROR", "FORWARDING"}
<1>1. state \notin Answers \cup Reading \cup {"CLOSED", "REQUEST_SUCCESSFUL", "REQUEST_ERROR", "FORWARDING"}
  BY DEF Answers, Failures, Reading
<1>2. output = Empty  BY <1>1, OutputEmpty DEF Inv
<1> QED  BY <1>1, <1>2 DEF Inv, Stream, Typed

\* The dialogue is over: its user and its messages stay.
LEMMA TurnStays ==
  ASSUME Inv, UNCHANGED <<user, script, handled>>,
         state \in {"RESOLVING", "IP_CONNECT", "DNS_CONNECT"},
         state' \in {"IP_CONNECT", "DNS_CONNECT", "REQUEST_SUCCESSFUL", "REQUEST_ERROR"}
  PROVE  Turn'
<1>1. Len(handled) = Place(state) /\ Place(state) = (IF Secret THEN 3 ELSE 2)
  BY DEF Inv, Turn, Place
<1>2. Place(state)' = IF Secret THEN 3 ELSE 2  BY DEF Place, Secret
<1>3. state \in Served  BY DEF Served
<1>4. IF Secret THEN user \in DOMAIN Users /\ script[2].seen = <<user, Users[user]>>
                ELSE user = Anonymous
  BY <1>3 DEF Inv, Turn
<1> QED  BY <1>1, <1>2, <1>4 DEF Turn, Secret

\* A step of the connection that leaves the client's bytes alone.
LEMMA ConnectKeeps ==
  ASSUME Inv, state \in {"RESOLVING", "IP_CONNECT", "DNS_CONNECT"},
         state' \in {"IP_CONNECT", "DNS_CONNECT", "REQUEST_SUCCESSFUL", "REQUEST_ERROR"},
         UNCHANGED <<parser, method, user, input, script, sent, gone, wire, delivered, handled>>,
         Out', rep' \in 0 .. 8, server' \in {"none", "connecting", "up"} \cup Errnos
  PROVE  Inv'
<1>1. state' \in States /\ state' \notin Reading  BY DEF States, Answers, Failures, Reading
<1>2. Typed'  BY <1>1 DEF Inv, Typed
<1>3. Handled'  BY HandledSame DEF Inv
<1>4. Turn'  BY TurnStays
<1>5. Stream'  BY <1>1, Connects, StreamSame DEF Inv
<1> QED  BY <1>2, <1>3, <1>4, <1>5 DEF Inv

LEMMA ResolveKeeps == ASSUME Inv, Resolve  PROVE Inv'
<1>1. /\ state = "RESOLVING"
      /\ UNCHANGED <<parser, method, user, input, script, sent, gone, delivered, handled>>
  BY DEF Resolve, client
<1>2. output = Empty /\ method' \in Byte /\ state \notin Answers \cup {"CLOSED"}  BY <1>1, Connects
<1>3. CASE Fails /\ UNCHANGED wire
  BY <1>1, <1>2, <1>3, Failing, ConnectKeeps
<1>4. CASE Connecting("DNS_CONNECT") /\ UNCHANGED wire
  <2>1. state' = "DNS_CONNECT" /\ server' = "connecting" /\ UNCHANGED <<rep, bytes, output>>
    BY <1>4 DEF Connecting
  <2>2. rep' \in 0 .. 8  BY <2>1 DEF Inv, Typed
  <2>3. state' \notin Answers  BY <2>1 DEF Answers, Failures
  <2>4. Out'  BY <1>2, <2>1, <2>3, OutWaits DEF Inv
  <2> QED  BY <1>1, <1>4, <2>1, <2>2, <2>4, ConnectKeeps
<1>5. CASE Close /\ UNCHANGED <<rep, bytes, output, server>>
  BY <1>5, CloseKeeps DEF Resolve, header
<1> QED  BY <1>3, <1>4, <1>5 DEF Resolve

LEMMA ConnectOutcome ==
  ASSUME ConnectOnWrite, output = Empty, method' \in Byte
  PROVE  /\ state' = (IF server = "up" THEN "REQUEST_SUCCESSFUL" ELSE "REQUEST_ERROR") /\ Out'
         /\ rep' = IF server = "up" THEN 0 ELSE ReplyValue(server)
         /\ rep' \in 0 .. 8
<1>1. CASE server = "up"
  <2>1. "REQUEST_SUCCESSFUL" \in Answers  BY DEF Answers
  <2>2. PICK s \in Answers : s = "REQUEST_SUCCESSFUL"  BY <2>1
  <2>3. Arrive(s) /\ rep' = 0 /\ rep' \in 0 .. 8  BY <1>1, <2>2 DEF ConnectOnWrite
  <2>4. state' = s /\ Out'  BY <2>3, Arrives
  <2> QED  BY <1>1, <2>2, <2>3, <2>4
<1>2. CASE server # "up"
  <2>1. ReplyValue(server) \in 0 .. 8  BY ReplyValues
  <2>2. Refuse(ReplyValue(server))  BY <1>2 DEF ConnectOnWrite
  <2> QED  BY <1>2, <2>1, <2>2, Refuses
<1> QED  BY <1>1, <1>2

LEMMA ServerWriteKeeps == ASSUME Inv, ServerWrite  PROVE Inv'
<1>1. /\ state \in {"IP_CONNECT", "DNS_CONNECT"}
      /\ UNCHANGED <<parser, method, user, server, script, sent, gone, handled>>
  BY DEF ServerWrite, client
<1>2. output = Empty /\ delivered = <<>> /\ method' \in Byte
      /\ server' \in {"none", "connecting", "up"} \cup Errnos
  BY <1>1, Connects DEF Inv, Typed
<1>3. CASE ConnectOnWrite /\ UNCHANGED <<input, delivered, wire>>
  BY <1>1, <1>2, <1>3, ConnectOutcome, ConnectKeeps
<1>4. CASE /\ \E n \in 1 .. Len(input.held) :
                 /\ delivered' = delivered \o SubSeq(input.held, 1, n)
                 /\ input' = Taken(input, n)
           /\ ConnectOnWrite /\ UNCHANGED wire
  <2>1. PICK n \in 1 .. Len(input.held) :
          delivered' = delivered \o SubSeq(input.held, 1, n) /\ input' = Taken(input, n)
    BY <1>4
  <2>2. PICK held \in Seq(Byte), l \in Nat, off \in Nat :
          held = input.held /\ l = Len(held) /\ n \in 1 .. l /\ off = input.off /\ off + l <= InSize
    BY <2>1, LenProperties DEF Inv, Typed
  <2>3. PICK a \in Seq(Byte), r \in Seq(Byte) :
          a = SubSeq(held, 1, n) /\ r = SubSeq(held, n + 1, l) /\ Len(a) = n /\ Len(r) = l - n
    <3>1. n \in 0 .. Len(held)  BY <2>2
    <3>2. /\ SubSeq(held, 1, n) \in Seq(Byte) /\ SubSeq(held, n + 1, l) \in Seq(Byte)
          /\ Len(SubSeq(held, 1, n)) = n /\ Len(SubSeq(held, n + 1, l)) = l - n
      BY <2>2, <3>1, Cut
    <3> QED  BY <3>2
  <2>4. delivered' = a
    <3>1. delivered' = <<>> \o a  BY <1>2, <2>1, <2>2, <2>3
    <3> QED  BY <3>1, ConcatEmptySeq
  <2>5. input' = [off |-> IF n = l THEN 0 ELSE off + n, held |-> r]
    BY <2>1, <2>2, <2>3 DEF Taken, Advance
  <2>6. /\ state' \in {"REQUEST_SUCCESSFUL", "REQUEST_ERROR"} /\ Out' /\ rep' \in 0 .. 8
    BY <1>2, <1>4, ConnectOutcome
  <2>7. PICK o \in Nat : input' = [off |-> o, held |-> r] /\ o + (l - n) <= InSize
    <3>1. (IF n = l THEN 0 ELSE off + n) \in Nat /\ (IF n = l THEN 0 ELSE off + n) + (l - n) <= InSize
      <4>1. InSize \in Nat  BY SizesAssumption
      <4>2. CASE n = l  BY <4>1, <4>2
      <4>3. CASE n # l  BY SMTT(60), <2>2, <4>1, <4>3
      <4> QED  BY <4>2, <4>3
    <3> QED  BY <2>5, <3>1
  <2>8. Typed'
    <3>1. state' \in States  BY <2>6 DEF States, Answers, Failures
    <3>2. input' \in [off : Nat, held : Seq(Byte)] /\ input'.off + Len(input'.held) <= InSize
      BY <2>3, <2>7
    <3>3. parser' \in Parser /\ script' \in Scripts /\ sent' \in 0 .. Len(script') /\ gone' \in {"no", "fin", "reset"}
          /\ wire' \in Seq(Byte)
      BY <1>1, <1>4 DEF Inv, Typed
    <3>4. delivered' \in Seq(Byte)  BY <2>3, <2>4
    <3> QED  BY <1>2, <2>6, <3>1, <3>2, <3>3, <3>4 DEF Typed
  <2>9. Handled'  BY <1>1, HandledSame DEF Inv
  <2>10. Turn'  BY <1>1, <2>6, TurnStays
  <2>11. Stream'
    <3>1. state \notin Reading /\ state # "CLOSED"  BY <1>1 DEF Reading
    <3>2. PICK u \in 0 .. Len(Ahead) : Split(u) /\ Using(u)  BY <3>1 DEF Inv, Stream
    <3>3. u = 0  BY <1>2, <3>1, <3>2 DEF Using
    <3>4. PICK t \in Seq(Byte), k \in Nat : t = Ahead /\ t = Ahead' /\ k = Len(t)
      <4>1. Ahead' = Ahead  BY <1>1 DEF Ahead
      <4> QED  BY <4>1, AheadType DEF Inv
    <3>5. Lies(held, t, 0)  BY <2>2, <3>2, <3>3, <3>4 DEF Split
    <3>6. Lies(a, t, 0) /\ Lies(r, t, n)
      <4>1. n \in 0 .. Len(held) /\ 0 \in Nat /\ 0 + n = n  BY <2>2
      <4>2. Lies(SubSeq(held, 1, n), t, 0) /\ Lies(SubSeq(held, n + 1, Len(held)), t, 0 + n)
        BY <3>5, <4>1, LiesCut
      <4> QED  BY <2>2, <2>3, <4>1, <4>2
    <3>7. n \in 0 .. k
      <4>1. 0 + Len(a) <= Len(t)  BY <3>6 DEF Lies
      <4> QED  BY <2>3, <3>4, <4>1
    <3>8. Split(n)'
      <4>1. input'.held = r /\ wire' = wire /\ n + Len(r) = l /\ 0 + l = l  BY SMTT(40), <1>4, <2>2, <2>3, <2>7
      <4>2. IF gone = "reset" THEN wire = <<>> ELSE Lies(wire, t, 0 + l) /\ k = 0 + l + Len(wire)
        BY <2>2, <3>2, <3>3, <3>4 DEF Split
      <4>3. IF gone' = "reset" THEN wire' = <<>>
            ELSE Lies(wire', t, n + Len(r)) /\ k = n + Len(r) + Len(wire')
        BY <1>1, <4>1, <4>2
      <4> QED  BY <3>4, <3>6, <4>1, <4>3 DEF Split
    <3>9. Using(n)'
      <4>1. state' \notin Reading  BY <2>6 DEF Reading
      <4> QED  BY <2>3, <2>4, <3>4, <3>6, <4>1 DEF Using
    <3> QED  BY <2>6, <3>4, <3>7, <3>8, <3>9 DEF Stream
  <2> QED  BY <2>6, <2>8, <2>9, <2>10, <2>11 DEF Inv
<1>5. CASE Close /\ UNCHANGED <<rep, bytes, input, output, delivered>>
  <2>1. UNCHANGED <<header, input, output, server, client, delivered, handled>>
    BY <1>5 DEF ServerWrite, header
  <2> QED  BY <1>5, <2>1, CloseKeeps
<1> QED  BY <1>3, <1>4, <1>5 DEF ServerWrite

-----------------------------------------------------------------------------
(* The client and the network                                               *)

LEMMA SettleKeeps == ASSUME Inv, Settle  PROVE Inv'
<1>1. /\ UNCHANGED <<state, parser, method, user, rep, bytes, input, output, script, sent, gone, wire,
                     delivered, handled>>
      /\ server' \in {"none", "connecting", "up"} \cup Errnos
  BY DEF Settle, header, client
<1>2. Typed'  BY <1>1 DEF Inv, Typed
<1>3. Out'  BY <1>1 DEF Inv, Out
<1>4. Turn'  BY <1>1 DEF Inv, Turn, Place, Secret
<1>5. Handled'  BY <1>1, HandledSame DEF Inv
<1>6. Stream'  BY <1>1 DEF Inv, Stream, Split, Using, Ahead, At
<1> QED  BY <1>2, <1>3, <1>4, <1>5, <1>6 DEF Inv

LEMMA ClientSendKeeps == ASSUME Inv, ClientSend  PROVE Inv'
<1>1. /\ UNCHANGED <<state, parser, method, user, rep, bytes, input, output, server, script, gone,
                     delivered, handled>>
      /\ state # "CLOSED" /\ gone = "no" /\ sent < Len(script) /\ sent' = sent + 1
      /\ wire' = wire \o script[sent'].bytes
  BY DEF ClientSend, header
<1>2. PICK t \in Seq(Byte), k \in Nat, n \in Nat :
        t = Ahead /\ k = Len(handled) /\ n = sent /\ k <= n
  BY AheadType DEF Inv
<1>3. Messages(script) /\ Len(script) \in Nat  BY Dialogue DEF Inv
<1>4. n + 1 \in k + 1 .. Len(script) /\ n + 1 \in 1 .. Len(script)  BY <1>1, <1>2, <1>3
<1>5. PICK b \in Seq(Byte) : b = script[n + 1].bytes  BY <1>3, <1>4, MessageBytes
<1>6. PICK z \in Seq(Byte) : z = Ahead' /\ z = t \o b
  <2>1. BytesOf(script, k, n + 1) = BytesOf(script, k, (n + 1) - 1) \o script[n + 1].bytes  BY <1>3, <1>4, BytesOfLast
  <2>2. (n + 1) - 1 = n  OBVIOUS
  <2>3. BytesOf(script, k, n) = t  BY <1>2 DEF Ahead
  <2>4. Ahead' = BytesOf(script, k, n + 1)  BY <1>1, <1>2 DEF Ahead
  <2>5. t \o b \in Seq(Byte)  BY ConcatProperties
  <2> QED  BY <1>5, <2>1, <2>2, <2>3, <2>4, <2>5
<1>7. PICK w \in Seq(Byte), v \in Seq(Byte) : w = wire /\ v = wire' /\ v = w \o b
  <2>1. wire \in Seq(Byte)  BY DEF Inv, Typed
  <2>2. wire \o b \in Seq(Byte)  BY <2>1, ConcatProperties
  <2>3. wire' = wire \o b  BY <1>1, <1>2, <1>5
  <2> QED  BY <2>1, <2>2, <2>3
<1>8. Typed'
  <2>1. sent' \in 0 .. Len(script')  BY <1>1, <1>2, <1>3
  <2> QED  BY <1>1, <1>7, <2>1 DEF Inv, Typed
<1>9. Out'  BY <1>1 DEF Inv, Out
<1>10. Turn'  BY <1>1 DEF Inv, Turn, Place, Secret
<1>11. Handled'
  <2>1. Len(handled') <= sent'  BY <1>1, <1>2
  <2> QED  BY <1>1, <2>1 DEF Inv, Handled
<1>12. PICK u \in 0 .. Len(t) : Split(u) /\ Using(u)  BY <1>1, <1>2 DEF Inv, Stream
<1>h. PICK held \in Seq(Byte) : held = input.held
  <2>1. input.held \in Seq(Byte)  BY DEF Inv, Typed
  <2> QED  BY <2>1
<1>13. PICK l \in Nat, lt \in Nat, lw \in Nat, lb \in Nat :
         held = input.held /\ l = Len(held) /\ lt = Len(t) /\ lw = Len(w) /\ lb = Len(b)
  <2>1. Len(held) \in Nat /\ Len(t) \in Nat /\ Len(w) \in Nat /\ Len(b) \in Nat  BY LenProperties
  <2> QED  BY <1>h, <2>1
<1>14. Lies(held, t, u) /\ Lies(w, t, u + l) /\ lt = u + l + lw
  BY <1>1, <1>2, <1>7, <1>12, <1>13 DEF Split
<1>15. Lies(held, z, u) /\ Lies(w, z, u + l) /\ Lies(b, z, lt) /\ Len(z) = lt + lb
  <2>1. u \in Nat /\ u + l \in Nat  BY <1>12, <1>13
  <2>2. Lies(held, t \o b, u) /\ Lies(w, t \o b, u + l)  BY <1>14, <2>1, LiesBefore
  <2>3. Lies(b, t \o b, Len(t)) /\ Len(t \o b) = Len(t) + Len(b)  BY LiesAfter
  <2> QED  BY <1>6, <1>13, <2>2, <2>3
<1>16. Lies(v, z, u + l) /\ Len(v) = lw + lb
  <2>1. u + l \in Nat /\ lt = (u + l) + Len(w)  BY <1>12, <1>13, <1>14
  <2>2. Lies(b, z, (u + l) + Len(w))  BY <1>15, <2>1
  <2>3. Lies(w \o b, z, u + l) /\ Len(w \o b) = Len(w) + Len(b)  BY <1>15, <2>1, <2>2, LiesJoin
  <2>4. Lies(v, z, u + l) /\ Len(v) = Len(w) + Len(b)  BY <1>7, <2>3
  <2> QED  BY <1>13, <2>4
<1>17. Len(z) = u + l + Len(v) /\ u \in 0 .. Len(z)
  <2>1. lt = u + l + lw /\ Len(z) = lt + lb /\ Len(v) = lw + lb  BY <1>14, <1>15, <1>16
  <2>2. u \in Nat  BY <1>13
  <2>3. u + l + (lw + lb) = (u + l + lw) + lb /\ u \in 0 .. (u + l + lw) + lb  BY <2>2
  <2> QED  BY <2>1, <2>3
<1>18. Split(u)'
  BY <1>1, <1>6, <1>7, <1>13, <1>15, <1>16, <1>17 DEF Split
<1>19. Using(u)'
  <2>1. CASE state \in Reading
    <3>1. /\ u = 0 => parser = NewParser
          /\ u # 0 => /\ Len(handled) < sent /\ u < Len(script[Len(handled) + 1].bytes)
                      /\ At(script[Len(handled) + 1], u, parser)
      BY <1>12, <2>1 DEF Using
    <3>2. Len(handled) < sent'  BY <1>1, <1>2
    <3> QED  BY <1>1, <2>1, <3>1, <3>2 DEF Using
  <2>2. CASE state \notin Reading
    <3>1. u = Len(delivered) /\ Lies(delivered, t, 0)  BY <1>2, <1>12, <2>2 DEF Using
    <3>2. Lies(delivered, t \o b, 0)  BY <3>1, LiesBefore
    <3> QED  BY <1>1, <1>6, <2>2, <3>1, <3>2 DEF Using
  <2> QED  BY <2>1, <2>2
<1>20. Stream'
  BY <1>1, <1>6, <1>17, <1>18, <1>19 DEF Inv, Stream
<1> QED  BY <1>8, <1>9, <1>10, <1>11, <1>20 DEF Inv

LEMMA ClientGoneKeeps == ASSUME Inv, ClientGone  PROVE Inv'
<1>1. /\ UNCHANGED <<state, parser, method, user, rep, bytes, input, output, server, script, sent,
                     delivered, handled>>
      /\ state # "CLOSED" /\ gone # "reset"
      /\ \/ gone' = "fin" /\ wire' = wire
         \/ gone' = "reset" /\ wire' = <<>>
  BY DEF ClientGone, header
<1>2. wire' \in Seq(Byte)  BY <1>1, EmptySeq DEF Inv, Typed
<1>3. Typed'  BY <1>1, <1>2 DEF Inv, Typed
<1>4. Out'  BY <1>1 DEF Inv, Out
<1>5. Turn'  BY <1>1 DEF Inv, Turn, Place, Secret
<1>6. Handled'  BY <1>1, HandledSame DEF Inv
<1>7. Stream'
  <2>1. PICK u \in 0 .. Len(Ahead) : Split(u) /\ Using(u)  BY <1>1 DEF Inv, Stream
  <2>2. Ahead' = Ahead  BY <1>1 DEF Ahead
  <2>3. Split(u)'  BY <1>1, <2>1, <2>2 DEF Split
  <2>4. Using(u)'  BY <1>1, <2>1, <2>2 DEF Using
  <2> QED  BY <1>1, <2>1, <2>2, <2>3, <2>4 DEF Inv, Stream
<1> QED  BY <1>3, <1>4, <1>5, <1>6, <1>7 DEF Inv

LEMMA InvIdle == ASSUME Inv, UNCHANGED vars  PROVE Inv'
<1>1. UNCHANGED <<state, parser, method, user, rep, bytes, input, output, server, script, sent, gone, wire,
                  delivered, handled>>
  BY DEF vars, header, client
<1> QED  BY SMTT(40), <1>1 DEF Inv, Typed, Out, Turn, Place, Secret, Handled, Seen, Stream, Split, Using, Ahead, At

-----------------------------------------------------------------------------
(***************************************************************************)
(* The invariant, and what it says of the session                          *)
(***************************************************************************)

LEMMA InvInit == Init => Inv
<1> SUFFICES ASSUME Init  PROVE Inv
  OBVIOUS
<1>1. /\ state = "HELLO" /\ parser = NewParser /\ method = NoAcceptable /\ rep = 0 /\ bytes = 0
      /\ input = [off |-> 0, held |-> <<>>] /\ output = [off |-> 0, held |-> <<>>]
      /\ server = "none" /\ script \in Scripts /\ wire = <<>> /\ gone = "no" /\ sent = 0
      /\ delivered = <<>> /\ handled = <<>>
  BY DEF Init
<1>2. <<>> \in Seq(Byte) /\ Len(<<>>) = 0 /\ <<>> \in Seq(Seen(script))  BY EmptySeq
<1>3. Typed
  <2>1. state \in States /\ method \in Byte  BY <1>1 DEF States, NoAcceptable, Byte
  <2>2. input \in [off : Nat, held : Seq(Byte)] /\ input.off + Len(input.held) <= InSize
    BY <1>1, <1>2, SizesAssumption
  <2>3. sent \in 0 .. Len(script)
    <3>1. IsScript(script)  BY <1>1, ScriptsAssumption DEF IsScript
    <3>2. Len(script) \in Nat  BY <3>1, MessageBytes
    <3> QED  BY <1>1, <3>2
  <2>4. wire \in Seq(Byte) /\ delivered \in Seq(Byte)  BY <1>1, <1>2
  <2> QED  BY <1>1, <2>1, <2>2, <2>3, <2>4, NewIsParser DEF Typed
<1>4. Out
  <2>1. state \notin Answers \cup {"CLOSED"}  BY <1>1 DEF Answers, Failures
  <2>2. output \in [off : {0}, held : Seq(Byte)] /\ Len(output.held) = 0  BY <1>1, <1>2
  <2> QED  BY <1>1, <2>1, <2>2 DEF Out, ReplySize
<1>5. Turn  BY <1>1, <1>2 DEF Turn, Place, Served
<1>6. Handled  BY <1>1, <1>2 DEF Handled
<1>7. Stream
  <2>1. Ahead = <<>>
    <3>1. Len(handled) = 0 /\ 0 \in Nat  BY <1>1, <1>2
    <3>2. BytesOf(script, 0, 0) = <<>>  BY <3>1, BytesOfNone
    <3> QED  BY <1>1, <3>1, <3>2 DEF Ahead
  <2>2. Lies(input.held, Ahead, 0) /\ Lies(wire, Ahead, 0) /\ Len(Ahead) = 0
    <3>1. PICK e \in Seq(Byte) : e = <<>> /\ Len(e) = 0  BY <1>2
    <3>2. 0 \in Nat /\ 0 <= Len(e)  BY <3>1
    <3>3. Lies(e, e, 0)  BY <3>1, <3>2, LiesNone
    <3>4. input.held = e /\ wire = e /\ Ahead = e  BY <1>1, <2>1, <3>1
    <3> QED  BY <3>1, <3>3, <3>4
  <2>3. Split(0)  BY <1>1, <1>2, <2>2 DEF Split
  <2>4. Using(0)  BY <1>1 DEF Using, Reading
  <2> QED  BY <1>1, <2>2, <2>3, <2>4 DEF Stream
<1> QED  BY <1>3, <1>4, <1>5, <1>6, <1>7 DEF Inv

LEMMA InvNext == Inv /\ [Next]_vars => Inv'
<1> SUFFICES ASSUME Inv, [Next]_vars  PROVE Inv'
  OBVIOUS
<1>1. CASE Read  BY <1>1, ReadKeeps
<1>2. CASE Write  BY <1>2, WriteKeeps
<1>3. CASE ServerWrite  BY <1>3, ServerWriteKeeps
<1>4. CASE Resolve  BY <1>4, ResolveKeeps
<1>5. CASE Settle  BY <1>5, SettleKeeps
<1>6. CASE ClientSend  BY <1>6, ClientSendKeeps
<1>7. CASE ClientGone  BY <1>7, ClientGoneKeeps
<1>8. CASE UNCHANGED vars  BY <1>8, InvIdle
<1> QED  BY <1>1, <1>2, <1>3, <1>4, <1>5, <1>6, <1>7, <1>8 DEF Next, Daemon, Over

\* The invariant of the handshake holds in every session: types, replies that
\* wait whole, the turn of the dialogue, and every byte of the client in its place.
THEOREM HandshakeInvariant == Spec => []Inv
<1>1. Init => Inv  BY InvInit
<1>2. Inv /\ [Next]_vars => Inv'  BY InvNext
<1> QED  BY <1>1, <1>2, PTL DEF Spec

LEMMA InvType == Inv => TypeOK
<1> SUFFICES ASSUME Inv  PROVE TypeOK
  OBVIOUS
<1>1. state \in States /\ server \in {"none", "connecting", "up"} \cup Errnos /\ rep \in 0 .. 8
  BY DEF Inv, Typed
<1>2. input.held \in Seq(Byte) /\ Room(input, InSize) \in 0 .. InSize
  <2>1. input.held \in Seq(Byte) /\ input.off \in Nat /\ input.off + Len(input.held) <= InSize
    BY DEF Inv, Typed
  <2> QED  BY SMTT(40), <2>1, SizesAssumption, LenProperties DEF Room
<1>3. output.held \in Seq(Byte) /\ Room(output, OutSize) \in 0 .. OutSize
  <2>1. output.held \in Seq(Byte) /\ output.off = 0 /\ Len(output.held) <= ReplySize
    BY DEF Inv, Out
  <2>2. Len(output.held) \in Nat  BY <2>1, LenProperties
  <2> QED  BY <2>1, <2>2, SizesAssumption DEF Room, ReplySize
<1>4. parser.len \in Byte /\ bytes \in 0 .. ReplySize
  BY DEF Inv, Typed, Parser, Out
<1>5. state \in Served => user \in DOMAIN Users
  BY UsersAssumption DEF Inv, Turn
<1> QED  BY <1>1, <1>2, <1>3, <1>4, <1>5 DEF TypeOK

\* Whatever the client sends and however it is cut, the buffers respect their
\* sizes, the eight-bit count of a parser does not wrap, and a session past its
\* login has a user.
THEOREM HandshakeTypeOK == Spec => []TypeOK
BY HandshakeInvariant, InvType, PTL

LEMMA InvServed == Inv => ServedIsAllowed
<1> SUFFICES ASSUME Inv, state \in Served
             PROVE  IF script[1].seen[2] = UserPassword THEN script[2].seen = <<user, Users[user]>>
                                                        ELSE user = Anonymous
  BY DEF ServedIsAllowed
<1> QED  BY DEF Inv, Turn, Secret

\* A session is served to the user whose password its client sent, and to the
\* anonymous user only when no password was offered: no cut and no pipelining of
\* messages takes a session past its login.
THEOREM ServedIsAllowedAlways == Spec => []ServedIsAllowed
BY HandshakeInvariant, InvServed, PTL

LEMMA InvStream == Inv => StreamExact
<1> SUFFICES ASSUME Inv  PROVE StreamExact
  OBVIOUS
<1>0. PICK k \in Nat : k = Len(handled) /\ k <= sent /\ sent \in Nat  BY AheadType DEF Inv
<1>1. \A i \in DOMAIN handled : i <= sent /\ handled[i] = script[i].seen
  <2>1. DOMAIN handled = 1 .. k /\ \A i \in 1 .. k : handled[i] = script[i].seen
    BY <1>0, LenProperties DEF Inv, Handled
  <2> QED  BY <1>0, <2>1
<1>2. ASSUME state \in {"IP_CONNECT", "DNS_CONNECT", "REQUEST_SUCCESSFUL", "FORWARDING"}, gone # "reset"
      PROVE  delivered \o input.held \o wire =
               FlattenSeq([i \in 1 .. sent - Len(handled) |-> script[Len(handled) + i].bytes])
  <2>1. state \notin Reading /\ state # "CLOSED"  BY <1>2 DEF Reading
  <2>2. PICK u \in 0 .. Len(Ahead) : Split(u) /\ Using(u)  BY <2>1 DEF Inv, Stream
  <2>3. PICK t \in Seq(Byte), lt \in Nat : t = Ahead /\ lt = Len(t)  BY AheadType DEF Inv
  <2>4. PICK d \in Seq(Byte), held \in Seq(Byte), w \in Seq(Byte) :
          d = delivered /\ held = input.held /\ w = wire
    <3>1. delivered \in Seq(Byte) /\ input.held \in Seq(Byte) /\ wire \in Seq(Byte)  BY DEF Inv, Typed
    <3> QED  BY <3>1
  <2>5. PICK ld \in Nat, l \in Nat, lw \in Nat : ld = Len(d) /\ l = Len(held) /\ lw = Len(w)
    <3>1. Len(d) \in Nat /\ Len(held) \in Nat /\ Len(w) \in Nat  BY LenProperties
    <3> QED  BY <3>1
  <2>6. u = ld /\ Lies(d, t, 0)  BY <2>1, <2>2, <2>3, <2>4, <2>5 DEF Using
  <2>7. Lies(held, t, u) /\ Lies(w, t, u + l) /\ lt = u + l + lw
    BY <1>2, <2>2, <2>3, <2>4, <2>5 DEF Split
  <2>8. PICK dh \in Seq(Byte) : dh = d \o held /\ Lies(dh, t, 0) /\ Len(dh) = ld + l
    <3>1. 0 + Len(d) = u /\ 0 \in Nat  BY <2>5, <2>6
    <3>2. Lies(held, t, 0 + Len(d))  BY <2>7, <3>1
    <3>3. Lies(d \o held, t, 0) /\ Len(d \o held) = Len(d) + Len(held)  BY <2>6, <3>1, <3>2, LiesJoin
    <3>4. d \o held \in Seq(Byte)  BY ConcatProperties
    <3> QED  BY <2>5, <3>3, <3>4
  <2>9. PICK all \in Seq(Byte) : all = dh \o w /\ Lies(all, t, 0) /\ Len(all) = (ld + l) + lw
    <3>1. 0 + Len(dh) = u + l /\ 0 \in Nat  BY <2>5, <2>6, <2>8
    <3>2. Lies(w, t, 0 + Len(dh))  BY <2>7, <3>1
    <3>3. Lies(dh \o w, t, 0) /\ Len(dh \o w) = Len(dh) + Len(w)  BY <2>8, <3>1, <3>2, LiesJoin
    <3>4. dh \o w \in Seq(Byte)  BY ConcatProperties
    <3> QED  BY <2>5, <2>8, <3>3, <3>4
  <2>10. all = t
    <3>1. Len(all) = Len(t)  BY <2>3, <2>6, <2>7, <2>9
    <3> QED  BY <2>9, <3>1, LiesWhole
  <2>11. delivered \o input.held \o wire = all  BY <2>4, <2>8, <2>9
  <2> QED  BY <2>3, <2>10, <2>11 DEF Ahead, BytesOf
<1> QED  BY <1>1, <1>2 DEF StreamExact

\* Every byte of the client is used once and in order, wherever its messages are
\* cut and however many it sends at once: each message is parsed as it was sent,
\* and what is behind the request has reached the server or waits for the relay.
THEOREM StreamStaysExact == Spec => []StreamExact
BY HandshakeInvariant, InvStream, PTL

-----------------------------------------------------------------------------
(***************************************************************************)
(* What the client was told                                                *)
(***************************************************************************)

\* The answer to a hello or a login, and the first n answers of a dialogue.
Outcome(m) ==
  IF m.kind = "hello" THEN <<Version, IF m.seen[1] = Version THEN m.seen[2] ELSE NoAcceptable>>
  ELSE <<Version, IF \E n \in DOMAIN Users : m.seen = <<n, Users[n]>> THEN 0 ELSE 255>>
Outcomes(s, n) == FlattenSeq([i \in 1 .. n |-> Outcome(s[i])])

\* A state that reads has told the client the outcome of all that it sent, one
\* that answers is about to, and one that connects owes the answer to its request.
Waiting == {"RESOLVING", "IP_CONNECT", "DNS_CONNECT"}
Told ==
  /\ state \in Reading => got = Outcomes(script, Len(handled))
  /\ state \in Answers \cup Waiting => got = Outcomes(script, Len(handled) - 1)
  /\ state \in Shorts => output.held = Outcome(script[Len(handled)])
  /\ state \in {"REQUEST_SUCCESSFUL", "REQUEST_ERROR"} => rep = Code(script[Len(handled)], GeneralFailure)
  /\ state = "FORWARDING" => got = Outcomes(script, Len(handled) - 1) \o Reply("REQUEST_SUCCESSFUL", 0, 0)

\* How far the connection to the server is in each state.
Reached ==
  /\ state \in Reading \cup Shorts \cup {"RESOLVING"} => server = "none"
  /\ state \in {"IP_CONNECT", "DNS_CONNECT"} => server # "none"
  /\ state \in {"REQUEST_SUCCESSFUL", "FORWARDING"} => server = "up"
  /\ state = "REQUEST_ERROR" => server # "connecting"

Answering == Inv /\ Told /\ Reached

LEMMA OutcomeType ==
  ASSUME NEW m, IsMessage(m)
  PROVE  Outcome(m) \in Seq(Byte)
<1>1. Version \in Byte /\ NoAcceptable \in Byte /\ 0 \in Byte /\ 255 \in Byte
  BY DEF Version, NoAcceptable, Byte
<1>2. CASE m.kind = "hello"
  <2>1. PICK v, methods : m = Hello(v, methods)  BY <1>2 DEF IsMessage, IsHello
  <2>2. m.seen = <<v, Best(methods)>>  BY <2>1 DEF Hello
  <2>3. Best(methods) \in Byte  BY DEF Best, UserPassword, NoAuthentication, NoAcceptable, Byte
  <2>4. m.seen[2] \in Byte  BY <2>2, <2>3
  <2>5. PICK x \in Byte : x = IF m.seen[1] = Version THEN m.seen[2] ELSE NoAcceptable  BY <1>1, <2>4
  <2>6. Outcome(m) = <<Version, x>>  BY <1>2, <2>5 DEF Outcome
  <2>7. <<Version, x>> \in Seq(Byte)  BY <1>1
  <2> QED  BY <2>6, <2>7
<1>3. CASE m.kind # "hello"
  <2>1. PICK x \in Byte : x = IF \E n \in DOMAIN Users : m.seen = <<n, Users[n]>> THEN 0 ELSE 255
    BY <1>1
  <2>2. Outcome(m) = <<Version, x>>  BY <1>3, <2>1 DEF Outcome
  <2>3. <<Version, x>> \in Seq(Byte)  BY <1>1
  <2> QED  BY <2>2, <2>3
<1> QED  BY <1>2, <1>3

LEMMA OutcomesType ==
  ASSUME NEW s, IsScript(s), NEW n \in 0 .. Len(s)
  PROVE  /\ Outcomes(s, n) \in Seq(Byte)
         /\ [i \in 1 .. n |-> Outcome(s[i])] \in [1 .. n -> Seq(Byte)]
<1>0. Len(s) \in Nat /\ n \in Nat  BY MessageBytes
<1>1. \A i \in 1 .. n : Outcome(s[i]) \in Seq(Byte)
  <2>1. \A i \in 1 .. n : i \in DOMAIN s  BY <1>0, MessageBytes
  <2>2. \A i \in 1 .. n : IsMessage(s[i])  BY <2>1 DEF IsScript
  <2> QED  BY <2>2, OutcomeType
<1> DEFINE f == [i \in 1 .. n |-> Outcome(s[i])]
<1>2. f \in [1 .. n -> Seq(Byte)]  BY <1>1
<1>3. Outcomes(s, n) = FlattenSeq(f)  BY DEF Outcomes
<1> HIDE DEF f
<1>4. FlattenSeq(f) \in Seq(Byte)  BY <1>0, <1>2, FlattenType
<1> QED  BY <1>2, <1>3, <1>4 DEF f

LEMMA OutcomesLast ==
  ASSUME NEW s, IsScript(s), NEW n \in 1 .. Len(s)
  PROVE  Outcomes(s, n) = Outcomes(s, n - 1) \o Outcome(s[n])
<1>0. Len(s) \in Nat /\ n \in Nat \ {0} /\ n \in 0 .. Len(s)  BY MessageBytes
<1> DEFINE f == [i \in 1 .. n |-> Outcome(s[i])]
           g == [i \in 1 .. n - 1 |-> Outcome(s[i])]
<1>1. f \in [1 .. n -> Seq(Byte)]  BY <1>0, OutcomesType
<1>2. g = [i \in 1 .. n - 1 |-> f[i]]  BY <1>0
<1>3. f[n] = Outcome(s[n])  BY <1>0
<1>4. Outcomes(s, n) = FlattenSeq(f) /\ Outcomes(s, n - 1) = FlattenSeq(g)  BY DEF Outcomes
<1> HIDE DEF f, g
<1>5. FlattenSeq(f) = FlattenSeq(g) \o f[n]  BY <1>0, <1>1, <1>2, FlattenLast
<1> QED  BY <1>3, <1>4, <1>5

LEMMA OutcomesNone == ASSUME NEW s  PROVE Outcomes(s, 0) = <<>>
<1>1. [i \in 1 .. 0 |-> Outcome(s[i])] = <<>>  OBVIOUS
<1> QED  BY <1>1, FlattenEmpty DEF Outcomes

LEMMA KindsApart ==
  /\ Reading \cap Answers = {} /\ Reading \cap Waiting = {} /\ Answers \cap Waiting = {}
  /\ Shorts \subseteq Answers /\ Answers \ Shorts = {"REQUEST_SUCCESSFUL", "REQUEST_ERROR"}
  /\ {"FORWARDING", "CLOSED"} \cap (Reading \cup Answers \cup Waiting) = {}
  /\ {"REQUEST_SUCCESSFUL", "REQUEST_ERROR"} \cap (Shorts \cup Reading \cup Waiting) = {}
BY DEF Reading, Answers, Waiting, Shorts, Failures

\* The messages handled before the one at hand are a hello and a login.
LEMMA KindsBefore ==
  ASSUME Inv, state # "CLOSED", NEW i \in 1 .. Len(handled), i # Len(handled) \/ state \in Reading \cup Shorts
  PROVE  script[i].kind \in {"hello", "login"} /\ IsMessage(script[i])
<1>0. PICK k \in Nat : k = Len(handled) /\ k <= sent /\ sent \in Nat /\ sent <= Len(script)
  BY AheadType DEF Inv
<1>1. i \in 1 .. Len(script) /\ Len(script) \in Nat  BY <1>0, Dialogue DEF Inv
<1>2. IsMessage(script[i]) /\ (i \in DOMAIN Turns(script) => script[i].kind = Turns(script)[i])
  BY <1>1, Dialogue DEF Inv
<1>3. k = Place(state)  BY <1>0 DEF Inv, Turn
<1>4. CASE Secret
  <2>1. Turns(script) = <<"hello", "login", "request">>  BY <1>4 DEF Turns, Secret
  <2>2. i \in 1 .. 2
    <3>1. k \in {0, 1, 2, 3} /\ (state \in Reading \cup Shorts => k \in {0, 1, 2})
      BY <1>3, <1>4 DEF Place, Reading, Shorts
    <3>2. k <= 3 /\ i \in 1 .. k  BY <1>0, <3>1
    <3>3. CASE state \in Reading \cup Shorts
      <4>1. k <= 2  BY <3>1, <3>3
      <4> QED  BY <3>2, <4>1
    <3>4. CASE i # k  BY <3>2, <3>4
    <3> QED  BY <1>0, <3>3, <3>4
  <2> QED  BY <1>2, <2>1, <2>2
<1>5. CASE ~Secret
  <2>1. Turns(script) = <<"hello", "request">>  BY <1>5 DEF Turns, Secret
  <2>2. i = 1
    <3>1. k \in {0, 1, 2} /\ (state \in Reading \cup Shorts => k \in {0, 1})
      <4>1. state \notin {"AUTH_SUCCESSFUL", "AUTH_ERROR"}  BY <1>5 DEF Inv, Turn
      <4> QED  BY <1>3, <1>5, <4>1 DEF Place, Reading, Shorts
    <3> QED  BY <1>0, <3>1
  <2> QED  BY <1>2, <2>1, <2>2
<1> QED  BY <1>4, <1>5

\* and what follows them is the request.
LEMMA KindNow ==
  ASSUME Inv, state \in Waiting \cup {"REQUEST_SUCCESSFUL", "REQUEST_ERROR", "FORWARDING"}
  PROVE  Len(handled) \in 1 .. Len(script) /\ script[Len(handled)].kind = "request"
<1>0. PICK k \in Nat : k = Len(handled) /\ k <= sent /\ sent \in Nat /\ sent <= Len(script)
  BY AheadType DEF Inv
<1>1. Len(script) \in Nat  BY Dialogue DEF Inv
<1>2. state # "CLOSED"  BY DEF Waiting
<1>3. k = IF Secret THEN 3 ELSE 2  BY <1>0, <1>2 DEF Inv, Turn, Place, Waiting
<1>4. k \in 1 .. Len(script)  BY <1>0, <1>1, <1>3
<1>5. k \in DOMAIN Turns(script) => script[k].kind = Turns(script)[k]  BY <1>4, Dialogue DEF Inv
<1>6. CASE Secret
  <2>1. Turns(script) = <<"hello", "login", "request">>  BY <1>6 DEF Turns, Secret
  <2> QED  BY <1>0, <1>3, <1>4, <1>5, <1>6, <2>1
<1>7. CASE ~Secret
  <2>1. Turns(script) = <<"hello", "request">>  BY <1>7 DEF Turns, Secret
  <2> QED  BY <1>0, <1>3, <1>4, <1>5, <1>7, <2>1
<1> QED  BY <1>6, <1>7

LEMMA ClosedTells == ASSUME state' = "CLOSED"  PROVE Told' /\ Reached'
<1>1. "CLOSED" \notin Reading \cup Answers \cup Waiting \cup Shorts
      \cup {"REQUEST_SUCCESSFUL", "REQUEST_ERROR", "FORWARDING", "RESOLVING", "IP_CONNECT", "DNS_CONNECT"}
  BY DEF Reading, Answers, Waiting, Shorts, Failures
<1> QED  BY <1>1 DEF Told, Reached

LEMMA StillTells ==
  ASSUME Told, Reached, UNCHANGED <<state, rep, output, server, handled, script, got>>
  PROVE  Told' /\ Reached'
BY DEF Told, Reached, Code

\* A handled message is the last of those handled.
LEMMA WholeCounts ==
  ASSUME Inv, Whole, handled' = Append(handled, script[Len(handled) + 1].seen), Told, UNCHANGED got
  PROVE  /\ Len(handled') = Len(handled) + 1 /\ Len(handled) \in Nat
         /\ got' = Outcomes(script', Len(handled') - 1) /\ script'[Len(handled')] = script[Len(handled) + 1]
<1>1. Len(handled') = Len(handled) + 1 /\ script' = script  BY HandledMore DEF Inv, Whole
<1>2. PICK k \in Nat : k = Len(handled)  BY AheadType DEF Inv
<1>3. Len(handled') - 1 = Len(handled)  BY <1>1, <1>2
<1>4. got = Outcomes(script, Len(handled))  BY DEF Told, Whole
<1> QED  BY <1>1, <1>2, <1>3, <1>4

\* What a state with a short answer has to say.
LEMMA ShortTells ==
  ASSUME NEW s \in Shorts, state' = s, NEW m, script'[Len(handled')] = m,
         got' = Outcomes(script', Len(handled') - 1), output'.held = Reply(s, method', rep'),
         Reply(s, method', rep') = Outcome(m), server' = "none"
  PROVE  Told' /\ Reached'
<1>1. /\ s \notin Reading /\ s \in Answers /\ s \notin Waiting /\ s # "FORWARDING" /\ s # "REQUEST_SUCCESSFUL"
      /\ s # "REQUEST_ERROR" /\ s \notin {"IP_CONNECT", "DNS_CONNECT"}
  BY DEF Reading, Answers, Waiting, Shorts, Failures
<1>2. Told'  BY <1>1 DEF Told
<1>3. Reached'  BY <1>1 DEF Reached
<1> QED  BY <1>2, <1>3

LEMMA HelloTells ==
  ASSUME Answering, Inv', Whole, UNCHANGED got, HelloRead(parser')
  PROVE  Told' /\ Reached'
<1> DEFINE m == script[Len(handled) + 1]
<1>1. state = "HELLO" /\ server' = server
      /\ handled' = Append(handled, <<parser'.version, parser'.method>>) /\ method' = parser'.method
  BY DEF HelloRead
<1>2. m.kind = "hello" /\ <<parser'.version, parser'.method>> = m.seen
  <2>1. m.kind = "hello" /\ Understood(m, parser')  BY <1>1, WholeMessage DEF Reads, Answering
  <2> QED  BY <2>1 DEF Understood
<1>3. handled' = Append(handled, m.seen)  BY <1>1, <1>2
<1>4. got' = Outcomes(script', Len(handled') - 1) /\ script'[Len(handled')] = m
  BY <1>3, WholeCounts DEF Answering
<1>5. PICK s : s = (IF parser'.version # Version \/ parser'.method = NoAcceptable
                    THEN "HELLO_ERROR" ELSE "AUTH_METHOD_ANNOUNCEMENT") /\ Arrive(s)
  BY DEF HelloRead
<1>6. state' = s  BY <1>5 DEF Arrive
<1>7. s \in Shorts /\ s \in Answers  BY <1>5 DEF Shorts, Answers, Failures
<1>8. output'.held = Reply(s, method', rep')  BY <1>6, <1>7 DEF Inv, Out
<1>9. Reply(s, method', rep') = Outcome(m)
  <2>1. m.seen[1] = parser'.version /\ m.seen[2] = parser'.method
    <3>1. <<parser'.version, parser'.method>>[1] = parser'.version
          /\ <<parser'.version, parser'.method>>[2] = parser'.method
      OBVIOUS
    <3> HIDE DEF m
    <3> QED  BY <1>2, <3>1
  <2> HIDE DEF m
  <2>2. CASE parser'.version # Version \/ parser'.method = NoAcceptable
    <3>1. s = "HELLO_ERROR"  BY <1>5, <2>2
    <3>2. Reply(s, method', rep') = <<Version, 255>>  BY <3>1 DEF Reply
    <3>3. (IF m.seen[1] = Version THEN m.seen[2] ELSE NoAcceptable) = 255  BY <2>1, <2>2 DEF NoAcceptable
    <3> QED  BY <1>2, <3>2, <3>3 DEF Outcome
  <2>3. CASE parser'.version = Version /\ parser'.method # NoAcceptable
    <3>1. s = "AUTH_METHOD_ANNOUNCEMENT"  BY <1>5, <2>3
    <3>2. Reply(s, method', rep') = <<Version, method'>>  BY <3>1 DEF Reply
    <3>3. (IF m.seen[1] = Version THEN m.seen[2] ELSE NoAcceptable) = method'  BY <1>1, <2>1, <2>3
    <3> QED  BY <1>2, <3>2, <3>3 DEF Outcome
  <2> QED  BY <2>2, <2>3
<1> HIDE DEF m
<1>10. server' = "none"  BY <1>1 DEF Answering, Reached, Reading
<1> QED  BY <1>4, <1>6, <1>7, <1>8, <1>9, <1>10, ShortTells

LEMMA LoginTells ==
  ASSUME Answering, Inv', Whole, UNCHANGED got, AuthRead(parser')
  PROVE  Told' /\ Reached'
<1> DEFINE m == script[Len(handled) + 1]
           Right == \E n \in DOMAIN Users : m.seen = <<n, Users[n]>>
<1>1. state = "AUTH_REQUEST" /\ server' = server /\ handled' = Append(handled, parser'.args)
  BY DEF AuthRead
<1>2. /\ m.kind = "login" /\ IsMessage(m) /\ parser'.args = m.seen
      /\ (parser'.state = "DONE" <=> Len(m.seen) = 2)
  <2>1. m.kind = "login" /\ IsMessage(m) /\ Understood(m, parser')
    BY <1>1, WholeMessage DEF Reads, Answering
  <2> QED  BY <2>1 DEF Understood
<1>3. handled' = Append(handled, m.seen)  BY <1>1, <1>2
<1>4. got' = Outcomes(script', Len(handled') - 1) /\ script'[Len(handled')] = m
  BY <1>3, WholeCounts DEF Answering
<1>5. PICK s : s = (IF Accepted(parser') THEN "AUTH_SUCCESSFUL" ELSE "AUTH_ERROR") /\ Arrive(s)
  BY DEF AuthRead
<1>6. state' = s  BY <1>5 DEF Arrive
<1>7. s \in Shorts /\ s \in Answers  BY <1>5 DEF Shorts, Answers, Failures
<1>8. output'.held = Reply(s, method', rep')  BY <1>6, <1>7 DEF Inv, Out
<1> HIDE DEF m
<1>9. Accepted(parser') <=> Right
  <2>1. ASSUME Accepted(parser')  PROVE Right
    <3>1. /\ parser'.state = "DONE" /\ m.seen[1] \in DOMAIN Users /\ Users[m.seen[1]] = m.seen[2]
      BY <1>2, <2>1 DEF Accepted
    <3>2. m = Login(AuthVersion, m.seen[1], m.seen[2])  BY <1>2, <3>1 DEF IsMessage, IsLogin
    <3>3. Login(AuthVersion, m.seen[1], m.seen[2]).seen = <<m.seen[1], m.seen[2]>>  BY DEF Login
    <3>4. m.seen = <<m.seen[1], m.seen[2]>>  BY <3>2, <3>3
    <3>5. m.seen = <<m.seen[1], Users[m.seen[1]]>>  BY <3>1, <3>4
    <3> QED  BY <3>1, <3>5
  <2>2. ASSUME Right  PROVE Accepted(parser')
    <3>1. PICK n \in DOMAIN Users : m.seen = <<n, Users[n]>>  BY <2>2
    <3>2. Len(<<n, Users[n]>>) = 2 /\ <<n, Users[n]>>[1] = n /\ <<n, Users[n]>>[2] = Users[n]  OBVIOUS
    <3>3. Len(m.seen) = 2 /\ m.seen[1] = n /\ m.seen[2] = Users[n]  BY <3>1, <3>2
    <3> QED  BY <1>2, <3>3 DEF Accepted
  <2> QED  BY <2>1, <2>2
<1>10. Outcome(m) = <<Version, IF Right THEN 0 ELSE 255>>  BY <1>2 DEF Outcome
<1> HIDE DEF Right
<1>11. Reply(s, method', rep') = Outcome(m)
  <2>1. CASE Right
    <3>1. s = "AUTH_SUCCESSFUL"  BY <1>5, <1>9, <2>1
    <3>2. Reply(s, method', rep') = <<Version, 0>>  BY <3>1 DEF Reply
    <3> QED  BY <1>10, <2>1, <3>2
  <2>2. CASE ~Right
    <3>1. s = "AUTH_ERROR"  BY <1>5, <1>9, <2>2
    <3>2. Reply(s, method', rep') = <<Version, 255>>  BY <3>1 DEF Reply
    <3> QED  BY <1>10, <2>2, <3>2
  <2> QED  BY <2>1, <2>2
<1>12. server' = "none"  BY <1>1 DEF Answering, Reached, Reading
<1> QED  BY <1>4, <1>6, <1>7, <1>8, <1>11, <1>12, ShortTells

\* The code of a request that failed to connect, and of one that did not ask to.
LEMMA CodeOfErrno ==
  ASSUME NEW m, server' \in Errnos
  PROVE  Code(m, GeneralFailure)' = ReplyValue(server')
BY DEF Code, ReplyValue, Errnos, GeneralFailure

\* The parts of a request that were parsed in front of its address.
LEMMA HeadSeen ==
  ASSUME NEW v \in Byte, NEW c \in Byte, NEW t \in Byte, NEW args \in Seq(Seq(Byte)),
         NEW seen, seen = <<v, c, t>> \o args
  PROVE  seen[1] = v /\ seen[2] = c
<1> DEFINE S == Byte \cup Seq(Byte)
<1>1. v \in S /\ c \in S /\ t \in S /\ Seq(Byte) \subseteq S  OBVIOUS
<1>2. args \in Seq(S)
  <2>2. PICK B : B = Seq(Byte)  OBVIOUS
  <2>3. args \in Seq(B) /\ B \subseteq S  BY <2>2
  <2> HIDE DEF S
  <2> QED  BY <2>3, SeqMonotonic
<1> HIDE DEF S
<1>3. PICK h \in Seq(S) : h = <<v, c, t>> /\ Len(h) = 3 /\ h[1] = v /\ h[2] = c
  <2>1. <<v, c, t>> \in Seq(S)  BY <1>1
  <2> QED  BY <2>1
<1>4. PICK l \in Nat : l = Len(args)  BY LenProperties
<1>5. \A i \in 1 .. 3 + l : (h \o args)[i] = IF i <= 3 THEN h[i] ELSE args[i - 3]
  BY <1>2, <1>3, <1>4, ConcatProperties
<1>6. 1 \in 1 .. 3 + l /\ 2 \in 1 .. 3 + l /\ 1 <= 3 /\ 2 <= 3  BY <1>4
<1>7. (h \o args)[1] = h[1] /\ (h \o args)[2] = h[2]  BY <1>5, <1>6
<1> QED  BY <1>3, <1>7

\* A request that is refused where it is read is refused for what it says, or for
\* what became of its connection.
LEMMA RequestTells ==
  ASSUME Answering, Inv', Whole, UNCHANGED got, RequestRead(parser')
  PROVE  Told' /\ Reached'
<1> DEFINE p == parser'
<1>m. PICK m : m = script[Len(handled) + 1]  OBVIOUS
<1>1. state = "REQUEST"
  BY DEF RequestRead
<1>2. /\ p.state \in {"BAD_TYPE", "DONE"}
      /\ m.seen = IF p.state = "BAD_TYPE" THEN <<p.type>> ELSE <<p.version, p.cmd, p.type>> \o p.args
      /\ p.state = "DONE" => Len(m.seen) = 5
      /\ p.state = "BAD_TYPE" => Len(m.seen) = 1
  <2>1. m.kind = "request" /\ Understood(m, p)
    BY <1>1, <1>m, WholeMessage DEF Reads, Answering
  <2> QED  BY <2>1 DEF Understood
<1>3. handled' = Append(handled, m.seen)
  <2>1. handled' = Append(handled, IF p.state = "BAD_TYPE" THEN <<p.type>>
                                   ELSE <<p.version, p.cmd, p.type>> \o p.args)
    BY DEF RequestRead
  <2> HIDE DEF p
  <2> QED  BY <1>2, <2>1
<1>4. got' = Outcomes(script', Len(handled') - 1) /\ script'[Len(handled')] = m
  BY <1>3, <1>m, WholeCounts DEF Answering
<1>5. p \in Parser  BY DEF Whole
<1>6. p.state = "DONE" => m.seen[1] = p.version /\ m.seen[2] = p.cmd
  <2>1. SUFFICES ASSUME p.state = "DONE"  PROVE m.seen[1] = p.version /\ m.seen[2] = p.cmd
    OBVIOUS
  <2>2. m.seen = <<p.version, p.cmd, p.type>> \o p.args  BY <1>2, <2>1
  <2>3. p.version \in Byte /\ p.cmd \in Byte /\ p.type \in Byte /\ p.args \in Seq(Seq(Byte))
    BY <1>5 DEF Parser
  <2> HIDE DEF p
  <2> QED  BY <2>2, <2>3, HeadSeen
<1>7. server = "none"  BY <1>1 DEF Answering, Reached, Reading
<1> HIDE DEF p
<1>8. ASSUME state' = "REQUEST_ERROR", rep' = Code(m, GeneralFailure)', server' # "connecting"
      PROVE  Told' /\ Reached'
  <2>1. /\ "REQUEST_ERROR" \in Answers
        /\ "REQUEST_ERROR" \notin Reading \cup Shorts \cup Waiting
             \cup {"RESOLVING", "IP_CONNECT", "DNS_CONNECT", "REQUEST_SUCCESSFUL", "FORWARDING"}
    BY DEF Answers, Failures, Reading, Shorts, Waiting
  <2>2. Code(script[Len(handled)], GeneralFailure)' = Code(m, GeneralFailure)'  BY <1>4 DEF Code
  <2>3. Told'  BY <1>4, <1>8, <2>1, <2>2 DEF Told
  <2>4. Reached'  BY <1>8, <2>1 DEF Reached
  <2> QED  BY <2>3, <2>4
<1>9. ASSUME \/ state' = "RESOLVING" /\ server' = "none"
             \/ state' = "IP_CONNECT" /\ server' = "connecting"
      PROVE  Told' /\ Reached'
  <2>1. /\ state' \in Waiting
        /\ state' \notin Reading \cup Shorts \cup Answers
             \cup {"REQUEST_ERROR", "REQUEST_SUCCESSFUL", "FORWARDING"}
    BY <1>9 DEF Answers, Failures, Reading, Shorts, Waiting
  <2>2. Told'  BY <1>4, <2>1 DEF Told
  <2>3. Reached'  BY <1>9, <2>1 DEF Reached
  <2> QED  BY <2>2, <2>3
<1>10. ASSUME NEW r, Refuse(r)  PROVE state' = "REQUEST_ERROR" /\ rep' = r
  BY <1>10 DEF Refuse, Arrive
<1>11. \/ (p.state # "DONE" \/ p.version # Version) /\ Refuse(1) /\ UNCHANGED server
       \/ p.state = "DONE" /\ p.version = Version /\ p.cmd # Connect /\ Refuse(7) /\ UNCHANGED server
       \/ p.state = "DONE" /\ p.cmd = Connect /\ (DnsConnection \/ IpConnection)
  BY DEF RequestRead, p
<1>12. CASE (p.state # "DONE" \/ p.version # Version) /\ Refuse(1) /\ UNCHANGED server
  <2>1. ~ (Len(m.seen) > 1 /\ m.seen[1] = Version)  BY <1>2, <1>6, <1>12
  <2>2. server' = "none"  BY <1>7, <1>12
  <2>3. Code(m, GeneralFailure)' = 1  BY <2>1, <2>2 DEF Code, GeneralFailure
  <2> QED  BY <1>8, <1>10, <1>12, <2>2, <2>3
<1>13. CASE p.state = "DONE" /\ p.version = Version /\ p.cmd # Connect /\ Refuse(7) /\ UNCHANGED server
  <2>1. Len(m.seen) > 1 /\ m.seen[1] = Version /\ m.seen[2] # Connect  BY <1>2, <1>6, <1>13
  <2>2. server' = "none"  BY <1>7, <1>13
  <2>3. Code(m, GeneralFailure)' = 7  BY <2>1, <2>2 DEF Code, GeneralFailure
  <2> QED  BY <1>8, <1>10, <1>13, <2>2, <2>3
<1>14. CASE p.state = "DONE" /\ p.cmd = Connect /\ DnsConnection
  <2>1. server' = "none"  BY <1>7, <1>14 DEF DnsConnection
  <2>2. m.seen[2] = Connect  BY <1>6, <1>14
  <2>3. Code(m, GeneralFailure)' = 1  BY <2>1, <2>2 DEF Code, GeneralFailure
  <2>4. CASE Refuse(1)  BY <1>8, <1>10, <2>1, <2>3, <2>4
  <2>5. CASE state' = "RESOLVING"  BY <1>9, <2>1, <2>5
  <2> QED  BY <1>14, <2>4, <2>5 DEF DnsConnection
<1>15. CASE IpConnection
  <2>1. CASE Fails
    <3>1. PICK e \in Errnos : server' = e /\ Refuse(ReplyValue(e))  BY <2>1 DEF Fails
    <3>2. Code(m, GeneralFailure)' = ReplyValue(e) /\ server' # "connecting"  BY <3>1, CodeOfErrno DEF Errnos
    <3> QED  BY <1>8, <1>10, <3>1, <3>2
  <2>2. CASE Connecting("IP_CONNECT")  BY <1>9, <2>2 DEF Connecting
  <2> QED  BY <1>15, <2>1, <2>2 DEF IpConnection
<1> QED  BY <1>11, <1>12, <1>13, <1>14, <1>15

LEMMA ReadTells == ASSUME Answering, Inv', Read  PROVE Told' /\ Reached'
<1>1. /\ UNCHANGED <<script, got>>
      /\ \/ Close /\ UNCHANGED <<header, input, output, server, client, delivered, handled>>
         \/ Part
         \/ Whole /\ (HelloRead(parser') \/ AuthRead(parser') \/ RequestRead(parser'))
  BY ReadCases DEF Answering
<1>2. CASE Close  BY <1>2, ClosedTells DEF Close
<1>3. CASE Part  BY <1>1, <1>3, StillTells DEF Part, Answering
<1>4. CASE Whole /\ (HelloRead(parser') \/ AuthRead(parser') \/ RequestRead(parser'))
  BY <1>1, <1>4, HelloTells, LoginTells, RequestTells
<1> QED  BY <1>1, <1>2, <1>3, <1>4

\* What a write sends is the whole answer, and what follows it is told.
LEMMA WriteTells == ASSUME Answering, Inv', Write  PROVE Told' /\ Reached'
<1>1. state \in Answers /\ UNCHANGED <<method, rep, server, script, handled>>
  BY DEF Write, client
<1>2. CASE Close  BY <1>2, ClosedTells DEF Close
<1>3. CASE got' = got \o output.held /\ OnWrite(Advance(output, Len(output.held)))
  <2>1. Proceed  BY <1>1, <1>3, WriteDone DEF Answering
  <2>2. got = Outcomes(script, Len(handled) - 1)  BY <1>1 DEF Answering, Told
  <2>3. CASE state \in Failures
    <3>1. state' = "CLOSED"  BY <2>1, <2>3 DEF Proceed, Close, Failures
    <3> QED  BY <3>1, ClosedTells
  <2>4. CASE state = "REQUEST_SUCCESSFUL"
    <3>1. state' = "FORWARDING"  BY <2>1, <2>4 DEF Proceed, Failures
    <3>2. server = "up" /\ rep = Code(script[Len(handled)], GeneralFailure)  BY <2>4 DEF Answering, Told, Reached
    <3>3. rep = 0  BY <3>2 DEF Code
    <3>4. output.held = Reply("REQUEST_SUCCESSFUL", 0, 0)
      <4>1. output.held = Reply(state, method, rep)  BY <1>1, AnswerOut DEF Answering
      <4>2. Reply("REQUEST_SUCCESSFUL", method, 0) = Reply("REQUEST_SUCCESSFUL", 0, 0)  BY DEF Reply
      <4> QED  BY <2>4, <3>3, <4>1, <4>2
    <3>5. got' = Outcomes(script', Len(handled') - 1) \o Reply("REQUEST_SUCCESSFUL", 0, 0)
      BY <1>1, <1>3, <2>2, <3>4
    <3>6. "FORWARDING" \notin Reading \cup Answers \cup Waiting \cup Shorts
          \cup {"REQUEST_SUCCESSFUL", "REQUEST_ERROR", "RESOLVING", "IP_CONNECT", "DNS_CONNECT"}
      BY DEF Reading, Answers, Failures, Waiting, Shorts
    <3>7. Told'  BY <3>1, <3>5, <3>6 DEF Told
    <3>8. Reached'  BY <1>1, <3>1, <3>2, <3>6 DEF Reached
    <3> QED  BY <3>7, <3>8
  <2>5. CASE state \in {"AUTH_METHOD_ANNOUNCEMENT", "AUTH_SUCCESSFUL"}
    <3>1. state' \in {"AUTH_REQUEST", "REQUEST"}  BY <2>1, <2>5 DEF Proceed, Failures
    <3>2. state \in Shorts  BY <2>5 DEF Shorts
    <3>3. PICK k \in Nat : k = Len(handled) /\ k \in 1 .. Len(script)
      <4>1. Len(handled) \in Nat /\ Len(handled) <= sent /\ sent \in Nat /\ sent <= Len(script)
        BY AheadType DEF Answering, Inv
      <4>2. Len(script) \in Nat  BY Dialogue DEF Answering, Inv
      <4>3. Len(handled) = Place(state) /\ Place(state) \in {1, 2}
        BY <2>5 DEF Answering, Inv, Turn, Place
      <4> QED  BY <4>1, <4>2, <4>3
    <3>4. output.held = Outcome(script[k])  BY <3>2, <3>3 DEF Answering, Told
    <3>5. Outcomes(script, k) = Outcomes(script, k - 1) \o Outcome(script[k])
      BY <3>3, OutcomesLast, Dialogue DEF Answering, Inv
    <3>6. got' = Outcomes(script', Len(handled'))  BY <1>1, <1>3, <2>2, <3>3, <3>4, <3>5
    <3>7. /\ state' \in Reading
          /\ state' \notin Answers \cup Waiting \cup Shorts
               \cup {"REQUEST_SUCCESSFUL", "REQUEST_ERROR", "FORWARDING", "IP_CONNECT", "DNS_CONNECT"}
      BY <3>1 DEF Reading, Answers, Failures, Waiting, Shorts
    <3>8. server' = "none"  BY <1>1, <3>2 DEF Answering, Reached
    <3>9. Told'  BY <3>6, <3>7 DEF Told
    <3>10. Reached'  BY <3>7, <3>8 DEF Reached
    <3> QED  BY <3>9, <3>10
  <2> QED  BY <1>1, <2>3, <2>4, <2>5 DEF Answers
<1> QED  BY <1>2, <1>3 DEF Write

\* A step of the connection to the server, on the same messages.
LEMMA ConnectTells ==
  ASSUME Answering, state \in Waiting, UNCHANGED <<script, handled, got>>,
         \/ state' = "DNS_CONNECT" /\ server' = "connecting"
         \/ /\ state' \in {"REQUEST_SUCCESSFUL", "REQUEST_ERROR"} /\ rep' = Code(script[Len(handled)], GeneralFailure)'
            /\ IF state' = "REQUEST_SUCCESSFUL" THEN server' = "up" ELSE server' # "connecting"
  PROVE  Told' /\ Reached'
<1>1. got' = Outcomes(script', Len(handled') - 1)  BY DEF Answering, Told
<1>2. CASE state' = "DNS_CONNECT" /\ server' = "connecting"
  <2>1. /\ state' \in Waiting
        /\ state' \notin Reading \cup Shorts \cup Answers
             \cup {"REQUEST_ERROR", "REQUEST_SUCCESSFUL", "FORWARDING", "RESOLVING"}
    BY <1>2 DEF Answers, Failures, Reading, Shorts, Waiting
  <2>2. Told'  BY <1>1, <2>1 DEF Told
  <2>3. Reached'  BY <1>2, <2>1 DEF Reached
  <2> QED  BY <2>2, <2>3
<1>3. CASE /\ state' \in {"REQUEST_SUCCESSFUL", "REQUEST_ERROR"} /\ rep' = Code(script[Len(handled)], GeneralFailure)'
           /\ IF state' = "REQUEST_SUCCESSFUL" THEN server' = "up" ELSE server' # "connecting"
  <2>1. /\ state' \in Answers
        /\ state' \notin Reading \cup Shorts \cup Waiting
             \cup {"FORWARDING", "RESOLVING", "IP_CONNECT", "DNS_CONNECT"}
    BY <1>3 DEF Answers, Failures, Reading, Shorts, Waiting
  <2>2. Told'  BY <1>1, <1>3, <2>1 DEF Told
  <2>3. Reached'  BY <1>3, <2>1 DEF Reached
  <2> QED  BY <2>2, <2>3
<1> QED  BY <1>2, <1>3

LEMMA ResolveTells == ASSUME Answering, Inv', Resolve  PROVE Told' /\ Reached'
<1>1. state \in Waiting /\ UNCHANGED <<script, handled, got>>  BY DEF Resolve, Waiting, client
<1>2. CASE Fails
  <2>1. PICK e \in Errnos : server' = e /\ Refuse(ReplyValue(e))  BY <1>2 DEF Fails
  <2>2. state' = "REQUEST_ERROR" /\ rep' = ReplyValue(e)  BY <2>1 DEF Refuse, Arrive
  <2>3. Code(script[Len(handled)], GeneralFailure)' = ReplyValue(e) /\ server' # "connecting"
    BY <2>1, CodeOfErrno DEF Errnos
  <2> QED  BY <1>1, <2>2, <2>3, ConnectTells
<1>3. CASE Connecting("DNS_CONNECT")
  BY <1>1, <1>3, ConnectTells DEF Connecting
<1>4. CASE Close  BY <1>4, ClosedTells DEF Close
<1> QED  BY <1>2, <1>3, <1>4 DEF Resolve

LEMMA ServerWriteTells == ASSUME Answering, Inv', ServerWrite  PROVE Told' /\ Reached'
<1>1. /\ state \in Waiting /\ UNCHANGED <<script, handled, got, server>>
      /\ server # "connecting" /\ server # "none"
  BY DEF ServerWrite, Waiting, client, Answering, Reached
<1>2. server \in {"up"} \cup Errnos  BY <1>1 DEF Answering, Inv, Typed
<1>3. CASE ConnectOnWrite
  <2>1. CASE server = "up"
    <3>1. state' = "REQUEST_SUCCESSFUL" /\ rep' = 0  BY <1>3, <2>1 DEF ConnectOnWrite, Arrive
    <3>2. server' = "up"  BY <1>1, <2>1
    <3>3. Code(script[Len(handled)], GeneralFailure)' = 0  BY <3>2 DEF Code
    <3> QED  BY <1>1, <3>1, <3>2, <3>3, ConnectTells
  <2>2. CASE server \in Errnos
    <3>1. server # "up"  BY <2>2 DEF Errnos
    <3>2. state' = "REQUEST_ERROR" /\ rep' = ReplyValue(server)
      BY <1>3, <3>1 DEF ConnectOnWrite, Refuse, Arrive
    <3>3. server' = server /\ server' \in Errnos  BY <1>1, <2>2
    <3>4. Code(script[Len(handled)], GeneralFailure)' = ReplyValue(server)  BY <3>3, CodeOfErrno
    <3> QED  BY <1>1, <3>2, <3>3, <3>4, ConnectTells
  <2> QED  BY <1>2, <2>1, <2>2
<1>4. CASE Close  BY <1>4, ClosedTells DEF Close
<1> QED  BY <1>3, <1>4 DEF ServerWrite

LEMMA SettleTells == ASSUME Answering, Settle  PROVE Told' /\ Reached'
<1>1. UNCHANGED <<state, rep, output, script, handled, got>> /\ server = "connecting" /\ server' # "none"
  BY DEF Settle, header, client, Errnos
<1>2. state \in {"IP_CONNECT", "DNS_CONNECT", "CLOSED"}
  BY <1>1 DEF Answering, Reached, Inv, Typed, States, Answers, Failures, Reading, Shorts
<1>3. state \notin Reading \cup Shorts \cup {"RESOLVING", "REQUEST_SUCCESSFUL", "REQUEST_ERROR", "FORWARDING"}
  BY <1>2 DEF Reading, Shorts
<1>4. Told'  BY <1>1, <1>3 DEF Answering, Told
<1>5. Reached'  BY <1>1, <1>3 DEF Reached
<1> QED  BY <1>4, <1>5

LEMMA AnsweringInit == Init => Answering
<1> SUFFICES ASSUME Init  PROVE Answering
  OBVIOUS
<1>1. state = "HELLO" /\ got = <<>> /\ handled = <<>> /\ server = "none"  BY DEF Init
<1>2. /\ state \notin Answers \cup Waiting \cup Shorts
           \cup {"REQUEST_SUCCESSFUL", "REQUEST_ERROR", "FORWARDING", "IP_CONNECT", "DNS_CONNECT"}
  BY <1>1 DEF Answers, Failures, Waiting, Shorts
<1>3. got = Outcomes(script, Len(handled))
  <2>1. Len(handled) = 0  BY <1>1
  <2> QED  BY <1>1, <2>1, OutcomesNone
<1>4. Told  BY <1>2, <1>3 DEF Told
<1>5. Reached  BY <1>1, <1>2 DEF Reached
<1> QED  BY <1>4, <1>5, InvInit DEF Answering

LEMMA AnsweringNext == Answering /\ [Next]_vars => Answering'
<1> SUFFICES ASSUME Answering, [Next]_vars  PROVE Answering'
  OBVIOUS
<1>1. Inv'  BY InvNext DEF Answering
<1>2. CASE Read  BY <1>1, <1>2, ReadTells DEF Answering
<1>3. CASE Write  BY <1>1, <1>3, WriteTells DEF Answering
<1>4. CASE ServerWrite  BY <1>1, <1>4, ServerWriteTells DEF Answering
<1>5. CASE Resolve  BY <1>1, <1>5, ResolveTells DEF Answering
<1>6. CASE Settle  BY <1>1, <1>6, SettleTells DEF Answering
<1>7. CASE ClientSend \/ ClientGone \/ UNCHANGED vars
  <2>1. UNCHANGED <<state, rep, output, server, handled, script, got>>
    BY <1>7 DEF ClientSend, ClientGone, vars, header, client
  <2> QED  BY <1>1, <2>1, StillTells DEF Answering
<1> QED  BY <1>2, <1>3, <1>4, <1>5, <1>6, <1>7 DEF Next, Daemon, Over

LEMMA PrefixSame == ASSUME NEW s, Len(s) \in Int  PROVE IsPrefix(s, s)
BY DEF IsPrefix

LEMMA AnsweringReplies == Answering => RepliesExact
<1> SUFFICES ASSUME Answering, state # "CLOSED"  PROVE RepliesAre(Version, GeneralFailure)
  <2> Version \in {AuthVersion, Version} /\ GeneralFailure \in {AddressTypeNotSupported, GeneralFailure}
    OBVIOUS
  <2> QED  BY SMTT(30) DEF RepliesExact
<1> DEFINE wanted == FlattenSeq([i \in DOMAIN handled |-> Wanted(script[i], Version, GeneralFailure)])
<1> SUFFICES IsPrefix(got \o output.held, wanted) /\ (state \notin Answers => got = wanted)
  BY DEF RepliesAre
<1>0. PICK k \in Nat : k = Len(handled) /\ k <= Len(script) /\ DOMAIN handled = 1 .. k /\ Len(script) \in Nat
  <2>1. Len(handled) \in Nat /\ Len(handled) <= sent /\ sent \in Nat /\ sent <= Len(script)
    BY AheadType DEF Answering, Inv
  <2>2. Len(script) \in Nat  BY Dialogue DEF Answering, Inv
  <2>3. DOMAIN handled = 1 .. Len(handled)  BY LenProperties DEF Answering, Inv, Handled
  <2>4. Len(handled) <= Len(script)  BY <2>1, <2>2
  <2> QED  BY ZenonT(40), <2>1, <2>2, <2>3, <2>4
<1>1. IsScript(script)  BY Dialogue DEF Answering, Inv
<1>2. wanted = FlattenSeq([i \in 1 .. k |-> Wanted(script[i], Version, GeneralFailure)])  BY <1>0
<1>3. ASSUME NEW i \in 1 .. k, i # k \/ state \in Reading \cup Shorts
      PROVE  Wanted(script[i], Version, GeneralFailure) = Outcome(script[i])
  <2>1. script[i].kind \in {"hello", "login"}
    <3>1. i \in 1 .. Len(handled) /\ (i # Len(handled) \/ state \in Reading \cup Shorts)  BY <1>0, <1>3
    <3> QED  BY <3>1, KindsBefore DEF Answering
  <2> QED  BY SMTT(40), <2>1 DEF Wanted, Outcome
<1>c. ASSUME NEW all \in Seq(Byte), got \o output.held = all, wanted = all,
             state \notin Answers => got = all
      PROVE  /\ IsPrefix(got \o output.held, wanted)
             /\ state \notin Answers => got = wanted
  <2>1. Len(all) \in Int  BY LenProperties
  <2>2. IsPrefix(all, all)  BY <2>1, PrefixSame
  <2> HIDE DEF wanted
  <2> QED  BY <1>c, <2>2
<1> HIDE DEF wanted
<1>4. CASE state \in Reading \cup Shorts
  <2>1. [i \in 1 .. k |-> Wanted(script[i], Version, GeneralFailure)] = [i \in 1 .. k |-> Outcome(script[i])]
    BY <1>3, <1>4
  <2>2. wanted = Outcomes(script, k)  BY <1>2, <2>1 DEF Outcomes
  <2>3. k \in 0 .. Len(script)  BY <1>0
  <2>4. PICK all \in Seq(Byte) : all = Outcomes(script, k)  BY <1>1, <2>3, OutcomesType
  <2>5. CASE state \in Reading
    <3>1. got = all  BY <1>0, <2>4, <2>5 DEF Answering, Told
    <3>2. output.held = <<>>
      <4>1. state \notin Answers \cup {"CLOSED"}  BY <2>5, KindsApart
      <4> QED  BY <4>1 DEF Answering, Inv, Out
    <3>3. got \o output.held = all  BY <3>1, <3>2, ConcatEmptySeq
    <3> QED  BY <1>c, <2>2, <2>4, <3>1, <3>3
  <2>6. CASE state \in Shorts
    <3>1. k \in 1 .. Len(script)
      <4>1. Place(state) \in {1, 2}  BY <2>6 DEF Place, Shorts
      <4>2. k = Place(state)  BY <1>0 DEF Answering, Inv, Turn
      <4> QED  BY <1>0, <4>1, <4>2
    <3>2. got = Outcomes(script, k - 1) /\ output.held = Outcome(script[k])
      BY <1>0, <2>6, KindsApart DEF Answering, Told
    <3>3. Outcomes(script, k) = Outcomes(script, k - 1) \o Outcome(script[k])  BY <1>1, <3>1, OutcomesLast
    <3>4. got \o output.held = all  BY <2>4, <3>2, <3>3
    <3>5. state \in Answers  BY <2>6, KindsApart
    <3> QED  BY <1>c, <2>2, <2>4, <3>4, <3>5
  <2> QED  BY <1>4, <2>5, <2>6
<1>5. CASE state \in Waiting \cup {"REQUEST_SUCCESSFUL", "REQUEST_ERROR", "FORWARDING"}
  <2>0. k \in 1 .. Len(script) /\ script[k].kind = "request"  BY <1>0, <1>5, KindNow DEF Answering
  <2>1. PICK x \in Seq(Byte) : /\ x = Wanted(script[k], Version, GeneralFailure)
                               /\ state \in Waiting => x = <<>>
                               /\ state \notin Waiting =>
                                    x = <<Version, Code(script[k], GeneralFailure), 0, Ip4, 0, 0, 0, 0, 0, 0>>
    <3>1. CASE state \in Waiting
      <4>1. Wanted(script[k], Version, GeneralFailure) = <<>>  BY <2>0, <3>1 DEF Wanted, Waiting
      <4> QED  BY <3>1, <4>1, EmptySeq
    <3>2. CASE state \notin Waiting
      <4>1. PICK c \in Byte : c = Code(script[k], GeneralFailure)
        <5>1. Code(script[k], GeneralFailure) \in Byte  BY DEF Code, GeneralFailure, Byte
        <5> QED  BY <5>1
      <4>2. Wanted(script[k], Version, GeneralFailure) = <<Version, c, 0, Ip4, 0, 0, 0, 0, 0, 0>>
        BY <2>0, <3>2, <4>1 DEF Wanted, Waiting
      <4>3. Version \in Byte /\ 0 \in Byte /\ Ip4 \in Byte  BY DEF Version, Ip4, Byte
      <4>4. <<Version, c, 0, Ip4, 0, 0, 0, 0, 0, 0>> \in Seq(Byte)  BY <4>3
      <4> QED  BY <3>2, <4>1, <4>2, <4>4
    <3> QED  BY <3>1, <3>2
  <2>2. PICK g \in Seq(Byte) : g = Outcomes(script, k - 1)
    <3>1. k - 1 \in 0 .. Len(script)  BY <1>0, <2>0
    <3> QED  BY <1>1, <3>1, OutcomesType
  <2>3. wanted = g \o x
    <3> DEFINE f == [i \in 1 .. k |-> Wanted(script[i], Version, GeneralFailure)]
               first == [i \in 1 .. k - 1 |-> Outcome(script[i])]
    <3>1. k \in Nat \ {0} /\ k \in 1 .. k /\ \A i \in 1 .. k - 1 : i \in 1 .. k /\ i # k  BY <2>0
    <3>2. \A i \in 1 .. k - 1 : f[i] = Outcome(script[i])  BY <1>3, <3>1
    <3>3. \A i \in 1 .. k - 1 : Outcome(script[i]) \in Seq(Byte)
      <4>1. k - 1 \in 0 .. Len(script)  BY <1>0, <2>0
      <4>2. first \in [1 .. k - 1 -> Seq(Byte)]  BY <1>1, <4>1, OutcomesType
      <4> QED  BY <4>2
    <3>4. f[k] = x  BY <2>1, <3>1
    <3>5. f \in [1 .. k -> Seq(Byte)]
      <4>1. \A i \in 1 .. k : i \in 1 .. k - 1 \/ i = k  BY <1>0
      <4>2. \A i \in 1 .. k : Wanted(script[i], Version, GeneralFailure) \in Seq(Byte)  BY <2>1, <3>2, <3>3, <4>1
      <4> QED  BY <4>2
    <3>6. first = [i \in 1 .. k - 1 |-> f[i]]  BY <3>2
    <3>7. wanted = FlattenSeq(f) /\ g = FlattenSeq(first)  BY <1>2, <2>2 DEF Outcomes
    <3> HIDE DEF f, first
    <3>8. FlattenSeq(f) = FlattenSeq(first) \o f[k]  BY <3>1, <3>5, <3>6, FlattenLast
    <3> QED  BY <3>4, <3>7, <3>8
  <2>4. PICK all \in Seq(Byte) : all = g \o x
    <3>1. g \o x \in Seq(Byte)  BY ConcatProperties
    <3> QED  BY <3>1
  <2>5. CASE state \in Waiting
    <3>1. output.held = <<>> /\ x = <<>>
      <4>1. state \notin Answers \cup {"CLOSED"}  BY <2>5, KindsApart
      <4> QED  BY <2>1, <2>5, <4>1 DEF Answering, Inv, Out
    <3>2. got = g  BY <1>0, <2>2, <2>5 DEF Answering, Told
    <3>3. g \o <<>> = g  BY ConcatEmptySeq
    <3>4. all = g /\ got \o output.held = all  BY <2>4, <3>1, <3>2, <3>3
    <3> QED  BY <1>c, <2>3, <2>4, <3>2, <3>4
  <2>6. CASE state \in {"REQUEST_SUCCESSFUL", "REQUEST_ERROR"}
    <3>1. state \in Answers /\ state \notin Waiting  BY <2>6, KindsApart
    <3>2. got = g /\ rep = Code(script[k], GeneralFailure)  BY <1>0, <2>2, <2>6, <3>1 DEF Answering, Told
    <3>3. output.held = Reply(state, method, rep)  BY <3>1 DEF Answering, Inv, Out
    <3>4. Reply(state, method, rep) = <<Version, rep, 0, Ip4, 0, 0, 0, 0, 0, 0>>  BY <2>6 DEF Reply
    <3>5. output.held = x  BY <2>1, <3>1, <3>2, <3>3, <3>4
    <3>6. got \o output.held = all  BY <2>4, <3>2, <3>5
    <3> QED  BY <1>c, <2>3, <2>4, <3>1, <3>6
  <2>7. CASE state = "FORWARDING"
    <3>1. state \notin Answers \cup {"CLOSED"} \cup Waiting  BY <2>7, KindsApart
    <3>2. output.held = <<>>  BY <3>1 DEF Answering, Inv, Out
    <3>3. server = "up"  BY <2>7 DEF Answering, Reached
    <3>4. Code(script[k], GeneralFailure) = 0  BY <3>3 DEF Code
    <3>5. Reply("REQUEST_SUCCESSFUL", 0, 0) = <<Version, 0, 0, Ip4, 0, 0, 0, 0, 0, 0>>  BY DEF Reply
    <3>6. got = g \o Reply("REQUEST_SUCCESSFUL", 0, 0)  BY <1>0, <2>2, <2>7 DEF Answering, Told
    <3>7. got = all  BY <2>1, <2>4, <3>1, <3>4, <3>5, <3>6
    <3>8. got \o output.held = all  BY <3>2, <3>7, ConcatEmptySeq
    <3> QED  BY <1>c, <2>3, <2>4, <3>7, <3>8
  <2> QED  BY <1>5, <2>5, <2>6, <2>7
<1>6. state \in Reading \cup Shorts \cup Waiting \cup {"REQUEST_SUCCESSFUL", "REQUEST_ERROR", "FORWARDING"}
  BY DEF Answering, Inv, Typed, States, Reading, Shorts, Waiting, Answers, Failures
<1>7. /\ IsPrefix(got \o output.held, wanted)
      /\ state \notin Answers => got = wanted
  BY <1>4, <1>5, <1>6
<1> QED  BY SMTT(40), <1>7 DEF wanted

\* What the client receives is, whole and in order, the answer that RFC 1928 and
\* 1929 have for each of its messages, and nothing is read and nothing relayed
\* before it is out: for every script, every cut of it, every size of the buffers
\* and every set of users.  Of two bytes it says only that they are the documents'
\* or the code's, always the same: the version of the answer to a login, and the
\* reason for an address of no known type.
THEOREM RepliesStayExact == Spec => []RepliesExact
<1>1. Init => Answering  BY AnsweringInit
<1>2. Answering /\ [Next]_vars => Answering'  BY AnsweringNext
<1>3. Answering => RepliesExact  BY AnsweringReplies
<1> QED  BY <1>1, <1>2, <1>3, PTL DEF Spec

=============================================================================
