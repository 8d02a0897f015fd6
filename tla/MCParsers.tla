----------------------------- MODULE MCParsers -----------------------------
(* What the two readers of peers' bytes are given to read on small instances. *)
EXTENDS DohAnswer, Spoofing

(* Answers: every short list of records, with every count up to its length,  *)
(* a few past what a count can hold, behind one head; and every head, before *)
(* one message.                                                              *)
space == 32
digits == <<48>>
line == <<120>>
lengthLine == ContentLength \o digits
found == <<72, space>> \o Status200
heads == {<<s>> \o before \o after :
           s \in {found, <<50, space>> \o Status200, <<72, space, 52, 52>>, <<72, space, 50>>},
           before \in {<<>>, <<line>>, <<<<C, 120>>>>, <<<<120, C>>>>},
           after \in {<<>>, <<lengthLine>>, <<lengthLine, line>>, <<lengthLine, line, line>>}}

Record(type, size, owner) == [type |-> type, data |-> [i \in 1 .. size |-> i], owner |-> owner]
kinds == {Record(A, 4, "pointer"), Record(A, 4, "labels"), Record(A, 4, "root"),
          Record(AAAA, 16, "pointer"), Record(CNAME, 2, "pointer"),
          Record(CNAME, 0, "pointer"), Record(A, 1, "pointer")}
few == {Record(A, 4, "pointer"), Record(AAAA, 16, "labels"), Record(CNAME, 4, "pointer")}
lists == {<<>>} \cup {<<r>> : r \in kinds} \cup {<<r, s>> : r, s \in kinds}
         \cup {<<r, s, t>> : r, s, t \in few} \cup {<<r, r, s, s>> : r \in few \ kinds, s \in few}

\* a record's position is told by its first byte
Numbered(list) == [i \in DOMAIN list |->
  IF list[i].data = <<>> THEN list[i] ELSE [list[i] EXCEPT !.data[1] = 200 + i]]
Answer(head, questions, count, list) ==
  [head |-> head, questions |-> questions, count |-> count, records |-> Numbered(list)]
MCAnswers ==
  {Answer(h, 1, 2, <<Record(CNAME, 2, "pointer"), Record(A, 4, "pointer")>>) : h \in heads}
  \cup UNION {{Answer(<<found, lengthLine>>, 1, n, l) : n \in {Len(l)} \cup (1 .. Len(l))} : l \in lists}
  \cup {Answer(<<found, lengthLine>>, 0, 1, <<Record(A, 4, "pointer")>>)}

(* Talks.                                                                    *)
alice == <<1, 2>>
bob == <<3>>
Exchange(string, arg, reply) == [string |-> string, arg |-> arg, reply |-> reply, ahead |-> <<>>]
commands == {Exchange(User, alice, Plus), Exchange(User, bob, Plus), Exchange(User, bob, Minus),
             Exchange(Pass, bob, Plus), Exchange(Pass, alice, Minus),
             Exchange(<<85, 1>>, <<>>, Minus), Exchange(<<80, 1>>, alice, Plus)}
ahead(c) == [c EXCEPT !.ahead = Pass \o bob \o <<LF>>]
dialogues == UNION {[1 .. n -> commands] : n \in 0 .. 3}
             \cup {<<Exchange(User, alice, Plus), c, d, Exchange(Pass, bob, Plus)>> : c, d \in commands}
             \cup {<<c, ahead(d)>> : c \in commands, d \in {e \in commands : e.string \in {User, Pass}}}
pop == {[kind |-> "pop", commands |-> d] : d \in dialogues}

mail == <<Says(SERVER, <<50, 50>>), Says(CLIENT, User \o alice \o <<LF>>)>>
binary == <<Says(CLIENT, <<22, 200, 72>>), Says(SERVER, Ok)>>
other == {[kind |-> "other", pieces |-> p] : p \in {mail, binary}}

\* HTTP, with the credentials' line last, followed by a blank, or absent, and
\* with another scheme
Lines(lines) == FlattenSeq([i \in DOMAIN lines |-> lines[i] \o <<CR, LF>>])
requestHeads == {<<49, CR, LF>> \o Lines(l) : l \in {<<>>, <<<<1>>>>, <<<<65, 1>>, <<1, 65>>>>}}
Credential(lead, scheme, gap) ==
  [lead |-> lead, scheme |-> scheme, gap |-> gap, user |-> alice, pass |-> bob]
blanks == {<<>>, <<Blank>>}
basics == {Credential(a, Basic, b) : a, b \in blanks}
bearer == Credential(<<>>, <<98, 101>>, <<Blank>>)
rests == {c \o <<CR, LF>> \o Lines(l) \o <<CR, LF, 7>> : c \in blanks, l \in {<<>>, <<<<1>>>>, <<<<65, 1>>, <<1, 65>>>>}}
statuses == {s \o <<48, CR, LF, 1>> : s \in {Status10, Status11, <<72, 49, 52>>, <<72, 50>>}}
Web(head, auth, after, status) ==
  [kind |-> "http", head |-> head, auth |-> auth, rest |-> after, status |-> status]
web == {Web(h, <<l>>, r, s) : h \in requestHeads, l \in basics, r \in rests, s \in statuses}
       \cup {Web(h, <<bearer>>, <<CR, LF>>, Status11) : h \in requestHeads}
       \cup {Web(h, <<>>, r, Status11) : h \in requestHeads, r \in {<<>>, <<7>>} \cup {Header(l) \o <<CR, LF>> : l \in basics}}

MCTalks == pop \cup web \cup other
=============================================================================
