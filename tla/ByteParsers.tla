---------------------------- MODULE ByteParsers ----------------------------
(* What the byte machines of the proxy and of the administration share:     *)
(* the buffer that they consume, and the username/password message          *)
(* (parsers/authRequest), which both use.                                   *)
EXTENDS Integers, Sequences

Byte == 0 .. 255

(* A buffer: off is the read offset, held the bytes after it.  buffer_read   *)
(* and buffer_read_adv rewind one that is drained.                          *)
Full(b, size) == b.off + Len(b.held) = size
Room(b, size) == size - b.off - Len(b.held)
Advance(b, n) == [off |-> IF n = Len(b.held) THEN 0 ELSE b.off + n,
                  held |-> SubSeq(b.held, n + 1, Len(b.held))]

Str(s) == <<Len(s)>> \o s

AuthVersion == 1
Login(v, name, pass) == [kind |-> "login", bytes |-> <<v>> \o Str(name) \o Str(pass),
                         seen |-> <<name, pass>>]

\* What is a string, with its length in a byte (one with a NUL inside is not
\* modelled: the code compares and copies up to it), and what is a login: it may
\* stop at what is wrong with it.
IsString(s) == s \in Seq(Byte \ {0}) /\ Len(s) \in Byte
IsField(s) == IsString(s) /\ s # <<>>
IsLogin(m) ==
  CASE Len(m.seen) = 2 -> /\ \A i \in 1 .. 2 : IsField(m.seen[i])
                          /\ m = Login(AuthVersion, m.seen[1], m.seen[2])
    [] Len(m.seen) = 1 -> IsField(m.seen[1]) /\ m.seen = <<m.seen[1]>>
                          /\ m.bytes = <<AuthVersion>> \o Str(m.seen[1]) \o <<0>>
    [] Len(m.seen) = 0 -> m.seen = <<>> /\ (m.bytes = <<AuthVersion, 0>>
                                            \/ \E b \in Byte \ {AuthVersion} : m.bytes = <<b>>)
    [] OTHER -> FALSE

(* auth_request_parser_feed.  A length begins a field, its characters end it. *)
Length(p, b, next, otherwise) ==
  IF b < 1 THEN [p EXCEPT !.state = otherwise] ELSE [p EXCEPT !.state = next, !.len = b, !.str = <<>>]

Char(p, b, next) ==
  LET s == Append(p.str, b)
  IN  IF Len(s) = p.len THEN [p EXCEPT !.state = next, !.args = Append(@, s)]
                        ELSE [p EXCEPT !.str = s]

AuthFeed(p, b) ==
  CASE p.state = "VERSION" -> [p EXCEPT !.state = IF b = AuthVersion THEN "ULEN" ELSE "BAD_VERSION"]
    [] p.state = "ULEN" -> Length(p, b, "UNAME", "BAD_LENGTH")
    [] p.state = "UNAME" -> Char(p, b, "PLEN")
    [] p.state = "PLEN" -> Length(p, b, "PASSWORD", "BAD_LENGTH")
    [] p.state = "PASSWORD" -> Char(p, b, "DONE")
=============================================================================
