---------------------------- MODULE MCHandshake ----------------------------
(* Handshake on a small instance: every way each message may be accepted or  *)
(* refused, at the end of a dialogue that reaches it.                       *)
EXTENDS Handshake, TLC

anonymous == <<7>>
alice == <<8, 9>>
MCUsers == (anonymous :> anonymous) @@ (alice :> <<6>>)

port == <<1, 80>>
data == Data(<<3, 4>>)
open == Hello(Version, <<NoAuthentication>>)
protected == Hello(Version, <<UserPassword, 9, NoAuthentication>>)
right == Login(AuthVersion, alice, <<6>>)
plain == Request(Version, Connect, Ip4, <<10, 0, 0, 1>>, port)

Refused == {Hello(Version, <<>>), Hello(Version, <<9>>), Hello(4, <<NoAuthentication>>)}
Logins == {right, Login(AuthVersion, alice, <<5>>), Login(AuthVersion, <<6>>, <<6>>),
           [kind |-> "login", bytes |-> <<5>>, seen |-> <<>>],
           [kind |-> "login", bytes |-> <<AuthVersion, 1, 8, 0>>, seen |-> <<<<8>>>>]}
Asked == {plain, Request(Version, Connect, Ip6, [i \in 1 .. 16 |-> i], port),
          Request(Version, Connect, DomainName, <<97, 98>>, port),
          Request(Version, Connect, DomainName, <<>>, port), Request(Version, 2, Ip4, <<1, 2, 3, 4>>, port),
          Request(4, Connect, Ip4, <<1, 2, 3, 4>>, port), Request(Version, Connect, 9, <<>>, <<>>)}

MCScripts == {<<h>> : h \in Refused} \cup {<<protected, l, plain, data>> : l \in Logins}
             \cup {<<protected, right, r, data>> : r \in Asked} \cup {<<open, r, data>> : r \in Asked}
=============================================================================
