------------------------- MODULE MCAdministration -------------------------
(* Administration on a small instance: names of one and two characters, the *)
(* commands of each shape of argument and of answer, and the wrong ones.   *)
EXTENDS Administration, TLC

anonymous == <<7>>
root == <<8>>
guest == <<5, 6>>

MCUsers == (anonymous :> [pass |-> anonymous, admin |-> 0]) @@
           (root :> [pass |-> root, admin |-> 1])

MCLogins == {Login(AuthVersion, root, root), Login(AuthVersion, guest, guest),
             Login(AuthVersion, anonymous, anonymous),
             [kind |-> "login", bytes |-> <<5>>, seen |-> <<>>],
             [kind |-> "login", bytes |-> <<AuthVersion, 0>>, seen |-> <<>>]}

ListOfUsers == Request(Query, 0, <<>>, <<>>)
Inactivity(b) == Request(Modification, 6, <<b>>, <<b>>)

MCRequests ==
  {ListOfUsers, Request(Query, 1, <<>>, <<>>), Request(Query, 11, Str(guest), <<guest>>),
   Request(Query, 11, Str(<<>>), <<<<>>>>), Request(Query, 7, <<>>, <<>>),
   Request(Modification, 0, Str(guest) \o Str(root) \o <<1>>, <<guest, root, 1>>),
   Request(Modification, 0, Str(root) \o Str(root) \o <<2>>, <<root, root, 2>>),
   Request(Modification, 1, Str(root), <<root>>), Request(Modification, 1, Str(guest), <<guest>>),
   Request(Modification, 4, <<0, 0, 1, 2>>, <<258>>), Request(Modification, 3, <<0>>, <<0>>), Inactivity(0),
   [kind |-> "request", bytes |-> <<9>>, seen |-> <<Invalid, Invalid, <<>>>>],
   Request(Query, 12, <<>>, <<>>)}
\* those that the code answers otherwise than the protocol
Disputes == {ListOfUsers, Request(Query, 11, Str(guest), <<guest>>)}
FewRequests == {ListOfUsers, Inactivity(3)}
=============================================================================
