---------------------------- MODULE MCAccounts ----------------------------
(* Accounts on a small instance: sessions are interchangeable, and so are  *)
(* the users other than the anonymous one.                                 *)
EXTENDS Accounts, TLC

CONSTANT MaxEarly

\* Bound: sessions of a user that ended before they were counted.
FewEarly == \A u \in User : early[u] <= MaxEarly

Interchangeable ==
  Permutations(Session) \cup Permutations(Admin) \cup Permutations(User \ {Anonymous})

\* authMethod is read for the last time when the method is announced.
LiveSession(x) ==
  IF x.state = "AUTH_METHOD_ANNOUNCEMENT" THEN x ELSE [x EXCEPT !.method = "dead"]

Live == <<[s \in Session |-> LiveSession(sess[s])], adm, users, admins, count,
          userCount, connections, early, drifted>>
=============================================================================
