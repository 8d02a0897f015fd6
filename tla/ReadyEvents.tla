---------------------------- MODULE ReadyEvents -----------------------------
(***************************************************************************)
(* What the handlers of the daemon rely on when the selector calls them    *)
(* (selector.h): an event concerns a registered descriptor and something   *)
(* it is watched for, and it was seen ready while the socket that has the  *)
(* number now was the one that had it.                                     *)
(*                                                                         *)
(* One exception is part of the promise, because the selector cannot do    *)
(* better with the numbers of descriptors alone: a connection that was     *)
(* begun by a handler may be called for writing once before its time.      *)
(* A read, and a socket that was accepted (these are blocking: to read one *)
(* that is not ready would stop the daemon), are never called so.          *)
(***************************************************************************)
EXTENDS Integers

CONSTANTS
  Fd,     \* descriptor numbers
  Kinds   \* what a registered socket is; "connecting" and "connected" are two

VARIABLES
  who,    \* who[fd]: the kind of the socket registered, or "free"
  wants,  \* wants[fd]: what it is watched for
  due,    \* due[fd]: what it was seen ready for, and not called for yet
  event   \* the descriptor whose event is being handled, or -1

vars == <<who, wants, due, event>>

Ops == {"READ", "WRITE"}

\* The daemon starts with sockets of one kind, watched for reading.
Init ==
  /\ \E kind \in Kinds : who \in [Fd -> {"free", kind}]
  /\ wants = [fd \in Fd |-> IF who[fd] = "free" THEN {} ELSE {"READ"}]
  /\ due = [fd \in Fd |-> {}]
  /\ event = -1

\* Between two events the sockets are looked at.
Observe ==
  /\ event = -1
  /\ due' \in [Fd -> SUBSET Ops] /\ \A fd \in Fd : due'[fd] \subseteq wants[fd]
  /\ UNCHANGED <<who, wants, event>>

Dispatch(fd, op) ==
  /\ event = -1 /\ event' = fd
  /\ who[fd] # "free" /\ op \in wants[fd]
  /\ op \in due[fd] \/ (who[fd] = "connecting" /\ op = "WRITE")
  /\ who' = [who EXCEPT ![fd] =
               IF @ = "connecting" /\ op = "WRITE" THEN "connected" ELSE @]
  /\ due' \in [Fd -> SUBSET Ops] /\ op \notin due'[fd]
  /\ \A g \in Fd : due'[g] \subseteq due[g]
  /\ UNCHANGED wants

Return == event # -1 /\ event' = -1 /\ UNCHANGED <<who, wants, due>>

\* A handler registers a socket: nothing was seen of it yet.
Register(fd, kind, ops) ==
  /\ event # -1 /\ event' \in {event, -1}
  /\ who[fd] = "free" /\ who' = [who EXCEPT ![fd] = kind]
  /\ kind = "connecting" => ops = {"WRITE"}
  /\ wants' = [wants EXCEPT ![fd] = ops]
  /\ due[fd] = {} /\ UNCHANGED due

\* Sockets are closed by a handler or by the clean-up between two iterations.
Unregister ==
  LET gone == {fd \in Fd : who'[fd] = "free"}
  IN  /\ event' \in {event, -1}
      /\ who'   = [fd \in Fd |-> IF fd \in gone THEN "free" ELSE who[fd]]
      /\ wants' = [fd \in Fd |-> IF fd \in gone THEN {} ELSE wants[fd]]
      /\ due'   = [fd \in Fd |-> IF fd \in gone THEN {} ELSE due[fd]]

SetInterest(fd, ops) ==
  /\ event # -1 /\ who[fd] # "free"
  /\ who[fd] = "connecting" => "READ" \notin ops
  /\ wants' = [wants EXCEPT ![fd] = ops]
  /\ UNCHANGED <<who, due, event>>

Next ==
  \/ Observe \/ Return \/ Unregister
  \/ \E fd \in Fd, op \in Ops : Dispatch(fd, op)
  \/ \E fd \in Fd, ops \in SUBSET Ops :
       \/ \E kind \in Kinds : Register(fd, kind, ops)
       \/ SetInterest(fd, ops)

Spec == Init /\ [][Next]_vars
=============================================================================
