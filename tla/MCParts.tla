------------------------------ MODULE MCParts ------------------------------
(* The parts that keep a state of their own and know nothing of each other,  *)
(* on small instances: the buffer, the selector, and the two readers of      *)
(* peers' bytes.  A behaviour is one of any of them, while the others keep    *)
(* their first state.                                                        *)
EXTENDS Buffer, Selector, MCParsers, TLC

VARIABLE part   \* the one that runs

\* sessions of one kind are interchangeable, and no liveness is checked
Interchangeable == Permutations(Proxies) \cup Permutations(Admins)

PartsInit ==
  /\ part \in {"buffer", "selector", "doh", "spoofing"}
  /\ BufInit /\ (part # "buffer" => b.data = [i \in Index |-> Zero])
  /\ SelInit
  /\ answer \in IF part = "doh" THEN Answers ELSE {CHOOSE a \in Answers : TRUE}
  /\ DohInit
  /\ talk \in IF part = "spoofing" THEN Talks ELSE {CHOOSE t \in Talks : TRUE}
  /\ SpoofInit

PartsNext ==
  /\ UNCHANGED part
  /\ \/ part = "buffer" /\ BufNext /\ UNCHANGED <<selVars, dohVars, spoofVars>>
     \/ part = "selector" /\ SelNext /\ UNCHANGED <<bufVars, dohVars, spoofVars>>
     \/ part = "doh" /\ DohNext /\ UNCHANGED <<bufVars, selVars, spoofVars>>
     \/ part = "spoofing" /\ SpoofNext /\ UNCHANGED <<bufVars, selVars, dohVars>>

PartsSpec == PartsInit /\ [][PartsNext]_<<part, bufVars, selVars, dohVars, spoofVars>>
=============================================================================
