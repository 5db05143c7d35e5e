--------------------------- MODULE ActionRegister ---------------------------
(***************************************************************************)
(* What the server promises a terminal about its actions: the outcome of   *)
(* each is decided at most once, as an event of the ledger or as an        *)
(* incident for review, and stays as decided.                              *)
(***************************************************************************)
CONSTANT Key            \* the actions, by terminal and clientRequestId

VARIABLE outcome        \* outcome[k] is "none", "event" or "incident"

Init == outcome = [k \in Key |-> "none"]

Decide(k) == /\ outcome[k] = "none"
             /\ \E o \in {"event", "incident"} : outcome' = [outcome EXCEPT ![k] = o]

Next == \E k \in Key : Decide(k)

Spec == Init /\ [][Next]_outcome
=============================================================================
