---------------------------- MODULE DurableQueue ----------------------------
(***************************************************************************)
(* What the terminal's outbox promises its caller, with no file in sight:  *)
(* a queue of the actions it has confirmed.  The outcome of its actions    *)
(* becomes known in the order they entered.  Only actions of known outcome *)
(* may be missing from what the queue offers; compaction and power loss    *)
(* may offer some of those again (the server recognises a repeated         *)
(* clientRequestId), and never skip an action of unknown outcome.          *)
(***************************************************************************)
EXTENDS Naturals, Sequences

CONSTANT Action         \* the actions the application may store

VARIABLES accepted,     \* every action confirmed so far, in order
          known,        \* how many of them, from the oldest, have a known outcome
          head          \* how many of them, from the oldest, are not offered

vars == <<accepted, known, head>>

Init == /\ accepted = <<>>
        /\ known = 0
        /\ head = 0

Accept(a) == /\ accepted' = Append(accepted, a)
             /\ UNCHANGED <<known, head>>

Resolve == /\ head < Len(accepted)
           /\ head' = head + 1
           /\ known' = IF known < head' THEN head' ELSE known
           /\ UNCHANGED accepted

OfferKnown == /\ head' \in 0 .. known
              /\ UNCHANGED <<accepted, known>>

Next == \/ \E a \in Action : Accept(a)
        \/ Resolve
        \/ OfferKnown

Spec == Init /\ [][Next]_vars
=============================================================================
