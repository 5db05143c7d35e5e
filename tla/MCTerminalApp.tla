---------------------------- MODULE MCTerminalApp ----------------------------
(***************************************************************************)
(* A small instance of TerminalApp for TLC: one card, its owner, and the   *)
(* colleague at work who may be given it.                                  *)
(***************************************************************************)
EXTENDS TerminalApp

CONSTANTS t1, e1, e2

Untouched == now = 0 /\ changes = 0 /\ restarts = 0 /\ nextJob = 1

\* One first assignment, and in a behaviour a restart, or one change made
\* elsewhere, or the two that give the card to the colleague.
Small == /\ Untouched => owner[t1] = e1 /\ work[e2].state = "working"
         /\ \/ changes + restarts <= 1
            \/ changes = 2 /\ restarts = 0 /\ owner[t1] = e2
=============================================================================
