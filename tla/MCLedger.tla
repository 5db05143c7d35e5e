------------------------------ MODULE MCLedger ------------------------------
(***************************************************************************)
(* Small instances of Ledger for TLC.                                      *)
(***************************************************************************)
EXTENDS Ledger, TLC

CONSTANTS t1, t2, r1, r2, r3

\* One action of each of two terminals.
TwoKeys == {<<t1, r1>>, <<t2, r2>>}
\* Three actions of one person, at either terminal.
ThreeKeys == {<<t1, r1>>, <<t2, r2>>, <<t1, r3>>}
NoKeys == {}

Symmetry == Permutations(Handler) \cup Permutations(Client)
=============================================================================
