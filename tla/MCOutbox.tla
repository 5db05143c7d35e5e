------------------------------ MODULE MCOutbox ------------------------------
(***************************************************************************)
(* Small instances of Outbox for TLC.                                      *)
(***************************************************************************)
EXTENDS Outbox, TLC

\* The two primitives whose failure the violation runs are about.
OnlyDiscard == {"discard"}
OnlyVerify == {"verify"}
Others == Primitive \ {"discard", "verify"}
=============================================================================
