------------------------------ MODULE MCOutbox ------------------------------
(* Instances of Outbox for TLC: the constants are given in the .cfg.       *)
EXTENDS Outbox, TLC
=============================================================================
