------------------------------- MODULE MCHub -------------------------------
(* Instances of Hub for TLC: the constants are given in the .cfg.          *)
EXTENDS Hub, TLC
=============================================================================
