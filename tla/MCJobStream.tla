---------------------------- MODULE MCJobStream ----------------------------
(* Instances of JobStream for TLC: the constants are given in the .cfg.    *)
EXTENDS JobStream, TLC
=============================================================================
