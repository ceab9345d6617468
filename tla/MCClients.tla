----------------------------- MODULE MCClients -----------------------------
(* Instances of Clients for TLC: the constants are given in the .cfg.      *)
EXTENDS Clients
=============================================================================
