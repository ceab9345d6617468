------------------------------ MODULE MCCalls ------------------------------
(* Instances of Calls for TLC.                                             *)
EXTENDS Calls

OneEach == [u \in User |-> 1]
=============================================================================
