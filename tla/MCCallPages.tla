---------------------------- MODULE MCCallPages ----------------------------
(* Instances of CallPages for TLC.  Only the one who is called gets         *)
(* invitations: a stream replaced by another matters to that one.  One page *)
(* comes to the room twice, the other once.                                 *)
EXTENDS CallPages, TLC

CONSTANTS p, q

TwoForTheCalled == [u \in User |-> IF u \in Caller THEN 1 ELSE 2]
Visits == p :> 2 @@ q :> 1
=============================================================================
