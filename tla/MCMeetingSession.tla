-------------------------- MODULE MCMeetingSession --------------------------
(* Instances of MeetingSession for TLC: the constants are given in the     *)
(* .cfg.                                                                   *)
EXTENDS MeetingSession, TLC

Symmetry == Permutations(Requests)
=============================================================================
