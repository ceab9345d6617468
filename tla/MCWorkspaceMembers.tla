------------------------- MODULE MCWorkspaceMembers -------------------------
(* Instances of WorkspaceMembers for TLC: the constants are given in the   *)
(* .cfg.  Ids are ordered and owner_id is special, so that the requests    *)
(* and the other users are interchangeable, and nothing else.              *)
EXTENDS WorkspaceMembers, TLC

Symmetry == Permutations(Requests) \cup Permutations(Users \ {OwnerID})
=============================================================================
