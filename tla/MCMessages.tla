----------------------------- MODULE MCMessages -----------------------------
(* Instances of Messages for TLC: a request and its retry.                 *)
EXTENDS Messages, TLC

CONSTANTS u1, u2, k

OneAuthor == [p \in Posts |-> u1]
OneKey == [p \in Posts |-> k]
=============================================================================
