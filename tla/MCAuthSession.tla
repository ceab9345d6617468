--------------------------- MODULE MCAuthSession ---------------------------
(* Instances of AuthSession for TLC.                                       *)
EXTENDS AuthSession, TLC

CONSTANTS t1, t2

TwoTabs == {t1, t2}

=============================================================================
