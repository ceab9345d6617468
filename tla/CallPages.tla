----------------------------- MODULE CallPages -----------------------------
(***************************************************************************)
(* The two pages of a call: the chat page that dials and is rung (Calls),  *)
(* and the room both go to (CallRoom).  What the first leaves for the      *)
(* second, a meeting and the identity of a token, CallRoom takes as it     *)
(* comes; so a behaviour is of one of the two.                             *)
(***************************************************************************)
EXTENDS Calls, CallRoom

VARIABLE shows   \* which of the two

callPagesVars == <<shows, callsVars, roomVars>>

CallPagesInit == shows \in {"chat", "room"} /\ CallsInit /\ RoomInit

CallPagesNext ==
    /\ UNCHANGED shows
    /\ \/ shows = "chat" /\ CallsNext /\ UNCHANGED roomVars
       \/ shows = "room" /\ RoomNext /\ UNCHANGED callsVars

\* The requests of launchCall end, and what connect() waits for comes, or fails.
CallPagesSpec ==
    /\ CallPagesInit /\ [][CallPagesNext]_callPagesVars
    /\ \A u \in Caller : WF_callsVars(Dialling(u))
    /\ \A p \in Page : WF_roomVars(Connecting(p))
=============================================================================
