---------------------------- MODULE MeetingSession ----------------------------
(***************************************************************************)
(* The life of one meeting: its row in meetings, its row in                *)
(* meeting_sessions, the room at the media provider (LiveKit), and the     *)
(* operations of MeetingService and WebRTCService that change them: start, *)
(* end, cancel, join token, expiry of meetings, webhooks of the provider,  *)
(* reconciliation of rooms and expiry of sessions.  Each meeting has rows  *)
(* and a room of its own, so that one meeting stands for all.              *)
(*                                                                         *)
(* No operation locks what it reads.  A transaction is two steps here: it  *)
(* reads its rows, and it writes them whole (gorm's Save) and commits;     *)
(* whatever others committed in between is overwritten.  The call of the   *)
(* provider is a step of its own before the transaction.                   *)
(***************************************************************************)
EXTENDS Integers

CONSTANTS
  Requests,    \* what runs in the API at the same time: requests and webhooks
  Sweepers,    \* runtimes and jobs that reconcile rooms and expire sessions
  MaxRooms,    \* bound: how often the provider creates the room
  MaxTroubles  \* bound: calls and transactions that fail, processes that stop

ASSUME MeetingSessionAssumption ==
  /\ Requests \cap Sweepers = {}
  /\ MaxRooms \in Nat
  /\ MaxTroubles \in Nat

Actors == Requests \cup Sweepers

VARIABLES
  meeting,    \* the row of the meeting: status and whether ended_at is set
  session,    \* the row of its session, "none" before there is one
  fresh,      \* the session was updated less than 2 * ParticipantTTL ago
  room,       \* the room exists at the provider
  rooms,      \* how often the provider has created it
  people,     \* somebody is in the room
  token,      \* somebody holds a join token
  recorded,   \* webhook events with a row in webrtc_webhook_events
  announced,  \* per webhook event: outbox events it led to
  pc,         \* stage of each actor
  saw,        \* what each actor has read
  troubles    \* how many of the MaxTroubles have happened

rowVars      == <<meeting, session, fresh>>
providerVars == <<room, rooms, people, token>>
hookVars     == <<recorded, announced>>
actorVars    == <<pc, saw>>
vars == <<rowVars, providerVars, hookVars, actorVars, troubles>>

MeetingRows == [status : {"scheduled", "active", "ended", "cancelled", "expired"},
                dated  : BOOLEAN]
SessionRows == [status : {"none", "active", "ended"}, dated : BOOLEAN]
HookEvents  == [kind : {"started", "finished"}, room : 1 .. MaxRooms]
NoEvent     == [kind |-> "none", room |-> 0]

Scheduled == [status |-> "scheduled", dated |-> FALSE]
NoSession == [status |-> "none", dated |-> FALSE]
Nothing   == [meeting |-> Scheduled, session |-> NoSession, event |-> NoEvent,
              cancels |-> FALSE]

StartStages  == {"create", "begin", "starting"}
EndStages    == {"delete", "finish", "ending"}
CloseStages  == {"probe", "close", "closed", "closing"}
OtherStages  == {"cancel", "expire", "token", "hook"}
Stages == {"idle"} \cup StartStages \cup EndStages \cup CloseStages \cup OtherStages

Init ==
  /\ meeting = Scheduled
  /\ session = NoSession
  /\ fresh = FALSE
  /\ room = FALSE /\ rooms = 0 /\ people = FALSE /\ token = FALSE
  /\ recorded = {} /\ announced = [e \in HookEvents |-> 0]
  /\ pc = [a \in Actors |-> "idle"]
  /\ saw = [a \in Actors |-> Nothing]
  /\ troubles = 0

Move(a, from, to) == pc[a] = from /\ pc' = [pc EXCEPT ![a] = to]

\* The operation returns, and what it has read is gone.
Return(a) ==
  /\ pc' = [pc EXCEPT ![a] = "idle"]
  /\ saw' = [saw EXCEPT ![a] = Nothing]

Open(m) == m.status \notin {"ended", "expired", "cancelled"}

ReadRows(a) ==
  saw' = [saw EXCEPT ![a].meeting = meeting, ![a].session = session]

SaveMeeting(m) == meeting' = m

SaveSession(s) == session' = s /\ fresh' = TRUE

KeepSession == UNCHANGED <<session, fresh>>

Ended(row) == [row EXCEPT !.status = "ended", !.dated = TRUE]

-----------------------------------------------------------------------------
(***************************************************************************)
(* The provider.  A room is created on request or, as livekit.yaml leaves  *)
(* auto_create on, when somebody enters with a token; it is removed on     *)
(* request or some time after the last person has left.  Each creation and *)
(* each removal is announced by a webhook, sooner or later, never, or more *)
(* than once.                                                              *)
(***************************************************************************)
Emitted ==
  {e \in HookEvents :
     IF e.kind = "finished" /\ room THEN e.room < rooms ELSE e.room <= rooms}

CreateRoom ==
  /\ room \/ rooms < MaxRooms
  /\ room' = TRUE
  /\ rooms' = IF room THEN rooms ELSE rooms + 1

DeleteRoom == room' = FALSE /\ people' = FALSE /\ UNCHANGED <<rooms, token>>

Enter ==
  /\ token
  /\ ~people
  /\ CreateRoom
  /\ people' = TRUE
  /\ UNCHANGED <<token, rowVars, hookVars, actorVars, troubles>>

Leave ==
  /\ people
  /\ people' = FALSE
  /\ UNCHANGED <<room, rooms, token, rowVars, hookVars, actorVars, troubles>>

EmptyTimeout ==
  /\ room
  /\ ~people
  /\ DeleteRoom
  /\ UNCHANGED <<rowVars, hookVars, actorVars, troubles>>

-----------------------------------------------------------------------------
(***************************************************************************)
(* StartMeeting, also on behalf of JoinToken when a moderator joins a      *)
(* scheduled meeting.  provider_room_name is unique and is computed from   *)
(* the meeting, so a meeting has one session row in all its life.          *)
(***************************************************************************)
StartRead(a) ==
  /\ Open(meeting)
  /\ session.status # "active"
  /\ Move(a, "idle", "create")
  /\ UNCHANGED <<saw, rowVars, providerVars, hookVars, troubles>>

StartCreateRoom(a) ==
  /\ Move(a, "create", "begin")
  /\ CreateRoom
  /\ UNCHANGED <<saw, people, token, rowVars, hookVars, troubles>>

StartTxRead(a) ==
  /\ Move(a, "begin", "starting")
  /\ ReadRows(a)
  /\ UNCHANGED <<rowVars, providerVars, hookVars, troubles>>

\* Mutant: the meeting is saved although the session could not be inserted.
StartCommitAnyway(a) ==
  /\ pc[a] = "starting"
  /\ SaveMeeting([saw[a].meeting EXCEPT !.status = "active"])
  /\ KeepSession
  /\ Return(a)
  /\ UNCHANGED <<providerVars, hookVars, troubles>>

\* A session that exists by now is returned when it is active; otherwise its room
\* name makes the insert fail and the transaction roll back.
StartCommit(a) ==
  /\ pc[a] = "starting"
  /\ IF session.status = "none"
       THEN /\ SaveSession([status |-> "active", dated |-> FALSE])
            /\ SaveMeeting([saw[a].meeting EXCEPT !.status = "active"])
       ELSE UNCHANGED rowVars
  /\ Return(a)
  /\ UNCHANGED <<providerVars, hookVars, troubles>>

-----------------------------------------------------------------------------
(***************************************************************************)
(* JoinToken: reads the meeting, then the session, and issues a token.     *)
(***************************************************************************)
JoinRead(a) ==
  /\ meeting.status \notin {"ended", "expired"}
  /\ Move(a, "idle", "token")
  /\ UNCHANGED <<saw, rowVars, providerVars, hookVars, troubles>>

JoinIssue(a) ==
  /\ pc[a] = "token"
  /\ token' = (token \/ session.status = "active")
  /\ Return(a)
  /\ UNCHANGED <<room, rooms, people, rowVars, hookVars, troubles>>

-----------------------------------------------------------------------------
(***************************************************************************)
(* EndMeeting, also on behalf of Cancel when the meeting is active.        *)
(***************************************************************************)
EndEntry == IF session.status = "active" THEN "delete" ELSE "finish"

EndRead(a) ==
  /\ Move(a, "idle", EndEntry)
  /\ ReadRows(a)
  /\ UNCHANGED <<rowVars, providerVars, hookVars, troubles>>

\* Mutant: the room is left to the provider.
EndWithoutDelete(a) ==
  /\ Move(a, "delete", "finish")
  /\ UNCHANGED <<saw, rowVars, providerVars, hookVars, troubles>>

EndDeleteRoom(a) ==
  /\ Move(a, "delete", "finish")
  /\ DeleteRoom
  /\ UNCHANGED <<saw, rowVars, hookVars, troubles>>

\* The session is read again only if the first read found it active.
EndTxRead(a) ==
  /\ Move(a, "finish", "ending")
  /\ saw' = [saw EXCEPT ![a].meeting = meeting,
                        ![a].session = IF @.status = "active" THEN session ELSE NoSession]
  /\ UNCHANGED <<rowVars, providerVars, hookVars, troubles>>

EndCommit(a) ==
  /\ pc[a] = "ending"
  /\ LET m == saw[a].meeting
         s == saw[a].session
     IN  /\ SaveMeeting(IF m.status = "ended" THEN meeting ELSE Ended(m))
         /\ IF s.status # "none" /\ ~s.dated THEN SaveSession(Ended(s)) ELSE KeepSession
  /\ IF saw[a].cancels
       THEN Move(a, "ending", "cancel") /\ UNCHANGED saw
       ELSE Return(a)
  /\ UNCHANGED <<providerVars, hookVars, troubles>>

CancelRead(a) ==
  /\ meeting.status # "cancelled"
  /\ Move(a, "idle", IF meeting.status = "active" THEN EndEntry ELSE "cancel")
  /\ saw' = [saw EXCEPT ![a].meeting = meeting, ![a].session = session,
                        ![a].cancels = TRUE]
  /\ UNCHANGED <<rowVars, providerVars, hookVars, troubles>>

CancelSave(a) ==
  /\ pc[a] = "cancel"
  /\ SaveMeeting([status |-> "cancelled", dated |-> TRUE])
  /\ KeepSession
  /\ Return(a)
  /\ UNCHANGED <<providerVars, hookVars, troubles>>

\* ExpireStale: scheduled meetings that are a day old.
ExpireRead(a) ==
  /\ meeting.status = "scheduled"
  /\ Move(a, "idle", "expire")
  /\ ReadRows(a)
  /\ UNCHANGED <<rowVars, providerVars, hookVars, troubles>>

ExpireSave(a) ==
  /\ pc[a] = "expire"
  /\ SaveMeeting([saw[a].meeting EXCEPT !.status = "expired"])
  /\ KeepSession
  /\ Return(a)
  /\ UNCHANGED <<providerVars, hookVars, troubles>>

-----------------------------------------------------------------------------
(***************************************************************************)
(* consumeWebhookEvent.  Events without a session are refused, or ignored. *)
(***************************************************************************)
HookRead(a) ==
  /\ session.status # "none"
  /\ Move(a, "idle", "hook")
  /\ \E e \in Emitted \ recorded :
       saw' = [saw EXCEPT ![a].session = session, ![a].event = e]
  /\ UNCHANGED <<rowVars, providerVars, hookVars, troubles>>

Applied(kind, s) ==
  IF kind = "started" THEN [s EXCEPT !.status = "active"] ELSE Ended(s)

\* Mutant: no unique index on the id of the event.
HookCommitAlways(a) ==
  /\ pc[a] = "hook"
  /\ LET e == saw[a].event IN
       /\ recorded' = recorded \cup {e}
       /\ announced' = [announced EXCEPT ![e] = @ + 1]
       /\ SaveSession(Applied(e.kind, saw[a].session))
  /\ Return(a)
  /\ UNCHANGED <<meeting, providerVars, troubles>>

\* The index on event_id makes the second of two deliveries roll back.
HookCommit(a) ==
  /\ pc[a] = "hook"
  /\ LET e == saw[a].event IN
       IF e \in recorded
         THEN KeepSession /\ UNCHANGED hookVars
         ELSE /\ recorded' = recorded \cup {e}
              /\ announced' = [announced EXCEPT ![e] = @ + 1]
              /\ SaveSession(Applied(e.kind, saw[a].session))
  /\ Return(a)
  /\ UNCHANGED <<meeting, providerVars, troubles>>

-----------------------------------------------------------------------------
(***************************************************************************)
(* ReconcileRooms and ExpireAbandonedSessions, which both CloseRoom.       *)
(***************************************************************************)
SweepList(a) ==
  /\ session.status = "active"
  /\ Move(a, "idle", "probe")
  /\ UNCHANGED <<saw, rowVars, providerVars, hookVars, troubles>>

\* Mutant: a room that is not found is skipped like any other error.
ProbeSkips(a) ==
  /\ pc[a] = "probe"
  /\ Return(a)
  /\ UNCHANGED <<rowVars, providerVars, hookVars, troubles>>

SweepProbe(a) ==
  /\ pc[a] = "probe"
  /\ IF room THEN Return(a) ELSE Move(a, "probe", "close") /\ UNCHANGED saw
  /\ UNCHANGED <<rowVars, providerVars, hookVars, troubles>>

SweepExpire(a) ==
  /\ session.status = "active"
  /\ ~fresh
  /\ Move(a, "idle", "close")
  /\ UNCHANGED <<saw, rowVars, providerVars, hookVars, troubles>>

CloseDeleteRoom(a) ==
  /\ Move(a, "close", "closed")
  /\ DeleteRoom
  /\ UNCHANGED <<saw, rowVars, hookVars, troubles>>

CloseTxRead(a) ==
  /\ Move(a, "closed", "closing")
  /\ ReadRows(a)
  /\ UNCHANGED <<rowVars, providerVars, hookVars, troubles>>

CloseCommit(a) ==
  /\ pc[a] = "closing"
  /\ LET m == saw[a].meeting
         s == saw[a].session
     IN  /\ IF s.dated THEN KeepSession ELSE SaveSession(Ended(s))
         /\ SaveMeeting(IF m.status = "active" /\ ~m.dated THEN Ended(m) ELSE meeting)
  /\ Return(a)
  /\ UNCHANGED <<providerVars, hookVars, troubles>>

Age ==
  /\ fresh
  /\ fresh' = FALSE
  /\ UNCHANGED <<meeting, session, providerVars, hookVars, actorVars, troubles>>

\* A call or a transaction fails and the operation returns its error, or the
\* process stops: no operation takes back what it has done so far.
Fault(a) ==
  /\ pc[a] # "idle"
  /\ troubles < MaxTroubles
  /\ troubles' = troubles + 1
  /\ Return(a)
  /\ UNCHANGED <<rowVars, providerVars, hookVars>>

-----------------------------------------------------------------------------

Begin(a) ==
  StartRead(a) \/ JoinRead(a) \/ EndRead(a) \/ CancelRead(a) \/ ExpireRead(a) \/ HookRead(a)

Proceed(a) ==
  \/ StartCreateRoom(a) \/ StartTxRead(a) \/ StartCommit(a)
  \/ JoinIssue(a)
  \/ EndDeleteRoom(a) \/ EndTxRead(a) \/ EndCommit(a)
  \/ CancelSave(a) \/ ExpireSave(a) \/ HookCommit(a)

Sweep(a) ==
  \/ SweepList(a) \/ SweepProbe(a) \/ SweepExpire(a)
  \/ CloseDeleteRoom(a) \/ CloseTxRead(a) \/ CloseCommit(a)

Next ==
  \/ Enter \/ Leave \/ EmptyTimeout \/ Age
  \/ \E a \in Requests : Begin(a) \/ Proceed(a) \/ Fault(a)
  \/ \E a \in Sweepers : Sweep(a) \/ Fault(a)

Spec == Init /\ [][Next]_vars

\* Operations go on once begun, the provider removes empty rooms, time passes, and
\* the tickers of the sweepers tick.  Nobody has to call or to leave.
FairSpec ==
  /\ Spec
  /\ WF_vars(EmptyTimeout) /\ WF_vars(Age)
  /\ \A a \in Requests : WF_vars(Proceed(a))
  /\ \A a \in Sweepers : WF_vars(Sweep(a))

-----------------------------------------------------------------------------

RowType ==
  /\ meeting \in MeetingRows
  /\ session \in SessionRows
  /\ session.status = "ended" => session.dated
  /\ fresh \in BOOLEAN

ProviderType ==
  /\ room \in BOOLEAN /\ people \in BOOLEAN /\ token \in BOOLEAN
  /\ rooms \in 0 .. MaxRooms
  /\ people => room
  /\ room => rooms > 0

HookType ==
  /\ recorded \subseteq Emitted
  /\ announced \in [HookEvents -> Nat]

Snapshots == [meeting : MeetingRows, session : SessionRows,
              event : HookEvents \cup {NoEvent}, cancels : BOOLEAN]

ActorType ==
  /\ pc \in [Actors -> Stages]
  /\ saw \in [Actors -> Snapshots]

TypeOK ==
  RowType /\ ProviderType /\ HookType /\ ActorType /\ troubles \in 0 .. MaxTroubles

\* An active meeting has a session, whatever rows are written back in between:
\* nobody waits for a session that was never inserted.
ActiveHasSession == meeting.status = "active" => session.status # "none"

\* However often an event of the provider is delivered, and by however many
\* deliveries at once, it is announced once.
AnnouncedOnce == \A e \in HookEvents : announced[e] <= 1

\* A session counts as ended only once the provider has closed a room of the
\* meeting: no operation writes it off first.
EndedAfterRoom == session.dated => \E e \in Emitted : e.kind = "finished"

StartUnderWay == \E a \in Requests : pc[a] \in StartStages

\* A meeting that is over, with no start under way from before, is over for good.
\* (A start that is under way does revive it: the transaction does not check.)
OverForGood ==
  [][~Open(meeting) /\ ~StartUnderWay => ~Open(meeting') /\ ~StartUnderWay']_vars

\* A session without a room is ended by the sweepers, unless somebody opens the
\* room again.
AbandonedSessionEnds ==
  session = [status |-> "active", dated |-> FALSE] /\ ~room
    ~> session.status = "ended" \/ room

\* What "room cleanup occurs after meeting end" says: once the meeting has ended,
\* its session does not go on counting as an active room.
RoomCleanup == meeting.status = "ended" ~> session.status # "active" \/ meeting.status # "ended"

\* What "stale session cleanup" says: a sweep decides to close a room only when
\* nobody is in it.
SweepSparesOccupied ==
  [][\A a \in Sweepers : pc[a] # "close" /\ pc'[a] = "close" => ~people]_vars

=============================================================================
