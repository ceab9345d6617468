------------------------- MODULE MeetingSessionProofs -------------------------
(***************************************************************************)
(* Theorems about MeetingSession, for every number of requests, sweepers,  *)
(* rooms and troubles.                                                     *)
(***************************************************************************)
EXTENDS MeetingSession, TLAPS

\* The provider has closed a room of the meeting.
RoomClosed == IF room THEN rooms > 1 ELSE rooms > 0

LEMMA ClosedIsAnnounced ==
  ASSUME ProviderType
  PROVE  RoomClosed <=> \E e \in Emitted : e.kind = "finished"
<1>1. ASSUME RoomClosed
      PROVE  \E e \in Emitted : e.kind = "finished"
  <2>1. [kind |-> "finished", room |-> 1] \in Emitted
    BY <1>1, MeetingSessionAssumption DEF RoomClosed, Emitted, HookEvents, ProviderType
  <2>2. QED
    BY <2>1
<1>2. ASSUME NEW e \in Emitted, e.kind = "finished"
      PROVE  RoomClosed
  <2>1. /\ e.room \in 1 .. MaxRooms
        /\ IF room THEN e.room < rooms ELSE e.room <= rooms
    BY <1>2 DEF Emitted, HookEvents
  <2>2. QED
    BY <2>1, MeetingSessionAssumption DEF RoomClosed, ProviderType
<1>3. QED
  BY <1>1, <1>2

-----------------------------------------------------------------------------
(* What each kind of step does to the provider.                            *)

\* The provider announces ever more events, and has rooms and closes them for good.
Onward ==
  /\ ProviderType'
  /\ Emitted \subseteq Emitted'
  /\ rooms > 0 => rooms' > 0
  /\ RoomClosed => RoomClosed'

LEMMA ProviderRests ==
  ASSUME ProviderType, UNCHANGED <<room, rooms, people>>, token' \in BOOLEAN
  PROVE  Onward
  BY DEF Onward, ProviderType, Emitted, RoomClosed

LEMMA RoomCreated ==
  ASSUME ProviderType, CreateRoom, people' \in BOOLEAN, token' = token
  PROVE  Onward /\ rooms' > 0
<1>1. ProviderType' /\ rooms' > 0
  BY MeetingSessionAssumption DEF ProviderType, CreateRoom
<1>2. ASSUME NEW e \in Emitted PROVE e \in Emitted'
  <2>1. e \in HookEvents /\ e.room \in 1 .. MaxRooms
    BY <1>2 DEF Emitted, HookEvents
  <2>2. QED
    BY <1>2, <2>1, MeetingSessionAssumption DEF Emitted, CreateRoom, ProviderType
<1>3. QED
  BY <1>1, <1>2, MeetingSessionAssumption DEF Onward, RoomClosed, CreateRoom, ProviderType

LEMMA RoomDeleted ==
  ASSUME ProviderType, DeleteRoom
  PROVE  Onward /\ (rooms > 0 => RoomClosed')
<1>1. ProviderType'
  BY DEF ProviderType, DeleteRoom
<1>2. ASSUME NEW e \in Emitted PROVE e \in Emitted'
  <2>1. e \in HookEvents /\ e.room \in 1 .. MaxRooms
    BY <1>2 DEF Emitted, HookEvents
  <2>2. QED
    BY <1>2, <2>1, MeetingSessionAssumption DEF Emitted, DeleteRoom, ProviderType
<1>3. QED
  BY <1>1, <1>2, MeetingSessionAssumption DEF Onward, RoomClosed, DeleteRoom, ProviderType

-----------------------------------------------------------------------------
(***************************************************************************)
(* The inductive invariant: events are announced when they are recorded,   *)
(* rows and what actors have read of them come from a room, dated ones     *)
(* from a closed one, and so do the stages that lead to such rows.         *)
(***************************************************************************)
HookInv == \A e \in HookEvents : announced[e] = IF e \in recorded THEN 1 ELSE 0

RowInv(s) ==
  /\ s.status # "none" => rooms > 0
  /\ s.dated => RoomClosed

ActorInv(a) ==
  /\ RowInv(saw[a].session)
  /\ saw[a].session.status = "ended" => saw[a].session.dated
  /\ pc[a] = "hook" => saw[a].event \in Emitted
  /\ pc[a] \in {"begin", "starting", "delete", "probe", "close"} => rooms > 0
  /\ pc[a] \in {"closed", "closing"} => RoomClosed
  /\ pc[a] \in {"finish", "ending"} /\ saw[a].session.status # "none" => RoomClosed

MeetingInv == meeting.status = "active" => session.status # "none"

IInv ==
  /\ TypeOK
  /\ HookInv
  /\ MeetingInv
  /\ RowInv(session)
  /\ \A a \in Actors : ActorInv(a)

LEMMA InvInit == Init => IInv
<1> SUFFICES ASSUME Init PROVE IInv
  OBVIOUS
<1> USE DEF Init
<1>1. RowType /\ ProviderType /\ HookType /\ troubles \in 0 .. MaxTroubles
  <2>1. RowType
    BY DEF RowType, MeetingRows, SessionRows, Scheduled, NoSession
  <2>2. rooms \in 0 .. MaxRooms /\ troubles \in 0 .. MaxTroubles
    BY MeetingSessionAssumption
  <2>3. room = FALSE /\ people = FALSE /\ token = FALSE
    OBVIOUS
  <2>4. ProviderType
    BY <2>2, <2>3, Zenon DEF ProviderType
  <2>5. HookType
    BY DEF HookType
  <2>6. QED
    BY <2>1, <2>2, <2>4, <2>5
<1>2. ActorType
  BY DEF ActorType, Snapshots, Nothing, Stages, MeetingRows, SessionRows, Scheduled, NoSession
<1>3. HookInv /\ MeetingInv /\ RowInv(session)
  BY DEF HookInv, MeetingInv, RowInv, Scheduled, NoSession
<1>4. \A a \in Actors : ActorInv(a)
  BY DEF ActorInv, RowInv, Nothing, NoSession
<1>5. QED
  BY <1>1, <1>2, <1>3, <1>4 DEF TypeOK, IInv

\* Everything an actor knows stays true while the provider goes on.
LEMMA ActorsKeep ==
  ASSUME Onward, NEW a, ActorInv(a), pc'[a] = pc[a], saw'[a] = saw[a]
  PROVE  ActorInv(a)'
  BY DEF Onward, ActorInv, RowInv

LEMMA ReturnKeeps ==
  ASSUME ActorType, NEW a \in Actors, Return(a)
  PROVE  /\ ActorType'
         /\ ActorInv(a)'
         /\ \A b \in Actors \ {a} : pc'[b] = pc[b] /\ saw'[b] = saw[b]
<1>1. Nothing \in Snapshots
  BY DEF Nothing, Snapshots, MeetingRows, SessionRows, Scheduled, NoSession
<1>2. ActorType' /\ pc'[a] = "idle" /\ saw'[a] = Nothing
  BY <1>1 DEF ActorType, Return, Stages
<1>3. ActorInv(a)'
  BY <1>2 DEF ActorInv, RowInv, Nothing, NoSession
<1>4. QED
  BY <1>2, <1>3 DEF ActorType, Return

LEMMA MoveKeeps ==
  ASSUME ActorType, NEW a \in Actors, NEW from, NEW to \in Stages, Move(a, from, to),
         NEW snap \in Snapshots, saw' = [saw EXCEPT ![a] = snap]
  PROVE  /\ ActorType' /\ pc'[a] = to /\ saw'[a] = snap
         /\ \A b \in Actors \ {a} : pc'[b] = pc[b] /\ saw'[b] = saw[b]
  BY DEF ActorType, Move

\* A step of actor a that leaves the meeting's and the provider's side in order.
LEMMA StepOf ==
  ASSUME IInv, Onward, NEW a \in Actors,
         RowType', HookType', ActorType', troubles' \in 0 .. MaxTroubles,
         HookInv', MeetingInv', RowInv(session)', ActorInv(a)',
         \A b \in Actors \ {a} : pc'[b] = pc[b] /\ saw'[b] = saw[b]
  PROVE  IInv'
<1>1. ASSUME NEW b \in Actors \ {a} PROVE ActorInv(b)'
  BY <1>1, ActorsKeep DEF IInv
<1>2. QED
  BY <1>1 DEF IInv, TypeOK, Onward

\* A step that changes neither rows nor hooks, and returns.
LEMMA QuietRows ==
  ASSUME IInv, Onward, UNCHANGED <<rowVars, hookVars>>
  PROVE  /\ RowType' /\ HookType' /\ HookInv' /\ MeetingInv' /\ RowInv(session)'
<1>1. RowType' /\ HookInv' /\ MeetingInv'
  BY DEF IInv, TypeOK, RowType, HookInv, MeetingInv, rowVars, hookVars
<1>2. HookType' /\ RowInv(session)'
  BY DEF IInv, TypeOK, HookType, RowInv, Onward, rowVars, hookVars
<1>3. QED
  BY <1>1, <1>2

-----------------------------------------------------------------------------
(* Requests.                                                               *)

LEMMA StartKeeps ==
  ASSUME IInv, NEW a \in Actors,
         StartRead(a) \/ StartCreateRoom(a) \/ StartTxRead(a) \/ StartCommit(a)
  PROVE  IInv'
<1> USE DEF IInv, TypeOK
<1>1. CASE StartRead(a)
  <2>1. Onward
    BY <1>1, ProviderRests DEF StartRead, providerVars, ProviderType
  <2>2. /\ ActorType' /\ pc'[a] = "create" /\ saw'[a] = saw[a]
        /\ \A b \in Actors \ {a} : pc'[b] = pc[b] /\ saw'[b] = saw[b]
    BY <1>1, MoveKeeps DEF StartRead, ActorType, Stages, StartStages
  <2>3. ActorInv(a)'
    BY <2>1, <2>2 DEF ActorInv, RowInv, Onward
  <2>4. QED
    BY <1>1, <2>1, <2>2, <2>3, QuietRows, StepOf DEF StartRead
<1>2. CASE StartCreateRoom(a)
  <2>1. Onward /\ rooms' > 0
    BY <1>2, RoomCreated DEF StartCreateRoom, ProviderType
  <2>2. /\ ActorType' /\ pc'[a] = "begin" /\ saw'[a] = saw[a]
        /\ \A b \in Actors \ {a} : pc'[b] = pc[b] /\ saw'[b] = saw[b]
    BY <1>2, MoveKeeps DEF StartCreateRoom, ActorType, Stages, StartStages
  <2>3. ActorInv(a)'
    BY <2>1, <2>2 DEF ActorInv, RowInv, Onward
  <2>4. QED
    BY <1>2, <2>1, <2>2, <2>3, QuietRows, StepOf DEF StartCreateRoom
<1>3. CASE StartTxRead(a)
  <2>1. Onward
    BY <1>3, ProviderRests DEF StartTxRead, providerVars, ProviderType
  <2> DEFINE snap == [saw[a] EXCEPT !.meeting = meeting, !.session = session]
  <2>2. snap \in Snapshots /\ saw' = [saw EXCEPT ![a] = snap]
    BY <1>3 DEF StartTxRead, ReadRows, ActorType, Snapshots, RowType
  <2>3. /\ ActorType' /\ pc'[a] = "starting" /\ saw'[a] = snap
        /\ \A b \in Actors \ {a} : pc'[b] = pc[b] /\ saw'[b] = saw[b]
    BY <1>3, <2>2, MoveKeeps DEF StartTxRead, Stages, StartStages
  <2>4. snap.session = session
    BY DEF ActorType, Snapshots
  <2>5. ActorInv(a)'
    BY <1>3, <2>1, <2>3, <2>4 DEF ActorInv, RowInv, Onward, StartTxRead, Move, RowType
  <2>6. QED
    BY <1>3, <2>1, <2>3, <2>5, QuietRows, StepOf DEF StartTxRead
<1>4. CASE StartCommit(a)
  <2>1. Onward
    BY <1>4, ProviderRests DEF StartCommit, providerVars, ProviderType
  <2>2. /\ ActorType' /\ ActorInv(a)'
        /\ \A b \in Actors \ {a} : pc'[b] = pc[b] /\ saw'[b] = saw[b]
    BY <1>4, ReturnKeeps DEF StartCommit
  <2>3. HookType' /\ HookInv'
    BY <1>4, <2>1 DEF StartCommit, HookType, HookInv, hookVars, Onward
  <2>4. rooms > 0
    BY <1>4 DEF StartCommit, ActorInv
  <2>5. RowType' /\ MeetingInv' /\ RowInv(session)'
    <3>1. CASE session.status = "none"
      <4>1. session' = [status |-> "active", dated |-> FALSE] /\ fresh' = TRUE
        BY <1>4, <3>1 DEF StartCommit, SaveSession
      <4>2. meeting' \in MeetingRows
        BY <1>4, <3>1 DEF StartCommit, SaveMeeting, ActorType, Snapshots, MeetingRows
      <4>3. QED
        BY <2>1, <2>4, <4>1, <4>2 DEF RowType, SessionRows, MeetingInv, RowInv, Onward
    <3>2. CASE session.status # "none"
      BY <1>4, <3>2, <2>1 DEF StartCommit, rowVars, RowType, MeetingInv, RowInv, Onward
    <3>3. QED
      BY <3>1, <3>2
  <2>6. QED
    BY <1>4, <2>1, <2>2, <2>3, <2>5, StepOf DEF StartCommit
<1>5. QED
  BY <1>1, <1>2, <1>3, <1>4

LEMMA JoinKeeps ==
  ASSUME IInv, NEW a \in Actors,
         JoinRead(a) \/ JoinIssue(a)
  PROVE  IInv'
<1> USE DEF IInv, TypeOK
<1>1. CASE JoinRead(a)
  <2>1. Onward
    BY <1>1, ProviderRests DEF JoinRead, providerVars, ProviderType
  <2>2. /\ ActorType' /\ pc[a] = "idle" /\ pc'[a] = "token" /\ saw'[a] = saw[a]
        /\ \A b \in Actors \ {a} : pc'[b] = pc[b] /\ saw'[b] = saw[b]
    BY <1>1, MoveKeeps DEF JoinRead, Move, ActorType, Stages, StartStages, EndStages, CloseStages, OtherStages
  <2>3. ActorInv(a)'
    BY <2>1, <2>2 DEF ActorInv, RowInv, Onward
  <2>4. QED
    BY <1>1, <2>1, <2>2, <2>3, QuietRows, StepOf DEF JoinRead
<1>2. CASE JoinIssue(a)
  <2>1. Onward
    BY <1>2, ProviderRests DEF JoinIssue, providerVars, ProviderType
  <2>2. /\ ActorType' /\ ActorInv(a)'
        /\ \A b \in Actors \ {a} : pc'[b] = pc[b] /\ saw'[b] = saw[b]
    BY <1>2, ReturnKeeps DEF JoinIssue
  <2>3. QED
    BY <1>2, <2>1, <2>2, QuietRows, StepOf DEF JoinIssue
<1>3. QED
  BY <1>1, <1>2

LEMMA CancelKeeps ==
  ASSUME IInv, NEW a \in Actors,
         CancelRead(a) \/ CancelSave(a) \/ ExpireRead(a) \/ ExpireSave(a)
  PROVE  IInv'
<1> USE DEF IInv, TypeOK
<1>1. CASE CancelRead(a)
  <2>1. Onward
    BY <1>1, ProviderRests DEF CancelRead, providerVars, ProviderType
  <2> DEFINE snap == [saw[a] EXCEPT !.meeting = meeting, !.session = session, !.cancels = TRUE]
             to == (IF meeting.status = "active" THEN EndEntry ELSE "cancel")
  <2>2. snap \in Snapshots /\ saw' = [saw EXCEPT ![a] = snap]
    BY <1>1 DEF CancelRead, ReadRows, ActorType, Snapshots, RowType
  <2>3. to \in Stages /\ Move(a, "idle", to)
    BY <1>1 DEF CancelRead, Stages, EndEntry, EndStages, OtherStages
  <2>4. snap.session = session
    BY DEF ActorType, Snapshots
  <2> HIDE DEF snap, to
  <2>5. /\ ActorType' /\ pc'[a] = to /\ saw'[a] = snap
        /\ \A b \in Actors \ {a} : pc'[b] = pc[b] /\ saw'[b] = saw[b]
    BY <2>2, <2>3, MoveKeeps
  <2>6. ActorInv(a)'
    BY <2>1, <2>4, <2>5 DEF to, ActorInv, RowInv, Onward, RowType, SessionRows, EndEntry, EndStages, OtherStages
  <2>7. QED
    BY <1>1, <2>1, <2>5, <2>6, QuietRows, StepOf DEF CancelRead
<1>2. CASE CancelSave(a)
  <2>1. Onward
    BY <1>2, ProviderRests DEF CancelSave, providerVars, ProviderType
  <2>2. /\ ActorType' /\ ActorInv(a)'
        /\ \A b \in Actors \ {a} : pc'[b] = pc[b] /\ saw'[b] = saw[b]
    BY <1>2, ReturnKeeps DEF CancelSave
  <2>3. HookType' /\ HookInv'
    BY <1>2, <2>1 DEF CancelSave, HookType, HookInv, hookVars, Onward
  <2>4. meeting' \in MeetingRows /\ meeting'.status # "active"
    BY <1>2 DEF CancelSave, SaveMeeting, ActorType, Snapshots, MeetingRows
  <2>5. RowType' /\ MeetingInv' /\ RowInv(session)'
    BY <1>2, <2>1, <2>4 DEF CancelSave, KeepSession, RowType, MeetingInv, RowInv, Onward
  <2>6. QED
    BY <1>2, <2>1, <2>2, <2>3, <2>5, StepOf DEF CancelSave
<1>3. CASE ExpireRead(a)
  <2>1. Onward
    BY <1>3, ProviderRests DEF ExpireRead, providerVars, ProviderType
  <2> DEFINE snap == [saw[a] EXCEPT !.meeting = meeting, !.session = session]
             to == "expire"
  <2>2. snap \in Snapshots /\ saw' = [saw EXCEPT ![a] = snap]
    BY <1>3 DEF ExpireRead, ReadRows, ActorType, Snapshots, RowType
  <2>3. to \in Stages /\ Move(a, "idle", to)
    BY <1>3 DEF ExpireRead, Stages, OtherStages
  <2>4. snap.session = session
    BY DEF ActorType, Snapshots
  <2> HIDE DEF snap, to
  <2>5. /\ ActorType' /\ pc'[a] = to /\ saw'[a] = snap
        /\ \A b \in Actors \ {a} : pc'[b] = pc[b] /\ saw'[b] = saw[b]
    BY <2>2, <2>3, MoveKeeps
  <2>6. ActorInv(a)'
    BY <2>1, <2>4, <2>5 DEF to, ActorInv, RowInv, Onward, RowType, SessionRows, OtherStages
  <2>7. QED
    BY <1>3, <2>1, <2>5, <2>6, QuietRows, StepOf DEF ExpireRead
<1>4. CASE ExpireSave(a)
  <2>1. Onward
    BY <1>4, ProviderRests DEF ExpireSave, providerVars, ProviderType
  <2>2. /\ ActorType' /\ ActorInv(a)'
        /\ \A b \in Actors \ {a} : pc'[b] = pc[b] /\ saw'[b] = saw[b]
    BY <1>4, ReturnKeeps DEF ExpireSave
  <2>3. HookType' /\ HookInv'
    BY <1>4, <2>1 DEF ExpireSave, HookType, HookInv, hookVars, Onward
  <2>4. meeting' \in MeetingRows /\ meeting'.status # "active"
    BY <1>4 DEF ExpireSave, SaveMeeting, ActorType, Snapshots, MeetingRows
  <2>5. RowType' /\ MeetingInv' /\ RowInv(session)'
    BY <1>4, <2>1, <2>4 DEF ExpireSave, KeepSession, RowType, MeetingInv, RowInv, Onward
  <2>6. QED
    BY <1>4, <2>1, <2>2, <2>3, <2>5, StepOf DEF ExpireSave
<1>5. QED
  BY <1>1, <1>2, <1>3, <1>4

LEMMA EndKeeps ==
  ASSUME IInv, NEW a \in Actors,
         EndRead(a) \/ EndDeleteRoom(a) \/ EndTxRead(a) \/ EndCommit(a)
  PROVE  IInv'
<1> USE DEF IInv, TypeOK
<1>1. CASE EndRead(a)
  <2>1. Onward
    BY <1>1, ProviderRests DEF EndRead, providerVars, ProviderType
  <2> DEFINE snap == [saw[a] EXCEPT !.meeting = meeting, !.session = session]
             to == EndEntry
  <2>2. snap \in Snapshots /\ saw' = [saw EXCEPT ![a] = snap]
    BY <1>1 DEF EndRead, ReadRows, ActorType, Snapshots, RowType
  <2>3. to \in Stages /\ Move(a, "idle", to)
    BY <1>1 DEF EndRead, Stages, EndEntry, EndStages
  <2>4. snap.session = session
    BY DEF ActorType, Snapshots
  <2> HIDE DEF snap, to
  <2>5. /\ ActorType' /\ pc'[a] = to /\ saw'[a] = snap
        /\ \A b \in Actors \ {a} : pc'[b] = pc[b] /\ saw'[b] = saw[b]
    BY <2>2, <2>3, MoveKeeps
  <2>6. ActorInv(a)'
    BY <2>1, <2>4, <2>5 DEF to, ActorInv, RowInv, Onward, RowType, SessionRows, EndEntry, EndStages
  <2>7. QED
    BY <1>1, <2>1, <2>5, <2>6, QuietRows, StepOf DEF EndRead
<1>2. CASE EndDeleteRoom(a)
  <2>1. Onward /\ (rooms > 0 => RoomClosed')
    BY <1>2, RoomDeleted DEF EndDeleteRoom, providerVars, ProviderType
  <2>2. /\ ActorType' /\ pc[a] = "delete" /\ pc'[a] = "finish" /\ saw'[a] = saw[a]
        /\ \A b \in Actors \ {a} : pc'[b] = pc[b] /\ saw'[b] = saw[b]
    BY <1>2, MoveKeeps DEF EndDeleteRoom, Move, ActorType, Stages, StartStages, EndStages, CloseStages, OtherStages
  <2>3. ActorInv(a)'
    BY <2>1, <2>2 DEF ActorInv, RowInv, Onward
  <2>4. QED
    BY <1>2, <2>1, <2>2, <2>3, QuietRows, StepOf DEF EndDeleteRoom
<1>3. CASE EndTxRead(a)
  <2>1. Onward
    BY <1>3, ProviderRests DEF EndTxRead, providerVars, ProviderType
  <2> DEFINE again == IF saw[a].session.status = "active" THEN session ELSE NoSession
             snap == [saw[a] EXCEPT !.meeting = meeting, !.session = again]
  <2>2. saw' = [saw EXCEPT ![a] = snap]
    BY <1>3 DEF EndTxRead, ActorType, Snapshots
  <2>3. /\ again \in SessionRows
        /\ again.status = "ended" => again.dated
        /\ RowInv(again)
        /\ again.status # "none" => saw[a].session.status # "none"
    BY DEF RowType, RowInv, NoSession, SessionRows
  <2> HIDE DEF again
  <2>4. snap \in Snapshots /\ snap.session = again
    BY <2>3 DEF ActorType, Snapshots, RowType
  <2> HIDE DEF snap
  <2>5. /\ ActorType' /\ pc[a] = "finish" /\ pc'[a] = "ending" /\ saw'[a] = snap
        /\ \A b \in Actors \ {a} : pc'[b] = pc[b] /\ saw'[b] = saw[b]
    BY <1>3, <2>2, <2>4, MoveKeeps DEF EndTxRead, Move, Stages, EndStages
  <2>6. ActorInv(a)'
    BY <2>1, <2>3, <2>4, <2>5 DEF ActorInv, RowInv, Onward
  <2>7. QED
    BY <1>3, <2>1, <2>5, <2>6, QuietRows, StepOf DEF EndTxRead
<1>4. CASE EndCommit(a)
  <2>1. Onward
    BY <1>4, ProviderRests DEF EndCommit, providerVars, ProviderType
  <2> DEFINE m == saw[a].meeting
             s == saw[a].session
  <2>2. m \in MeetingRows /\ s \in SessionRows
    BY DEF ActorType, Snapshots
  <2>3. /\ ActorType' /\ ActorInv(a)'
        /\ \A b \in Actors \ {a} : pc'[b] = pc[b] /\ saw'[b] = saw[b]
    <3>1. CASE saw[a].cancels
      <4>1. /\ ActorType' /\ pc'[a] = "cancel" /\ saw'[a] = saw[a]
            /\ \A b \in Actors \ {a} : pc'[b] = pc[b] /\ saw'[b] = saw[b]
        BY <1>4, <3>1, MoveKeeps DEF EndCommit, ActorType, Stages, OtherStages
      <4>2. ActorInv(a)'
        BY <2>1, <4>1 DEF ActorInv, RowInv, Onward
      <4>3. QED
        BY <4>1, <4>2
    <3>2. CASE ~saw[a].cancels
      BY <1>4, <3>2, ReturnKeeps DEF EndCommit
    <3>3. QED
      BY <3>1, <3>2
  <2>4. HookType' /\ HookInv'
    BY <1>4, <2>1 DEF EndCommit, HookType, HookInv, hookVars, Onward
  <2>5. meeting' \in MeetingRows /\ (meeting'.status = "active" => meeting' = meeting)
    BY <1>4, <2>2 DEF EndCommit, SaveMeeting, Ended, MeetingRows, RowType
  <2>6. CASE s.status # "none" /\ ~s.dated
    <3>1. session' = Ended(s) /\ fresh' = TRUE
      BY <1>4, <2>6 DEF EndCommit, SaveSession
    <3>2. session' \in SessionRows /\ session'.status = "ended" /\ session'.dated
      BY <2>2, <3>1 DEF Ended, SessionRows
    <3>3. RoomClosed
      BY <1>4, <2>6 DEF EndCommit, ActorInv
    <3>4. RowType' /\ MeetingInv' /\ RowInv(session)'
      BY <2>1, <2>5, <3>1, <3>2, <3>3 DEF RowType, MeetingInv, RowInv, Onward, RoomClosed, ProviderType
    <3>5. QED
      BY <1>4, <2>1, <2>3, <2>4, <3>4, StepOf DEF EndCommit
  <2>7. CASE ~(s.status # "none" /\ ~s.dated)
    <3>1. UNCHANGED <<session, fresh>>
      BY <1>4, <2>7 DEF EndCommit, KeepSession
    <3>2. RowType' /\ MeetingInv' /\ RowInv(session)'
      BY <2>1, <2>5, <3>1 DEF RowType, MeetingInv, RowInv, Onward
    <3>3. QED
      BY <1>4, <2>1, <2>3, <2>4, <3>2, StepOf DEF EndCommit
  <2>8. QED
    BY <2>6, <2>7
<1>5. QED
  BY <1>1, <1>2, <1>3, <1>4

LEMMA HookKeeps ==
  ASSUME IInv, NEW a \in Actors,
         HookRead(a) \/ HookCommit(a)
  PROVE  IInv'
<1> USE DEF IInv, TypeOK
<1>1. CASE HookRead(a)
  <2>1. Onward
    BY <1>1, ProviderRests DEF HookRead, providerVars, ProviderType
  <2>2. PICK e \in Emitted \ recorded :
          saw' = [saw EXCEPT ![a].session = session, ![a].event = e]
    BY <1>1 DEF HookRead
  <2> DEFINE snap == [saw[a] EXCEPT !.session = session, !.event = e]
  <2>3. snap \in Snapshots /\ saw' = [saw EXCEPT ![a] = snap]
    BY <2>2 DEF ActorType, Snapshots, RowType, Emitted
  <2>4. /\ ActorType' /\ pc'[a] = "hook" /\ saw'[a] = snap
        /\ \A b \in Actors \ {a} : pc'[b] = pc[b] /\ saw'[b] = saw[b]
    BY <1>1, <2>3, MoveKeeps DEF HookRead, Stages, OtherStages
  <2>5. snap.session = session /\ snap.event = e
    BY DEF ActorType, Snapshots
  <2> HIDE DEF snap
  <2>6. ActorInv(a)'
    BY <2>1, <2>2, <2>4, <2>5 DEF ActorInv, RowInv, Onward, RowType
  <2>7. QED
    BY <1>1, <2>1, <2>4, <2>6, QuietRows, StepOf DEF HookRead
<1>2. CASE HookCommit(a)
  <2>1. Onward
    BY <1>2, ProviderRests DEF HookCommit, providerVars, ProviderType
  <2>2. /\ ActorType' /\ ActorInv(a)'
        /\ \A b \in Actors \ {a} : pc'[b] = pc[b] /\ saw'[b] = saw[b]
    BY <1>2, ReturnKeeps DEF HookCommit
  <2> DEFINE e == saw[a].event
             s == saw[a].session
  <2>3. e \in Emitted /\ e \in HookEvents
    BY <1>2 DEF HookCommit, ActorInv, Emitted
  <2>4. CASE e \in recorded
    BY <1>2, <2>1, <2>2, <2>4, QuietRows, StepOf DEF HookCommit, KeepSession, rowVars
  <2>5. CASE e \notin recorded
    <3>1. /\ recorded' = recorded \cup {e}
          /\ announced' = [announced EXCEPT ![e] = @ + 1]
          /\ session' = Applied(e.kind, s) /\ fresh' = TRUE /\ meeting' = meeting
      BY <1>2, <2>5 DEF HookCommit, SaveSession
    <3>2. HookType'
      BY <2>1, <2>3, <3>1 DEF HookType, Onward
    <3>3. HookInv'
      BY <2>3, <2>5, <3>1 DEF HookInv, HookType
    <3>4. s \in SessionRows
      BY DEF ActorType, Snapshots
    <3>5. e.kind \in {"started", "finished"} /\ rooms > 0
      BY <2>3, MeetingSessionAssumption DEF Emitted, HookEvents, ProviderType
    <3>6. CASE e.kind = "started"
      <4>1. session' = [s EXCEPT !.status = "active"]
        BY <3>1, <3>6 DEF Applied
      <4>2. session' \in SessionRows /\ session'.status = "active" /\ session'.dated = s.dated
        BY <3>4, <4>1 DEF SessionRows
      <4>3. RowType' /\ MeetingInv' /\ RowInv(session)'
        BY <2>1, <3>1, <3>5, <4>2 DEF RowType, MeetingInv, RowInv, Onward, ActorInv
      <4>4. QED
        BY <1>2, <2>1, <2>2, <3>2, <3>3, <4>3, StepOf DEF HookCommit
    <3>7. CASE e.kind = "finished"
      <4>1. session' = Ended(s)
        BY <3>1, <3>7 DEF Applied
      <4>2. session' \in SessionRows /\ session'.status = "ended" /\ session'.dated
        BY <3>4, <4>1 DEF SessionRows, Ended
      <4>3. RoomClosed
        BY <2>3, <3>7, ClosedIsAnnounced
      <4>4. RowType' /\ MeetingInv' /\ RowInv(session)'
        BY <2>1, <3>1, <3>5, <4>2, <4>3 DEF RowType, MeetingInv, RowInv, Onward
      <4>5. QED
        BY <1>2, <2>1, <2>2, <3>2, <3>3, <4>4, StepOf DEF HookCommit
    <3>8. QED
      BY <3>5, <3>6, <3>7
  <2>6. QED
    BY <2>4, <2>5
<1>3. QED
  BY <1>1, <1>2

-----------------------------------------------------------------------------
(* Sweepers, failures and the provider.                                    *)

LEMMA SweepKeeps ==
  ASSUME IInv, NEW a \in Actors,
         SweepList(a) \/ SweepProbe(a) \/ SweepExpire(a)
           \/ CloseDeleteRoom(a) \/ CloseTxRead(a) \/ CloseCommit(a)
  PROVE  IInv'
<1> USE DEF IInv, TypeOK
<1>1. CASE SweepList(a)
  <2>1. Onward
    BY <1>1, ProviderRests DEF SweepList, providerVars, ProviderType
  <2>2. /\ ActorType' /\ pc[a] = "idle" /\ pc'[a] = "probe" /\ saw'[a] = saw[a]
        /\ \A b \in Actors \ {a} : pc'[b] = pc[b] /\ saw'[b] = saw[b]
    BY <1>1, MoveKeeps DEF SweepList, Move, ActorType, Stages, StartStages, EndStages, CloseStages, OtherStages
  <2>3. ActorInv(a)'
    BY <1>1, <2>1, <2>2 DEF SweepList, ActorInv, RowInv, Onward
  <2>4. QED
    BY <1>1, <2>1, <2>2, <2>3, QuietRows, StepOf DEF SweepList
<1>2. CASE SweepProbe(a)
  <2>1. Onward
    BY <1>2, ProviderRests DEF SweepProbe, providerVars, ProviderType
  <2>2. /\ ActorType' /\ ActorInv(a)'
        /\ \A b \in Actors \ {a} : pc'[b] = pc[b] /\ saw'[b] = saw[b]
    <3>1. CASE room
      BY <1>2, <3>1, ReturnKeeps DEF SweepProbe
    <3>2. CASE ~room
      <4>1. /\ ActorType' /\ pc[a] = "probe" /\ pc'[a] = "close" /\ saw'[a] = saw[a]
            /\ \A b \in Actors \ {a} : pc'[b] = pc[b] /\ saw'[b] = saw[b]
        BY <1>2, <3>2, MoveKeeps DEF SweepProbe, Move, ActorType, Stages, CloseStages
      <4>2. ActorInv(a)'
        BY <2>1, <4>1 DEF ActorInv, RowInv, Onward
      <4>3. QED
        BY <4>1, <4>2
    <3>3. QED
      BY <3>1, <3>2
  <2>3. QED
    BY <1>2, <2>1, <2>2, QuietRows, StepOf DEF SweepProbe
<1>3. CASE SweepExpire(a)
  <2>1. Onward
    BY <1>3, ProviderRests DEF SweepExpire, providerVars, ProviderType
  <2>2. /\ ActorType' /\ pc[a] = "idle" /\ pc'[a] = "close" /\ saw'[a] = saw[a]
        /\ \A b \in Actors \ {a} : pc'[b] = pc[b] /\ saw'[b] = saw[b]
    BY <1>3, MoveKeeps DEF SweepExpire, Move, ActorType, Stages, StartStages, EndStages, CloseStages, OtherStages
  <2>3. ActorInv(a)'
    BY <1>3, <2>1, <2>2 DEF SweepExpire, ActorInv, RowInv, Onward
  <2>4. QED
    BY <1>3, <2>1, <2>2, <2>3, QuietRows, StepOf DEF SweepExpire
<1>4. CASE CloseDeleteRoom(a)
  <2>1. Onward /\ (rooms > 0 => RoomClosed')
    BY <1>4, RoomDeleted DEF CloseDeleteRoom, providerVars, ProviderType
  <2>2. /\ ActorType' /\ pc[a] = "close" /\ pc'[a] = "closed" /\ saw'[a] = saw[a]
        /\ \A b \in Actors \ {a} : pc'[b] = pc[b] /\ saw'[b] = saw[b]
    BY <1>4, MoveKeeps DEF CloseDeleteRoom, Move, ActorType, Stages, StartStages, EndStages, CloseStages, OtherStages
  <2>3. ActorInv(a)'
    BY <2>1, <2>2 DEF ActorInv, RowInv, Onward
  <2>4. QED
    BY <1>4, <2>1, <2>2, <2>3, QuietRows, StepOf DEF CloseDeleteRoom
<1>5. CASE CloseTxRead(a)
  <2>1. Onward
    BY <1>5, ProviderRests DEF CloseTxRead, providerVars, ProviderType
  <2> DEFINE snap == [saw[a] EXCEPT !.meeting = meeting, !.session = session]
             to == "closing"
  <2>2. snap \in Snapshots /\ saw' = [saw EXCEPT ![a] = snap]
    BY <1>5 DEF CloseTxRead, ReadRows, ActorType, Snapshots, RowType
  <2>3. to \in Stages /\ pc[a] = "closed" /\ Move(a, "closed", to)
    BY <1>5 DEF CloseTxRead, Move, Stages, CloseStages
  <2>4. snap.session = session
    BY DEF ActorType, Snapshots
  <2> HIDE DEF snap, to
  <2>5. /\ ActorType' /\ pc'[a] = to /\ saw'[a] = snap
        /\ \A b \in Actors \ {a} : pc'[b] = pc[b] /\ saw'[b] = saw[b]
    BY <2>2, <2>3, MoveKeeps
  <2>6. ActorInv(a)'
    BY <2>1, <2>3, <2>4, <2>5 DEF to, ActorInv, RowInv, Onward, RowType, SessionRows, CloseStages
  <2>7. QED
    BY <1>5, <2>1, <2>5, <2>6, QuietRows, StepOf DEF CloseTxRead
<1>6. CASE CloseCommit(a)
  <2>1. Onward
    BY <1>6, ProviderRests DEF CloseCommit, providerVars, ProviderType
  <2> DEFINE m == saw[a].meeting
             s == saw[a].session
  <2>2. m \in MeetingRows /\ s \in SessionRows
    BY DEF ActorType, Snapshots
  <2>3. /\ ActorType' /\ ActorInv(a)'
        /\ \A b \in Actors \ {a} : pc'[b] = pc[b] /\ saw'[b] = saw[b]
    BY <1>6, ReturnKeeps DEF CloseCommit
  <2>4. HookType' /\ HookInv'
    BY <1>6, <2>1 DEF CloseCommit, HookType, HookInv, hookVars, Onward
  <2>5. meeting' \in MeetingRows /\ (meeting'.status = "active" => meeting' = meeting)
    BY <1>6, <2>2 DEF CloseCommit, SaveMeeting, Ended, MeetingRows, RowType
  <2>6. CASE ~s.dated
    <3>1. session' = Ended(s) /\ fresh' = TRUE
      BY <1>6, <2>6 DEF CloseCommit, SaveSession
    <3>2. session' \in SessionRows /\ session'.status = "ended" /\ session'.dated
      BY <2>2, <3>1 DEF Ended, SessionRows
    <3>3. RoomClosed
      BY <1>6 DEF CloseCommit, ActorInv
    <3>4. RowType' /\ MeetingInv' /\ RowInv(session)'
      BY <2>1, <2>5, <3>1, <3>2, <3>3 DEF RowType, MeetingInv, RowInv, Onward, RoomClosed, ProviderType
    <3>5. QED
      BY <1>6, <2>1, <2>3, <2>4, <3>4, StepOf DEF CloseCommit
  <2>7. CASE s.dated
    <3>1. UNCHANGED <<session, fresh>>
      BY <1>6, <2>7 DEF CloseCommit, KeepSession
    <3>2. RowType' /\ MeetingInv' /\ RowInv(session)'
      BY <2>1, <2>5, <3>1 DEF RowType, MeetingInv, RowInv, Onward
    <3>3. QED
      BY <1>6, <2>1, <2>3, <2>4, <3>2, StepOf DEF CloseCommit
  <2>8. QED
    BY <2>6, <2>7
<1>7. QED
  BY <1>1, <1>2, <1>3, <1>4, <1>5, <1>6

LEMMA FaultKeeps ==
  ASSUME IInv, NEW a \in Actors, Fault(a)
  PROVE  IInv'
<1> USE DEF IInv, TypeOK
<1>1. Onward
  BY ProviderRests DEF Fault, providerVars, ProviderType
<1>2. troubles' \in 0 .. MaxTroubles
  BY MeetingSessionAssumption DEF Fault
<1>3. /\ ActorType' /\ ActorInv(a)'
      /\ \A b \in Actors \ {a} : pc'[b] = pc[b] /\ saw'[b] = saw[b]
  BY ReturnKeeps DEF Fault
<1>4. QED
  BY <1>1, <1>2, <1>3, QuietRows, StepOf DEF Fault

LEMMA ProviderKeeps ==
  ASSUME IInv, Enter \/ Leave \/ EmptyTimeout
  PROVE  IInv'
<1> USE DEF IInv, TypeOK
<1>1. Onward
  <2>1. CASE Enter
    BY <2>1, RoomCreated DEF Enter
  <2>2. CASE Leave
    BY <2>2 DEF Leave, Onward, ProviderType, Emitted, RoomClosed
  <2>3. CASE EmptyTimeout
    BY <2>3, RoomDeleted DEF EmptyTimeout
  <2>4. QED
    BY <2>1, <2>2, <2>3
<1>2. UNCHANGED <<rowVars, hookVars, actorVars, troubles>>
  BY DEF Enter, Leave, EmptyTimeout
<1>3. RowType' /\ HookType' /\ HookInv' /\ MeetingInv' /\ RowInv(session)'
  BY <1>1, <1>2, QuietRows
<1>4. ActorType'
  BY <1>2 DEF ActorType, actorVars
<1>5. ASSUME NEW a \in Actors PROVE ActorInv(a)'
  BY <1>1, <1>2, ActorsKeep DEF actorVars
<1>6. QED
  BY <1>1, <1>2, <1>3, <1>4, <1>5 DEF Onward

LEMMA AgeKeeps ==
  ASSUME IInv, Age \/ UNCHANGED vars
  PROVE  IInv'
<1> USE DEF IInv, TypeOK
<1>1. /\ UNCHANGED <<meeting, session, providerVars, hookVars, actorVars, troubles>>
      /\ fresh' \in BOOLEAN
  BY DEF Age, vars, rowVars, RowType
<1>2. Onward
  BY <1>1, ProviderRests DEF providerVars, ProviderType
<1>3. RowType' /\ HookType' /\ HookInv' /\ MeetingInv' /\ RowInv(session)'
  BY <1>1, <1>2 DEF RowType, HookType, HookInv, MeetingInv, RowInv, Onward, hookVars
<1>4. ActorType'
  BY <1>1 DEF ActorType, actorVars
<1>5. ASSUME NEW a \in Actors PROVE ActorInv(a)'
  BY <1>1, <1>2, ActorsKeep DEF actorVars
<1>6. QED
  BY <1>1, <1>2, <1>3, <1>4, <1>5 DEF Onward

LEMMA InvStep == IInv /\ [Next]_vars => IInv'
<1> SUFFICES ASSUME IInv, [Next]_vars PROVE IInv'
  OBVIOUS
<1>1. ASSUME NEW a \in Requests, Begin(a) \/ Proceed(a) PROVE IInv'
  <2>1. a \in Actors
    BY DEF Actors
  <2>2. QED
    BY <1>1, <2>1, StartKeeps, JoinKeeps, EndKeeps, CancelKeeps, HookKeeps DEF Begin, Proceed
<1>2. ASSUME NEW a \in Sweepers, Sweep(a) PROVE IInv'
  <2>1. a \in Actors
    BY DEF Actors
  <2>2. QED
    BY <1>2, <2>1, SweepKeeps DEF Sweep
<1>3. ASSUME NEW a \in Actors, Fault(a) PROVE IInv'
  BY <1>3, FaultKeeps
<1>4. QED
  BY <1>1, <1>2, <1>3, ProviderKeeps, AgeKeeps DEF Next, Actors

-----------------------------------------------------------------------------

LEMMA Invariant == Spec => []IInv
BY InvInit, InvStep, PTL DEF Spec

\* Rows, room, webhooks and operations keep their shape.
THEOREM TypeCorrect == Spec => []TypeOK
<1>1. IInv => TypeOK
  BY DEF IInv
<1>2. QED
  BY <1>1, Invariant, PTL

\* An active meeting has a session, although every operation writes back whole
\* rows that it read before others changed them.
THEOREM ActiveMeetingHasSession == Spec => []ActiveHasSession
<1>1. IInv => ActiveHasSession
  BY DEF IInv, MeetingInv, ActiveHasSession
<1>2. QED
  BY <1>1, Invariant, PTL

\* An event of the provider is announced once, however often it is delivered.
THEOREM EventAnnouncedOnce == Spec => []AnnouncedOnce
<1>1. IInv => AnnouncedOnce
  BY DEF IInv, HookInv, AnnouncedOnce
<1>2. QED
  BY <1>1, Invariant, PTL

\* No operation ends a session before the provider has closed a room of it.
THEOREM SessionEndsAfterRoom == Spec => []EndedAfterRoom
<1>1. IInv => EndedAfterRoom
  BY ClosedIsAnnounced DEF IInv, TypeOK, RowInv, EndedAfterRoom
<1>2. QED
  BY <1>1, Invariant, PTL

\* Only a start that was under way when the meeting ended can revive it.
THEOREM MeetingOverForGood == Spec => OverForGood
<1> DEFINE Over == ~Open(meeting) /\ ~StartUnderWay
<1>1. ASSUME IInv, Over, [Next]_vars
      PROVE  Over'
  <2> USE DEF Open
  <2>1. ActorType /\ \A a \in Requests : a \in Actors /\ pc[a] \notin StartStages
    BY <1>1 DEF IInv, TypeOK, StartUnderWay, Actors
  <2>2. ASSUME NEW a \in Actors, NEW stage \in Stages \ StartStages,
               pc' = [pc EXCEPT ![a] = stage]
        PROVE  ~StartUnderWay'
    BY <2>1, <2>2 DEF StartUnderWay, ActorType
  <2>3. ASSUME NEW a \in Requests, Begin(a) PROVE Over'
    <3>1. UNCHANGED meeting /\ ~StartRead(a)
      BY <1>1, <2>3 DEF Begin, StartRead, JoinRead, EndRead, CancelRead, ExpireRead, HookRead, rowVars
    <3>2. \E stage \in Stages \ StartStages : pc' = [pc EXCEPT ![a] = stage]
      BY <2>3, <3>1 DEF Begin, JoinRead, EndRead, CancelRead, ExpireRead, HookRead, Move, EndEntry,
                        Stages, StartStages, EndStages, OtherStages
    <3>3. QED
      BY <1>1, <2>1, <2>2, <3>1, <3>2
  <2>4. ASSUME NEW a \in Requests, Proceed(a) PROVE Over'
    <3>1. ~StartCreateRoom(a) /\ ~StartTxRead(a) /\ ~StartCommit(a)
      BY <2>1 DEF StartCreateRoom, StartTxRead, StartCommit, Move, StartStages
    <3>2. saw[a].meeting \in MeetingRows /\ meeting \in MeetingRows
      BY <1>1, <2>1 DEF IInv, TypeOK, RowType, ActorType, Snapshots
    <3>3. ~Open(meeting')
      <4>1. CASE UNCHANGED meeting
        BY <1>1, <4>1
      <4>2. CASE EndCommit(a)
        BY <1>1, <3>2, <4>2 DEF EndCommit, SaveMeeting, Ended, MeetingRows
      <4>3. CASE CancelSave(a) \/ ExpireSave(a)
        BY <3>2, <4>3 DEF CancelSave, ExpireSave, SaveMeeting, MeetingRows
      <4>4. QED
        BY <2>4, <3>1, <4>1, <4>2, <4>3
           DEF Proceed, JoinIssue, EndDeleteRoom, EndTxRead, HookCommit, rowVars
    <3>4. \E stage \in Stages \ StartStages : pc' = [pc EXCEPT ![a] = stage]
      BY <2>4, <3>1 DEF Proceed, JoinIssue, EndDeleteRoom, EndTxRead, EndCommit, CancelSave,
                        ExpireSave, HookCommit, Return, Move,
                        Stages, StartStages, EndStages, OtherStages
    <3>5. QED
      BY <2>1, <2>2, <3>3, <3>4
  <2>5. ASSUME NEW a \in Sweepers, Sweep(a) PROVE Over'
    <3>1. a \in Actors /\ saw[a].meeting \in MeetingRows /\ meeting \in MeetingRows
      BY <1>1, <2>1 DEF IInv, TypeOK, RowType, ActorType, Snapshots, Actors
    <3>2. ~Open(meeting')
      BY <1>1, <2>5, <3>1
         DEF Sweep, SweepList, SweepProbe, SweepExpire, CloseDeleteRoom, CloseTxRead, CloseCommit,
             SaveMeeting, Ended, MeetingRows, rowVars
    <3>3. \E stage \in Stages \ StartStages : pc' = [pc EXCEPT ![a] = stage]
      BY <2>5 DEF Sweep, SweepList, SweepProbe, SweepExpire, CloseDeleteRoom, CloseTxRead,
                  CloseCommit, Return, Move, Stages, StartStages, CloseStages
    <3>4. QED
      BY <2>2, <3>1, <3>2, <3>3
  <2>6. ASSUME NEW a \in Actors, Fault(a) PROVE Over'
    <3>1. "idle" \in Stages \ StartStages
      BY DEF Stages, StartStages
    <3>2. QED
      BY <1>1, <2>2, <2>6, <3>1 DEF Fault, Return, rowVars
  <2>7. ASSUME Enter \/ Leave \/ EmptyTimeout \/ Age \/ UNCHANGED vars PROVE Over'
    BY <1>1, <2>7 DEF Enter, Leave, EmptyTimeout, Age, StartUnderWay, vars, rowVars, actorVars
  <2>8. QED
    BY <1>1, <2>3, <2>4, <2>5, <2>6, <2>7 DEF Next, Actors
<1>2. ASSUME IInv, [Next]_vars
      PROVE  [~Open(meeting) /\ ~StartUnderWay => ~Open(meeting') /\ ~StartUnderWay']_vars
  BY <1>1, <1>2 DEF Open
<1>3. QED
  BY <1>2, Invariant, PTL DEF Spec, OverForGood
=============================================================================
