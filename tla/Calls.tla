------------------------------- MODULE Calls -------------------------------
(***************************************************************************)
(* Calling the other member of a direct conversation: the dialling of      *)
(* apps/app/(platform)/chat/page.tsx and apps/lib/api/calls.ts, the store  *)
(* of apps/lib/call-store.ts, the notifications of                         *)
(* incoming-call-notification.tsx, the event stream of                     *)
(* hooks/use-call-sse.ts, and the server's server/src/routes/calls.go.     *)
(*                                                                         *)
(* A call is dialled in one page: a meeting is made, the invitation is     *)
(* sent by a request and, once that has ended, once more by a frame of the *)
(* realtime connection.  The server keeps invitations and streams in       *)
(* memory, one stream per user; an event for a user without one is lost.   *)
(* Only the chat page listens.  Calls are numbered in the order they are   *)
(* dialled, and a call's meeting has its number.                           *)
(***************************************************************************)
EXTENDS Naturals, FiniteSets

CONSTANTS
    User,         \* the conversation's two members, one page each
    Caller,       \* bound: those of them who dial
    MaxCalls,     \* bound: calls ever dialled
    MaxStreams,   \* bound: handleSSE running at once, for each user
    MaxAsks,      \* bound: answers of one user under way at once
    MaxCallTroubles  \* bound: requests and frames lost, restarts of the server

ASSUME CallBounds ==
    /\ Cardinality(User) = 2 /\ "nobody" \notin User /\ Caller \subseteq User
    /\ MaxCalls \in Nat \ {0} /\ MaxStreams \in [User -> Nat \ {0}]
    /\ MaxAsks \in Nat \ {0} /\ MaxCallTroubles \in Nat

VARIABLES
    page,            \* the chat page, a page without calls, the room
    stream,          \* the page's EventSource: its connection, 0 for none
    shut,            \* the EventSource was refused: it does not connect again
    handlers,        \* connections whose handleSSE is running
    sseClients,      \* the server's map: the connection it writes to
    callInvitations, \* the server's map, from ids to statuses
    from,            \* who dialled each call
    dial,            \* launchCall under way
    frames,          \* call_invitation frames under way
    incomingCalls,   \* the store's notifications, by id
    outgoing,        \* the store's outgoing invitation of the conversation
    activeCall,      \* activeCallConversationId is the conversation
    asks,            \* accept and reject requests under way
    room,            \* the room the page has gone to, and as whom
    went,            \* history: the meeting a call's caller went to
    failed,          \* history: calls a request or frame of which was lost
    rings,           \* history: how many bells of each call have begun to ring
    answered,        \* history: calls a bell of which was answered on its page
    early,           \* history: calls a bell of which went before its frame came
    absent,          \* history: calls whose frame found no chat page
    callTroubles     \* troubles so far

callServerVars == <<handlers, sseClients, callInvitations>>
storeVars == <<incomingCalls, outgoing, activeCall>>
pageVars == <<page, stream, shut, room>>
ringHistory == <<rings, answered, early, absent>>
callsVars == <<callServerVars, storeVars, pageVars, from, dial, frames, asks, went,
               failed, ringHistory, callTroubles>>

Call == 1..MaxCalls
\* An invitation's id: the one the page makes up when the request has failed
\* ("local-"), the first request's, the second's.
InvitationId == [call : Call, nth : 0..2]
IdOf(c, n) == [call |-> c, nth |-> n]
Verb == {"accept", "reject"}
Status == {"none", "pending", "accept", "reject"}
AskType == [verb : Verb, id : InvitationId, state : {"sent", "ok", "failed"}]
NotDialling == [call |-> 0, step |-> "no"]

Other(u) == CHOOSE v \in User : v # u
Callee(c) == Other(from[c])

\* The meeting a caller makes when dialling has failed: nobody is invited to it.
Alone(c) == MaxCalls + c
Nowhere == [meeting |-> 0, as |-> CHOOSE u \in User : TRUE]

CallsTypeOK ==
    /\ page \in [User -> {"chat", "away", "room"}]
    /\ handlers \subseteq User \X Nat
    /\ stream \in [User -> Nat] /\ sseClients \in [User -> Nat]
    /\ callInvitations \in [InvitationId -> Status]
    /\ from \in [Call -> User \cup {"nobody"}]
    /\ dial \in [User -> [call : Call, step : {"meeting", "invite", "invited",
                                               "again", "stored"}] \cup {NotDialling}]
    /\ frames \subseteq InvitationId
    /\ incomingCalls \in [User -> SUBSET InvitationId]
    /\ outgoing \in [User -> BOOLEAN] /\ activeCall \in [User -> BOOLEAN]
    /\ asks \in [User -> SUBSET AskType]
    /\ room \in [User -> [meeting : 0..2 * MaxCalls, as : User]]
    /\ went \in [Call -> 0..2 * MaxCalls]
    /\ failed \subseteq Call /\ callTroubles \in 0..MaxCallTroubles
    /\ shut \in [User -> BOOLEAN]
    /\ rings \in [Call -> Nat]
    /\ answered \subseteq Call /\ early \subseteq Call /\ absent \subseteq Call
    /\ \A h \in handlers : h[2] \in 1..MaxStreams[h[1]]
    /\ \A u \in User :
         /\ {stream[u], sseClients[u]} \subseteq 0..MaxStreams[u]
         /\ stream[u] # 0 => page[u] = "chat"
         /\ sseClients[u] # 0 => <<u, sseClients[u]>> \in handlers
         /\ (page[u] = "room") = (room[u].meeting # 0)

CallsInit ==
    /\ page = [u \in User |-> "chat"]
    /\ stream = [u \in User |-> 0]
    /\ handlers = {}
    /\ sseClients = [u \in User |-> 0]
    /\ callInvitations = [id \in InvitationId |-> "none"]
    /\ from = [c \in Call |-> "nobody"]
    /\ dial = [u \in User |-> NotDialling]
    /\ frames = {}
    /\ incomingCalls = [u \in User |-> {}]
    /\ outgoing = [u \in User |-> FALSE]
    /\ activeCall = [u \in User |-> FALSE]
    /\ asks = [u \in User |-> {}]
    /\ room = [u \in User |-> Nowhere]
    /\ went = [c \in Call |-> 0]
    /\ failed = {} /\ callTroubles = 0
    /\ shut = [u \in User |-> FALSE]
    /\ rings = [c \in Call |-> 0]
    /\ answered = {} /\ early = {} /\ absent = {}

-----------------------------------------------------------------------------
(* The event streams. *)

CallTrouble == callTroubles < MaxCallTroubles /\ callTroubles' = callTroubles + 1

\* An event the server writes for a user comes to the page: sendSSEEvent writes
\* to one connection, and it is the one the page reads.
Reachable(u) == sseClients[u] # 0 /\ sseClients[u] = stream[u]

\* The chat page opens its EventSource, or the browser opens it again.
OpenStream(u) ==
    /\ page[u] = "chat" /\ stream[u] = 0 /\ ~shut[u]
    /\ \E k \in 1..MaxStreams[u] :
         /\ <<u, k>> \notin handlers
         /\ \A j \in 1..(k - 1) : <<u, j>> \in handlers
         /\ stream' = [stream EXCEPT ![u] = k]
         /\ handlers' = handlers \cup {<<u, k>>}
         /\ sseClients' = [sseClients EXCEPT ![u] = k]
    /\ UNCHANGED <<callInvitations, storeVars, page, shut, room, from, dial, frames, asks,
                   went, failed, ringHistory, callTroubles>>

\* The answer is not a stream: the browser does not ask again, and the hook only logs.
StreamRefused(u) ==
    /\ page[u] = "chat" /\ stream[u] = 0 /\ ~shut[u]
    /\ CallTrouble
    /\ shut' = [shut EXCEPT ![u] = TRUE]
    /\ UNCHANGED <<callServerVars, storeVars, page, stream, room, from, dial, frames, asks,
                   went, failed, ringHistory>>

\* The page finds the connection broken; the server may not yet.
StreamBreaks(u) ==
    /\ stream[u] # 0
    /\ stream' = [stream EXCEPT ![u] = 0]
    /\ UNCHANGED <<callServerVars, storeVars, page, shut, room, from, dial, frames, asks,
                   went, failed, ringHistory, callTroubles>>

\* A handler ends, when the server finds the connection broken or left.  It removes
\* the user's entry, whichever connection that is.
HandlerEnds(u, k) ==
    /\ <<u, k>> \in handlers
    /\ handlers' = handlers \ {<<u, k>>}
    /\ sseClients' = [sseClients EXCEPT ![u] = 0]
    /\ stream' = [stream EXCEPT ![u] = IF @ = k THEN 0 ELSE @]
    /\ UNCHANGED <<callInvitations, storeVars, page, shut, room, from, dial, frames, asks,
                   went, failed, ringHistory, callTroubles>>

Restart ==
    /\ CallTrouble
    /\ handlers' = {}
    /\ sseClients' = [u \in User |-> 0]
    /\ stream' = [u \in User |-> 0]
    /\ callInvitations' = [id \in InvitationId |-> "none"]
    /\ UNCHANGED <<storeVars, page, shut, room, from, dial, frames, asks, went, failed,
                   ringHistory>>

-----------------------------------------------------------------------------
(* The pages. *)

\* The page leaves the chat: useCallSSE is unmounted with it, the store is not.
LeaveChat(u) ==
    /\ page[u] = "chat"
    /\ page' = [page EXCEPT ![u] = "away"]
    /\ stream' = [stream EXCEPT ![u] = 0] /\ shut' = [shut EXCEPT ![u] = FALSE]
    /\ UNCHANGED <<callServerVars, storeVars, room, from, dial, frames, asks, went, failed,
                   ringHistory, callTroubles>>

BackToChat(u) ==
    /\ page[u] # "chat"
    /\ page' = [page EXCEPT ![u] = "chat"]
    /\ room' = [room EXCEPT ![u] = Nowhere]
    /\ UNCHANGED <<callServerVars, storeVars, stream, shut, from, dial, frames, asks, went,
                   failed, ringHistory, callTroubles>>

GoToRoom(u, meeting, as) ==
    /\ page' = [page EXCEPT ![u] = "room"]
    /\ stream' = [stream EXCEPT ![u] = 0] /\ shut' = [shut EXCEPT ![u] = FALSE]
    /\ room' = [room EXCEPT ![u] = [meeting |-> meeting, as |-> as]]

-----------------------------------------------------------------------------
(* Dialling: launchCall and createMeetingAndInvite. *)

Dialled(u, step) == dial' = [dial EXCEPT ![u].step = step]

\* The buttons are disabled in a conversation that is the active call's.
Dial(u) ==
    /\ u \in Caller
    /\ page[u] = "chat" /\ dial[u] = NotDialling /\ ~activeCall[u]
    /\ \E c \in Call :
         /\ from[c] = "nobody"
         /\ \A b \in 1..(c - 1) : from[b] # "nobody"
         /\ from' = [from EXCEPT ![c] = u]
         /\ dial' = [dial EXCEPT ![u] = [call |-> c, step |-> "meeting"]]
    /\ outgoing' = [outgoing EXCEPT ![u] = TRUE]
    /\ UNCHANGED <<callServerVars, incomingCalls, activeCall, pageVars, frames, asks, went,
                   failed, ringHistory, callTroubles>>

\* The meeting is made and started, and both tokens are there.
MeetingMade(u) ==
    /\ dial[u].step = "meeting"
    /\ Dialled(u, "invite")
    /\ UNCHANGED <<callServerVars, storeVars, pageVars, from, frames, asks, went, failed,
                   ringHistory, callTroubles>>

\* addIncomingCall: the store keeps one notification of an id.
Ring(v, id) ==
    /\ incomingCalls' = [incomingCalls EXCEPT ![v] = @ \cup {id}]
    /\ rings' = [rings EXCEPT ![id.call] = IF id \in incomingCalls[v] THEN @ ELSE @ + 1]

\* handleSendCallInvite, for the first request and for the second.
InviteHandled(u) ==
    /\ dial[u].step \in {"invite", "again"}
    /\ LET c == dial[u].call
           id == IdOf(c, IF dial[u].step = "invite" THEN 1 ELSE 2)
           v == Callee(c)
       IN /\ callInvitations' = [callInvitations EXCEPT ![id] = "pending"]
          /\ IF Reachable(v) THEN Ring(v, id) ELSE UNCHANGED <<incomingCalls, rings>>
    /\ Dialled(u, IF dial[u].step = "invite" THEN "invited" ELSE "stored")
    /\ UNCHANGED <<handlers, sseClients, outgoing, activeCall, pageVars, from, frames, asks,
                   went, failed, answered, early, absent, callTroubles>>

\* Mutant: a request that fails ends launchCall.
InviteFailsForGood(u) ==
    /\ dial[u].step \in {"invite", "invited"}
    /\ CallTrouble
    /\ failed' = failed \cup {dial[u].call}
    /\ dial' = [dial EXCEPT ![u] = NotDialling]
    /\ UNCHANGED <<callServerVars, storeVars, pageVars, from, frames, asks, went,
                   ringHistory>>

\* The first request fails, before or after the server has handled it.
InviteFails(u) ==
    /\ dial[u].step \in {"invite", "invited"}
    /\ CallTrouble
    /\ failed' = failed \cup {dial[u].call}
    /\ Dialled(u, "again")
    /\ UNCHANGED <<callServerVars, storeVars, pageVars, from, frames, asks, went,
                   ringHistory>>

\* Anything else fails: launchCall goes to a meeting of its own, made here or by
\* the room's page.
Fallback(u) ==
    /\ dial[u].step \in {"meeting", "again", "stored"}
    /\ CallTrouble
    /\ failed' = failed \cup {dial[u].call}
    /\ outgoing' = [outgoing EXCEPT ![u] = FALSE]
    /\ GoToRoom(u, Alone(dial[u].call), u)
    /\ went' = [went EXCEPT ![dial[u].call] = Alone(dial[u].call)]
    /\ dial' = [dial EXCEPT ![u] = NotDialling]
    /\ UNCHANGED <<callServerVars, incomingCalls, activeCall, from, frames, asks,
                   ringHistory>>

\* Mutant: the frame always carries an id the page has made up.
FrameIdMadeUp(u) == IdOf(dial[u].call, 0)

\* The frame carries the id the first answer names, or the one made up for it.
FrameId(u) == IdOf(dial[u].call, IF dial[u].step = "invited" THEN 1 ELSE 0)

\* Mutant: the caller asks for credentials again, and gets another meeting's.
MeetingAskedAgain(u) == Alone(dial[u].call)

MeetingDialled(u) == dial[u].call

\* The request's answer has come.  The frame is sent, if the realtime connection
\* is open, and the page goes to the room.
Go(u) ==
    /\ dial[u].step \in {"invited", "stored"}
    /\ \/ /\ frames' = frames \cup {FrameId(u)}
          /\ UNCHANGED <<callTroubles, failed>>
       \/ /\ CallTrouble
          /\ failed' = failed \cup {dial[u].call}
          /\ UNCHANGED frames
    /\ GoToRoom(u, MeetingDialled(u), u)
    /\ went' = [went EXCEPT ![dial[u].call] = MeetingDialled(u)]
    /\ dial' = [dial EXCEPT ![u] = NotDialling]
    /\ UNCHANGED <<callServerVars, storeVars, from, asks, ringHistory>>

\* Mutant: the frame is for pages without a stream.
HeardWithoutStream(v) == page[v] = "chat" /\ ~Reachable(v)

\* A chat page adds the notification of a frame, and no other page does.
Heard(v) == page[v] = "chat"

\* The hub publishes the frame in the workspace, and it comes to the page.
FrameArrives(id) ==
    /\ id \in frames
    /\ frames' = frames \ {id}
    /\ IF Heard(Callee(id.call))
       THEN Ring(Callee(id.call), id)
       ELSE UNCHANGED <<incomingCalls, rings>>
    /\ absent' = IF page[Callee(id.call)] = "chat" THEN absent ELSE absent \cup {id.call}
    /\ UNCHANGED <<callServerVars, outgoing, activeCall, pageVars, from, dial, asks, went,
                   failed, answered, early, callTroubles>>

-----------------------------------------------------------------------------
(* Answering. *)

\* handleAccept and handleReject of a notification on the page.
Answer(u, verb, id) ==
    /\ page[u] = "chat" /\ id \in incomingCalls[u]
    /\ Cardinality(asks[u]) < MaxAsks
    /\ \A a \in asks[u] : a.id # id \/ a.verb # verb
    /\ asks' = [asks EXCEPT ![u] = @ \cup {[verb |-> verb, id |-> id, state |-> "sent"]}]
    /\ UNCHANGED <<callServerVars, storeVars, pageVars, from, dial, frames, went, failed,
                   ringHistory, callTroubles>>

Becomes(u, a, state) ==
    asks' = [asks EXCEPT ![u] = (@ \ {a}) \cup {[a EXCEPT !.state = state]}]

\* handleAcceptCall and handleRejectCall: an id the server does not know is a 404;
\* otherwise the status is replaced, whatever it was, and the caller is told.
AnswerHandled(u, a) ==
    /\ a \in asks[u] /\ a.state = "sent"
    /\ IF callInvitations[a.id] = "none"
       THEN Becomes(u, a, "failed") /\ UNCHANGED <<callInvitations, outgoing>>
       ELSE /\ Becomes(u, a, "ok")
            /\ callInvitations' = [callInvitations EXCEPT ![a.id] = a.verb]
            /\ outgoing' = IF Reachable(from[a.id.call])
                           THEN [outgoing EXCEPT ![from[a.id.call]] = FALSE]
                           ELSE outgoing
    /\ UNCHANGED <<handlers, sseClients, incomingCalls, activeCall, pageVars, from, dial,
                   frames, went, failed, ringHistory, callTroubles>>

AnswerLost(u, a) ==
    /\ a \in asks[u] /\ a.state \in {"sent", "ok"}
    /\ CallTrouble
    /\ Becomes(u, a, "failed")
    /\ UNCHANGED <<callServerVars, storeVars, pageVars, from, dial, frames, went, failed,
                   ringHistory>>

\* The frame of the call's invitation has not come.
FrameToCome(c) == went[c] = 0 \/ \E id \in frames : id.call = c

\* A notification goes with its answer.
RingsNoMore(u, id) ==
    /\ incomingCalls' = [incomingCalls EXCEPT ![u] = @ \ {id}]
    /\ answered' = answered \cup {id.call}
    /\ early' = IF FrameToCome(id.call) THEN early \cup {id.call} ELSE early
    /\ UNCHANGED <<rings, absent>>

\* The identity a token lets in: both tokens are asked for with the caller's own
\* access token, and the server mints a token for whoever asks.
TokenIdentity(c) == from[c]

\* acceptCall makes the conversation the active call, which nothing undoes, if the
\* notification is still there; the page goes to the room in any case.
Accepted(u, a) ==
    /\ a \in asks[u] /\ a.verb = "accept" /\ a.state = "ok"
    /\ asks' = [asks EXCEPT ![u] = @ \ {a}]
    /\ RingsNoMore(u, a.id)
    /\ activeCall' = [activeCall EXCEPT ![u] = @ \/ a.id \in incomingCalls[u]]
    /\ GoToRoom(u, a.id.call, TokenIdentity(a.id.call))
    /\ UNCHANGED <<callServerVars, outgoing, from, dial, frames, went, failed,
                   callTroubles>>

\* The notification stays: the user may try again, or reject.
AcceptFailed(u, a) ==
    /\ a \in asks[u] /\ a.verb = "accept" /\ a.state = "failed"
    /\ asks' = [asks EXCEPT ![u] = @ \ {a}]
    /\ UNCHANGED <<callServerVars, storeVars, pageVars, from, dial, frames, went, failed,
                   ringHistory, callTroubles>>

Rejected(u, a) ==
    /\ a \in asks[u] /\ a.verb = "reject" /\ a.state \in {"ok", "failed"}
    /\ asks' = [asks EXCEPT ![u] = @ \ {a}]
    /\ RingsNoMore(u, a.id)
    /\ UNCHANGED <<callServerVars, outgoing, activeCall, pageVars, from, dial, frames, went,
                   failed, callTroubles>>

-----------------------------------------------------------------------------
Dialling(u) ==
    \/ MeetingMade(u) \/ InviteHandled(u) \/ InviteFails(u)
    \/ Fallback(u) \/ Go(u)

Streams(u) ==
    \/ OpenStream(u) \/ StreamRefused(u) \/ StreamBreaks(u)
    \/ \E k \in 1..MaxStreams[u] : HandlerEnds(u, k)

CallsNext ==
    \/ Restart
    \/ \E id \in frames : FrameArrives(id)
    \/ \E u \in User :
         \/ Streams(u)
         \/ LeaveChat(u) \/ BackToChat(u)
         \/ Dial(u) \/ Dialling(u)
         \/ \E verb \in Verb, id \in incomingCalls[u] : Answer(u, verb, id)
         \/ \E a \in asks[u] :
              \/ AnswerHandled(u, a) \/ AnswerLost(u, a)
              \/ Accepted(u, a) \/ AcceptFailed(u, a) \/ Rejected(u, a)

CallsSpec == CallsInit /\ [][CallsNext]_callsVars

\* The requests of launchCall end, one way or the other.  No fairness is assumed of the
\* streams: nothing makes a handler end, or a refused EventSource connect again.
CallsFairSpec == CallsSpec /\ \A u \in Caller : WF_callsVars(Dialling(u))

-----------------------------------------------------------------------------
(* Properties. *)

\* A call none of whose requests and frames was lost never rings twice at once, and
\* rings once in all, unless its notification was answered before the frame came, which
\* then rings again: the frame repeats the id of the stored invitation
\* (chat/page.tsx:422-439, call-store.ts:41-47).
RingsOnce ==
    \A c \in Call \ failed :
        /\ \A u \in User : Cardinality({id \in incomingCalls[u] : id.call = c}) <= 1
        /\ c \notin early => rings[c] <= 1

\* Such a call has rung, and its notification is there until it is answered, once the
\* caller has gone and the frame has come to a chat page: whether or not the page's
\* stream was refused, broken, or robbed of its entry by the handler of an older one
\* (calls.go:79-83, use-call-sse.ts:153-166, 177-205).
RingsOnChat ==
    \A c \in Call \ failed :
        ~FrameToCome(c) =>
            \/ c \in answered \cup absent
            \/ \E id \in incomingCalls[Callee(c)] : id.call = c

\* Whoever accepts a call is in the meeting its caller has gone to, unless a
\* request of the caller's failed: an invitation whose answer was lost still
\* rings, while the caller goes elsewhere (chat/page.tsx:404-416, 454-488).
TogetherUnlessFailed ==
    \A u \in User : \A c \in Call \ failed :
        room[u].meeting = c /\ went[c] # 0 => went[c] = c

\* A user who dials comes to a room, whatever fails (chat/page.tsx:376-489).
DialEnds == \A u \in Caller : dial[u] # NotDialling ~> page[u] = "room"

\* "4. Get join token for the callee" (calls.ts:133): whoever is in a room is in
\* it as themselves.
OwnIdentity == \A u \in User : room[u].meeting # 0 => room[u].as = u

=============================================================================
