----------------------------- MODULE ChatClient -----------------------------
(***************************************************************************)
(* The chat page and its store (apps/app/(platform)/chat/page.tsx,         *)
(* apps/lib/chat-store.ts, apps/lib/api/chat-service.ts) over the realtime *)
(* connection: what one conversation, a channel, looks like to the user,   *)
(* against what the server stores.                                         *)
(*                                                                         *)
(* Every change is learnt by loading a list again: after an event, after a *)
(* change of the connection, when the conversation comes to be shown.      *)
(* Nothing numbers the loads: the answer that comes last wins.  The        *)
(* answers of the user's own requests are put into the list as they come.  *)
(***************************************************************************)
EXTENDS RealtimeClient, FiniteSets

CONSTANTS
    MaxPosts,     \* bound: messages ever posted
    MaxChanges,   \* bound: edits and deletions, joins and leaves, the page's
                  \* returns to the workspace
    MaxLoads      \* bound: loads under way at once
                  \* (and one request of the user's own, and one event not
                  \* yet published, at a time)

ASSUME ChatBounds ==
    /\ MaxPipe \in Nat \ {0} /\ MaxTroubles \in Nat
    /\ MaxPosts \in Nat /\ MaxChanges \in Nat /\ MaxLoads \in Nat \ {0}

VARIABLES
    stored,    \* the conversation's messages in the table, newest first
    posted,    \* messages posted so far
    access,    \* the user's: not yet, as a member, as its creator (a member or
               \* not: who created it keeps access), no longer
    pending,   \* the event of a committed change, not yet published
    list,      \* messages[conversation] of the store
    listed,    \* the conversation is in the store's list
    active,    \* it is the activeConversationId
    asked,     \* loads sent: of messages, of conversations
    reads,     \* answers under way of loads of messages, in order of reading
    listReads, \* answers under way of loads of conversations
    own,       \* the user's own request, if there is one
    changes,   \* changes so far
    excused,   \* history: why the messages shown may be behind
    listExcused \* history: why the list of conversations may be behind

serverVars == <<stored, posted, access, pending>>
viewVars == <<list, listed, active>>
loadVars == <<asked, reads, listReads>>
history == <<excused, listExcused>>
chatVars == <<serverVars, viewVars, loadVars, own, changes, history>>
chatClientVars == <<rtVars, chatVars>>

Id == 1..MaxPosts
Message == [id : Id, ver : 0..MaxChanges]

\* An event of a committed change, and the request of the user's that waits for
\* its publication.
Event == [kind : Kind, mine : BOOLEAN]

\* A list that was read, and whether what is shown has moved on since.
Read == [snap : Seq(Message), overtaken : BOOLEAN]
ListRead == [has : BOOLEAN, overtaken : BOOLEAN]

Load == {"messages", "conversations"}
InFlight == asked["messages"] + asked["conversations"] + Len(reads) + Len(listReads)
NoMessage == [id |-> 0, ver |-> 0]
Idle == [what |-> "nothing", stored |-> FALSE, msg |-> NoMessage]
Request == [what : {"nothing", "send", "edit", "create", "leave"}, stored : BOOLEAN,
            msg : Message \cup {NoMessage}]

ChatTypeOK ==
    /\ RealtimeTypeOK
    /\ stored \in Seq(Message) /\ list \in Seq(Message)
    /\ posted \in 0..MaxPosts /\ changes \in 0..MaxChanges
    /\ access \in {"not yet", "member", "creator", "left"}
    /\ listed \in BOOLEAN /\ active \in BOOLEAN
    /\ pending \in Seq(Event)
    /\ asked \in [Load -> 0..MaxLoads]
    /\ reads \in Seq(Read) /\ listReads \in Seq(ListRead)
    /\ InFlight <= MaxLoads
    /\ own \in Request
    /\ excused \in BOOLEAN /\ listExcused \in BOOLEAN

\* The page has mounted with the conversation it showed last (the store persists
\* its id), and has asked for the conversations.
ChatInit ==
    /\ RealtimeInit
    /\ stored = <<>> /\ posted = 0 /\ changes = 0
    /\ access \in {"not yet", "member"}
    /\ pending = <<>>
    /\ list = <<>>
    /\ listed = FALSE
    /\ active \in BOOLEAN
    /\ asked = [messages |-> 0, conversations |-> 1]
    /\ reads = <<>> /\ listReads = <<>>
    /\ own = Idle
    /\ excused = FALSE /\ listExcused = FALSE

-----------------------------------------------------------------------------
Has == access \in {"member", "creator"}
Shown == listed /\ active

\* The effects of this step ask for the loads in S.
Ask(S) ==
    /\ S # {} => InFlight + Cardinality(S) <= MaxLoads
    /\ asked' = [load \in Load |-> asked[load] + IF load \in S THEN 1 ELSE 0]

\* The effect on `conversation?.id` loads the messages of one that comes to be shown.
AskIfShownNow ==
    IF ~Shown /\ listed' /\ active' THEN Ask({"messages"}) ELSE UNCHANGED asked

Without(s, k) == SubSeq(s, 1, k - 1) \o SubSeq(s, k + 1, Len(s))
Ids(s) == {s[k].id : k \in DOMAIN s}
Messages(s) == {s[k] : k \in DOMAIN s}

\* The history of why the view may be behind ends when it is current.
Judge(messagesMay, conversationsMay) ==
    /\ excused' = (list' # stored' /\ (excused \/ messagesMay))
    /\ listExcused' = (listed' # Has' /\ (listExcused \/ conversationsMay))
AsJudged == Judge(FALSE, FALSE)

Overtaken(rs, Stale(_)) ==
    [k \in DOMAIN rs |-> [rs[k] EXCEPT !.overtaken = @ \/ Stale(rs[k])]]

\* What would have brought a change to the list does not: an event that is not
\* published or that no effect acts upon, a load that fails.  Answers read before
\* the change are not made up for.
Unheard(kind) ==
    LET OldMessages(r) == kind \in MessageKind /\ r.snap # stored
        OldList(r) == kind = "conversation" /\ r.has # Has
    IN /\ reads' = Overtaken(reads, OldMessages)
       /\ listReads' = Overtaken(listReads, OldList)
       /\ Judge(kind \in MessageKind, kind = "conversation")

-----------------------------------------------------------------------------
(* The connection and its events.                                          *)

\* Mutant: a connection that comes back loads nothing.
ReloadMissed == UNCHANGED asked

\* A change of the connection gives `apiUser` another identity: the page loads
\* the conversations, and the messages of the one it shows.
Reload ==
    IF Flips THEN Ask({"conversations"} \cup IF Shown THEN {"messages"} ELSE {})
    ELSE UNCHANGED asked

Reconnect ==
    /\ Opened \/ Refused \/ Retry
    /\ Reload
    /\ UNCHANGED <<serverVars, viewVars, reads, listReads, own, changes, history>>

ConnectionStep ==
    /\ SubscribeRead \/ SubscribeDropped \/ Dropped \/ PageHidden \/ TokenExpires \/ TokensCleared
    /\ Reload
    /\ UNCHANGED <<serverVars, viewVars, reads, listReads, own, changes, history>>

MembersPolled == Poll /\ UNCHANGED chatVars
RenewedByCookie == PollByCookie /\ UNCHANGED chatVars

\* With the workspace and the user loaded again, so is everything else: an event
\* that has not been rendered asks for nothing more.
Placed ==
    /\ changes < MaxChanges
    /\ changes' = changes + 1
    /\ EffectAgain
    /\ Ask({"conversations"} \cup IF Shown THEN {"messages"} ELSE {})
    /\ UNCHANGED <<serverVars, viewVars, reads, listReads, own, history>>

\* The server publishes the event of a committed change.  Whoever has no
\* subscription does not get it: a page that knows it is disconnected will load
\* everything when it is back, another will not.
Publish ==
    /\ pending # <<>>
    /\ Push(Head(pending).kind)
    /\ pending' = <<>>
    /\ UNCHANGED <<stored, posted, access, viewVars, asked, own, changes>>
    /\ IF subscription # "held" /\ uiConnected THEN Unheard(Head(pending).kind)
       ELSE UNCHANGED <<reads, listReads, history>>

\* Publish fails, or is not reached: nobody asks for its error, and the answer is
\* the same.
PublishFails ==
    /\ pending # <<>>
    /\ Trouble
    /\ pending' = <<>>
    /\ UNCHANGED <<sock, connected, uiConnected, timer, intentional, subscription,
                   pipe, last, token, opened, stranded>>
    /\ UNCHANGED <<stored, posted, access, viewVars, asked, own, changes>>
    /\ IF uiConnected THEN Unheard(Head(pending).kind)
       ELSE UNCHANGED <<reads, listReads, history>>

\* Somebody types, a status changes.
Noise ==
    /\ subscription = "held" /\ pipe = <<>> /\ last \notin {"none", "other"}
    /\ Push("other")
    /\ UNCHANGED chatVars

LoadOf(kind) ==
    CASE kind = "message.changed" -> {"messages"}
      [] kind = "conversation" -> {"conversations"}
      [] OTHER -> {}

\* An event that replaces one not yet rendered.
ReceiveEvent ==
    /\ Receive
    /\ UNCHANGED <<serverVars, viewVars, asked, own, changes>>
    /\ IF last = "none" \/ (LoadOf(last) # {} /\ LoadOf(last) = LoadOf(last'))
       THEN UNCHANGED <<reads, listReads, history>> ELSE Unheard(last)

\* The page's effect on lastRealtimeEvent; it has no case for a deletion.
RenderEvent ==
    /\ Rendered
    /\ Ask(LoadOf(last))
    /\ UNCHANGED <<serverVars, viewVars, own, changes>>
    /\ IF LoadOf(last) = {} THEN Unheard(last)
       ELSE UNCHANGED <<reads, listReads, history>>

-----------------------------------------------------------------------------
(* Loads: getMessages and getConversations, loadMessages and loadChatData. *)

\* The server reads.  Who has no access is refused, and the list is kept.
ReadMessages ==
    /\ asked["messages"] > 0
    /\ asked' = [asked EXCEPT !["messages"] = @ - 1]
    /\ reads' = IF Has
                THEN Append(reads, [snap |-> stored, overtaken |-> FALSE]) ELSE reads
    /\ UNCHANGED <<rtVars, serverVars, viewVars, listReads, own, changes, history>>

ReadConversations ==
    /\ asked["conversations"] > 0
    /\ asked' = [asked EXCEPT !["conversations"] = @ - 1]
    /\ listReads' = Append(listReads, [has |-> Has, overtaken |-> FALSE])
    /\ UNCHANGED <<rtVars, serverVars, viewVars, reads, own, changes, history>>

\* The answer that was read later and comes first overtakes the earlier ones.
AnswerMessages(k) ==
    /\ list' = reads[k].snap
    /\ reads' = [j \in DOMAIN Without(reads, k) |->
                    IF j < k THEN [reads[j] EXCEPT !.overtaken = TRUE]
                    ELSE reads[j + 1]]
    /\ UNCHANGED <<rtVars, serverVars, listed, active, asked, listReads, own, changes>>
    /\ Judge(reads[k].overtaken, FALSE)

\* Mutant: the active conversation is kept, listed or not.
ActiveKept(has) == active

\* A conversation that is not in the answer is not active any longer.
ActiveAfter(has) == active /\ has

AnswerConversations(k) ==
    /\ listed' = listReads[k].has
    /\ active' = ActiveAfter(listReads[k].has)
    /\ asked' = IF ~Shown /\ listed' /\ active'
                THEN [asked EXCEPT !["messages"] = @ + 1] ELSE asked
    /\ listReads' = [j \in DOMAIN Without(listReads, k) |->
                        IF j < k THEN [listReads[j] EXCEPT !.overtaken = TRUE]
                        ELSE listReads[j + 1]]
    /\ UNCHANGED <<rtVars, serverVars, list, reads, own, changes>>
    /\ Judge(FALSE, listReads[k].overtaken)

\* A load of messages that fails changes nothing ...
MessagesFail ==
    /\ asked["messages"] > 0
    /\ Trouble
    /\ asked' = [asked EXCEPT !["messages"] = @ - 1]
    /\ UNCHANGED <<sock, connected, uiConnected, timer, intentional, subscription, pipe,
                   last, token, opened, stranded, serverVars, viewVars, own, changes>>
    /\ Unheard("message.changed")

\* ... one of conversations empties the store.
ConversationsFail ==
    /\ asked["conversations"] > 0
    /\ Trouble
    /\ asked' = [asked EXCEPT !["conversations"] = @ - 1]
    /\ list' = <<>> /\ listed' = FALSE /\ active' = FALSE
    /\ UNCHANGED <<sock, connected, uiConnected, timer, intentional, subscription, pipe,
                   last, token, opened, stranded, serverVars, own, changes>>
    /\ Unheard("conversation")

-----------------------------------------------------------------------------
(* The user's own changes.                                                 *)

\* setActiveConversation: the user opens the conversation.
Select ==
    /\ listed /\ ~active
    /\ active' = TRUE
    /\ UNCHANGED <<rtVars, serverVars, list, listed, reads, listReads, own,
                   changes, history>>
    /\ AskIfShownNow

Committed(kind, mine) ==
    /\ pending = <<>>
    /\ pending' = <<[kind |-> kind, mine |-> mine]>>
\* The answer comes after the publication.
Answered == own.stored /\ \A k \in DOMAIN pending : ~pending[k].mine

\* sendMessage (the composer has emptied itself), updateMessage of a message of
\* the list, createConversation, deleteConversation.
OwnAsk ==
    /\ own = Idle
    /\ \/ Shown /\ posted < MaxPosts /\ own' = [Idle EXCEPT !.what = "send"]
       \/ /\ Shown
          /\ \E k \in DOMAIN list :
                own' = [Idle EXCEPT !.what = "edit", !.msg = list[k]]
       \/ access = "not yet" /\ own' = [Idle EXCEPT !.what = "create"]
       \/ listed /\ own' = [Idle EXCEPT !.what = "leave"]
    /\ UNCHANGED <<rtVars, serverVars, viewVars, loadVars, changes, history>>

Edited(s, msg) == [k \in DOMAIN s |-> IF s[k].id = msg.id THEN msg ELSE s[k]]

\* The server refuses what it cannot do (and what is beyond the bounds).
MayStore ==
    CASE own.what = "send" -> Has /\ posted < MaxPosts
      [] own.what = "edit" -> own.msg.id \in Ids(stored) /\ changes < MaxChanges
      [] own.what = "create" -> access = "not yet"
      [] own.what = "leave" -> Has /\ changes < MaxChanges
      [] OTHER -> FALSE

\* The membership is deleted, and the conversation archived with the last one.
Leaves == access' = "left" \/ (access = "creator" /\ UNCHANGED access)

OwnStore ==
    /\ MayStore /\ ~own.stored
    /\ \/ /\ own.what = "send"
          /\ posted' = posted + 1
          /\ own' = [own EXCEPT !.stored = TRUE, !.msg = [id |-> posted', ver |-> 0]]
          /\ stored' = <<own'.msg>> \o stored
          /\ Committed("message.changed", TRUE)
          /\ UNCHANGED <<access, changes>>
       \/ /\ own.what = "edit"
          /\ changes' = changes + 1
          /\ own' = [own EXCEPT !.stored = TRUE, !.msg.ver = changes']
          /\ stored' = Edited(stored, own'.msg)
          /\ Committed("message.changed", TRUE)
          /\ UNCHANGED <<posted, access>>
       \/ /\ own.what = "create"
          /\ access' = "creator"
          /\ own' = [own EXCEPT !.stored = TRUE]
          /\ Committed("conversation", TRUE)
          /\ UNCHANGED <<stored, posted, changes>>
       \/ /\ own.what = "leave"
          /\ changes' = changes + 1
          /\ Leaves
          /\ own' = [own EXCEPT !.stored = TRUE]
          /\ Committed("conversation", TRUE)
          /\ UNCHANGED <<stored, posted>>
    /\ UNCHANGED <<rtVars, viewVars, loadVars>>
    /\ AsJudged

\* The sent message is put before what the list has by now, that message
\* included.
SendAnswer ==
    /\ own.what = "send" /\ Answered
    /\ list' = <<own.msg>> \o list
    /\ LET Lacks(r) == own.msg.id \notin Ids(r.snap)
       IN reads' = Overtaken(reads, Lacks)
    /\ own' = Idle
    /\ UNCHANGED <<rtVars, serverVars, listed, active, asked, listReads, changes>>
    /\ Judge(own.msg.id \in Ids(list) \/ own.msg \notin Messages(stored), FALSE)

EditAnswer ==
    /\ own.what = "edit" /\ Answered
    /\ list' = Edited(list, own.msg)
    /\ LET Lacks(r) == own.msg \notin Messages(r.snap)
       IN reads' = Overtaken(reads, Lacks)
    /\ own' = Idle
    /\ UNCHANGED <<rtVars, serverVars, listed, active, asked, listReads, changes>>
    /\ Judge(own.msg \notin Messages(stored), FALSE)

\* A new conversation is put into the list and shown, with no message; one that
\* was left is taken out of it.
MoveAnswer ==
    /\ own.what \in {"create", "leave"} /\ Answered
    /\ listed' = (own.what = "create")
    /\ active' = (own.what = "create")
    /\ list' = <<>>
    /\ AskIfShownNow
    /\ LET Differs(r) == r.has # (own.what = "create")
       IN listReads' = Overtaken(listReads, Differs)
    /\ own' = Idle
    /\ UNCHANGED <<rtVars, serverVars, reads, changes>>
    /\ Judge(Shown, Has # (own.what = "create"))

OwnRefused ==
    /\ own # Idle /\ ~own.stored /\ ~MayStore
    /\ own' = Idle
    /\ UNCHANGED <<rtVars, serverVars, viewVars, loadVars, changes, history>>

\* The request fails or its answer is lost: no list is touched.
OwnLost ==
    /\ own # Idle
    /\ Trouble
    /\ own' = Idle
    /\ UNCHANGED <<sock, connected, uiConnected, timer, intentional, subscription, pipe,
                   last, token, opened, stranded, serverVars, viewVars, loadVars, changes, history>>

-----------------------------------------------------------------------------
(* The others, and the user's other devices.                               *)

OthersChange ==
    \/ /\ posted < MaxPosts /\ Has
       /\ posted' = posted + 1
       /\ stored' = <<[id |-> posted', ver |-> 0]>> \o stored
       /\ Committed("message.changed", FALSE)
       /\ UNCHANGED <<access, changes>>
    \/ /\ changes < MaxChanges
       /\ changes' = changes + 1
       /\ UNCHANGED posted
       /\ \/ \E k \in DOMAIN stored :
                /\ stored' = Edited(stored, [stored[k] EXCEPT !.ver = changes'])
                /\ Committed("message.changed", FALSE)
                /\ UNCHANGED access
          \/ \E k \in DOMAIN stored :
                /\ stored' = Without(stored, k)
                /\ Committed("message.deleted", FALSE)
                /\ UNCHANGED access
          \/ /\ \/ access = "not yet" /\ access' = "member"
                \/ Has /\ Leaves
             /\ Committed("conversation", FALSE)
             /\ UNCHANGED stored

Others ==
    /\ OthersChange
    /\ UNCHANGED <<rtVars, viewVars, loadVars, own>>
    /\ AsJudged

-----------------------------------------------------------------------------
LoadStep ==
    \/ ReadMessages \/ ReadConversations \/ MessagesFail \/ ConversationsFail
    \/ \E k \in DOMAIN reads : AnswerMessages(k)
    \/ \E k \in DOMAIN listReads : AnswerConversations(k)

OwnStep ==
    \/ Select \/ OwnAsk \/ OwnStore \/ SendAnswer \/ EditAnswer \/ MoveAnswer
    \/ OwnRefused \/ OwnLost

ChatNext ==
    \/ Reconnect \/ ConnectionStep \/ MembersPolled \/ RenewedByCookie
    \/ Placed
    \/ Publish \/ PublishFails \/ Noise \/ ReceiveEvent \/ RenderEvent
    \/ LoadStep \/ OwnStep \/ Others

ChatSpec == ChatInit /\ [][ChatNext]_chatClientVars

\* Handshakes end, timers fire; the poll of members and the loads are answered.
Fairness ==
    /\ WF_chatClientVars(Reconnect)
    /\ WF_chatClientVars(MembersPolled \/ LoadStep)

ChatFairSpec == ChatSpec /\ Fairness

-----------------------------------------------------------------------------
(* Properties. *)

\* Nothing is under way between the server and a page that is connected.
Quiet ==
    /\ subscription = "held" /\ pending = <<>> /\ pipe = <<>> /\ last = "none"
    /\ InFlight = 0 /\ own = Idle

\* When all is quiet, the user sees the messages and the conversation as they
\* are stored, or something the code does not make up for has happened since
\* they last were: an event that was not published, came before the subscription
\* or was replaced before it was rendered, a deletion, a load that failed, an
\* answer that came after a later one, or after the list that already had it, or
\* its creator's leave, after which the server still lists the conversation
\* (page.tsx:499-505, 592-625, chat-store.ts:154-228, 297-328, 383-408).
QuietViewIsCurrent ==
    Quiet => /\ listed = Has \/ listExcused
             /\ Shown /\ Has => list = stored \/ excused

\* "Restoration de la conversation" ends: the page does not wait for a
\* conversation that no load will bring (page.tsx:777-789, chat-store.ts:170-192).
NoEndlessRestoring == Quiet /\ active => listed

=============================================================================
