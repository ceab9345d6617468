------------------------------ MODULE Messages ------------------------------
(***************************************************************************)
(* From a message to its notifications: MessageService.Create with its     *)
(* idempotency key (message.go), the job that the outbox sends for the     *)
(* message, and the handler that writes one notification per member of the *)
(* conversation and pushes an event about it (notification.go).            *)
(*                                                                         *)
(* There is one conversation.  The queue between the two is JobDelivery,   *)
(* which JobStream implements: a job may be handled again, and by several  *)
(* consumers at a time.  A message is named by the request that creates    *)
(* it.  Nobody joins a conversation after it was created, since no service *)
(* does that; muted members are left out, since no service mutes one; and  *)
(* so are edits, deletions, reactions and read receipts.                   *)
(***************************************************************************)
EXTENDS Integers, FiniteSets

CONSTANTS
  Posts,        \* requests that create a message, retries included
  Users,        \* members of the workspace
  Author,       \* user of each request
  Key,          \* idempotency key of each request
  NoKey,        \* no idempotency key was sent
  Creator,      \* who created the conversation
  Members,      \* its members; none when it is the conversation of a channel
  Window,       \* how many messages Create looks through for the key (50)
  Consumers,    \* consumers of the notifications queue
  None,         \* no job, no user
  MaxTroubles   \* bound: calls that fail, jobs delivered again, commands that
                \* are sent again and consumers that stop, together

ASSUME MessagesAssumption ==
  /\ IsFiniteSet(Posts)
  /\ Author \in [Posts -> Users]
  /\ Creator \in Users /\ Members \subseteq Users
  /\ Window \in Nat \ {0}
  /\ None \notin Posts \cup Users
  /\ MaxTroubles \in Nat

VARIABLES
  members,      \* members who have not left
  post,         \* stage of each request
  began,        \* created_at of its message: which request it was, 0 for none yet
  answer,       \* the message it returned
  stored,       \* messages in the table, each with its outbox row
  overlap,      \* pairs of requests that were under way at the same time
  unread,       \* requests that could not read the messages and went on
  accepted, open, done, buried,   \* the queue: see JobDelivery
  pc,           \* stage of each consumer
  job,          \* the message its job is about, or None
  todo,         \* users it has still to notify
  user,         \* the user it is notifying, or None
  notices,      \* rows of notifications, by their idempotency key
  pushed,       \* how often notification.created was published for each of them
  troubles      \* how many of the MaxTroubles have happened

postVars     == <<post, began, answer, stored, overlap, unread>>
queueVars    == <<accepted, open, done, buried>>
consumerVars == <<pc, job, todo, user>>
noticeVars   == <<notices, pushed>>
vars == <<members, postVars, queueVars, consumerVars, noticeVars, troubles>>

Queue == INSTANCE JobDelivery WITH Jobs <- Posts

Notices == Posts \X Users

Init ==
  /\ members = Members
  /\ post = [p \in Posts |-> "new"]
  /\ began = [p \in Posts |-> 0]
  /\ answer = [p \in Posts |-> p]
  /\ stored = {} /\ overlap = {} /\ unread = {}
  /\ Queue!Init
  /\ pc = [c \in Consumers |-> "idle"]
  /\ job = [c \in Consumers |-> None]
  /\ todo = [c \in Consumers |-> {}]
  /\ user = [c \in Consumers |-> None]
  /\ notices = {}
  /\ pushed = [n \in Notices |-> 0]
  /\ troubles = 0

Trouble == troubles < MaxTroubles /\ troubles' = troubles + 1

-----------------------------------------------------------------------------
(* MessageService.Create.                                                  *)
MayAccess(u) == u = Creator \/ u \in members

UnderWay == {p \in Posts : post[p] \in {"check", "commit"}}

Same(p, q) == p # q /\ Author[p] = Author[q] /\ Key[p] = Key[q] /\ Key[p] # NoKey

PostStart(p) ==
  /\ post[p] = "new"
  /\ MayAccess(Author[p])
  /\ began' = [began EXCEPT ![p] = 1 + Cardinality({q \in Posts : began[q] > 0})]
  /\ overlap' = overlap \cup {{p, q} : q \in {r \in UnderWay : Same(p, r)}}
  /\ post' = [post EXCEPT ![p] = IF Key[p] = NoKey THEN "commit" ELSE "check"]
  /\ UNCHANGED <<members, answer, stored, unread, queueVars, consumerVars,
                 noticeVars, troubles>>

\* ListByConversation: the latest messages.
\* Mutant: the window is one message short.
RecentShort == {m \in stored : Cardinality({n \in stored : began[n] > began[m]}) < Window - 1}

Recent == {m \in stored : Cardinality({n \in stored : began[n] > began[m]}) < Window}

\* The author's own messages with the key.
Twins(p) == {m \in Recent : Key[m] = Key[p] /\ Author[m] = Author[p]}

CheckVars == <<members, began, stored, overlap, queueVars, consumerVars, noticeVars>>

\* The newest message with the key is returned.
PostFound(p) ==
  /\ post[p] = "check"
  /\ \E m \in Twins(p) :
       /\ \A n \in Twins(p) : began[n] <= began[m]
       /\ answer' = [answer EXCEPT ![p] = m]
  /\ post' = [post EXCEPT ![p] = "ok"]
  /\ UNCHANGED <<CheckVars, unread, troubles>>

PostNotFound(p) ==
  /\ post[p] = "check"
  /\ Twins(p) = {}
  /\ post' = [post EXCEPT ![p] = "commit"]
  /\ UNCHANGED <<CheckVars, answer, unread, troubles>>

\* The list fails, which is ignored.
PostUnread(p) ==
  /\ post[p] = "check"
  /\ Trouble
  /\ unread' = unread \cup {p}
  /\ post' = [post EXCEPT ![p] = "commit"]
  /\ UNCHANGED <<CheckVars, answer>>

\* Mutant: the error of the transaction is swallowed.
FaultSwallowed(p) ==
  /\ post[p] = "commit"
  /\ Trouble
  /\ post' = [post EXCEPT ![p] = "ok"]
  /\ UNCHANGED <<members, began, answer, stored, overlap, unread, queueVars, consumerVars,
                 noticeVars>>

CommitVars ==
  <<members, began, answer, overlap, unread, queueVars, consumerVars, noticeVars>>

PostCommit(p) ==
  /\ post[p] = "commit"
  /\ stored' = stored \cup {p}
  /\ post' = [post EXCEPT ![p] = "ok"]
  /\ UNCHANGED <<CommitVars, troubles>>

\* The transaction fails, or it commits and the reply is lost.
PostFault(p) ==
  /\ post[p] = "commit"
  /\ Trouble
  /\ stored' \in {stored, stored \cup {p}}
  /\ post' = [post EXCEPT ![p] = "failed"]
  /\ UNCHANGED CommitVars

\* ConversationService.Delete.
Leave(u) ==
  /\ u \in members
  /\ members' = members \ {u}
  /\ UNCHANGED <<postVars, queueVars, consumerVars, noticeVars, troubles>>

-----------------------------------------------------------------------------
(* The outbox and the queue.                                               *)
QueueRest == <<members, postVars, consumerVars, noticeVars>>

Dispatch(m) == m \in stored /\ Queue!Accept(m) /\ UNCHANGED <<QueueRest, troubles>>

\* The outbox sends the job again, or a late consumer enqueues a new attempt.
SendAgain(m) == Trouble /\ Queue!Reopen(m) /\ UNCHANGED QueueRest

Settle(m) == Queue!Close(m) /\ UNCHANGED <<QueueRest, troubles>>

-----------------------------------------------------------------------------
(* The handler of notification.message.created.                            *)
HandlerRest == <<members, postVars>>

Notice(c) == <<job[c], user[c]>>

\* The consumer is through with its job.
GoIdle(c) ==
  /\ pc' = [pc EXCEPT ![c] = "idle"]
  /\ job' = [job EXCEPT ![c] = None]
  /\ todo' = [todo EXCEPT ![c] = {}]
  /\ user' = [user EXCEPT ![c] = None]

\* The loop goes on to the next user.
GoOn(c) ==
  /\ pc' = [pc EXCEPT ![c] = "notify"]
  /\ user' = [user EXCEPT ![c] = None]

Take(c, m) ==
  /\ pc[c] = "idle" /\ m \in open
  /\ job' = [job EXCEPT ![c] = m]
  /\ pc' = [pc EXCEPT ![c] = "read"]
  /\ UNCHANGED <<HandlerRest, queueVars, todo, user, noticeVars, troubles>>

\* Without members everybody in the workspace is notified.
Audience == IF members = {} THEN Users ELSE members

ReadMembers(c) ==
  /\ pc[c] = "read"
  /\ todo' = [todo EXCEPT ![c] = Audience \ {Author[job[c]]}]
  /\ pc' = [pc EXCEPT ![c] = "notify"]
  /\ UNCHANGED <<HandlerRest, queueVars, job, user, noticeVars, troubles>>

\* Any error of the read of the message is permanent.
ReadMessageFault(c) ==
  /\ pc[c] = "read"
  /\ Trouble
  /\ Queue!Bury(job[c])
  /\ GoIdle(c)
  /\ UNCHANGED <<HandlerRest, noticeVars>>

\* GetByIdempotencyKey.  An error counts as not found.
Found(c, u) ==
  /\ pc[c] = "notify" /\ u \in todo[c]
  /\ <<job[c], u>> \in notices
  /\ todo' = [todo EXCEPT ![c] = @ \ {u}]
  /\ UNCHANGED <<HandlerRest, queueVars, pc, job, user, noticeVars, troubles>>

NotFound(c, u) ==
  /\ pc[c] = "notify" /\ u \in todo[c]
  /\ \/ <<job[c], u>> \notin notices /\ UNCHANGED troubles
     \/ <<job[c], u>> \in notices /\ Trouble
  /\ todo' = [todo EXCEPT ![c] = @ \ {u}]
  /\ user' = [user EXCEPT ![c] = u]
  /\ pc' = [pc EXCEPT ![c] = "insert"]
  /\ UNCHANGED <<HandlerRest, queueVars, job, noticeVars>>

InsertVars == <<HandlerRest, queueVars, job, todo, pushed, troubles>>

\* The unique index refuses a second row: its error is taken for success.
Insert(c) ==
  /\ pc[c] = "insert"
  /\ notices' = notices \cup {Notice(c)}
  /\ IF Notice(c) \in notices
     THEN GoOn(c)
     ELSE pc' = [pc EXCEPT ![c] = "publish"] /\ UNCHANGED user
  /\ UNCHANGED InsertVars

PublishVars == <<HandlerRest, queueVars, job, todo, notices>>

Publish(c) ==
  /\ pc[c] = "publish"
  /\ pushed' = [pushed EXCEPT ![Notice(c)] = @ + 1]
  /\ GoOn(c)
  /\ UNCHANGED <<PublishVars, troubles>>

\* The client of Redis sends a PUBLISH again whose reply is late.
PublishAgain(c) ==
  /\ pc[c] = "publish"
  /\ Trouble
  /\ pushed' = [pushed EXCEPT ![Notice(c)] = @ + 1]
  /\ UNCHANGED <<PublishVars, user, pc>>

Finish(c) ==
  /\ pc[c] = "notify" /\ todo[c] = {}
  /\ Queue!Succeed(job[c])
  /\ GoIdle(c)
  /\ UNCHANGED <<HandlerRest, noticeVars, troubles>>

\* Mutant: the error is swallowed, and the job taken for done.
FailsQuietly(c) == Trouble /\ Queue!Succeed(job[c]) /\ GoIdle(c)

\* A retryable error: the job stays open, or it was the last attempt.
Fails(c) == Trouble /\ (UNCHANGED queueVars \/ Queue!Bury(job[c])) /\ GoIdle(c)

ListFault(c) ==
  /\ pc[c] = "read"
  /\ Fails(c)
  /\ UNCHANGED <<HandlerRest, noticeVars>>

InsertFault(c) ==
  /\ pc[c] = "insert" /\ Notice(c) \notin notices
  /\ notices' \in {notices, notices \cup {Notice(c)}}
  /\ Fails(c)
  /\ UNCHANGED <<HandlerRest, pushed>>

PublishFault(c) ==
  /\ pc[c] = "publish"
  /\ pushed' \in {pushed, [pushed EXCEPT ![Notice(c)] = @ + 1]}
  /\ Fails(c)
  /\ UNCHANGED <<HandlerRest, notices>>

\* The worker stops; its job is delivered again.
Stop(c) ==
  /\ pc[c] # "idle"
  /\ Trouble
  /\ GoIdle(c)
  /\ UNCHANGED <<HandlerRest, queueVars, noticeVars>>

-----------------------------------------------------------------------------
Post(p) ==
  \/ PostStart(p) \/ PostFound(p) \/ PostNotFound(p) \/ PostUnread(p)
  \/ PostCommit(p) \/ PostFault(p)

Handle(c) ==
  \/ ReadMembers(c) \/ Insert(c) \/ Publish(c) \/ Finish(c)
  \/ \E u \in Users : Found(c, u) \/ NotFound(c, u)

Disturb(c) ==
  \/ ReadMessageFault(c) \/ PublishAgain(c) \/ ListFault(c) \/ InsertFault(c)
  \/ PublishFault(c) \/ Stop(c)

Next ==
  \/ \E p \in Posts : Post(p) \/ Dispatch(p) \/ SendAgain(p) \/ Settle(p)
  \/ \E u \in Users : Leave(u)
  \/ \E c \in Consumers : Handle(c) \/ Disturb(c) \/ \E m \in Posts : Take(c, m)

Spec == Init /\ [][Next]_vars

\* The outbox dispatches what it holds, handlers run on, and an open job is
\* delivered in its turn (StoredEventsPublished, EveryJobSettles).
FairSpec ==
  /\ Spec
  /\ \A m \in Posts :
       WF_vars(Dispatch(m)) /\ WF_vars(Settle(m)) /\ SF_vars(\E c \in Consumers : Take(c, m))
  /\ \A c \in Consumers : WF_vars(Handle(c))

-----------------------------------------------------------------------------
TypeOK ==
  /\ members \subseteq Members
  /\ post \in [Posts -> {"new", "check", "commit", "ok", "failed"}]
  /\ began \in [Posts -> Nat]
  /\ answer \in [Posts -> Posts]
  /\ stored \subseteq Posts
  /\ overlap \subseteq SUBSET Posts /\ unread \subseteq Posts
  /\ accepted \subseteq stored /\ open \subseteq accepted
  /\ done \subseteq accepted /\ buried \subseteq accepted
  /\ pc \in [Consumers -> {"idle", "read", "notify", "insert", "publish"}]
  /\ job \in [Consumers -> Posts \cup {None}]
  /\ todo \in [Consumers -> SUBSET Users]
  /\ user \in [Consumers -> Users \cup {None}]
  /\ \A c \in Consumers : pc[c] # "idle" => job[c] \in accepted
  /\ notices \subseteq accepted \X Users
  /\ pushed \in [Notices -> Nat]
  /\ troubles \in Nat

\* A request that succeeds has its message in the table: the author's own, with
\* the key of the request.
AnswerIsStored ==
  \A p \in Posts : post[p] = "ok" =>
    answer[p] \in stored /\ (answer[p] = p \/ Same(p, answer[p]))

\* A message is stored twice under one key only if the two requests overlapped,
\* the later could not read the messages, or as many came in between as Create
\* looks through.
RetryFindsFirst ==
  \A p, q \in stored : Same(p, q) /\ began[p] < began[q] =>
    \/ {p, q} \in overlap
    \/ q \in unread
    \/ Cardinality({m \in stored \ {q} : began[m] > began[p]}) >= Window

\* However many consumers handle a job how often, the event about a notification
\* is published once, plus once for each command that Redis got again.
PushesBounded == \A n \in Notices : pushed[n] <= 1 + troubles

\* A notification whose event is never published is due to a trouble of its own:
\* the next attempt finds the row and does not publish.
Silent ==
  {n \in notices : pushed[n] = 0 /\ \A c \in Consumers : ~(pc[c] = "publish" /\ Notice(c) = n)}

LossesBounded == Cardinality(Silent) <= troubles

\* Whoever is a member stays without notification only if the member leaves, or
\* the job is dead-lettered.
MembersNotified ==
  \A m \in Posts, u \in Users :
    m \in stored /\ u \in members /\ u # Author[m]
      ~> <<m, u>> \in notices \/ u \notin members \/ m \in buried

\* What the text of the notification says: it is about "a conversation you can
\* access".
NoticeIsReadable ==
  [][\A n \in notices' \ notices : MayAccess(n[2])]_vars
=============================================================================
