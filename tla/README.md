# Formal verification of aether-meet

aether-meet is a meeting and messaging platform. A Go server (`server/src`) runs
as an API, as workers and as a scheduler over PostgreSQL and Redis, with LiveKit
for media; a web client (Next.js) and a mobile application (Expo), both under
`apps`, keep sessions, connections and lists of their own beside it. This
directory holds TLA+ models of the parts where state, concurrency and failure
meet, the TLC configurations that check them, and theorems about them checked by
TLAPS.

## 1. Inventory

### Server

| Part | Source (under `server/src/services` unless noted) | State | Operations |
|---|---|---|---|
| Redis Streams job queue | `job_queue.go`, `job_errors.go` | one stream and one dead-letter stream per queue, the consumer group's cursor and pending list | enqueue, read, claim, handle, ack, retry, dead-letter |
| Worker runtime | `worker.go`, `job_registry.go` | the process's goroutines, the handler table, a heartbeat key | run, stop, register, handle |
| Transactional outbox | `outbox.go`, `repositories.go` (outboxRepository) | table `outbox_events` | add, claim, dispatch, mark published, mark failed |
| Scheduler | `scheduler.go` | lock keys in Redis | enqueue a periodic job if the lock is free |
| Notifications | `notification.go` | table `notifications` with a unique idempotency key | create once, publish, mark read |
| Meetings and WebRTC sessions | `meeting.go`, `webrtc_service.go`, `webrtc_provider.go` | meetings, sessions, participants, provider events, nodes; LiveKit rooms | create, start, join, end, cancel, webhook, close, reconcile, expire |
| Authentication | `auth_service.go`, `auth.go`, `password_hasher.go`, `auth_rate_limiter.go` | users, sessions (refresh-token families), one-time tokens; counters in Redis | register, login, refresh, logout, reset, revoke, clean up |
| Workspaces and members | `workspace.go`, `team.go`, `channel.go`, `project.go`, `user.go` | workspaces, members, teams, channels, projects | create, add, change role, remove, provision |
| Conversations and messages | `conversation.go`, `message.go` | conversations, members, messages, reactions | create, send, edit, delete, read |
| Call invitations | `server/src/routes/calls.go` | maps of invitations and of event streams, in memory | invite, accept, reject, cancel, stream |
| Presence | `presence.go` | presence keys in Redis, last-seen rows | connect, heartbeat, disconnect, expire, persist |
| Realtime hub and event bus | `realtime.go` | connections and subscriptions in memory, Redis pub/sub | register, subscribe, broadcast, close |
| Integrations, storage, tasks, audit | `integration.go`, `storage.go`, `task.go`, `audit.go` | rows; objects in S3 | CRUD, webhook processing |
| In-memory queue | `job_queue.go` (InMemoryJobQueue) | channels of 256 jobs | the queue of a server without Redis |
| HTTP layer, middleware, routes, CLI, configuration | `server/main.go`, `server/src/{routes,controllers,middleware,config}`, `cli` | none of its own | request plumbing |

### Clients

| Part | Source (under `apps`) | State | Operations |
|---|---|---|---|
| Token store | `lib/api/auth.ts`, `lib/api/client.ts`, `context/AuthContext.tsx` | tokens in the module and in localStorage, the cookie, one shared refresh | restore, login, refresh, retry after 401, logout |
| Realtime client | `lib/api/realtime/client.ts`, `context/PlatformContext.tsx` | socket, timer, whether it is connected, the last event | connect, subscribe, receive, reconnect, close |
| Chat | `app/(platform)/chat/page.tsx`, `lib/chat-store.ts`, `lib/api/chat-service.ts` | the store's lists, the selected conversation | load, send, edit, delete, create, leave |
| Calls | `lib/api/calls.ts`, `lib/call-store.ts`, `hooks/use-call-sse.ts`, `components/platform/incoming-call-notification.tsx` | incoming and outgoing calls, the event stream | dial, ring, accept, reject |
| Call room | `app/(platform)/calls/room/page.tsx`, `hooks/use-livekit.ts` | credentials, the LiveKit room, flags, participants | join, connect, mute, reconnect, hang up |
| Workspace pages | `app/(platform)/{teams,tasks,projects,calendar,calls}/page.tsx`, `components/settings/workspace-sso-settings.tsx` | a list per page | load, create |
| Notifications and settings | `app/(platform)/{notifications,settings}/page.tsx`, `components/settings/*.tsx` | values on the screen, ahead of the server | edit, roll back, reload |
| Mobile application | `components/mobile/mobile-auth-provider.tsx`, `mobile/*.tsx`, `lib/mobile/meet-data.ts` | session, tokens, cached workspace | restore, sign in and out, load |
| Everything else | `components/ui`, layout, mappings, mock data, desktop shell, SDKs | none that a request depends on | rendering |

How they interact: the API commits a change and its outbox row in one
transaction; a worker's outbox loop leases the row and enqueues a job; a worker's
consumer handles the job, which writes rows and publishes events that the hub
pushes to browsers. A page that receives an event loads its lists again. The
scheduler enqueues periodic jobs that expire presence, meetings, sessions and
tokens. LiveKit reports room and participant changes by webhook. Invitations to
calls bypass all of that: they are kept in one server's memory and go through an
event stream of their own, and once more through the realtime connection.

What is hard: every Redis and SQL call can fail with or without effect, the Redis
client resends commands, processes are killed between any two calls, several
replicas of every role run side by side, leases and claims run out while their
owner is still at work, rows are read, changed in memory and saved as a whole,
and webhooks arrive late, twice or out of order. In the clients, answers come in
any order and after the page has moved on, tabs share a storage without a lock,
one slot holds the last event, closures keep old state, and connections are up in
the eyes of one side only.

## 2. What makes each part correct

* **Job queue.** An accepted job is handled successfully or dead-lettered, and never
  vanishes in between. It is dead-lettered only after a permanent error or after as
  many failed runs as allowed.
* **Outbox.** A row that was committed with its change leads to a job, is marked only
  after the job was sent, is given up only after that many failures, and is worked on
  by one dispatcher at a time.
* **Meetings.** An active meeting has a session; a session ends only after its room;
  sessions without a room are ended; a webhook that arrives twice counts once.
* **Members.** A workspace keeps an owner and a user is a member once.
* **Hub.** No goroutine closes a channel twice or writes to a closed one; a client
  misses no event while it stays connected.
* **Messages and notifications.** A retry returns what the first request stored; every
  member is told.
* **Sessions.** A lost answer does not sign anybody out; a logout is final; a page
  that waits for a refresh is answered.
* **Chat.** When nothing is under way the page shows what is stored; it is connected
  when it says so, and comes back when it is not.
* **Calls.** A call rings once, brings both to one meeting, and whoever accepts
  enters as themselves; dialling ends; a chat page rings though its event stream is
  cut off.
* **Call room.** The page is connected exactly when it shows it; nobody is heard
  after leaving; nobody is shown who has left; it does not spin for ever.
* **Pages.** A list belongs to its workspace and has once what was created; an edit
  on the screen is stored or taken back; nobody sees the data of another account.

## 3. Modules

| Module | Models | Variables and the code | Actions and the code |
|---|---|---|---|
| `JobDelivery` | the abstract queue: what the streams promise | sets of jobs: accepted, open, done, buried | `Accept`, `Succeed`, `Bury`, `Close`, `Reopen` |
| `JobStream` | `RedisStreamJobQueue` and its consumers | `stream` and `dead` are the two Redis streams, `cursor` and `pel` the consumer group; `pc`, `msg` and the claimed page are the local state of `Consume` and `processMessage`; `oks`, `failures`, `condemned` count runs of handlers | one per Redis call: `XADD`, `XREADGROUP`, `XAUTOCLAIM`, `XACK`; the handler's outcome; failures, resent commands, stops |
| `Outbox` | `OutboxService`, `outboxRepository` | the rows' `published`, `attempts`, `lock`; `stale` for a lease older than two minutes; each dispatcher's batch | `Change`, `AddDetached` (services), `Claim`, `DispatchJob`, `DispatchUnknown`, …, `MarkPublished`, `MarkFailed`, `LeaseRunsOut`, `LeaseOverrun`, `Stop` |
| `MeetingSession` | `MeetingService`, `WebRTCService`, the LiveKit room | `meeting`, `session`: the rows; `room`, `people`, `token`: the provider; `recorded`, `announced`: webhook events and their outbox rows; `pc` and the copies each operation read | the stages of start, join, end, cancel, expiry, webhooks and sweeps; the provider's own steps |
| `WorkspaceMembers` | member requests of `WorkspaceService` | `member`: the table; `pc`, `ask`, `auth`, `found`: a request and what it read | `Authorize`, `CheckAbsent`, `LookupFailed`, `FindTarget`, `GuardOwnerMutation`, `Create`, `Save`, `Delete` |
| `Hub` | the hub of `realtime.go` | `clients`, the channels, whether they are closed; stages of the goroutines | `Handle`, both loops, `handleEvent` client by client, `Close` |
| `Messages` | `MessageService.Create`, the outbox and the queue as one, the notification handler | `post`: each request; `stored`: the messages; the variables of `JobDelivery`; `pc`, `job`, `todo`: each consumer; `notices`, `pushed`: rows and events | the stages of a request, `Dispatch`, the stages of the handler, faults |
| `AuthSession` | the token store in every tab, and refresh, login and logout at the server | `ui`, `mem`, `waiting`, `leaving` of each tab; `storage` and `cookie` they share; `refresh`: requests; `tokens`, `sessions`: rows | `Load`, `Login`, `Look`, `TxRead`, `Commit` of a refresh, `Refreshed`, `Refused`, `RefreshLost`, `Refused401`, `LogoutSent`, `LoggedOut`, expiry, `RevokedElsewhere` |
| `RealtimeClient` | the shared connection of the web client | `sock`, `connected`, `uiConnected`, `timer`, `intentional`, `subscription`, `pipe`, `last`, the stored `token` | `Connect` and `Retry` (which gives up without a token), `Refused`, `Opened`, subscribing and a subscription that is dropped, loss, `PageHidden`, `TokensCleared`, `EffectAgain` when the effect runs again: used by `ChatClient` |
| `ChatClient` | the chat page and its store over `RealtimeClient` | `stored`, `access`, `pending`: the server; `list`, `listed`, `active`: the store; loads and the user's own request | `Publish` and `PublishFails`, `ReceiveEvent`, `RenderEvent`, `Placed`, `LoadStep`, `OwnStep`, `Others` |
| `Calls` | dialling, invitations and event streams, from both ends | `page`, `stream`, `shut`, `handlers`, `sseClients`, `callInvitations`, `incomingCalls`, `dial`, `asks`, `frames`, `room` | `Dial`, the steps of `Dialling`, `FrameArrives`, `Answer` and its outcomes, `OpenStream`, `StreamRefused`, `StreamBreaks`, `HandlerEnds`, `LeaveChat`, `BackToChat`, `Restart` |
| `CallRoom` | the room's page, `useLiveKit` and LiveKit | `at`, `credentials`: the page; `held`, `step`, the flags and `remote`: the hook; `conn`: LiveKit; `loaded`: its module in the tab; `ghosts`: the `connect()`s of pages that were left while they waited for it | coming, `Connect`, `Imported` and the steps that follow, `Reconnecting` and `Reconnected`, dropping, the timer, hanging up, leaving, `GhostJoins` |
| `CallPages` | `Calls` and `CallRoom` as one specification | `shows`: which of the two a behaviour is about | theirs |
| `WorkspacePages` | six pages that list a workspace | `active`, `items`, `whose`, `error`, `load`, `creations`; `owner`: the server | choosing a workspace, loading, creating, answers and failures |
| `OptimisticEdits` | four pages that show an edit first | `shown`, `stored`, `edits`; `stage`, `got`: the load | loading and its failure, opening again, editing, storing, answers, refusals, lost answers |
| `MobileApp` | sessions and screens of the mobile application | `session`, `tokenOf`, `renewable`, `jar`, `refresh`, the cached `context` and `strays`, the requests for one that another has replaced, `view`, `data` | restoring, signing in by either form and out, the refresh with its two tries and their failure, 401s, loading |
| `Clients` | the three modules above as one specification | `open`: which of the three a behaviour is about | theirs |
| `…Proofs` | theorems about the module they are named for; `JobStreamProofs` holds the refinement of `JobDelivery` too, `RealtimeProofs` what is proved of `Hub`, `Calls` and `ChatClient`, `ClientsProofs` of `CallRoom` and the modules of `Clients` | | |
| `MC…` | the same modules with values for TLC | | |

How they fit together: `JobStream` is shown to implement `JobDelivery`
(`ImplementsDelivery`, by TLC on an instance and by TLAPS in general), and
`Messages` is built on an instance of `JobDelivery`, so that what it shows about
notifications holds over the streams. `Outbox` stands between a committed change
and the first `Accept`; `Messages` takes its promise (`StoredEventsPublished`) as
the fairness of `Dispatch`, and its duplicates as `SendAgain`. `Hub` is the
server's end of the connection whose other end is `RealtimeClient`; `ChatClient`
extends it. `Calls` says how pages come to a room and `CallRoom` what happens in
it. `MobileApp` has the token store of `AuthSession` in its effects only.

Abstractions that the modules of the server share:

* **Calls.** Every Redis call, SQL statement and provider call is a step, and other
  actors may act between any two. A call can fail without effect, or have its effect
  and report an error; the Redis client resends commands (`REDIS_MAX_RETRIES`).
* **Troubles.** Failures, stops and leases or claims that run out under their owner
  are counted in `troubles` and bounded by `MaxTroubles`.
* **Time** is no variable. A lease, an idle claim, a token or an idle session may run
  out at any moment that the code's constants do not exclude; where the code relies
  on its time being long enough, running out early is a trouble.
* **Data.** Payloads, names, texts, metrics and logs are left out. Ids are model
  values or numbers in the order of creation.

And those of the clients: a handler runs from one `await` to the next as one step,
as JavaScript does; a request has a step where the server acts and one where the
answer is handled; React renders between any two steps, so an effect is part of
the step that changes what it depends on, unless the module says otherwise.

Per module:

* `JobStream`: one consumer stands for each process. Undecodable entries are left out,
  as no producer writes one. `return items, f()` evaluates as gc compiles it.
* `MeetingSession`: one meeting stands for all, since each has its own rows and room.
  A transaction at the default isolation is a step that reads its rows and one that
  writes them whole and commits. A webhook may come late, again, or never. LiveKit
  creates rooms on join (`auto_create`). The job types `meeting.auto_end` and
  `webrtc.room.close` are left out: nothing enqueues them.
* `WorkspaceMembers`: a guest is treated as a member by this code. A request may give
  up at any time. Row ids are never used again; deleted rows can come back by a
  whole-row save.
* `Hub`: one workspace. Critical sections of the lock that only change the map are
  single steps; `handleEvent` holds the read lock over many. Subscribing is one step,
  although the code has a data race there (section 7).
* `Messages`: one conversation, users who stay members of the workspace, and messages
  ordered by when their request began, as `created_at` orders them. The audit row and
  the outbox row share the message's transaction. The queue decides by itself whether
  a failed attempt was the last.
* `AuthSession`: one browser. An access and a refresh token are issued together and
  are one number. Registering is a login; a password reset is a revocation elsewhere.
  A read that fails in the look of a refresh ends it, and revokes the family where it
  was the read of the replacement (`LookFails`).
* `WorkspaceMembers`: the lookup of a new member goes on to create the row when it
  fails, whatever the failure (`LookupFailed`).
* `RealtimeClient`: a page at one workspace; a stay at another, or at none, is left out
  between its leaving and its coming back (`EffectAgain`).
* `ChatClient`: one conversation, which the user may create, join and leave; who
  created it keeps access after leaving. An event's kind is all that the page looks at;
  typing and presence are noise that takes the slot of the last event. Nobody looks at
  the outcome of a publication, so any may be lost (`PublishFails`). The conversation
  is a channel: a direct one is hidden when the other has left it, which is left out.
* `Calls`: the two members of a direct conversation, one page each. The browser's
  `EventSource` connects again by itself after a break; after an answer that is no
  stream it does not, and the page only logs it (`use-call-sse.ts:158-166`).
* `CallRoom`: LiveKit keeps one connection of an identity, the last that joins. Its
  module is loaded once in a tab. Muting is left out: a button asks for what its flag
  already says, and nothing else depends on it.
* `WorkspacePages`, `OptimisticEdits`: what the pages have in common is written once;
  what they differ in is in a record, or in an operator, for each page: whether a page
  goes on rendering its list below a spinner or an error (`keeps`, `Renders`), and what
  a load that failed leaves on the screen (`ShownWithoutLoad`). Nobody else edits what
  `OptimisticEdits` shows.
* `MobileApp`: an account has one workspace. A refresh fails for any reason, as any
  failure counts as "no token" (`auth.ts:285-302`). Only the loader of the context
  clears the store on a 401 (`meet-data.ts:147-166`, `:640-665`).

## 4. What TLC checks

Each run is one question; `PROJECT.json` lists its properties, and for each property
a mutant: a change of one definition, as a plausible bug would make it, under which
TLC must find the property violated in the same instance. The mutants are the
operators whose comments begin with `Mutant:`.

| Run | Instance | Shows |
|---|---|---|
| `job_stream` | 1 job, 2 consumers, 2 attempts, 2 troubles | `NoEntryLost`, `DeadLetterJustified`, `OneVerdictWhenCalm`, refinement of `JobDelivery`, `EveryJobSettles` |
| `outbox` | 4 events, one of each kind, 2 dispatchers, batches of 2, 2 attempts, 1 trouble | `PublishedWasSent`, `AbandonedJustified`, `LeaseExclusive`, `StoredEventsPublished` |
| `meeting_safety` | 2 requests of any kind, 1 sweeper, 1 trouble | `ActiveHasSession`, `AnnouncedOnce`, `EndedAfterRoom` |
| `meeting_liveness` | 1 request, 1 sweeper, 2 rooms, 1 trouble | `AbandonedSessionEnds` |
| `members_safety` | 2 users, 2 requests | `OwnerKept`, `OneRowKept`: the checks are right about the state they read; a second row needs a request that was overtaken, or a lookup that failed |
| `hub` | 1 client, 2 deliverers of 3 events, channel of 1 | `NoPanic`, `NoGap` |
| `messages` | a request and its retry, 1 member and 1 outsider, 2 consumers, 1 trouble | `AnswerIsStored`, `RetryFindsFirst`, `MembersNotified` |
| `auth` | 2 tabs, 3 tokens, 2 sign-ins, 1 trouble | `OneLossForgiven`, `RevivedOnlyByOverlap`, `WaitingEnds` |
| `chat` | 1 message and 1 change of others or return to the workspace, 2 loads at once, 1 event on its way, 1 trouble | `QuietViewIsCurrent`, `NoEndlessRestoring`, `ClaimIsHonest`, `ComesBack` |
| `calls` | one of: 2 users, 1 call, 2 streams at once of the one called, 1 trouble; 2 pages of a room, one with a camera and 2 visits, 2 identities, 1 trouble | `RingsOnce`, `RingsOnChat`, `TogetherUnlessFailed`, `DialEnds`; `GoneIsSilent`, `ShowsWhatIs`, `NoPhantoms`, `SpinnerEnds` |
| `calls_own_identity` | the call alone, with a stream for each and no trouble | `OwnIdentity`, **violated**: the callee enters the room under the caller's identity |
| `clients` | one of: a page over 2 workspaces with 2 items, 2 creations, 2 changes and a failure; 2 edits, 2 loads after the first and a failure on a page of 2 keys; 2 accounts, 2 sign-ins, 2 lapses | `OwnWorkspaceOnly`, `CreatedShownOnce`, `EditsAreStored`, `OwnDataOnly`, `SessionHasTokens` |

Many of these properties have the form "this holds, unless one of these things has
happened". The exceptions are what the code leaves open; the property shows that
there is no other, in any order of steps, and section 6 says what each of them does
to a user. History variables record them (`overlapped`, `crossed`, `again`,
`slipped`, `raced`, `mixed`, `bereft`, …); no guard reads one.

**Why the bounds are enough.** Two actors suffice for every pairwise race in this
code: no operation hands work to a third. Two attempts give a first try, a retry and
a last failure. Two troubles let one failure hit the recovery from another; where
one is used the second only repeats the first on another row, or its recovery is not
bounded by it. A channel of length 1 is full after one event, and three events show
a gap. A window of 1 message makes "one too many" happen with two messages. Two
rooms let an event of the first arrive in the life of the second. Three tokens are a
login, a rotation and the rotation of its replacement, or of the other tab's. Two
loads under way can be answered in the wrong order, and three answers contain two
that are. Two streams of the one who is called are the one that
was replaced and the one that replaced it; the caller gets no invitation and has
one. A page that comes to a room twice meets what its first visit has left there, and
the other page is who hears it. Connections, requests and workspaces that are
interchangeable are numbered from the lowest free number, or begin at one. Two
workspaces and two changes come back to the first with its load still under way. Two
loads after the first open a page on an edit in flight, and once more after it. Two
lapses are a token that runs out and a refresh that fails, or both its tries. Rows, requests and webhooks are otherwise independent. Where a
theorem covers the property, no bound matters.

`CHECK_DEADLOCK FALSE` is set because all these systems may stop: every request is
over, every budget of events and troubles is used up.

**Fairness.** At the server, weak fairness of a process's own next step: goroutines
run on, calls return, tickers tick (`Work`, `Proceed`, `Sweep`, `Handle`). Weak
fairness of `Restart`: the containers run with `restart: unless-stopped`. Weak
fairness of time: a lease that nobody renews runs out. Strong fairness only where the
code gives it: a blocked `Lock` of Go's read-write mutex keeps new readers out, so
whoever waits for it gets it (`Hub`); and a job that stays open is delivered in its
turn, which is what `EveryJobSettles` shows of the streams (`Messages`). In the
clients, weak fairness of requests that end, since `fetch` has a timeout or the
browser gives up (`AuthSession`, `ChatClient`, and of `Calls` the requests of dialling
only), of the reconnection timer and of the poll of the members together with its
refresh, which is taken to succeed in the end (`ChatClient`), and of what `connect()`
of a room waits for, LiveKit's own reconnection included, which comes or is given up
(`CallRoom`). No fairness is assumed of event streams: nothing ends the handler of a
dead one within a bound, and a refused `EventSource` stays shut. Nor is any assumed of
users, of failures, of late webhooks, or of a claim that steals an entry.

## 5. What TLAPS proves

Theorems hold for every value of the constants, under the assumptions that each
module names (`OutboxAssumption` and the like: counts are naturals, limits positive,
sentinels are not actors), which TLC evaluates in every run.

| Module | Theorem | Argument |
|---|---|---|
| `JobStreamProofs` | `TypeCorrect`, `NothingLost`, `DeadLettersJustified` | `NoEntryLost` is not inductive: a consumer acknowledges by id, long after it decided to. `QueueInv` adds that whoever is about to acknowledge has recorded why the entry is not needed (`AckJustified`, `SettleJustified`). For dead letters, `AttemptsBacked`: every copy with n attempts is backed by n failed runs |
| `JobStreamProofs` | `StreamImplementsDelivery` | each step of the stream is a step of `JobDelivery` or a stutter, by `QueueInv`: an entry leaves the pending list only with a verdict or a successor |
| `JobStreamProofs` | `CalmQueueGivesOneVerdict` | `CalmInv`: without troubles every pending entry is in the hands of exactly one consumer, so that no page is ever claimed (`Holders`), and one entry at a time carries a job on, until a verdict ends it (`Verdicts`). Each calm step gives no verdict, appends the entry that carries on, or settles the job of the one live entry |
| `OutboxProofs` | `TypeCorrect`, `OnlySentIsPublished`, `LeasesAreExclusive`, `AbandonmentJustified` | what a dispatcher in a stage has done (`SentInv`), who holds which row unless its lease ran out (`LeaseInv`), and that attempts, also those of late dispatchers, are backed by failures |
| `MeetingSessionProofs` | `TypeCorrect`, `ActiveMeetingHasSession`, `EventAnnouncedOnce`, `SessionEndsAfterRoom`, `MeetingOverForGood` | `IInv`: what the rows say of each other (`MeetingInv`, `RowInv`), the same for every copy of a row that an operation holds (`ActorInv`), since it will be written back whole, and the unique index on webhook events (`HookInv`) |
| `WorkspaceMembersProofs` | `TypeCorrect`, `LastOwnerStays`, `SecondRowIsLateOrUnchecked`, `OwnersDecide` | `Knows(r)`: what a request that nobody has overtaken knows of the table, stage by stage; an add whose lookup failed knows nothing |
| `RealtimeProofs` (hub) | `TypeCorrect`, `ChannelsAreSafe` | `NoPanic` needs the protocol of removal: a closed client has no entry (`ClosedInv`), whoever is about to close one has removed its entry, alone (`RemovedInv`), and the read lock keeps entries during a scan (`ScanInv`) |
| `RealtimeProofs` (hub) | `EventsArriveWithoutGap` | `GapInv`: what a client received or has in its channel of a caller's events is in order (`InOrder`), an interval (`Unbroken`), and reaches up to the newest event put to it (`UpToDate`), as long as its writer writes and it has an entry and was not found slow. Events are for subscribers (`SubscribedInv`), so a client that is passed over knows of none; one found slow stays out of line until its entry is gone (`SlowInv`, `RemovedInv`), and does not come back |
| `MessagesProofs` | `TypeCorrect`, `AnswersAreStored`, `RetriesFindTheFirst`, `OnePushEach` | `LookedInv`: what a request that found nothing may conclude, from the moment it looked; `OverInv`: of two requests that did not overlap, the first is over; `PushInv`: one consumer at most is entitled to publish about a row, and until then each publication was a trouble |
| `AuthSessionProofs` | `TypeCorrect`, `RevivalNeedsOverlap` | a commit saves the session of the row it read in its transaction, while the check was made on the session of the token it was sent with. `RowInv`: replacements stay in the family, so both are one session (`RequestFits`); and a request that has looked at a session that is revoked by now is among those that overlapped the revocation |
| `AuthSessionProofs` | `OneLossIsForgiven` | `LossInv`: with one tab open, `TabInv` follows the tokens the tab may present (`Live`) and those it falls back on (`Held`). Before the loss they are unused, and no refresh of a page gone is about to rotate in their family; the loss costs one rotation, after which each is unused or has an unused replacement, and is unused as long as such a refresh is under way. So a look finds no token to work on only when the session has expired (`TheftMeansExpired`), and rows are revoked in expired sessions only (`RevokedInv`) |
| `RealtimeProofs` (calls) | `CallsTyped`, `CallsRingOnce`, `CallsRingOnChat`, `CallsMeet` | `CallsInv`: whatever a page, a frame or a request holds is about a call that somebody dialled, once (`DialledInv`, `DialOnceInv`); of a call that nothing failed for, everything under way carries the id of its first request (`BellInv`), and its caller has gone to no other meeting (`WentInv`). `RingInv` follows its bell: none before the first request; while the frame is to come, the bell that has begun is there or was answered, so that the frame finds its id in the store; afterwards there is a bell, an answer, or no page for it |
| `RealtimeProofs` (chat) | `ChatTyped`, `ClaimsAreHonest`, `QuietViewsAreCurrent`, `RestoringEnds` | the claim is the page's own until a socket has opened since the effect ran, and the client's after that (`ConnectedInv`). The view's property speaks of quiet states only, and what leads there is `ChatInv`: at every moment a load is still to come of what is under way (`Coming`), or the list is as stored, or excused, or an answer that has it is under way and no later one is behind it (`MessagesFine`, `ListedFine`). Every step either keeps something coming or goes unheard, and then marks the answers read before (`UnheardFine`); a publication that fails is such a step |
| `ClientsProofs` (call room) | `RoomTyped`, `PagesGoneAreSilent`, `RoomsShowWhatIs`, `RoomsShowNoPhantoms` | `HookInv`: a connection that lives is the one the hook holds, at each stage of `connect()`, and who is not in the room knows nobody there; `GhostsInv`: only a page left while it waited for the module leaves a `connect()` behind |
| `ClientsProofs` (pages) | `PagesTyped`, `ListsAreOfOwnWorkspace`, `CreationsAreShownOnce` | a load under way is of the workspace that is active, since a change of it cancels the one before (`LoadInv`); the list in the page's state, rendered or not, is of the workspace it was loaded for (`ListInv`); every creation since a load read the list is marked as overlapped (`CreationInv`) |
| `ClientsProofs` (edits) | `EditsTyped`, `ScreenShowsStored` | a load that began with nothing in flight has the page to itself (`OpenedInv`); an edit that meets no other knows the screen and the database before it (`AloneInv`); marks may meet, and each makes up for its own (`MarksInv`); preferences never meet (`SwitchInv`) |
| `ClientsProofs` (mobile) | `MobileTyped`, `ScreensShowOwnData`, `SessionsHaveTokens` | whose tokens are stored, and whose is every context, load and screen, until `mixed` has begun (`OwnTokensInv`); a sign-out that is on its way while somebody is signed in is older than that sign-in (`LeavingInv`) |

`MeetingOverForGood`, `OwnersDecide` and `OnePushEach` state properties of their
modules (`OverForGood`, `OwnersRespected`, and what `PushesBounded` counts) that no
run spends time on, since the theorem says more.

Only model-checked is liveness: every `~>` of the runs and the fairness it needs, which
are beyond the prover. The violated property has its trace as evidence. The constants
of the clients are assumed to be finite or natural where they bound something, and
neither `Identity` nor `Workspace` to be empty: a room knows its users by identities,
and a page has chosen one of the workspaces that it was given.

## 6. What the models show of the code

### Where the code does otherwise than its documents say

`calls_own_identity` is in `PROJECT.json` as a finding. The following are stated in
the modules and can be reproduced by giving TLC the property as the only one of the
configuration named (line numbers of README.md and roadmap.md are those of the
repository):

| Property | Configuration | What happens |
|---|---|---|
| `EveryChangePublished` of `Outbox` | `Outbox.cfg` | an event of a type the dispatcher does not know (`workspace.go:492`) fails on every poll (`outbox.go:133`) and is never published, though README.md:60 promises the outbox for such changes |
| `RoomCleanup` of `MeetingSession` | `MeetingSessionLiveness.cfg` | a late `room_started` (`webrtc_service.go:493`) revives the session of a meeting that is over; expiry (`:730`) does not find it. roadmap.md:692 expects rooms to be cleaned up |
| `SweepSparesOccupied` of `MeetingSession` | `MeetingSessionLiveness.cfg` | sessions expire by a column that no activity refreshes (`webrtc_service.go:691`), with people in the room (README.md:612) |
| `SomeOwner` of `WorkspaceMembers` | `WorkspaceMembersSafety.cfg` | two requests that overlap each see two owners (`workspace.go:561`, `:573`) and remove both (roadmap.md:958) |
| `NoticeIsReadable` of `Messages` | `Messages.cfg` | a notification goes to a user who can reach the conversation but not its messages (`notification.go:141`, `channel.go:49-58`, `conversation.go:277-284`) |
| `RotationForgives` of `AuthSession` | `AuthSession.cfg` | `auth_service.go:246-249` says the search for the sibling token "handles multi-tab scenarios regardless of timing"; a tab that is two rotations behind still ends the family |

### What the exceptions of the client properties stand for

* **Sessions.** A logout whose request fails leaves the page authenticated without
  tokens (`AuthContext.tsx:104-109`). A refresh in flight at logout writes its tokens
  back (`auth.ts:305`). A refresh that fails in one tab deletes the token the tabs
  share (`auth.ts:287-288`). A read that fails while the server looks for the
  replacement of a used token counts as theft (`auth_service.go:251-261`).
* **Members.** A lookup that fails, for whatever reason, counts as absence
  (`workspace.go:332`), and the user gets a second row.
* **Chat.** Deletions are not listened to (`chat/page.tsx:617`). One slot holds the
  last event, and the second replaces the first before it is rendered
  (`PlatformContext.tsx:197`). Loads are not numbered (`chat-store.ts:200`). The
  answer of an own message is put on top of a list that may have it
  (`chat-store.ts:316`); a late answer to a creation empties the messages (`:237`), a
  failed load the store (`:183`). A page that was hidden stays disconnected
  (`PlatformContext.tsx:200`), and so does one whose timer fires when no token is stored
  (`realtime/client.ts:61-64`); a token is not renewed for a reconnection. The effect
  says "connected" when `connect()` has returned, whether or not there is a connection,
  also when it runs again in an outage (`PlatformContext.tsx:189-194`). An event whose
  publication fails is lost (`message.go:91`, `conversation.go:127`), and so is a
  subscription whose check fails (`realtime.go:246`). A creator who leaves sees the
  conversation again with the next load (`conversation.go:277-280`). A message whose
  sending fails is lost (`chat-store.ts:324`).
* **Calls.** An event for a user without a stream is lost, and no page asks for
  pending calls. An invitation whose answer was lost rings while the caller goes to
  another meeting. A call that was answered before its frame came rings again with the
  frame; where the answer was an accept the page is in the room by then, and hears it
  only if it is back in the chat. An answer to a notification that only the frame of a
  failed request brought is a 404. A stream that is refused stays shut until the chat
  is opened again (`use-call-sse.ts:158-166`), and the handler of an older stream that
  ends takes the entry of the newer one (`calls.go:82`): only the frame rings then. The
  indicator of an
  outgoing call stays (`call-store.ts:79`).
* **Call room.** The effect that connects again sets its timer anew at every
  render, as it depends on `connect` (`room/page.tsx:267-275`). Who joins later does
  not see those already there (`use-livekit.ts:204-211`). A refused camera shows the
  page as not connected while its microphone is live (`:219-237`). A page that is left
  while `connect()` waits for LiveKit's module (`:174`) has no Room to disconnect: the
  join goes on, with microphone and camera, until the tab is closed. Who leaves while
  LiveKit makes a connection again is shown until it is made. After hanging up the page may
  join again before the chat has come (`:241-268`).
* **Workspace pages.** A creation answered after a change of workspace lands in the
  other list; one that overlaps a load disappears or comes twice. Teams, tasks, projects
  and the calendar go on rendering the list of the workspace before below the spinner
  and the error of the next (`tasks/page.tsx:388-469`). The form for teams
  can be sent twice (`teams/page.tsx:262`).
* **Edits.** Marking all as read is not taken back when refused
  (`notifications/page.tsx:131`). Members are restored from a closure (`:126-135` of
  the members' settings). Two saves of the appearance may cross. A page that is left
  with an edit in flight and opened again may show the value from before, and its
  switches are enabled (`notification-settings.tsx:28-54`). Where the load fails, the
  appearance shows its local copy or defaults and the next save stores them whole
  (`appearance-settings.tsx:32-48`), and the members are none
  (`settings/page.tsx:112-124`).
* **Mobile.** A sign-out is not awaited; its answer clears the tokens of the next user
  (`auth.ts:490`). A refresh that ends after a sign-in stores the former user's
  tokens. A context request that is refused clears the tokens (`meet-data.ts:149-150`),
  also the next user's, and also where the refresh before it failed by a timeout; the
  session stays, as the listener that would end it throws.

## 7. Not modelled

The HTTP layer, middleware, configuration and CLI have no state of their own.
Channels, teams, projects, tasks, the audit log and object storage are single
statements on single rows. Password hashing and token formats are cryptography.
Desktop shell, SDKs and infrastructure files are deployment. Most of the lines of the
web and mobile clients are components, layout, texts, mock data and mappings: they
render what one request returned, and no order of steps can make them differ.
PostgreSQL, Redis and LiveKit are modelled as far as the server depends on them.

Known to be delicate, and covered by no property:

* `job_queue.go:339`: the in-memory queue retries by sending into the channel it alone
  drains. `worker.go:98`: one loop's error cancels the others by the errgroup.
* `outbox.go:73`: a mark that fails after the job was sent leads to a second job; the
  handlers are idempotent for that reason. `meeting.go:60`: an event is added after the
  commit of its change and may be lost.
* `webrtc_service.go:502`: a meeting whose empty room the provider closes stays
  active. `:610`: between the probe and `DeleteRoom` somebody may enter. `:513`:
  participants are upserts in the order of the webhooks.
* `realtime.go:247`, `:301`: the map of a client's workspaces is written and read
  without a common lock, a data race whose outcome may be the end of the process.
* `notification.go:48`, `:138`: the reminder of a meeting and the read of the message.
  `message.go:129`: an edit saves the whole message and brings back a deleted one.
  `conversation.go:89`: two direct conversations of the same users.
* `presence.go:229`, `:97`: the last-seen job writes over the status a user chose; the
  disconnect of one device sets the user offline. `scheduler.go:86`: the lock is kept
  when the job could not be enqueued, and the tick is lost.

These would be the next modules, in the order: presence with several devices, the
in-memory queue against `JobDelivery`, edits of messages against deletions; and,
as a proof, that `Outbox` implements an abstract relay of committed changes.
