------------------------------- MODULE Outbox -------------------------------
(***************************************************************************)
(* The transactional outbox: the services that record a change together    *)
(* with an event about it (OutboxService.Add), the outbox_events table     *)
(* (outboxRepository in repositories.go) and the dispatchers of the worker *)
(* processes (OutboxService.Run), which lease a batch of rows, turn each   *)
(* event into a job, and mark the row.                                     *)
(*                                                                         *)
(* A lease is a row's locked_at.  It is good for two minutes and it is not *)
(* fenced: MarkPublished and MarkFailed update the row by its id alone,    *)
(* with the attempts the dispatcher saw when it claimed the row.  Time is  *)
(* not a variable: a lease may run out at any moment, and it is a trouble  *)
(* when it does while its dispatcher still works on the row.               *)
(***************************************************************************)
EXTENDS Integers, FiniteSets

CONSTANTS
  Events,       \* events about changes, numbered by their created_at
  Silent,       \* those whose type dispatch accepts without a job
  Unknown,      \* those whose type dispatch does not know
  Detached,     \* those added after the change was committed, errors ignored
  Dispatchers,  \* worker processes that run the outbox
  NoOne,        \* the owner of a row whose locked_at is null
  MaxAttempts,  \* OUTBOX_MAX_ATTEMPTS
  BatchSize,    \* OUTBOX_BATCH_SIZE
  MaxTroubles   \* bound: calls that fail, dispatchers that stop, leases that run
                \* out under a dispatcher and events lost by their request, together

ASSUME OutboxAssumption ==
  /\ Events \subseteq Nat
  /\ Silent \subseteq Events /\ Unknown \subseteq Events /\ Detached \subseteq Events
  /\ Silent \cap Unknown = {}
  /\ NoOne \notin Dispatchers
  /\ MaxAttempts \in Nat \ {0}
  /\ BatchSize \in Nat \ {0}
  /\ MaxTroubles \in Nat

VARIABLES
  changed,    \* events whose change is committed
  owed,       \* detached events whose Add has still to run
  stored,     \* events with a row in outbox_events
  published,  \* rows with a published_at
  attempts,   \* attempts of each row
  lock,       \* locked_by of each row
  stale,      \* rows whose locked_at is more than two minutes ago
  pc,         \* stage of each dispatcher
  batch,      \* claimed rows a dispatcher has still to finish
  snapshot,   \* attempts of these rows when they were claimed
  sent,       \* per event: jobs enqueued for it
  failures,   \* per event: dispatches that returned an error
  overrun,    \* events whose lease ran out under its dispatcher
  troubles    \* how many of the MaxTroubles have happened

sourceVars     == <<changed, owed, stored>>
rowVars        == <<published, attempts, lock, stale>>
dispatcherVars == <<pc, batch, snapshot>>
historyVars    == <<sent, failures, overrun>>
vars == <<sourceVars, rowVars, dispatcherVars, historyVars, troubles>>

Stages == {"idle", "dispatch", "publish", "fail", "down"}

Init ==
  /\ changed = {} /\ owed = {} /\ stored = {} /\ published = {}
  /\ attempts = [e \in Events |-> 0]
  /\ lock = [e \in Events |-> NoOne]
  /\ stale = {}
  /\ pc = [d \in Dispatchers |-> "idle"]
  /\ batch = [d \in Dispatchers |-> {}]
  /\ snapshot = [d \in Dispatchers |-> [e \in Events |-> 0]]
  /\ sent = [e \in Events |-> 0]
  /\ failures = [e \in Events |-> 0]
  /\ overrun = {}
  /\ troubles = 0

Trouble == troubles < MaxTroubles /\ troubles' = troubles + 1

-----------------------------------------------------------------------------
(***************************************************************************)
(* Producers.  Most events are added in the transaction of their change;   *)
(* MeetingService commits the change first and adds the event afterwards.  *)
(***************************************************************************)
Change(e) ==
  /\ e \notin changed
  /\ changed' = changed \cup {e}
  /\ IF e \in Detached
       THEN owed' = owed \cup {e} /\ UNCHANGED stored
       ELSE stored' = stored \cup {e} /\ UNCHANGED owed
  /\ UNCHANGED <<rowVars, dispatcherVars, historyVars, troubles>>

AddDetached(e) ==
  /\ e \in owed
  /\ owed' = owed \ {e}
  /\ stored' = stored \cup {e}
  /\ UNCHANGED <<changed, rowVars, dispatcherVars, historyVars, troubles>>

\* The insert fails, which is ignored, or the process stops before it.
AddLost(e) ==
  /\ e \in owed
  /\ owed' = owed \ {e}
  /\ Trouble
  /\ UNCHANGED <<changed, stored, rowVars, dispatcherVars, historyVars>>

-----------------------------------------------------------------------------
(***************************************************************************)
(* flush: claim a batch, then dispatch and mark its rows one by one.       *)
(***************************************************************************)
Move(d, stage) == pc' = [pc EXCEPT ![d] = stage]

\* Mutants of the WHERE clause: no check of the lock, and leases that never run out.
ClaimableLocked == {e \in stored \ published : attempts[e] < MaxAttempts}

ClaimableUnlocked ==
  {e \in stored \ published : attempts[e] < MaxAttempts /\ lock[e] = NoOne}

Claimable ==
  {e \in stored \ published :
     attempts[e] < MaxAttempts /\ (lock[e] = NoOne \/ e \in stale)}

\* ORDER BY created_at LIMIT BatchSize.
Oldest(S) == {e \in S : Cardinality({f \in S : f < e}) < BatchSize}

\* Another dispatcher may be marking these rows: SKIP LOCKED passes over them.
Marking(d) == UNION {batch[x] : x \in Dispatchers \ {d}}

\* Mutant: attempts are counted when a row is claimed.
LeaseCountsAttempt(d, rows) ==
  /\ rows # {}
  /\ lock' = [e \in Events |-> IF e \in rows THEN d ELSE lock[e]]
  /\ stale' = stale \ rows
  /\ attempts' = [e \in Events |-> IF e \in rows THEN attempts[e] + 1 ELSE attempts[e]]
  /\ UNCHANGED published

Lease(d, rows) ==
  /\ rows # {}
  /\ lock' = [e \in Events |-> IF e \in rows THEN d ELSE lock[e]]
  /\ stale' = stale \ rows
  /\ UNCHANGED <<published, attempts>>

Claim(d) ==
  /\ pc[d] = "idle"
  /\ \E skipped \in SUBSET (Marking(d) \cap Claimable) :
       LET rows == Oldest(Claimable \ skipped) IN
         /\ Lease(d, rows)
         /\ batch' = [batch EXCEPT ![d] = rows]
         /\ snapshot' =
              [snapshot EXCEPT ![d] = [e \in Events |-> IF e \in rows THEN attempts[e] ELSE 0]]
  /\ Move(d, "dispatch")
  /\ UNCHANGED <<sourceVars, historyVars, troubles>>

\* The transaction commits and its reply is lost: the rows stay leased to a
\* dispatcher that does not know it.
ClaimFault(d) ==
  /\ pc[d] = "idle"
  /\ Lease(d, Oldest(Claimable))
  /\ Trouble
  /\ UNCHANGED <<sourceVars, dispatcherVars, historyVars>>

IsCurrent(d, e) == e \in batch[d] /\ \A f \in batch[d] : e <= f

\* dispatch: by the type of the event, a job, nothing, or an error.
DispatchJob(d) ==
  /\ pc[d] = "dispatch"
  /\ \E e \in Events \ (Silent \cup Unknown) :
       IsCurrent(d, e) /\ sent' = [sent EXCEPT ![e] = @ + 1]
  /\ Move(d, "publish")
  /\ UNCHANGED <<sourceVars, rowVars, batch, snapshot, failures, overrun, troubles>>

DispatchSilent(d) ==
  /\ pc[d] = "dispatch"
  /\ \E e \in Silent : IsCurrent(d, e)
  /\ Move(d, "publish")
  /\ UNCHANGED <<sourceVars, rowVars, batch, snapshot, historyVars, troubles>>

DispatchUnknown(d) ==
  /\ pc[d] = "dispatch"
  /\ \E e \in Unknown :
       IsCurrent(d, e) /\ failures' = [failures EXCEPT ![e] = @ + 1]
  /\ Move(d, "fail")
  /\ UNCHANGED <<sourceVars, rowVars, batch, snapshot, sent, overrun, troubles>>

\* Mutant: the error of EnqueueJob is swallowed.
DispatchErrorIgnored(d) ==
  /\ pc[d] = "dispatch"
  /\ \E e \in Events \ (Silent \cup Unknown) :
       /\ IsCurrent(d, e)
       /\ failures' = [failures EXCEPT ![e] = @ + 1]
       /\ sent' \in {sent, [sent EXCEPT ![e] = @ + 1]}
  /\ Trouble
  /\ Move(d, "publish")
  /\ UNCHANGED <<sourceVars, rowVars, batch, snapshot, overrun>>

\* EnqueueJob returns an error; Redis may have appended the job all the same.
DispatchFault(d) ==
  /\ pc[d] = "dispatch"
  /\ \E e \in Events \ (Silent \cup Unknown) :
       /\ IsCurrent(d, e)
       /\ failures' = [failures EXCEPT ![e] = @ + 1]
       /\ sent' \in {sent, [sent EXCEPT ![e] = @ + 1]}
  /\ Trouble
  /\ Move(d, "fail")
  /\ UNCHANGED <<sourceVars, rowVars, batch, snapshot, overrun>>

\* The job was appended, the reply got lost, and the client is about to send it
\* again (REDIS_MAX_RETRIES).
Resend(d) ==
  /\ pc[d] = "dispatch"
  /\ \E e \in Events \ (Silent \cup Unknown) :
       IsCurrent(d, e) /\ sent' = [sent EXCEPT ![e] = @ + 1]
  /\ Trouble
  /\ UNCHANGED <<sourceVars, rowVars, dispatcherVars, failures, overrun>>

\* The loop goes on with the next row of the batch, whatever the update returned.
NextRow(d, e) ==
  /\ IsCurrent(d, e)
  /\ batch' = [batch EXCEPT ![d] = @ \ {e}]
  /\ Move(d, IF batch[d] = {e} THEN "idle" ELSE "dispatch")
  /\ UNCHANGED <<sourceVars, snapshot, historyVars>>

Unlock(e) == lock' = [lock EXCEPT ![e] = NoOne] /\ stale' = stale \ {e}

MarkPublished(d) ==
  /\ pc[d] = "publish"
  /\ \E e \in Events :
       NextRow(d, e) /\ Unlock(e) /\ published' = published \cup {e}
  /\ UNCHANGED <<attempts, troubles>>

MarkFailed(d) ==
  /\ pc[d] = "fail"
  /\ \E e \in Events :
       /\ NextRow(d, e)
       /\ Unlock(e)
       /\ attempts' = [attempts EXCEPT ![e] = snapshot[d][e] + 1]
  /\ UNCHANGED <<published, troubles>>

\* The update fails, which is ignored: the row stays leased.
MarkFault(d) ==
  /\ pc[d] \in {"publish", "fail"}
  /\ \E e \in Events : NextRow(d, e)
  /\ Trouble
  /\ UNCHANGED rowVars

-----------------------------------------------------------------------------
(***************************************************************************)
(* Two minutes pass; a worker process stops and is started again.          *)
(***************************************************************************)
InHand(e) == lock[e] # NoOne /\ e \in batch[lock[e]]

LeaseRunsOut(e) ==
  /\ lock[e] # NoOne
  /\ e \notin stale
  /\ ~InHand(e)
  /\ stale' = stale \cup {e}
  /\ UNCHANGED <<sourceVars, published, attempts, lock, dispatcherVars, historyVars, troubles>>

LeaseOverrun(e) ==
  /\ InHand(e)
  /\ e \notin stale
  /\ stale' = stale \cup {e}
  /\ overrun' = overrun \cup {e}
  /\ Trouble
  /\ UNCHANGED <<sourceVars, published, attempts, lock, dispatcherVars, sent, failures>>

Stop(d) ==
  /\ pc[d] # "down"
  /\ Trouble
  /\ Move(d, "down")
  /\ batch' = [batch EXCEPT ![d] = {}]
  /\ UNCHANGED <<sourceVars, rowVars, snapshot, historyVars>>

Restart(d) ==
  /\ pc[d] = "down"
  /\ Move(d, "idle")
  /\ UNCHANGED <<sourceVars, rowVars, batch, snapshot, historyVars, troubles>>

-----------------------------------------------------------------------------

Work(d) ==
  \/ Claim(d)
  \/ DispatchJob(d) \/ DispatchSilent(d) \/ DispatchUnknown(d)
  \/ MarkPublished(d) \/ MarkFailed(d)

Disturb(d) ==
  ClaimFault(d) \/ DispatchFault(d) \/ Resend(d) \/ MarkFault(d) \/ Stop(d)

Next ==
  \/ \E e \in Events :
       \/ Change(e) \/ AddDetached(e) \/ AddLost(e)
       \/ LeaseRunsOut(e) \/ LeaseOverrun(e)
  \/ \E d \in Dispatchers : Work(d) \/ Disturb(d) \/ Restart(d)

Spec == Init /\ [][Next]_vars

\* Requests finish, the poll timer ticks, calls return, time passes, and a stopped
\* process is started again ("restart: unless-stopped").
FairSpec ==
  /\ Spec
  /\ \A e \in Events : WF_vars(AddDetached(e)) /\ WF_vars(LeaseRunsOut(e))
  /\ \A d \in Dispatchers : WF_vars(Work(d)) /\ WF_vars(Restart(d))

-----------------------------------------------------------------------------

RowType ==
  /\ changed \subseteq Events
  /\ owed \subseteq Detached \cap changed
  /\ stored \subseteq changed
  /\ published \subseteq stored
  /\ attempts \in [Events -> 0 .. MaxAttempts]
  /\ lock \in [Events -> Dispatchers \cup {NoOne}]
  /\ stale \subseteq {e \in Events : lock[e] # NoOne}

DispatcherType ==
  /\ pc \in [Dispatchers -> Stages]
  /\ batch \in [Dispatchers -> SUBSET stored]
  /\ snapshot \in [Dispatchers -> [Events -> 0 .. MaxAttempts - 1]]
  /\ \A d \in Dispatchers :
       pc[d] \in {"dispatch", "publish", "fail"} <=> batch[d] # {}

HistoryType ==
  /\ sent \in [Events -> Nat]
  /\ failures \in [Events -> Nat]
  /\ overrun \subseteq Events
  /\ troubles \in Nat

TypeOK == RowType /\ DispatcherType /\ HistoryType

\* A row is marked published only after its job was enqueued, although the mark
\* is a later update by id of whichever dispatcher still holds the row.
PublishedWasSent ==
  \A e \in published \ (Silent \cup Unknown) : sent[e] > 0

\* The outbox gives up on an event only after MaxAttempts dispatches of it failed:
\* late dispatchers that write back an old attempts count cannot use attempts up.
AbandonedJustified ==
  \A e \in stored : attempts[e] >= MaxAttempts => failures[e] >= MaxAttempts

\* Two dispatchers work on the same row only if its lease ran out under one.
LeaseExclusive ==
  \A d, x \in Dispatchers :
    d # x => batch[d] \cap batch[x] \subseteq overrun

\* Each duplicate job of an event is due to a trouble of its own.
SendsBounded == \A e \in Events : sent[e] <= 1 + troubles

\* An event of a known type that is in the table is eventually published, as long
\* as there are fewer troubles than attempts.
StoredEventsPublished ==
  \A e \in Events \ Unknown : e \in stored ~> e \in published

\* What "reliable event publishing" says: every committed change is eventually
\* published.
EveryChangePublished ==
  \A e \in Events : e \in changed ~> e \in published

=============================================================================
