----------------------------- MODULE JobStream -----------------------------
(***************************************************************************)
(* One queue of RedisStreamJobQueue (server/src/services/job_queue.go): a  *)
(* Redis stream, the consumer group that reads it, the dead-letter stream  *)
(* beside it, and the consumers of the worker processes.                   *)
(*                                                                         *)
(* A consumer reads one new entry at a time, or claims entries that have   *)
(* been pending for longer than ClaimIdleTimeout, runs the handler, and    *)
(* then settles the entry: XACK after a success; XADD to the dead stream   *)
(* or XADD of a copy with one more attempt, and then XACK, after an error. *)
(* Every Redis call is a step of its own, so consumers interleave between  *)
(* them, a process can stop between them, and each of them can fail with   *)
(* or without having been executed by the server, or be sent twice.        *)
(*                                                                         *)
(* Time is not a variable.  AvailableAt only delays a delivery that was    *)
(* already made, so waiting for it is part of the "handle" stage; whether  *)
(* an entry has been idle for ClaimIdleTimeout is left open: a handler, or *)
(* the wait of a late attempt (retryDelay goes up to ten minutes), can     *)
(* outlast it.                                                             *)
(***************************************************************************)
EXTENDS Integers, Sequences, FiniteSets

CONSTANTS
  Jobs,         \* ids of the jobs producers enqueue
  Consumers,    \* consumer names, each in a worker process of its own
  MaxAttempts,  \* job.MaxAttempts
  MaxTroubles   \* bound: Redis calls that fail or are sent twice, workers that
                \* stop, and claims of entries another live consumer still
                \* works on, together

ASSUME JobStreamAssumption ==
  /\ MaxAttempts \in Nat \ {0}
  /\ MaxTroubles \in Nat

VARIABLES
  stream,    \* <prefix>:jobs:<queue>, never trimmed: entries [job, attempts]
  cursor,    \* index of the last entry delivered to the group
  pel,       \* pending entries of the group: delivered, not acknowledged
  dead,      \* <prefix>:dead:<queue>
  pc,        \* stage of each consumer
  page,      \* claimed entries a consumer has still to process
  msg,       \* entry a consumer is processing, and whether it read or claimed it
  oks,       \* per job: handler runs that returned nil
  failures,  \* per job: handler runs that returned an error
  condemned, \* jobs some handler run failed with a non-retryable error
  troubles   \* how many of the MaxTroubles have happened

streamVars   == <<stream, cursor, pel, dead>>
consumerVars == <<pc, page, msg>>
historyVars  == <<oks, failures, condemned>>
vars == <<streamVars, consumerVars, historyVars, troubles>>

Busy    == {"handle", "ack", "retry", "bury", "settle"}
Stages  == {"loop", "down"} \cup Busy
Entries == [job : Jobs, attempts : Nat]
Ids     == 1 .. Len(stream)
NoMsg   == [id |-> 0, path |-> "none"]

\* Entries the group will still deliver or already delivered and may deliver
\* again.
Open == pel \cup {i \in Ids : i > cursor}

\* Entries a live consumer has in hand.
Held(c) == page[c] \cup IF pc[c] \in Busy THEN {msg[c].id} ELSE {}

Orphans == {i \in pel : \A c \in Consumers : i \notin Held(c)}

Entry(c) == stream[msg[c].id]

Init ==
  /\ stream = <<>>
  /\ cursor = 0
  /\ pel = {}
  /\ dead = <<>>
  /\ pc = [c \in Consumers |-> "loop"]
  /\ page = [c \in Consumers |-> {}]
  /\ msg = [c \in Consumers |-> NoMsg]
  /\ oks = [j \in Jobs |-> 0]
  /\ failures = [j \in Jobs |-> 0]
  /\ condemned = {}
  /\ troubles = 0

Trouble == troubles < MaxTroubles /\ troubles' = troubles + 1

-----------------------------------------------------------------------------
(***************************************************************************)
(* Producers: QueueProducer.EnqueueJob gives the job a fresh id and XADDs  *)
(* it with Attempts = 0.  An XADD that was not executed accepts nothing.   *)
(***************************************************************************)
AppendNew(j) ==
  /\ stream' = Append(stream, [job |-> j, attempts |-> 0])
  /\ UNCHANGED <<cursor, pel, dead>>

Enqueue(j) ==
  /\ \A i \in Ids : stream[i].job # j
  /\ AppendNew(j)
  /\ UNCHANGED <<consumerVars, historyVars, troubles>>

\* The reply of the XADD got lost and the client sent it again (MaxRetries).
EnqueueAgain(j) ==
  /\ \E i \in Ids : stream[i].job = j
  /\ AppendNew(j)
  /\ Trouble
  /\ UNCHANGED <<consumerVars, historyVars>>

-----------------------------------------------------------------------------
(***************************************************************************)
(* Consume: the loop of one consumer.                                      *)
(***************************************************************************)
Move(c, stage) == pc' = [pc EXCEPT ![c] = stage]

\* The server moves the next new entry into the pending list.
DeliverNext ==
  /\ cursor < Len(stream)
  /\ cursor' = cursor + 1
  /\ pel' = pel \cup {cursor + 1}
  /\ UNCHANGED <<stream, dead>>

\* XREADGROUP ">" with COUNT 1, once the claimed page is finished.
Read(c) ==
  /\ pc[c] = "loop"
  /\ page[c] = {}
  /\ DeliverNext
  /\ msg' = [msg EXCEPT ![c] = [id |-> cursor + 1, path |-> "read"]]
  /\ Move(c, "handle")
  /\ UNCHANGED <<page, historyVars, troubles>>

\* The reply is lost, executed or not: Consume returns the error, the errgroup
\* cancels and the worker process ends.
ReadFault(c) ==
  /\ pc[c] = "loop"
  /\ page[c] = {}
  /\ DeliverNext \/ UNCHANGED streamVars
  /\ Trouble
  /\ Move(c, "down")
  /\ UNCHANGED <<page, msg, historyVars>>

\* XAUTOCLAIM: a page of pending entries, whoever they were delivered to.
ClaimPage(c, S) ==
  /\ pc[c] = "loop"
  /\ page[c] = {}
  /\ S # {}
  /\ page' = [page EXCEPT ![c] = S]
  /\ UNCHANGED <<streamVars, pc, msg, historyVars>>

\* Mutant: pages hold whatever is pending, idle or not.
ClaimAnything(c) ==
  \E S \in SUBSET pel : ClaimPage(c, S) /\ UNCHANGED troubles

\* Mutant: a consumer loop without claimPending.
ClaimNothing(c) == FALSE

ClaimOrphans(c) ==
  \E S \in SUBSET Orphans : ClaimPage(c, S) /\ UNCHANGED troubles

\* The handler or the AvailableAt wait of another consumer outlasted
\* ClaimIdleTimeout, so its entry looks abandoned.
Steal(c) ==
  /\ \E S \in SUBSET pel : ~(S \subseteq Orphans) /\ ClaimPage(c, S)
  /\ Trouble

\* The claimed page is processed serially, in stream order, from memory.
TakeClaimed(c) ==
  /\ pc[c] = "loop"
  /\ \E i \in page[c] :
       /\ \A k \in page[c] : i <= k
       /\ msg' = [msg EXCEPT ![c] = [id |-> i, path |-> "claim"]]
       /\ page' = [page EXCEPT ![c] = @ \ {i}]
  /\ Move(c, "handle")
  /\ UNCHANGED <<streamVars, historyVars, troubles>>

-----------------------------------------------------------------------------
(***************************************************************************)
(* processMessage: run the handler, then settle the entry.                 *)
(***************************************************************************)
HandleOk(c) ==
  /\ pc[c] = "handle"
  /\ oks' = [oks EXCEPT ![Entry(c).job] = @ + 1]
  /\ Move(c, "ack")
  /\ UNCHANGED <<streamVars, page, msg, failures, condemned, troubles>>

\* Mutant: the bound on attempts is one too low.
GivesUpEarly(entry) == entry.attempts + 2 < MaxAttempts

HasAttemptsLeft(entry) == entry.attempts + 1 < MaxAttempts

HandleRetryable(c) ==
  /\ pc[c] = "handle"
  /\ failures' = [failures EXCEPT ![Entry(c).job] = @ + 1]
  /\ Move(c, IF HasAttemptsLeft(Entry(c)) THEN "retry" ELSE "bury")
  /\ UNCHANGED <<streamVars, page, msg, oks, condemned, troubles>>

\* Mutant: the entry is acknowledged without a dead letter.
PermanentWithoutLetter(c) ==
  /\ pc[c] = "handle"
  /\ failures' = [failures EXCEPT ![Entry(c).job] = @ + 1]
  /\ condemned' = condemned \cup {Entry(c).job}
  /\ Move(c, "settle")
  /\ UNCHANGED <<streamVars, page, msg, oks, troubles>>

HandlePermanent(c) ==
  /\ pc[c] = "handle"
  /\ failures' = [failures EXCEPT ![Entry(c).job] = @ + 1]
  /\ condemned' = condemned \cup {Entry(c).job}
  /\ Move(c, "bury")
  /\ UNCHANGED <<streamVars, page, msg, oks, troubles>>

Acknowledge(c) == pel' = pel \ {msg[c].id} /\ UNCHANGED <<stream, cursor, dead>>

AppendRetry(c) ==
  /\ stream' = Append(stream, [Entry(c) EXCEPT !.attempts = @ + 1])
  /\ UNCHANGED <<cursor, pel, dead>>

AppendDead(c) ==
  /\ dead' = Append(dead, Entry(c))
  /\ UNCHANGED <<stream, cursor, pel>>

\* An error of processMessage ends the worker when it comes out of Consume's own
\* read; inside claimPending it is logged and the rest of the page is dropped.
Abort(c) ==
  /\ Trouble
  /\ Move(c, IF msg[c].path = "read" THEN "down" ELSE "loop")
  /\ page' = [page EXCEPT ![c] = {}]
  /\ msg' = [msg EXCEPT ![c] = NoMsg]
  /\ UNCHANGED historyVars

\* processMessage returns nil.
Finish(c) ==
  /\ Move(c, "loop")
  /\ msg' = [msg EXCEPT ![c] = NoMsg]
  /\ UNCHANGED <<page, historyVars>>

ToSettle(c) == Move(c, "settle") /\ UNCHANGED <<page, msg, historyVars, troubles>>

Ack(c)      == pc[c] = "ack" /\ Acknowledge(c) /\ Finish(c) /\ UNCHANGED troubles
AckFault(c) == pc[c] = "ack" /\ (Acknowledge(c) \/ UNCHANGED streamVars) /\ Abort(c)

\* Mutant: the error of XADD is ignored and the old entry acknowledged.
RetryErrorIgnored(c) ==
  pc[c] = "retry" /\ (AppendRetry(c) \/ UNCHANGED streamVars) /\ ToSettle(c)

Retry(c)      == pc[c] = "retry" /\ AppendRetry(c) /\ ToSettle(c)
RetryFault(c) == pc[c] = "retry" /\ (AppendRetry(c) \/ UNCHANGED streamVars) /\ Abort(c)

DeadLetter(c)      == pc[c] = "bury" /\ AppendDead(c) /\ ToSettle(c)
DeadLetterFault(c) == pc[c] = "bury" /\ (AppendDead(c) \/ UNCHANGED streamVars) /\ Abort(c)

Settle(c) == pc[c] = "settle" /\ Acknowledge(c) /\ Finish(c) /\ UNCHANGED troubles

\* This acknowledgement's error is ignored.
SettleFault(c) == pc[c] = "settle" /\ UNCHANGED streamVars /\ Finish(c) /\ Trouble

\* The server executed a call whose reply got lost, and the client is about to
\* send it again (MaxRetries): the consumer does not notice.
Resend(c) ==
  /\ \/ pc[c] = "loop" /\ page[c] = {} /\ DeliverNext
     \/ pc[c] = "retry" /\ AppendRetry(c)
     \/ pc[c] = "bury" /\ AppendDead(c)
  /\ Trouble
  /\ UNCHANGED <<consumerVars, historyVars>>

-----------------------------------------------------------------------------
(***************************************************************************)
(* A worker stops (crash, or its context is cancelled) and is restarted.   *)
(* What the consumer held stays in the pending list.                       *)
(***************************************************************************)
Stop(c) ==
  /\ pc[c] # "down"
  /\ Trouble
  /\ Move(c, "down")
  /\ page' = [page EXCEPT ![c] = {}]
  /\ msg' = [msg EXCEPT ![c] = NoMsg]
  /\ UNCHANGED <<streamVars, historyVars>>

Restart(c) ==
  /\ pc[c] = "down"
  /\ Move(c, "loop")
  /\ UNCHANGED <<streamVars, page, msg, historyVars, troubles>>

-----------------------------------------------------------------------------

Handle(c) == HandleOk(c) \/ HandleRetryable(c) \/ HandlePermanent(c)

Work(c) ==
  \/ Read(c) \/ ClaimOrphans(c) \/ TakeClaimed(c) \/ Handle(c)
  \/ Ack(c) \/ Retry(c) \/ DeadLetter(c) \/ Settle(c)

Disturb(c) ==
  \/ Steal(c) \/ ReadFault(c) \/ AckFault(c) \/ RetryFault(c)
  \/ DeadLetterFault(c) \/ SettleFault(c) \/ Resend(c) \/ Stop(c)

Next ==
  \/ \E j \in Jobs : Enqueue(j) \/ EnqueueAgain(j)
  \/ \E c \in Consumers : Work(c) \/ Disturb(c) \/ Restart(c)

Spec == Init /\ [][Next]_vars

\* The consumer loop runs as long as its process does, Redis answers, handlers
\* return, and a stopped process is started again ("restart: unless-stopped").
FairSpec ==
  Spec /\ \A c \in Consumers : WF_vars(Work(c)) /\ WF_vars(Restart(c))

-----------------------------------------------------------------------------

StreamType ==
  /\ stream \in Seq(Entries)
  /\ cursor \in 0 .. Len(stream)
  /\ pel \subseteq 1 .. cursor
  /\ dead \in Seq(Entries)

ConsumerType ==
  /\ pc \in [Consumers -> Stages]
  /\ page \in [Consumers -> SUBSET Ids]
  /\ msg \in [Consumers -> [id : Nat, path : {"none", "read", "claim"}]]
  /\ \A c \in Consumers : pc[c] \in Busy => msg[c].id \in Ids

HistoryType ==
  /\ oks \in [Jobs -> Nat]
  /\ failures \in [Jobs -> Nat]
  /\ condemned \subseteq Jobs
  /\ troubles \in Nat

TypeOK == StreamType /\ ConsumerType /\ HistoryType

Accepted  == {stream[i].job : i \in Ids}
OpenJobs  == {stream[i].job : i \in Open}
Succeeded == {j \in Jobs : oks[j] > 0}
Buried    == {dead[i].job : i \in 1 .. Len(dead)}

\* An entry needs no further delivery: its job has a verdict, or a later entry
\* carries the job on.
Settled(i) ==
  \/ stream[i].job \in Succeeded \cup Buried
  \/ \E k \in Open : k > i /\ stream[k].job = stream[i].job

\* No entry disappears: whatever is no longer pending has a verdict or a
\* successor in the stream, in spite of steals, stops between the XADD and the
\* XACK of a retry, and acknowledgements by consumers that lost their claim.
NoEntryLost == \A i \in Ids : i \in Open \/ Settled(i)

\* The inductive strengthening of NoEntryLost: a consumer about to acknowledge
\* has recorded why the entry is not needed any more.
AckJustified    == \A c \in Consumers : pc[c] = "ack" => Entry(c).job \in Succeeded
SettleJustified == \A c \in Consumers : pc[c] = "settle" => Settled(msg[c].id)
QueueInv == TypeOK /\ NoEntryLost /\ AckJustified /\ SettleJustified

\* A job is dead-lettered only because one of its runs failed permanently or
\* because MaxAttempts of its runs failed; duplicates do not use up attempts
\* of a job without running it.
DeadLetterJustified ==
  \A j \in Buried : j \in condemned \/ failures[j] >= MaxAttempts

\* Its strengthening: every retry copy is backed by as many failed runs.
AttemptsBacked ==
  /\ \A i \in Ids : stream[i].attempts <= failures[stream[i].job]
  /\ \A c \in Consumers :
       pc[c] = "retry" => Entry(c).attempts + 1 <= failures[Entry(c).job]
  /\ \A c \in Consumers :
       pc[c] = "bury" => \/ Entry(c).job \in condemned
                         \/ failures[Entry(c).job] >= MaxAttempts

\* As long as nothing was stolen, stopped or failed in Redis, a job gets at most
\* one verdict: it succeeds once or is dead-lettered once.
OneVerdictWhenCalm ==
  troubles = 0 =>
    \A j \in Jobs :
      oks[j] + Cardinality({i \in 1 .. Len(dead) : dead[i].job = j}) <= 1

\* Every entry that is handled twice forks the chain of retries of its job.  A
\* trouble at most doubles the chains, so the handler of a job, duplicates and
\* retries of duplicates included, runs a bounded number of times.
AmplificationBounded ==
  \A j \in Jobs : oks[j] + failures[j] <= MaxAttempts * 2^troubles

\* The stream implements the abstract queue: a job closes only with a verdict.
Delivery == INSTANCE JobDelivery WITH
  accepted <- Accepted, open <- OpenJobs, done <- Succeeded, buried <- Buried

ImplementsDelivery == Delivery!Spec

\* Every accepted job is eventually handled successfully or dead-lettered.
EveryJobSettles ==
  \A j \in Jobs : j \in Accepted ~> j \in Succeeded \cup Buried

\* The pending list drains: what a stopped consumer left is claimed and
\* settled by another one, and acknowledgements that failed are repeated.
PendingDrains == <>[](pel = {})

=============================================================================
