-------------------------- MODULE JobStreamProofs --------------------------
(***************************************************************************)
(* Machine-checked proofs about JobStream, for any set of jobs, any set of *)
(* consumers, any MaxAttempts and any number of troubles.                  *)
(***************************************************************************)
EXTENDS JobStream, SequenceTheorems, FiniteSetTheorems, TLAPS

-----------------------------------------------------------------------------
(* Typing.  First the effects the Redis commands have on the streams, then *)
(* what the consumers may do with their local state, then the actions.     *)

LEMMA TypeInit == Init => TypeOK
<1> SUFFICES ASSUME Init PROVE TypeOK
  OBVIOUS
<1>1. StreamType
  BY DEF Init, StreamType, Entries
<1>2. ConsumerType
  BY DEF Init, ConsumerType, Stages, Busy, NoMsg, Ids
<1>3. HistoryType
  BY DEF Init, HistoryType
<1>4. QED
  BY <1>1, <1>2, <1>3 DEF TypeOK

\* What a step may do to the stream: it only grows, and the pending list names
\* delivered entries.
StreamStep == StreamType' /\ Len(stream) <= Len(stream')

LEMMA StreamSame == StreamType /\ UNCHANGED streamVars => StreamStep
  BY DEF StreamType, StreamStep, streamVars

LEMMA StreamDeliver == StreamType /\ DeliverNext => StreamStep
  BY DEF StreamType, StreamStep, DeliverNext

LEMMA StreamAcknowledge ==
  ASSUME NEW c \in Consumers, StreamType, Acknowledge(c)
  PROVE  StreamStep
<1>1. pel' \subseteq pel /\ UNCHANGED <<stream, cursor, dead>>
  BY DEF Acknowledge
<1>2. QED
  BY <1>1 DEF StreamType, StreamStep

LEMMA StreamAppend ==
  ASSUME StreamType, NEW e \in Entries, stream' = Append(stream, e),
         UNCHANGED <<cursor, pel, dead>>
  PROVE  StreamStep
<1>1. stream' \in Seq(Entries) /\ Len(stream') = Len(stream) + 1
  BY AppendProperties DEF StreamType
<1>2. QED
  BY <1>1 DEF StreamType, StreamStep

LEMMA EntryType ==
  ASSUME TypeOK, NEW c \in Consumers, pc[c] \in Busy
  PROVE  Entry(c) \in Entries
  BY DEF TypeOK, StreamType, ConsumerType, Entry, Ids

LEMMA StreamRetry ==
  ASSUME TypeOK, NEW c \in Consumers, pc[c] \in Busy, AppendRetry(c)
  PROVE  StreamStep
<1>1. [Entry(c) EXCEPT !.attempts = @ + 1] \in Entries
  BY EntryType DEF Entries
<1>2. QED
  BY <1>1, StreamAppend DEF TypeOK, AppendRetry

LEMMA StreamDead ==
  ASSUME TypeOK, NEW c \in Consumers, pc[c] \in Busy, AppendDead(c)
  PROVE  StreamStep
  BY EntryType DEF TypeOK, StreamType, StreamStep, AppendDead

\* The local state of the consumers stays well typed when one consumer moves.
LEMMA ConsumerStep ==
  ASSUME TypeOK, StreamStep, NEW c \in Consumers, NEW stage \in Stages,
         Move(c, stage),
         NEW S \in SUBSET Ids', page' = [page EXCEPT ![c] = S],
         NEW m \in [id : Nat, path : {"none", "read", "claim"}],
         msg' = [msg EXCEPT ![c] = m],
         stage \in Busy => m.id \in Ids'
  PROVE  ConsumerType'
<1>1. Ids \subseteq Ids'
  BY DEF TypeOK, StreamType, StreamStep, Ids
<1>2. pc' \in [Consumers -> Stages]
  BY DEF TypeOK, ConsumerType, Move
<1>3. page' \in [Consumers -> SUBSET Ids']
  BY <1>1 DEF TypeOK, ConsumerType
<1>4. msg' \in [Consumers -> [id : Nat, path : {"none", "read", "claim"}]]
  BY DEF TypeOK, ConsumerType
<1>5. ASSUME NEW d \in Consumers, pc'[d] \in Busy PROVE msg'[d].id \in Ids'
  BY <1>1, <1>5 DEF TypeOK, ConsumerType, Move
<1>6. QED
  BY <1>2, <1>3, <1>4, <1>5 DEF ConsumerType

\* The consumer moves to a stage and keeps the rest of its local state.
LEMMA ConsumerStay ==
  ASSUME TypeOK, StreamStep, NEW c \in Consumers, NEW stage \in Stages,
         Move(c, stage), UNCHANGED <<page, msg>>, pc[c] \in Busy \/ stage \notin Busy
  PROVE  ConsumerType'
<1>1. Ids \subseteq Ids'
  BY DEF TypeOK, StreamType, StreamStep, Ids
<1>2. pc' \in [Consumers -> Stages]
  BY DEF TypeOK, ConsumerType, Move
<1>3. page' \in [Consumers -> SUBSET Ids']
  BY <1>1 DEF TypeOK, ConsumerType
<1>4. ASSUME NEW d \in Consumers, pc'[d] \in Busy PROVE msg'[d].id \in Ids'
  BY <1>1, <1>4 DEF TypeOK, ConsumerType, Move
<1>5. QED
  BY <1>2, <1>3, <1>4 DEF TypeOK, ConsumerType

\* processMessage returned: the consumer forgets the entry, and perhaps its page.
LEMMA ConsumerLeave ==
  ASSUME TypeOK, StreamStep, NEW c \in Consumers, NEW stage \in {"loop", "down"},
         Move(c, stage), msg' = [msg EXCEPT ![c] = NoMsg],
         page' \in {page, [page EXCEPT ![c] = {}]}
  PROVE  ConsumerType'
<1>1. Ids \subseteq Ids'
  BY DEF TypeOK, StreamType, StreamStep, Ids
<1>2. pc' \in [Consumers -> Stages]
  BY DEF TypeOK, ConsumerType, Move, Stages
<1>3. page' \in [Consumers -> SUBSET Ids']
  BY <1>1 DEF TypeOK, ConsumerType
<1>4. msg' \in [Consumers -> [id : Nat, path : {"none", "read", "claim"}]]
  BY DEF TypeOK, ConsumerType, NoMsg
<1>5. ASSUME NEW d \in Consumers, pc'[d] \in Busy PROVE msg'[d].id \in Ids'
  <2>1. d # c
    BY <1>5 DEF TypeOK, ConsumerType, Move, Busy
  <2>2. QED
    BY <1>1, <1>5, <2>1 DEF TypeOK, ConsumerType, Move
<1>6. QED
  BY <1>2, <1>3, <1>4, <1>5 DEF ConsumerType

\* A claimed page names delivered entries, hence entries of the stream.
LEMMA ClaimType ==
  ASSUME TypeOK, NEW c \in Consumers, NEW S \in SUBSET pel, ClaimPage(c, S)
  PROVE  StreamType' /\ ConsumerType' /\ UNCHANGED historyVars
<1>1. StreamStep
  BY StreamSame DEF ClaimPage, TypeOK
<1>2. S \subseteq Ids'
  BY DEF ClaimPage, TypeOK, StreamType, streamVars, Ids
<1>3. ConsumerType'
  BY <1>2 DEF ClaimPage, TypeOK, ConsumerType, streamVars, Ids
<1>4. QED
  BY <1>1, <1>3 DEF StreamStep, ClaimPage

LEMMA TypeStep == TypeOK /\ [Next]_vars => TypeOK'
<1> SUFFICES ASSUME TypeOK, [Next]_vars PROVE TypeOK'
  OBVIOUS
<1> USE DEF HistoryType, historyVars
<1>1. ASSUME NEW j \in Jobs, Enqueue(j) \/ EnqueueAgain(j) PROVE TypeOK'
  <2>1. StreamStep
    <3>1. [job |-> j, attempts |-> 0] \in Entries
      BY DEF Entries
    <3>2. QED
      BY <1>1, <3>1, StreamAppend DEF Enqueue, EnqueueAgain, AppendNew, TypeOK
  <2>2. Ids \subseteq Ids'
    BY <2>1 DEF TypeOK, StreamType, StreamStep, Ids
  <2>3. QED
    BY <1>1, <2>1, <2>2
    DEF Enqueue, EnqueueAgain, Trouble, consumerVars, TypeOK, ConsumerType, StreamStep
<1>2. ASSUME NEW c \in Consumers, Work(c) PROVE TypeOK'
  <2>1. CASE Read(c)
    <3>1. StreamStep
      BY <2>1, StreamDeliver DEF Read, TypeOK
    <3>2. cursor + 1 \in Ids' /\ cursor + 1 \in Nat
      BY <2>1 DEF Read, DeliverNext, TypeOK, StreamType, Ids
    <3>3. page' = [page EXCEPT ![c] = {}]
      BY <2>1 DEF Read, TypeOK, ConsumerType
    <3> DEFINE m == [id |-> cursor + 1, path |-> "read"]
    <3>4. /\ m \in [id : Nat, path : {"none", "read", "claim"}]
          /\ m.id \in Ids'
          /\ msg' = [msg EXCEPT ![c] = m]
      BY <2>1, <3>2 DEF Read
    <3>5. Move(c, "handle") /\ "handle" \in Stages
      BY <2>1 DEF Read, Stages, Busy
    <3>6. ConsumerType'
      <4> HIDE DEF m
      <4>1. {} \in SUBSET Ids'
        OBVIOUS
      <4>2. QED
        BY <3>1, <3>3, <3>4, <3>5, <4>1, ConsumerStep
    <3>7. QED
      BY <2>1, <3>1, <3>6 DEF Read, TypeOK, StreamStep
  <2>2. CASE ClaimOrphans(c)
    <3>1. PICK S \in SUBSET Orphans : ClaimPage(c, S) /\ UNCHANGED troubles
      BY <2>2 DEF ClaimOrphans
    <3>2. S \in SUBSET pel
      BY <3>1 DEF Orphans
    <3>3. QED
      BY <3>1, <3>2, ClaimType DEF TypeOK
  <2>3. CASE TakeClaimed(c)
    <3>1. PICK i \in page[c] :
            /\ msg' = [msg EXCEPT ![c] = [id |-> i, path |-> "claim"]]
            /\ page' = [page EXCEPT ![c] = @ \ {i}]
      BY <2>3 DEF TakeClaimed
    <3>2. StreamStep
      BY <2>3, StreamSame DEF TakeClaimed, TypeOK
    <3>3. i \in Ids' /\ i \in Nat
      BY <2>3 DEF TakeClaimed, TypeOK, ConsumerType, streamVars, Ids
    <3>4. page[c] \ {i} \in SUBSET Ids'
      BY <2>3 DEF TakeClaimed, TypeOK, ConsumerType, streamVars, Ids
    <3>5. page' = [page EXCEPT ![c] = page[c] \ {i}]
      BY <3>1
    <3> DEFINE m == [id |-> i, path |-> "claim"]
    <3>6. /\ m \in [id : Nat, path : {"none", "read", "claim"}]
          /\ m.id \in Ids'
          /\ msg' = [msg EXCEPT ![c] = m]
      BY <3>1, <3>3
    <3>7. Move(c, "handle") /\ "handle" \in Stages
      BY <2>3 DEF TakeClaimed, Stages, Busy
    <3>8. ConsumerType'
      <4> HIDE DEF m
      <4>1. QED
        BY <3>2, <3>4, <3>5, <3>6, <3>7, ConsumerStep
    <3>9. QED
      BY <2>3, <3>2, <3>8 DEF TakeClaimed, TypeOK, StreamStep
  <2>4. CASE Handle(c)
    <3>1. StreamStep
      BY <2>4, StreamSame DEF Handle, HandleOk, HandleRetryable, HandlePermanent, TypeOK
    <3>2. PICK stage \in Busy : Move(c, stage)
      BY <2>4 DEF Handle, HandleOk, HandleRetryable, HandlePermanent, Busy
    <3>3. pc[c] \in Busy /\ UNCHANGED <<page, msg>>
      BY <2>4 DEF Handle, HandleOk, HandleRetryable, HandlePermanent, Busy
    <3>4. ConsumerType'
      BY <3>1, <3>2, <3>3, ConsumerStay DEF Stages
    <3>5. Entry(c).job \in Jobs
      BY <3>3, EntryType DEF Entries
    <3>6. HistoryType'
      BY <2>4, <3>5 DEF Handle, HandleOk, HandleRetryable, HandlePermanent, TypeOK
    <3>7. QED
      BY <3>1, <3>4, <3>6 DEF TypeOK, StreamStep
  <2>5. CASE Ack(c)
    <3>1. StreamStep
      BY <2>5, StreamAcknowledge DEF Ack, TypeOK
    <3>2. ConsumerType'
      BY <2>5, <3>1, ConsumerLeave DEF Ack, Finish
    <3>3. QED
      BY <2>5, <3>1, <3>2 DEF Ack, Finish, TypeOK, StreamStep
  <2>6. CASE Retry(c)
    <3>1. StreamStep
      BY <2>6, StreamRetry DEF Retry, Busy
    <3>2. ConsumerType'
      BY <2>6, <3>1, ConsumerStay DEF Retry, ToSettle, Stages, Busy
    <3>3. QED
      BY <2>6, <3>1, <3>2 DEF Retry, ToSettle, TypeOK, StreamStep
  <2>7. CASE DeadLetter(c)
    <3>1. StreamStep
      BY <2>7, StreamDead DEF DeadLetter, Busy
    <3>2. ConsumerType'
      BY <2>7, <3>1, ConsumerStay DEF DeadLetter, ToSettle, Stages, Busy
    <3>3. QED
      BY <2>7, <3>1, <3>2 DEF DeadLetter, ToSettle, TypeOK, StreamStep
  <2>8. CASE Settle(c)
    <3>1. StreamStep
      BY <2>8, StreamAcknowledge DEF Settle, TypeOK
    <3>2. ConsumerType'
      BY <2>8, <3>1, ConsumerLeave DEF Settle, Finish
    <3>3. QED
      BY <2>8, <3>1, <3>2 DEF Settle, Finish, TypeOK, StreamStep
  <2>9. QED
    BY <1>2, <2>1, <2>2, <2>3, <2>4, <2>5, <2>6, <2>7, <2>8 DEF Work
<1>3. ASSUME NEW c \in Consumers, Disturb(c) PROVE TypeOK'
  <2>1. CASE Steal(c)
    <3>1. PICK S \in SUBSET pel : ClaimPage(c, S)
      BY <2>1 DEF Steal
    <3>2. HistoryType'
      BY <2>1, <3>1 DEF Steal, ClaimPage, Trouble, TypeOK
    <3>3. QED
      BY <3>1, <3>2, ClaimType DEF TypeOK
  <2>2. CASE ReadFault(c)
    <3>1. StreamStep
      BY <2>2, StreamDeliver, StreamSame DEF ReadFault, TypeOK
    <3>2. ConsumerType'
      BY <2>2, <3>1, ConsumerStay DEF ReadFault, Stages, Busy
    <3>3. QED
      BY <2>2, <3>1, <3>2 DEF ReadFault, Trouble, TypeOK, StreamStep
  <2>3. CASE AckFault(c) \/ RetryFault(c) \/ DeadLetterFault(c)
    <3>1. pc[c] \in Busy
      BY <2>3 DEF AckFault, RetryFault, DeadLetterFault, Busy
    <3>2. StreamStep
      BY <2>3, <3>1, StreamAcknowledge, StreamRetry, StreamDead, StreamSame
      DEF AckFault, RetryFault, DeadLetterFault, TypeOK
    <3>3. Abort(c)
      BY <2>3 DEF AckFault, RetryFault, DeadLetterFault
    <3>4. ConsumerType'
      BY <3>2, <3>3, ConsumerLeave DEF Abort
    <3>5. QED
      BY <3>2, <3>3, <3>4 DEF Abort, Trouble, TypeOK, StreamStep
  <2>4. CASE SettleFault(c)
    <3>1. StreamStep
      BY <2>4, StreamSame DEF SettleFault, Resend, TypeOK
    <3>2. ConsumerType'
      BY <2>4, <3>1, ConsumerLeave DEF SettleFault, Resend, Finish
    <3>3. QED
      BY <2>4, <3>1, <3>2 DEF SettleFault, Resend, Finish, Trouble, TypeOK, StreamStep
  <2>5. CASE Stop(c)
    <3>1. StreamStep
      BY <2>5, StreamSame DEF Stop, TypeOK
    <3>2. ConsumerType'
      BY <2>5, <3>1, ConsumerLeave DEF Stop
    <3>3. QED
      BY <2>5, <3>1, <3>2 DEF Stop, Trouble, TypeOK, StreamStep
  <2>6. CASE Resend(c)
    <3>1. StreamStep
      BY <2>6, StreamDeliver, StreamRetry, StreamDead DEF Resend, TypeOK, Busy
    <3>2. Ids \subseteq Ids'
      BY <3>1 DEF TypeOK, StreamType, StreamStep, Ids
    <3>3. ConsumerType'
      BY <2>6, <3>2 DEF Resend, consumerVars, TypeOK, ConsumerType
    <3>4. QED
      BY <2>6, <3>1, <3>3 DEF Resend, Trouble, TypeOK, StreamStep
  <2>7. QED
    BY <1>3, <2>1, <2>2, <2>3, <2>4, <2>5, <2>6 DEF Disturb
<1>4. ASSUME NEW c \in Consumers, Restart(c) PROVE TypeOK'
  <2>1. StreamStep
    BY <1>4, StreamSame DEF Restart, TypeOK
  <2>2. ConsumerType'
    BY <1>4, <2>1, ConsumerStay DEF Restart, Stages, Busy
  <2>3. QED
    BY <1>4, <2>1, <2>2 DEF Restart, TypeOK, StreamStep
<1>5. CASE UNCHANGED vars
  BY <1>5 DEF vars, consumerVars, streamVars, TypeOK, StreamType, ConsumerType, Ids
<1>6. QED
  BY <1>1, <1>2, <1>3, <1>4, <1>5 DEF Next

\* Every variable keeps its type: cursors, pending ids and pages always name
\* entries of the stream, and a consumer past its loop holds one.
THEOREM TypeCorrect == Spec => []TypeOK
<1>1. Spec => Init /\ [][Next]_vars
  BY DEF Spec
<1>2. QED
  BY <1>1, TypeInit, TypeStep, PTL

-----------------------------------------------------------------------------
(* No entry is lost.  A step either keeps every open entry open, or it     *)
(* acknowledges one entry that is settled without itself.                  *)

\* What no step ever takes back.
Monotone ==
  /\ \A i \in Ids : i \in Ids' /\ stream'[i] = stream[i]
  /\ Succeeded \subseteq Succeeded'
  /\ Buried \subseteq Buried'

\* A step that leaves every open entry open, and opens what it appends.
Keeps ==
  /\ Monotone
  /\ Open \subseteq Open'
  /\ \A i \in Ids' \ Ids : i \in Open'

LEMMA OpenIsEntry == StreamType => Open \subseteq Ids
<1> SUFFICES ASSUME StreamType PROVE Open \subseteq Ids
  OBVIOUS
<1>1. Len(stream) \in Nat /\ cursor \in 0 .. Len(stream)
  BY DEF StreamType
<1>2. pel \subseteq Ids
  BY <1>1 DEF StreamType, Ids
<1>3. QED
  BY <1>2 DEF Open

LEMMA KeepsSettled ==
  ASSUME StreamType, Keeps, NEW i \in Ids, Settled(i)
  PROVE  Settled(i)'
<1>1. CASE stream[i].job \in Succeeded \cup Buried
  BY <1>1 DEF Keeps, Monotone, Settled
<1>2. CASE \E k \in Open : k > i /\ stream[k].job = stream[i].job
  <2>1. PICK k \in Open : k > i /\ stream[k].job = stream[i].job
    BY <1>2
  <2>2. k \in Open' /\ stream'[k].job = stream'[i].job
    BY <2>1, OpenIsEntry DEF Keeps, Monotone
  <2>3. QED
    BY <2>1, <2>2 DEF Settled
<1>3. QED
  BY <1>1, <1>2 DEF Settled

LEMMA KeepsEntries ==
  ASSUME StreamType, Keeps, NoEntryLost
  PROVE  NoEntryLost'
<1>1. ASSUME NEW i \in Ids' PROVE i \in Open' \/ Settled(i)'
  <2>1. CASE i \in Ids
    BY <2>1, KeepsSettled DEF NoEntryLost, Keeps
  <2>2. CASE i \notin Ids
    BY <2>2 DEF Keeps
  <2>3. QED
    BY <2>1, <2>2
<1>2. QED
  BY <1>1 DEF NoEntryLost

\* Acknowledging x loses nothing when x is settled: wherever x served as the
\* successor of an older entry, the verdict or successor of x takes its place.
LEMMA AcknowledgeKeepsSettled ==
  ASSUME StreamType, UNCHANGED <<stream, cursor, dead, oks>>,
         NEW x \in Ids, pel' = pel \ {x}, Settled(x),
         NEW i \in Ids, Settled(i)
  PROVE  Settled(i)'
<1>1. \A k \in Open : k # x => k \in Open'
  <2>1. Ids' = Ids /\ cursor' = cursor
    BY DEF Ids
  <2>2. QED
    BY <2>1 DEF Open
<1>2. Succeeded' = Succeeded /\ Buried' = Buried
  BY DEF Succeeded, Buried
<1>3. CASE stream[i].job \in Succeeded \cup Buried
  BY <1>2, <1>3 DEF Settled
<1>4. CASE stream[i].job \notin Succeeded \cup Buried
  <2>1. PICK k \in Open : k > i /\ stream[k].job = stream[i].job
    BY <1>4 DEF Settled
  <2>2. CASE k # x
    BY <1>1, <2>1, <2>2 DEF Settled
  <2>3. CASE k = x
    <3>1. PICK l \in Open : l > x /\ stream[l].job = stream[x].job
      BY <1>4, <2>1, <2>3 DEF Settled
    <3>2. l > i /\ l # x /\ stream[l].job = stream[i].job
      BY <2>1, <2>3, <3>1, OpenIsEntry DEF Ids
    <3>3. QED
      BY <1>1, <3>1, <3>2 DEF Settled
  <2>4. QED
    BY <2>2, <2>3
<1>5. QED
  BY <1>3, <1>4

LEMMA AcknowledgeKeepsEntries ==
  ASSUME StreamType, UNCHANGED <<stream, cursor, dead, oks>>,
         NEW x \in Ids, pel' = pel \ {x}, Settled(x), NoEntryLost
  PROVE  NoEntryLost'
<1>1. ASSUME NEW i \in Ids PROVE i \in Open' \/ Settled(i)'
  <2>1. CASE i \in Open /\ i # x
    BY <2>1 DEF Open, Ids
  <2>2. CASE Settled(i)
    BY <2>2, AcknowledgeKeepsSettled
  <2>3. QED
    BY <2>1, <2>2 DEF NoEntryLost
<1>2. QED
  BY <1>1 DEF NoEntryLost, Ids

\* The steps that acknowledge nothing are of the first kind.
LEMMA SameKeeps ==
  ASSUME TypeOK, UNCHANGED streamVars, Succeeded \subseteq Succeeded'
  PROVE  Keeps
  BY DEF Keeps, Monotone, Open, Ids, Buried, streamVars

LEMMA DeliverKeeps ==
  ASSUME TypeOK, DeliverNext, UNCHANGED oks
  PROVE  Keeps
<1>1. UNCHANGED <<stream, dead>> /\ cursor' = cursor + 1 /\ pel' = pel \cup {cursor + 1}
  BY DEF DeliverNext
<1>2. Ids' = Ids /\ Monotone
  BY <1>1 DEF Ids, Monotone, Succeeded, Buried
<1>3. Open \subseteq Open'
  BY <1>1, <1>2 DEF Open, Ids, TypeOK, StreamType
<1>4. QED
  BY <1>2, <1>3 DEF Keeps

LEMMA AppendKeeps ==
  ASSUME TypeOK, NEW e \in Entries, stream' = Append(stream, e),
         UNCHANGED <<cursor, pel, dead, oks>>
  PROVE  Keeps
<1>1. /\ Len(stream') = Len(stream) + 1 /\ Len(stream) \in Nat
      /\ \A i \in Ids : stream'[i] = stream[i]
  BY AppendProperties DEF TypeOK, StreamType, Ids
<1>2. Ids' = Ids \cup {Len(stream) + 1}
  BY <1>1 DEF Ids
<1>3. Monotone
  BY <1>1, <1>2 DEF Monotone, Succeeded, Buried
<1>4. Open' = Open \cup {Len(stream) + 1}
  BY <1>1, <1>2 DEF Open, TypeOK, StreamType
<1>5. QED
  BY <1>2, <1>3, <1>4 DEF Keeps

LEMMA RetryKeeps ==
  ASSUME TypeOK, NEW c \in Consumers, pc[c] \in Busy, AppendRetry(c), UNCHANGED oks
  PROVE  /\ Keeps
         /\ \E k \in Open' : k > msg[c].id /\ stream'[k].job = Entry(c).job
<1> DEFINE e == [Entry(c) EXCEPT !.attempts = @ + 1]
<1>1. e \in Entries /\ e.job = Entry(c).job
  BY EntryType DEF Entries
<1>2. stream' = Append(stream, e) /\ UNCHANGED <<cursor, pel, dead>>
  BY DEF AppendRetry
<1> HIDE DEF e
<1>3. Keeps
  BY <1>1, <1>2, AppendKeeps
<1>4. /\ Len(stream') = Len(stream) + 1 /\ Len(stream) \in Nat
      /\ stream'[Len(stream) + 1] = e
  BY <1>1, <1>2, AppendProperties DEF TypeOK, StreamType
<1>5. Len(stream) + 1 \in Ids' \ Ids
  BY <1>4 DEF Ids
<1>6. Len(stream) + 1 > msg[c].id
  BY <1>4 DEF TypeOK, ConsumerType, Ids
<1>7. QED
  BY <1>1, <1>3, <1>4, <1>5, <1>6 DEF Keeps

LEMMA DeadKeeps ==
  ASSUME TypeOK, NEW c \in Consumers, pc[c] \in Busy, AppendDead(c), UNCHANGED oks
  PROVE  Keeps /\ Entry(c).job \in Buried'
<1>1. UNCHANGED <<stream, cursor, pel>> /\ dead' = Append(dead, Entry(c))
  BY DEF AppendDead
<1>2. /\ Len(dead') = Len(dead) + 1 /\ Len(dead) \in Nat
      /\ dead'[Len(dead) + 1] = Entry(c)
      /\ \A i \in 1 .. Len(dead) : dead'[i] = dead[i]
  BY <1>1, EntryType, AppendProperties DEF TypeOK, StreamType
<1>3. Buried \subseteq Buried' /\ Entry(c).job \in Buried'
  BY <1>2 DEF Buried
<1>4. QED
  BY <1>1, <1>3 DEF Keeps, Monotone, Open, Ids, Succeeded

\* Consumers that do not move keep their justification.
LEMMA KeepsJustified ==
  ASSUME QueueInv, Keeps, NEW d \in Consumers, pc'[d] = pc[d], msg'[d] = msg[d]
  PROVE  /\ (pc[d] = "ack" => Entry(d).job \in Succeeded)'
         /\ (pc[d] = "settle" => Settled(msg[d].id))'
<1>1. pc[d] \in Busy => msg[d].id \in Ids
  BY DEF QueueInv, TypeOK, ConsumerType
<1>2. ASSUME pc[d] = "ack" PROVE (Entry(d).job \in Succeeded)'
  <2>1. Entry(d)' = Entry(d)
    BY <1>1, <1>2 DEF Entry, Keeps, Monotone, Busy
  <2>2. Entry(d).job \in Succeeded
    BY <1>2 DEF QueueInv, AckJustified
  <2>3. QED
    BY <2>1, <2>2 DEF Keeps, Monotone
<1>3. ASSUME pc[d] = "settle" PROVE Settled(msg[d].id)'
  <2>1. PICK i \in Ids : i = msg[d].id /\ Settled(i)
    BY <1>1, <1>3 DEF QueueInv, SettleJustified, Busy
  <2>2. Settled(i)'
    BY <2>1, KeepsSettled DEF QueueInv, TypeOK
  <2>3. QED
    BY <2>1, <2>2 DEF Settled
<1>4. QED
  BY <1>2, <1>3

\* An acknowledgement that loses nothing leaves the others justified too.
LEMMA AcknowledgeKeepsJustified ==
  ASSUME QueueInv, NEW c \in Consumers, pc[c] \in Busy, Settled(msg[c].id),
         Acknowledge(c), UNCHANGED oks
  PROVE  /\ NoEntryLost'
         /\ \A d \in Consumers : pc'[d] = pc[d] /\ msg'[d] = msg[d] =>
              /\ (pc[d] = "ack" => Entry(d).job \in Succeeded)'
              /\ (pc[d] = "settle" => Settled(msg[d].id))'
<1>1. PICK x \in Ids : x = msg[c].id
  BY DEF QueueInv, TypeOK, ConsumerType
<1>2. /\ UNCHANGED <<stream, cursor, dead, oks>> /\ pel' = pel \ {x}
      /\ Settled(x) /\ StreamType /\ NoEntryLost
  BY <1>1 DEF Acknowledge, QueueInv, TypeOK
<1>3. NoEntryLost'
  BY <1>2, AcknowledgeKeepsEntries
<1>4. ASSUME NEW d \in Consumers, pc'[d] = pc[d], msg'[d] = msg[d], pc[d] = "ack"
      PROVE  (Entry(d).job \in Succeeded)'
  BY <1>2, <1>4 DEF QueueInv, AckJustified, Entry, Succeeded
<1>5. ASSUME NEW d \in Consumers, pc'[d] = pc[d], msg'[d] = msg[d], pc[d] = "settle"
      PROVE  Settled(msg[d].id)'
  <2>1. PICK i \in Ids : i = msg[d].id /\ Settled(i)
    BY <1>5 DEF QueueInv, SettleJustified, TypeOK, ConsumerType, Busy
  <2>2. Settled(i)'
    BY <1>2, <2>1, AcknowledgeKeepsSettled
  <2>3. QED
    BY <1>5, <2>1, <2>2 DEF Settled
<1>6. QED
  BY <1>3, <1>4, <1>5

\* The consumers stay justified when one of them moves to a stage that needs no
\* justification, or has one.
LEMMA MoveJustified ==
  ASSUME QueueInv, Keeps, TypeOK', NEW c \in Consumers,
         \A d \in Consumers \ {c} : pc'[d] = pc[d] /\ msg'[d] = msg[d],
         (pc[c] = "ack" => Entry(c).job \in Succeeded)',
         (pc[c] = "settle" => Settled(msg[c].id))'
  PROVE  QueueInv'
<1>1. NoEntryLost'
  BY KeepsEntries DEF QueueInv, TypeOK
<1>2. AckJustified' /\ SettleJustified'
  BY KeepsJustified DEF AckJustified, SettleJustified
<1>3. QED
  BY <1>1, <1>2 DEF QueueInv

LEMMA QueueInit == Init => QueueInv
<1> SUFFICES ASSUME Init PROVE QueueInv
  OBVIOUS
<1>1. NoEntryLost
  BY DEF Init, NoEntryLost, Ids
<1>2. AckJustified /\ SettleJustified
  BY DEF Init, AckJustified, SettleJustified
<1>3. QED
  BY <1>1, <1>2, TypeInit DEF QueueInv

\* Only the moving consumer's stage and entry change.
LEMMA OthersStay ==
  ASSUME TypeOK, NEW c \in Consumers, Work(c) \/ Disturb(c) \/ Restart(c)
  PROVE  \A d \in Consumers \ {c} : pc'[d] = pc[d] /\ msg'[d] = msg[d]
  BY DEF TypeOK, ConsumerType, Work, Disturb, Restart, Read, DeliverNext, ClaimOrphans,
         ClaimPage, TakeClaimed, Handle, HandleOk, HandleRetryable, HandlePermanent,
         Ack, Retry, DeadLetter, Settle, Finish, ToSettle, Steal, ReadFault, AckFault,
         RetryFault, DeadLetterFault, SettleFault, Resend, Abort, Stop, Move, consumerVars

\* A consumer that acknowledges holds an entry that is settled without it.
LEMMA AcknowledgesSettled ==
  ASSUME QueueInv, NEW c \in Consumers, pc[c] \in {"ack", "settle"}
  PROVE  pc[c] \in Busy /\ Settled(msg[c].id)
  BY DEF QueueInv, AckJustified, SettleJustified, Settled, Entry, Busy

LEMMA QueueStep == QueueInv /\ [Next]_vars => QueueInv'
<1> SUFFICES ASSUME QueueInv, [Next]_vars PROVE QueueInv'
  OBVIOUS
<1>1. TypeOK /\ TypeOK'
  BY TypeStep DEF QueueInv
<1>2. ASSUME NEW j \in Jobs, Enqueue(j) \/ EnqueueAgain(j) PROVE QueueInv'
  <2>1. [job |-> j, attempts |-> 0] \in Entries
    BY DEF Entries
  <2>2. Keeps
    BY <1>1, <1>2, <2>1, AppendKeeps DEF Enqueue, EnqueueAgain, AppendNew, historyVars
  <2>3. \A d \in Consumers : pc'[d] = pc[d] /\ msg'[d] = msg[d]
    BY <1>2 DEF Enqueue, EnqueueAgain, AppendNew, consumerVars
  <2>4. NoEntryLost'
    BY <1>1, <2>2, KeepsEntries DEF QueueInv, TypeOK
  <2>5. AckJustified' /\ SettleJustified'
    BY <2>2, <2>3, KeepsJustified DEF AckJustified, SettleJustified
  <2>6. QED
    BY <1>1, <2>4, <2>5 DEF QueueInv
<1>3. ASSUME NEW c \in Consumers, Work(c) \/ Disturb(c) \/ Restart(c) PROVE QueueInv'
  <2> USE DEF Busy
  <2>0. \A d \in Consumers \ {c} : pc'[d] = pc[d] /\ msg'[d] = msg[d]
    BY <1>1, <1>3, OthersStay
  <2>1. CASE Read(c) \/ ReadFault(c) \/ ClaimOrphans(c) \/ Steal(c) \/ TakeClaimed(c)
             \/ HandleRetryable(c) \/ HandlePermanent(c) \/ Stop(c) \/ Restart(c)
    <3>1. Keeps
      <4>1. CASE Read(c) \/ ReadFault(c)
        BY <1>1, <4>1, DeliverKeeps, SameKeeps DEF Read, ReadFault, historyVars, Succeeded
      <4>2. CASE ClaimOrphans(c) \/ Steal(c)
        BY <1>1, <4>2, SameKeeps DEF ClaimOrphans, Steal, ClaimPage, historyVars, Succeeded
      <4>3. CASE TakeClaimed(c) \/ HandleRetryable(c) \/ HandlePermanent(c) \/ Stop(c)
                 \/ Restart(c)
        BY <1>1, <4>3, SameKeeps
        DEF TakeClaimed, HandleRetryable, HandlePermanent, Stop, Restart, historyVars,
            Succeeded
      <4>4. QED
        BY <2>1, <4>1, <4>2, <4>3
    <3>2. pc'[c] \notin {"ack", "settle"}
      BY <1>1, <2>1
      DEF TypeOK, ConsumerType, Read, ReadFault, ClaimOrphans, Steal, ClaimPage, TakeClaimed,
          HandleRetryable, HandlePermanent, Stop, Restart, Move
    <3>3. QED
      BY <1>1, <2>0, <3>1, <3>2, MoveJustified
  <2>2. CASE HandleOk(c)
    <3>1. Entry(c).job \in Jobs /\ UNCHANGED <<streamVars, msg>>
      BY <1>1, <2>2, EntryType DEF HandleOk, Entries
    <3>2. Succeeded \subseteq Succeeded' /\ Entry(c).job \in Succeeded'
      BY <1>1, <2>2, <3>1 DEF HandleOk, Succeeded, TypeOK, HistoryType
    <3>3. Keeps
      BY <1>1, <3>1, <3>2, SameKeeps
    <3>4. pc'[c] = "ack" /\ (Entry(c).job \in Succeeded)'
      BY <1>1, <2>2, <3>1, <3>2
      DEF HandleOk, Move, TypeOK, ConsumerType, Entry, streamVars
    <3>5. QED
      BY <1>1, <2>0, <3>3, <3>4, MoveJustified
  <2>3. CASE Retry(c) \/ DeadLetter(c)
    <3>1. pc[c] \in Busy /\ pc'[c] = "settle" /\ UNCHANGED <<msg, oks>>
      BY <1>1, <2>3
      DEF Retry, DeadLetter, ToSettle, Move, TypeOK, ConsumerType, historyVars
    <3>2. Keeps /\ Settled(msg[c].id)'
      <4>1. CASE Retry(c)
        <5>1. /\ Keeps
              /\ \E k \in Open' : k > msg[c].id /\ stream'[k].job = Entry(c).job
          BY <1>1, <3>1, <4>1, RetryKeeps DEF Retry
        <5>2. Entry(c).job = stream'[msg[c].id].job
          BY <1>1, <3>1, <5>1 DEF TypeOK, ConsumerType, Keeps, Monotone, Entry
        <5>3. QED
          BY <3>1, <5>1, <5>2 DEF Settled
      <4>2. CASE DeadLetter(c)
        <5>1. Keeps /\ Entry(c).job \in Buried'
          BY <1>1, <3>1, <4>2, DeadKeeps DEF DeadLetter
        <5>2. Entry(c).job = stream'[msg[c].id].job
          BY <1>1, <3>1, <5>1 DEF TypeOK, ConsumerType, Keeps, Monotone, Entry
        <5>3. QED
          BY <3>1, <5>1, <5>2 DEF Settled
      <4>3. QED
        BY <2>3, <4>1, <4>2
    <3>3. QED
      BY <1>1, <2>0, <3>1, <3>2, MoveJustified
  <2>4. CASE RetryFault(c) \/ DeadLetterFault(c) \/ SettleFault(c)
    <3>1. Keeps
      <4>1. CASE RetryFault(c)
        BY <1>1, <4>1, RetryKeeps, SameKeeps DEF RetryFault, Abort, historyVars, Succeeded
      <4>2. CASE DeadLetterFault(c)
        BY <1>1, <4>2, DeadKeeps, SameKeeps DEF DeadLetterFault, Abort, historyVars, Succeeded
      <4>3. CASE SettleFault(c)
        BY <1>1, <4>3, SameKeeps DEF SettleFault, Resend, Finish, historyVars, Succeeded
      <4>4. QED
        BY <2>4, <4>1, <4>2, <4>3
    <3>2. pc'[c] \notin {"ack", "settle"}
      BY <1>1, <2>4
      DEF TypeOK, ConsumerType, RetryFault, DeadLetterFault, SettleFault, Resend, Abort, Finish, Move
    <3>3. QED
      BY <1>1, <2>0, <3>1, <3>2, MoveJustified
  <2>5. CASE Ack(c) \/ Settle(c) \/ AckFault(c)
    <3>1. pc[c] \in Busy /\ Settled(msg[c].id)
      BY <2>5, AcknowledgesSettled DEF Ack, Settle, AckFault
    <3>2. UNCHANGED oks /\ pc'[c] \notin {"ack", "settle"}
      BY <1>1, <2>5
      DEF Ack, Settle, AckFault, Finish, Abort, historyVars, Move, TypeOK, ConsumerType
    <3>3. CASE Acknowledge(c)
      <4>1. /\ NoEntryLost'
            /\ \A d \in Consumers : pc'[d] = pc[d] /\ msg'[d] = msg[d] =>
                 /\ (pc[d] = "ack" => Entry(d).job \in Succeeded)'
                 /\ (pc[d] = "settle" => Settled(msg[d].id))'
        BY <3>1, <3>2, <3>3, AcknowledgeKeepsJustified
      <4>2. QED
        BY <1>1, <2>0, <3>2, <4>1 DEF QueueInv, AckJustified, SettleJustified
    <3>4. CASE UNCHANGED streamVars
      <4>1. Keeps
        BY <1>1, <3>2, <3>4, SameKeeps DEF Succeeded
      <4>2. QED
        BY <1>1, <2>0, <3>2, <4>1, MoveJustified
    <3>5. QED
      BY <2>5, <3>3, <3>4 DEF Ack, Settle, AckFault
  <2>6. CASE Resend(c)
    <3>1. Keeps
      BY <1>1, <2>6, DeliverKeeps, RetryKeeps, DeadKeeps DEF Resend, historyVars
    <3>2. \A d \in Consumers : pc'[d] = pc[d] /\ msg'[d] = msg[d]
      BY <2>6 DEF Resend, consumerVars
    <3>3. NoEntryLost'
      BY <1>1, <3>1, KeepsEntries DEF QueueInv, TypeOK
    <3>4. AckJustified' /\ SettleJustified'
      BY <3>1, <3>2, KeepsJustified DEF AckJustified, SettleJustified
    <3>5. QED
      BY <1>1, <3>3, <3>4 DEF QueueInv
  <2>7. QED
    BY <1>3, <2>1, <2>2, <2>3, <2>4, <2>5, <2>6 DEF Work, Disturb, Handle
<1>4. CASE UNCHANGED vars
  <2>1. Keeps
    BY <1>1, <1>4, SameKeeps DEF vars, historyVars, Succeeded
  <2>2. \A d \in Consumers : pc'[d] = pc[d] /\ msg'[d] = msg[d]
    BY <1>4 DEF vars, consumerVars
  <2>3. NoEntryLost'
    BY <1>1, <2>1, KeepsEntries DEF QueueInv, TypeOK
  <2>4. AckJustified' /\ SettleJustified'
    BY <2>1, <2>2, KeepsJustified DEF AckJustified, SettleJustified
  <2>5. QED
    BY <1>1, <2>3, <2>4 DEF QueueInv
<1>5. QED
  BY <1>2, <1>3, <1>4 DEF Next

LEMMA QueueInvariant == Spec => []QueueInv
<1>1. Spec => Init /\ [][Next]_vars
  BY DEF Spec
<1>2. QED
  BY <1>1, QueueInit, QueueStep, PTL

\* No entry disappears, whatever crashes, lost replies and stolen claims do:
\* an entry that is no longer open has a verdict or a successor.
THEOREM NothingLost == Spec => []NoEntryLost
<1>1. QueueInv => NoEntryLost
  BY DEF QueueInv
<1>2. QED
  BY <1>1, QueueInvariant, PTL

-----------------------------------------------------------------------------
(* Attempts are backed by failed runs.                                     *)

AttemptsInv == TypeOK /\ AttemptsBacked /\ DeadLetterJustified

\* What is backed stays backed: failures are counted up, condemnations stay.
LEMMA FailuresGrow ==
  ASSUME TypeOK, [Next]_vars
  PROVE  /\ \A j \in Jobs : failures[j] <= failures'[j]
         /\ condemned \subseteq condemned'
<1>1. ASSUME NEW c \in Consumers, HandleRetryable(c) \/ HandlePermanent(c)
      PROVE  /\ \A j \in Jobs : failures[j] <= failures'[j]
             /\ condemned \subseteq condemned'
  <2>1. Entry(c).job \in Jobs
    BY <1>1, EntryType DEF HandleRetryable, HandlePermanent, Entries, Busy
  <2>2. failures' = [failures EXCEPT ![Entry(c).job] = @ + 1]
    BY <1>1 DEF HandleRetryable, HandlePermanent
  <2>3. QED
    BY <1>1, <2>1, <2>2 DEF TypeOK, HistoryType, HandleRetryable, HandlePermanent
<1>2. CASE UNCHANGED <<failures, condemned>>
  BY <1>2 DEF TypeOK, HistoryType
<1>3. QED
  BY <1>1, <1>2
  DEF Next, Work, Disturb, Enqueue, EnqueueAgain, AppendNew, Read, ClaimOrphans, ClaimPage, TakeClaimed, Handle,
      HandleOk, Ack, Retry, DeadLetter, Settle, Finish, ToSettle, Steal, ReadFault,
      AckFault, RetryFault, DeadLetterFault, SettleFault, Resend, Abort, Stop, Restart, vars,
      historyVars

\* The entries after a step: those before it, and perhaps one new entry.
LEMMA EntriesAfter ==
  ASSUME TypeOK, [Next]_vars
  PROVE  /\ \A i \in Ids : i \in Ids' /\ stream'[i] = stream[i]
         /\ \A i \in Ids' \ Ids :
              \/ stream'[i].attempts = 0 /\ stream'[i].job \in Jobs
              \/ \E c \in Consumers :
                   /\ pc[c] = "retry"
                   /\ stream'[i] = [Entry(c) EXCEPT !.attempts = @ + 1]
<1>1. ASSUME NEW e \in Entries, stream' = Append(stream, e)
      PROVE  /\ \A i \in Ids : i \in Ids' /\ stream'[i] = stream[i]
             /\ \A i \in Ids' \ Ids : stream'[i] = e
  BY <1>1, AppendProperties DEF TypeOK, StreamType, Ids
<1>2. CASE UNCHANGED stream
  BY <1>2 DEF Ids
<1>3. ASSUME NEW j \in Jobs, Enqueue(j) \/ EnqueueAgain(j)
      PROVE  stream' = Append(stream, [job |-> j, attempts |-> 0])
             /\ [job |-> j, attempts |-> 0] \in Entries
  BY <1>3 DEF Enqueue, EnqueueAgain, AppendNew, Entries
<1>4. ASSUME NEW c \in Consumers, pc[c] = "retry", AppendRetry(c)
      PROVE  /\ stream' = Append(stream, [Entry(c) EXCEPT !.attempts = @ + 1])
             /\ [Entry(c) EXCEPT !.attempts = @ + 1] \in Entries
  BY <1>4, EntryType DEF AppendRetry, Entries, Busy
<1>5. \/ UNCHANGED stream
      \/ \E j \in Jobs : Enqueue(j) \/ EnqueueAgain(j)
      \/ \E c \in Consumers : pc[c] = "retry" /\ AppendRetry(c)
  BY DEF Next, Work, Disturb, Read, DeliverNext, ClaimOrphans, ClaimPage, TakeClaimed,
         Handle, HandleOk, HandleRetryable, HandlePermanent, Ack, Retry, DeadLetter,
         Settle, Steal, ReadFault, AckFault, RetryFault, DeadLetterFault, SettleFault, Resend,
         Acknowledge, AppendDead, Stop, Restart, vars, streamVars
<1>6. ASSUME NEW j \in Jobs, Enqueue(j) \/ EnqueueAgain(j)
      PROVE  /\ \A i \in Ids : i \in Ids' /\ stream'[i] = stream[i]
             /\ \A i \in Ids' \ Ids : stream'[i].attempts = 0 /\ stream'[i].job \in Jobs
  <2> DEFINE e == [job |-> j, attempts |-> 0]
  <2>1. e \in Entries /\ stream' = Append(stream, e)
    BY <1>3, <1>6
  <2>2. e.attempts = 0 /\ e.job \in Jobs
    OBVIOUS
  <2> HIDE DEF e
  <2>3. QED
    BY <1>1, <2>1, <2>2
<1>7. ASSUME NEW c \in Consumers, pc[c] = "retry", AppendRetry(c)
      PROVE  /\ \A i \in Ids : i \in Ids' /\ stream'[i] = stream[i]
             /\ \A i \in Ids' \ Ids : stream'[i] = [Entry(c) EXCEPT !.attempts = @ + 1]
  <2> DEFINE e == [Entry(c) EXCEPT !.attempts = @ + 1]
  <2>1. e \in Entries /\ stream' = Append(stream, e)
    BY <1>4, <1>7
  <2>2. \A i \in Ids' \ Ids : stream'[i] = e
    <3> HIDE DEF e
    <3>1. QED
      BY <1>1, <2>1
  <2>3. \A i \in Ids : i \in Ids' /\ stream'[i] = stream[i]
    <3> HIDE DEF e
    <3>1. QED
      BY <1>1, <2>1
  <2>4. QED
    BY <2>2, <2>3
<1>8. QED
  BY <1>2, <1>5, <1>6, <1>7

LEMMA AttemptsInit == Init => AttemptsInv
<1> SUFFICES ASSUME Init PROVE AttemptsInv
  OBVIOUS
<1>1. AttemptsBacked
  BY DEF Init, AttemptsBacked, Ids
<1>2. DeadLetterJustified
  BY DEF Init, DeadLetterJustified, Buried
<1>3. QED
  BY <1>1, <1>2, TypeInit DEF AttemptsInv

\* A consumer that holds an entry and whose stage does not change in a step still
\* holds the same entry.
LEMMA SameStageSameEntry ==
  ASSUME TypeOK, [Next]_vars, NEW c \in Consumers, pc[c] \in {"retry", "bury"},
         pc'[c] = pc[c]
  PROVE  Entry(c)' = Entry(c)
<1>1. msg'[c] = msg[c]
  <2>1. ASSUME NEW d \in Consumers, Work(d) \/ Disturb(d) \/ Restart(d) PROVE msg'[c] = msg[c]
    <3>1. CASE d # c
      BY <2>1, <3>1, OthersStay
    <3>2. CASE d = c
      BY <2>1, <3>2
      DEF TypeOK, ConsumerType, Work, Disturb, Restart, Read, ClaimOrphans, ClaimPage,
          TakeClaimed, Handle, HandleOk, HandleRetryable, HandlePermanent, Ack, Retry,
          DeadLetter, Settle, Finish, ToSettle, Steal, ReadFault, AckFault, RetryFault,
          DeadLetterFault, SettleFault, Resend, Abort, Stop, Move, consumerVars
    <3>3. QED
      BY <3>1, <3>2
  <2>2. QED
    BY <2>1 DEF Next, Enqueue, EnqueueAgain, AppendNew, consumerVars, vars
<1>2. msg[c].id \in Ids
  BY DEF TypeOK, ConsumerType, Busy
<1>3. QED
  BY <1>1, <1>2, EntriesAfter DEF Entry

\* How a consumer gets to the stages that add an attempt or a dead letter.
LEMMA EnterRetryOrBury ==
  ASSUME TypeOK, [Next]_vars, NEW c \in Consumers, pc'[c] \in {"retry", "bury"},
         pc'[c] # pc[c]
  PROVE  /\ HandleRetryable(c) \/ HandlePermanent(c)
         /\ pc'[c] = "retry" => HandleRetryable(c) /\ HasAttemptsLeft(Entry(c))
         /\ pc'[c] = "bury" =>
              HandlePermanent(c) \/ (HandleRetryable(c) /\ ~HasAttemptsLeft(Entry(c)))
<1>1. ASSUME NEW d \in Consumers, Work(d) \/ Disturb(d) \/ Restart(d)
      PROVE  d = c /\ (HandleRetryable(c) \/ HandlePermanent(c))
  <2>1. d = c
    BY <1>1, OthersStay
  <2>2. QED
    BY <1>1, <2>1
    DEF TypeOK, ConsumerType, Work, Disturb, Restart, Read, ClaimOrphans, ClaimPage,
        TakeClaimed, Handle, HandleOk, Ack, Retry, DeadLetter, Settle, Finish, ToSettle,
        Steal, ReadFault, AckFault, RetryFault, DeadLetterFault, SettleFault, Resend, Abort,
        Stop, Move, consumerVars
<1>2. HandleRetryable(c) \/ HandlePermanent(c)
  BY <1>1 DEF Next, Enqueue, EnqueueAgain, AppendNew, consumerVars, vars
<1>3. QED
  BY <1>2 DEF HandleRetryable, HandlePermanent, Move, TypeOK, ConsumerType

\* The dead letters after a step: those before it, and perhaps one new one.
LEMMA DeadAfter ==
  ASSUME TypeOK, [Next]_vars, NEW j \in Buried'
  PROVE  j \in Buried \/ \E c \in Consumers : pc[c] = "bury" /\ j = Entry(c).job
<1>1. \/ UNCHANGED dead
      \/ \E c \in Consumers : pc[c] = "bury" /\ AppendDead(c)
  BY DEF Next, Work, Disturb, Enqueue, EnqueueAgain, AppendNew, Read, DeliverNext, ClaimOrphans, ClaimPage,
         TakeClaimed, Handle, HandleOk, HandleRetryable, HandlePermanent, Ack, Retry,
         DeadLetter, Settle, Steal, ReadFault, AckFault, RetryFault, DeadLetterFault,
         SettleFault, Resend, Acknowledge, AppendRetry, Stop, Restart, vars, streamVars
<1>2. CASE UNCHANGED dead
  BY <1>2 DEF Buried
<1>3. ASSUME NEW c \in Consumers, pc[c] = "bury", AppendDead(c)
      PROVE  j \in Buried \/ j = Entry(c).job
  <2>1. /\ dead' = Append(dead, Entry(c)) /\ Entry(c) \in Entries
        /\ dead \in Seq(Entries)
    BY <1>3, EntryType DEF AppendDead, TypeOK, StreamType, Busy
  <2>2. PICK i \in 1 .. Len(dead') : j = dead'[i].job
    BY DEF Buried
  <2>3. QED
    BY <2>1, <2>2, AppendProperties DEF Buried
<1>4. QED
  BY <1>1, <1>2, <1>3

LEMMA AttemptsStep == AttemptsInv /\ [Next]_vars => AttemptsInv'
<1> SUFFICES ASSUME AttemptsInv, [Next]_vars PROVE AttemptsInv'
  OBVIOUS
<1>1. TypeOK /\ TypeOK'
  BY TypeStep DEF AttemptsInv
<1>2. /\ \A j \in Jobs : failures[j] \in Nat /\ failures'[j] \in Nat
      /\ \A j \in Jobs : failures[j] <= failures'[j]
      /\ condemned \subseteq condemned'
  <2>1. failures \in [Jobs -> Nat] /\ failures' \in [Jobs -> Nat]
    BY <1>1 DEF TypeOK, HistoryType
  <2>2. (\A j \in Jobs : failures[j] <= failures'[j]) /\ condemned \subseteq condemned'
    BY <1>1, FailuresGrow
  <2>3. QED
    BY <2>1, <2>2
<1>3. \A i \in Ids : stream[i].job \in Jobs /\ stream[i].attempts \in Nat
  <2>1. \A i \in Ids : stream[i] \in Entries
    BY <1>1 DEF TypeOK, StreamType, Ids
  <2>2. QED
    BY <2>1 DEF Entries
<1>4. \A c \in Consumers : pc[c] \in Busy =>
        Entry(c).job \in Jobs /\ Entry(c).attempts \in Nat
  BY <1>1, EntryType DEF Entries
<1>5. ASSUME NEW i \in Ids' PROVE stream'[i].attempts <= failures'[stream'[i].job]
  <2>1. CASE i \in Ids
    BY <1>1, <1>2, <1>3, <2>1, EntriesAfter DEF AttemptsInv, AttemptsBacked
  <2>2. CASE stream'[i].attempts = 0 /\ stream'[i].job \in Jobs
    BY <1>2, <2>2
  <2>3. CASE \E c \in Consumers : pc[c] = "retry"
                               /\ stream'[i] = [Entry(c) EXCEPT !.attempts = @ + 1]
    <3>1. PICK c \in Consumers : pc[c] = "retry"
                                /\ stream'[i] = [Entry(c) EXCEPT !.attempts = @ + 1]
      BY <2>3
    <3>2. Entry(c) \in Entries
      BY <1>1, <3>1, EntryType DEF Busy
    <3>3. stream'[i].job = Entry(c).job /\ stream'[i].attempts = Entry(c).attempts + 1
      BY <3>1, <3>2 DEF Entries
    <3>4. Entry(c).attempts + 1 <= failures[Entry(c).job]
      BY <3>1 DEF AttemptsInv, AttemptsBacked
    <3>5. QED
      BY <1>2, <3>2, <3>3, <3>4 DEF Entries
  <2>4. QED
    BY <1>1, <2>1, <2>2, <2>3, EntriesAfter
<1>6. ASSUME NEW c \in Consumers, HandleRetryable(c) \/ HandlePermanent(c)
      PROVE  /\ Entry(c)' = Entry(c)
             /\ Entry(c).attempts + 1 <= failures'[Entry(c).job]
             /\ HandlePermanent(c) => Entry(c).job \in condemned'
  <2>1. pc[c] \in Busy /\ UNCHANGED <<stream, msg>>
    BY <1>6 DEF HandleRetryable, HandlePermanent, Busy, streamVars
  <2>2. Entry(c).attempts <= failures[Entry(c).job]
    BY <1>1, <2>1 DEF AttemptsInv, AttemptsBacked, TypeOK, ConsumerType, Entry
  <2>3. failures'[Entry(c).job] = failures[Entry(c).job] + 1
    BY <1>1, <1>4, <1>6, <2>1
    DEF HandleRetryable, HandlePermanent, TypeOK, HistoryType
  <2>4. QED
    BY <1>2, <1>4, <1>6, <2>1, <2>2, <2>3 DEF Entry, HandlePermanent
<1>7. ASSUME NEW c \in Consumers, pc'[c] = "retry"
      PROVE  (Entry(c).attempts + 1 <= failures[Entry(c).job])'
  <2>1. CASE pc[c] = "retry"
    <3>1. Entry(c)' = Entry(c)
      BY <1>1, <1>7, <2>1, SameStageSameEntry
    <3>2. Entry(c).attempts + 1 <= failures[Entry(c).job]
      BY <2>1 DEF AttemptsInv, AttemptsBacked
    <3>3. QED
      BY <1>2, <1>4, <2>1, <3>1, <3>2 DEF Busy
  <2>2. CASE pc[c] # "retry"
    BY <1>1, <1>6, <1>7, <2>2, EnterRetryOrBury
  <2>3. QED
    BY <2>1, <2>2
<1>8. ASSUME NEW c \in Consumers, pc'[c] = "bury"
      PROVE  (Entry(c).job \in condemned \/ failures[Entry(c).job] >= MaxAttempts)'
  <2>1. CASE pc[c] = "bury"
    <3>1. Entry(c)' = Entry(c)
      BY <1>1, <1>8, <2>1, SameStageSameEntry
    <3>2. Entry(c).job \in condemned \/ failures[Entry(c).job] >= MaxAttempts
      BY <2>1 DEF AttemptsInv, AttemptsBacked
    <3>3. QED
      BY <1>2, <1>4, <2>1, <3>1, <3>2, JobStreamAssumption DEF Busy
  <2>2. CASE pc[c] # "bury"
    <3>1. /\ HandleRetryable(c) \/ HandlePermanent(c)
          /\ HandlePermanent(c) \/ ~HasAttemptsLeft(Entry(c))
      BY <1>1, <1>8, <2>2, EnterRetryOrBury
    <3>2. Entry(c).job \in Jobs /\ Entry(c).attempts \in Nat
      BY <1>4, <3>1 DEF HandleRetryable, HandlePermanent, Busy
    <3>3. QED
      BY <1>2, <1>6, <3>1, <3>2, JobStreamAssumption DEF HasAttemptsLeft
  <2>3. QED
    BY <2>1, <2>2
<1>9. ASSUME NEW j \in Buried' PROVE j \in condemned' \/ failures'[j] >= MaxAttempts
  <2>1. CASE j \in Buried
    <3>1. j \in Jobs
      <4>1. PICK i \in 1 .. Len(dead) : j = dead[i].job
        BY <2>1 DEF Buried
      <4>2. dead[i] \in Entries
        BY <1>1, <4>1 DEF TypeOK, StreamType
      <4>3. QED
        BY <4>1, <4>2 DEF Entries
    <3>2. QED
      BY <1>2, <2>1, <3>1, JobStreamAssumption DEF AttemptsInv, DeadLetterJustified
  <2>2. ASSUME NEW c \in Consumers, pc[c] = "bury", j = Entry(c).job
        PROVE  j \in condemned' \/ failures'[j] >= MaxAttempts
    BY <1>2, <1>4, <2>2, JobStreamAssumption DEF AttemptsInv, AttemptsBacked, Busy
  <2>3. QED
    BY <1>1, <2>1, <2>2, DeadAfter
<1>10. AttemptsBacked'
  BY <1>5, <1>7, <1>8 DEF AttemptsBacked
<1>11. DeadLetterJustified'
  BY <1>9 DEF DeadLetterJustified
<1>12. QED
  BY <1>1, <1>10, <1>11 DEF AttemptsInv

\* No job is dead-lettered before MaxAttempts of its runs failed, unless a run
\* failed permanently, however often it was delivered.
THEOREM DeadLettersJustified == Spec => []DeadLetterJustified
<1>1. Spec => Init /\ [][Next]_vars
  BY DEF Spec
<1>2. AttemptsInv => DeadLetterJustified
  BY DEF AttemptsInv
<1>3. QED
  BY <1>1, <1>2, AttemptsInit, AttemptsStep, PTL

-----------------------------------------------------------------------------
(* JobStream implements JobDelivery.  Every step changes the stream in one of *)
(* a few ways; each of them is an abstract action or a stuttering step.       *)

AbstractStep == [Delivery!Next]_(Delivery!deliveryVars)

LEMMA RefinedInit == Init => Delivery!Init
<1> SUFFICES ASSUME Init PROVE Delivery!Init
  OBVIOUS
<1>1. Ids = {} /\ Open = {} /\ Len(dead) = 0
  BY DEF Init, Ids, Open
<1>2. Accepted = {} /\ OpenJobs = {} /\ Buried = {}
  BY <1>1 DEF Accepted, OpenJobs, Buried
<1>3. Succeeded = {}
  BY DEF Init, Succeeded
<1>4. QED
  BY <1>2, <1>3 DEF Delivery!Init

\* The ways in which a step can change what the abstract queue sees.
LEMMA StreamChange ==
  ASSUME QueueInv, [Next]_vars
  PROVE  \/ \E j \in Jobs : Enqueue(j) \/ EnqueueAgain(j)
         \/ (UNCHANGED streamVars \/ DeliverNext) /\ UNCHANGED oks
         \/ \E c \in Consumers : HandleOk(c)
         \/ \E c \in Consumers :
              /\ pc[c] \in Busy
              /\ \/ Acknowledge(c) /\ Settled(msg[c].id)
                 \/ AppendRetry(c)
                 \/ AppendDead(c)
              /\ UNCHANGED oks
<1>1. ASSUME NEW c \in Consumers, Work(c) \/ Disturb(c) \/ Restart(c), ~HandleOk(c)
      PROVE  UNCHANGED oks
  BY <1>1
  DEF Work, Disturb, Restart, Read, ClaimOrphans, ClaimPage, TakeClaimed, Handle,
      HandleRetryable, HandlePermanent, Ack, Retry, DeadLetter, Settle, Finish, ToSettle,
      Steal, ReadFault, AckFault, RetryFault, DeadLetterFault, SettleFault, Resend, Abort, Stop,
      historyVars
<1>2. ASSUME NEW c \in Consumers, Work(c) \/ Disturb(c) \/ Restart(c), ~HandleOk(c)
      PROVE  \/ UNCHANGED streamVars
             \/ DeliverNext
             \/ /\ pc[c] \in Busy
                /\ \/ Acknowledge(c) /\ Settled(msg[c].id)
                   \/ AppendRetry(c)
                   \/ AppendDead(c)
  <2>1. CASE Ack(c) \/ Settle(c) \/ AckFault(c)
    BY <1>2, <2>1, AcknowledgesSettled DEF Ack, Settle, AckFault
  <2>2. CASE ~(Ack(c) \/ Settle(c) \/ AckFault(c))
    BY <1>2, <2>2
    DEF Work, Disturb, Restart, Read, ClaimOrphans, ClaimPage, TakeClaimed, Handle,
        HandleRetryable, HandlePermanent, Retry, DeadLetter, Steal, ReadFault, RetryFault,
        DeadLetterFault, SettleFault, Resend, Stop, Busy
  <2>3. QED
    BY <2>1, <2>2
<1>3. UNCHANGED vars => UNCHANGED streamVars /\ UNCHANGED oks
  BY DEF vars, historyVars
<1>4. QED
  BY <1>1, <1>2, <1>3 DEF Next

LEMMA EnqueueRefines ==
  ASSUME TypeOK, NEW j \in Jobs, Enqueue(j) \/ EnqueueAgain(j)
  PROVE  Delivery!Accept(j) \/ Delivery!Reopen(j)
<1> DEFINE e == [job |-> j, attempts |-> 0]
<1>1. e \in Entries /\ e.job = j /\ stream' = Append(stream, e)
  BY DEF Enqueue, EnqueueAgain, AppendNew, Entries
<1> HIDE DEF e
<1>2. /\ Len(stream) \in Nat /\ Len(stream') = Len(stream) + 1
      /\ stream'[Len(stream) + 1] = e
      /\ \A i \in 1 .. Len(stream) : stream'[i] = stream[i]
  BY <1>1, AppendProperties DEF TypeOK, StreamType
<1>3. Ids' = Ids \cup {Len(stream) + 1}
  BY <1>2 DEF Ids
<1>4. UNCHANGED <<cursor, pel, dead, oks>>
  BY DEF Enqueue, EnqueueAgain, AppendNew, historyVars
<1>5. Open' = Open \cup {Len(stream) + 1}
  BY <1>2, <1>3, <1>4 DEF Open, TypeOK, StreamType
<1>6. Accepted' = Accepted \cup {j}
  BY <1>1, <1>2, <1>3 DEF Accepted, Ids
<1>7. OpenJobs' = OpenJobs \cup {j}
  <2>1. Open \subseteq 1 .. Len(stream)
    BY OpenIsEntry DEF TypeOK, Ids
  <2>2. QED
    BY <1>1, <1>2, <1>5, <2>1 DEF OpenJobs
<1>8. Buried' = Buried /\ Succeeded' = Succeeded
  BY <1>4 DEF Buried, Succeeded
<1>9. CASE j \notin Accepted
  BY <1>6, <1>7, <1>8, <1>9 DEF Delivery!Accept
<1>10. CASE j \in Accepted
  BY <1>6, <1>7, <1>8, <1>10 DEF Delivery!Reopen
<1>11. QED
  BY <1>9, <1>10

LEMMA StutterRefines ==
  ASSUME TypeOK, UNCHANGED streamVars \/ DeliverNext, UNCHANGED oks
  PROVE  UNCHANGED Delivery!deliveryVars
<1>1. UNCHANGED <<stream, dead>> /\ Ids' = Ids
  BY DEF streamVars, DeliverNext, Ids
<1>2. Open' = Open
  <2>1. CASE UNCHANGED streamVars
    BY <1>1, <2>1 DEF streamVars, Open
  <2>2. CASE DeliverNext
    BY <1>1, <2>2 DEF DeliverNext, Open, TypeOK, StreamType, Ids
  <2>3. QED
    BY <2>1, <2>2
<1>3. Accepted' = Accepted /\ OpenJobs' = OpenJobs
  BY <1>1, <1>2 DEF Accepted, OpenJobs
<1>4. Buried' = Buried /\ Succeeded' = Succeeded
  BY <1>1 DEF Buried, Succeeded
<1>5. QED
  BY <1>3, <1>4 DEF Delivery!deliveryVars

\* The job of the entry a consumer works on was accepted.
LEMMA EntryAccepted ==
  ASSUME TypeOK, NEW c \in Consumers, pc[c] \in Busy
  PROVE  Entry(c).job \in Accepted /\ Entry(c).job \in Jobs
<1>1. msg[c].id \in Ids
  BY DEF TypeOK, ConsumerType
<1>2. QED
  BY <1>1, EntryType DEF Accepted, Entry, Entries

LEMMA HandleOkRefines ==
  ASSUME TypeOK, NEW c \in Consumers, HandleOk(c)
  PROVE  Delivery!Succeed(Entry(c).job)
<1>1. Entry(c).job \in Accepted /\ Entry(c).job \in Jobs
  BY EntryAccepted DEF HandleOk, Busy
<1>2. UNCHANGED streamVars /\ oks' = [oks EXCEPT ![Entry(c).job] = @ + 1]
  BY DEF HandleOk
<1>3. Succeeded' = Succeeded \cup {Entry(c).job}
  BY <1>1, <1>2 DEF Succeeded, TypeOK, HistoryType
<1>4. Accepted' = Accepted /\ OpenJobs' = OpenJobs /\ Buried' = Buried
  BY <1>2 DEF streamVars, Accepted, OpenJobs, Buried, Open, Ids
<1>5. QED
  BY <1>1, <1>3, <1>4 DEF Delivery!Succeed

LEMMA AcknowledgeRefines ==
  ASSUME TypeOK, NEW c \in Consumers, pc[c] \in Busy, Acknowledge(c),
         Settled(msg[c].id), UNCHANGED oks
  PROVE  \/ UNCHANGED Delivery!deliveryVars
         \/ Delivery!Close(Entry(c).job)
<1>1. PICK x \in Ids : x = msg[c].id
  BY DEF TypeOK, ConsumerType
<1>2. UNCHANGED <<stream, cursor, dead>> /\ pel' = pel \ {x} /\ Ids' = Ids
  BY <1>1 DEF Acknowledge, Ids
<1>3. Entry(c) = stream[x] /\ Settled(x)
  BY <1>1 DEF Entry
<1>4. Open' \subseteq Open /\ Open \subseteq Open' \cup {x}
  BY <1>2 DEF Open, Ids
<1>5. Accepted' = Accepted /\ Buried' = Buried /\ Succeeded' = Succeeded
  BY <1>2 DEF Accepted, Buried, Succeeded
<1>6. CASE x \notin Open \/ \E k \in Open : k # x /\ stream[k].job = stream[x].job
  <2>1. OpenJobs' = OpenJobs
    BY <1>2, <1>4, <1>6 DEF OpenJobs
  <2>2. QED
    BY <1>5, <2>1 DEF Delivery!deliveryVars
<1>7. CASE x \in Open /\ \A k \in Open : k # x => stream[k].job # stream[x].job
  <2>1. stream[x].job \in Succeeded \cup Buried
    BY <1>1, <1>3, <1>7 DEF Settled, Ids
  <2>2. stream[x].job \in OpenJobs
    BY <1>7 DEF OpenJobs
  <2>3. CASE x \in Open'
    <3>1. OpenJobs' = OpenJobs
      BY <1>2, <1>4, <2>3 DEF OpenJobs
    <3>2. QED
      BY <1>5, <3>1 DEF Delivery!deliveryVars
  <2>4. CASE x \notin Open'
    <3>1. OpenJobs' = OpenJobs \ {stream[x].job}
      BY <1>2, <1>4, <1>7, <2>4 DEF OpenJobs
    <3>2. QED
      BY <1>3, <1>5, <2>1, <2>2, <3>1 DEF Delivery!Close
  <2>5. QED
    BY <2>3, <2>4
<1>8. QED
  BY <1>6, <1>7

LEMMA AppendRetryRefines ==
  ASSUME TypeOK, NEW c \in Consumers, pc[c] \in Busy, AppendRetry(c), UNCHANGED oks
  PROVE  Delivery!Reopen(Entry(c).job)
<1> DEFINE e == [Entry(c) EXCEPT !.attempts = @ + 1]
<1>1. e \in Entries /\ e.job = Entry(c).job /\ stream' = Append(stream, e)
  BY EntryType DEF Entries, AppendRetry
<1> HIDE DEF e
<1>2. /\ Len(stream) \in Nat /\ Len(stream') = Len(stream) + 1
      /\ stream'[Len(stream) + 1] = e
      /\ \A i \in 1 .. Len(stream) : stream'[i] = stream[i]
  BY <1>1, AppendProperties DEF TypeOK, StreamType
<1>3. Ids' = Ids \cup {Len(stream) + 1}
  BY <1>2 DEF Ids
<1>4. UNCHANGED <<cursor, pel, dead, oks>>
  BY DEF AppendRetry
<1>5. Open' = Open \cup {Len(stream) + 1}
  BY <1>2, <1>3, <1>4 DEF Open, TypeOK, StreamType
<1>6. Entry(c).job \in Accepted
  BY EntryAccepted
<1>7. Accepted' = Accepted
  <2>1. Accepted' = Accepted \cup {Entry(c).job}
    BY <1>1, <1>2, <1>3 DEF Accepted, Ids
  <2>2. QED
    BY <1>6, <2>1
<1>8. OpenJobs' = OpenJobs \cup {Entry(c).job}
  <2>1. Open \subseteq 1 .. Len(stream)
    BY OpenIsEntry DEF TypeOK, Ids
  <2>2. QED
    BY <1>1, <1>2, <1>5, <2>1 DEF OpenJobs
<1>9. Buried' = Buried /\ Succeeded' = Succeeded
  BY <1>4 DEF Buried, Succeeded
<1>10. QED
  BY <1>6, <1>7, <1>8, <1>9 DEF Delivery!Reopen

LEMMA AppendDeadRefines ==
  ASSUME TypeOK, NEW c \in Consumers, pc[c] \in Busy, AppendDead(c), UNCHANGED oks
  PROVE  Delivery!Bury(Entry(c).job)
<1>1. UNCHANGED <<stream, cursor, pel>> /\ dead' = Append(dead, Entry(c))
  BY DEF AppendDead
<1>2. /\ Len(dead) \in Nat /\ Len(dead') = Len(dead) + 1
      /\ dead'[Len(dead) + 1] = Entry(c)
      /\ \A i \in 1 .. Len(dead) : dead'[i] = dead[i]
  BY <1>1, EntryType, AppendProperties DEF TypeOK, StreamType
<1>3. 1 .. Len(dead') = (1 .. Len(dead)) \cup {Len(dead) + 1}
  BY <1>2
<1>4. Buried' = Buried \cup {Entry(c).job}
  BY <1>2, <1>3 DEF Buried
<1>5. Accepted' = Accepted /\ OpenJobs' = OpenJobs /\ Succeeded' = Succeeded
  BY <1>1 DEF Accepted, OpenJobs, Open, Ids, Succeeded
<1>6. QED
  BY <1>4, <1>5, EntryAccepted DEF Delivery!Bury

LEMMA RefinedStep == QueueInv /\ [Next]_vars => AbstractStep
<1> SUFFICES ASSUME QueueInv, [Next]_vars PROVE AbstractStep
  OBVIOUS
<1> USE DEF AbstractStep
<1>1. TypeOK
  BY DEF QueueInv
<1>2. ASSUME NEW j \in Jobs, Enqueue(j) \/ EnqueueAgain(j) PROVE AbstractStep
  BY <1>1, <1>2, EnqueueRefines DEF Delivery!Next
<1>3. ASSUME UNCHANGED streamVars \/ DeliverNext, UNCHANGED oks PROVE AbstractStep
  BY <1>1, <1>3, StutterRefines
<1>4. ASSUME NEW c \in Consumers, HandleOk(c) PROVE AbstractStep
  <2>1. Entry(c).job \in Jobs
    BY <1>1, <1>4, EntryAccepted DEF HandleOk, Busy
  <2>2. QED
    BY <1>1, <1>4, <2>1, HandleOkRefines DEF Delivery!Next
<1>5. ASSUME NEW c \in Consumers, pc[c] \in Busy, UNCHANGED oks,
             \/ Acknowledge(c) /\ Settled(msg[c].id)
             \/ AppendRetry(c)
             \/ AppendDead(c)
      PROVE  AbstractStep
  <2>1. Entry(c).job \in Jobs
    BY <1>1, <1>5, EntryAccepted
  <2>2. CASE Acknowledge(c) /\ Settled(msg[c].id)
    BY <1>1, <1>5, <2>1, <2>2, AcknowledgeRefines DEF Delivery!Next
  <2>3. CASE AppendRetry(c)
    BY <1>1, <1>5, <2>1, <2>3, AppendRetryRefines DEF Delivery!Next
  <2>4. CASE AppendDead(c)
    BY <1>1, <1>5, <2>1, <2>4, AppendDeadRefines DEF Delivery!Next
  <2>5. QED
    BY <1>5, <2>2, <2>3, <2>4
<1>6. QED
  BY <1>2, <1>3, <1>4, <1>5, StreamChange

\* The stream behaves like the abstract durable queue: a job leaves it only with
\* a verdict, whatever consumers, processes and Redis calls do in between.
THEOREM StreamImplementsDelivery == Spec => ImplementsDelivery
<1>1. Spec => Init /\ [][Next]_vars
  BY DEF Spec
<1>2. QED
  BY <1>1, RefinedInit, RefinedStep, QueueInvariant, PTL
  DEF ImplementsDelivery, Delivery!Spec, AbstractStep

-----------------------------------------------------------------------------
(* One verdict as long as there is no trouble.  Then pages stay empty, for  *)
(* every pending entry has a consumer at work on it; no two consumers work  *)
(* on the same entry, so one entry at a time carries a job on.              *)

\* Entries that still have a run, a retry or a dead letter before them.
Live(i) == \/ i > cursor
           \/ \E c \in Consumers : pc[c] \in {"handle", "retry", "bury"} /\ msg[c].id = i

\* Each pending entry is in the hands of exactly one consumer.
Holders ==
  /\ \A c \in Consumers : page[c] = {} /\ pc[c] # "down"
  /\ \A c \in Consumers : pc[c] \in Busy => msg[c].id \in pel
  /\ \A i \in pel : \E c \in Consumers : pc[c] \in Busy /\ msg[c].id = i
  /\ \A c, d \in Consumers :
       pc[c] \in Busy /\ pc[d] \in Busy /\ msg[c].id = msg[d].id => c = d

\* A job has one live entry and no verdict, or a single verdict.
Verdicts ==
  /\ \A i, k \in Ids : Live(i) /\ Live(k) /\ stream[i].job = stream[k].job => i = k
  /\ \A i \in Ids : Live(i) => stream[i].job \notin Succeeded \cup Buried
  /\ \A j \in Jobs : oks[j] <= 1
  /\ \A j \in Buried : j \notin Succeeded
  /\ \A a, b \in 1 .. Len(dead) : dead[a].job = dead[b].job => a = b
  /\ Succeeded \cup Buried \subseteq Accepted

CalmInv == TypeOK /\ (troubles = 0 => Holders /\ Verdicts)

LEMMA CalmInit == Init => CalmInv
<1> SUFFICES ASSUME Init PROVE CalmInv
  OBVIOUS
<1>1. Ids = {} /\ Len(dead) = 0 /\ pel = {}
  BY DEF Init, Ids
<1>2. Succeeded = {} /\ Buried = {}
  BY <1>1 DEF Init, Succeeded, Buried
<1>3. Holders
  BY <1>1 DEF Init, Holders, Busy
<1>4. Verdicts
  BY <1>1, <1>2 DEF Init, Verdicts
<1>5. QED
  BY <1>3, <1>4, TypeInit DEF CalmInv

\* The steps of a consumer that is not disturbed and has nothing to claim.
CalmWork(c) ==
  \/ Read(c) \/ Handle(c) \/ Ack(c) \/ Retry(c) \/ DeadLetter(c) \/ Settle(c)

\* While the count of troubles stays at zero, nothing else happens.
LEMMA CalmSteps ==
  ASSUME TypeOK, troubles = 0, Holders, [Next]_vars, troubles' = 0
  PROVE  \/ \E j \in Jobs : Enqueue(j)
         \/ \E c \in Consumers : CalmWork(c)
         \/ UNCHANGED vars
<1>1. ~Trouble
  BY DEF Trouble
<1>2. ASSUME NEW j \in Jobs, EnqueueAgain(j) PROVE FALSE
  BY <1>1, <1>2 DEF EnqueueAgain
<1>3. ASSUME NEW c \in Consumers, Disturb(c) PROVE FALSE
  BY <1>1, <1>3
  DEF Disturb, Steal, ReadFault, AckFault, RetryFault, DeadLetterFault, SettleFault,
      Resend, Stop, Abort
<1>4. ASSUME NEW c \in Consumers, ClaimOrphans(c) PROVE FALSE
  <2>1. Orphans = {}
    BY DEF Holders, Orphans, Held
  <2>2. QED
    BY <1>4, <2>1 DEF ClaimOrphans, ClaimPage
<1>5. ASSUME NEW c \in Consumers, TakeClaimed(c) PROVE FALSE
  BY <1>5 DEF TakeClaimed, Holders
<1>6. ASSUME NEW c \in Consumers, Restart(c) PROVE FALSE
  BY <1>6 DEF Restart, Holders
<1>7. QED
  BY <1>2, <1>3, <1>4, <1>5, <1>6 DEF Next, Work, CalmWork

\* Reading takes an entry nobody holds, acknowledging ends the one tenure of an
\* entry, and between the two the consumer keeps it.
LEMMA HoldersRead ==
  ASSUME TypeOK, Holders, NEW c \in Consumers, Read(c)
  PROVE  Holders'
<1>1. /\ cursor \in Nat /\ pel \subseteq 1 .. cursor /\ pel' = pel \cup {cursor + 1}
      /\ pc[c] \notin Busy
  BY DEF TypeOK, StreamType, Read, DeliverNext, Busy
<1>2. /\ pc' = [pc EXCEPT ![c] = "handle"]
      /\ msg' = [msg EXCEPT ![c] = [id |-> cursor + 1, path |-> "read"]]
      /\ page' = page
  BY DEF Read, Move
<1>3. /\ pc'[c] = "handle" /\ msg'[c].id = cursor + 1
      /\ \A d \in Consumers : d # c => pc'[d] = pc[d] /\ msg'[d] = msg[d]
  BY <1>2 DEF TypeOK, ConsumerType
<1>4. cursor + 1 \notin pel
  BY <1>1
<1>5. \A d \in Consumers : page'[d] = {} /\ pc'[d] # "down"
  BY <1>2, <1>3 DEF Holders
<1>6. \A d \in Consumers : pc'[d] \in Busy => msg'[d].id \in pel'
  BY <1>1, <1>3 DEF Holders
<1>7. \A i \in pel' : \E d \in Consumers : pc'[d] \in Busy /\ msg'[d].id = i
  <2>1. ASSUME NEW i \in pel PROVE \E d \in Consumers : pc'[d] \in Busy /\ msg'[d].id = i
    BY <1>1, <1>3, <2>1 DEF Holders
  <2>2. pc'[c] \in Busy /\ msg'[c].id = cursor + 1
    BY <1>3 DEF Busy
  <2>3. QED
    BY <1>1, <2>1, <2>2
<1>8. ASSUME NEW d \in Consumers, NEW e \in Consumers,
             pc'[d] \in Busy, pc'[e] \in Busy, msg'[d].id = msg'[e].id
      PROVE  d = e
  <2>1. CASE d # c /\ e # c
    BY <1>3, <1>8, <2>1 DEF Holders
  <2>2. CASE d = c \/ e = c
    BY <1>3, <1>4, <1>8, <2>2 DEF Holders
  <2>3. QED
    BY <2>1, <2>2
<1>9. QED
  BY <1>5, <1>6, <1>7, <1>8 DEF Holders

LEMMA HoldersKeep ==
  ASSUME TypeOK, Holders, NEW c \in Consumers, pc[c] \in Busy, NEW stage \in Busy,
         Move(c, stage), UNCHANGED <<page, msg, pel>>
  PROVE  Holders'
<1>1. \A d \in Consumers : pc'[d] \in Busy <=> pc[d] \in Busy
  BY DEF Move, TypeOK, ConsumerType
<1>2. \A d \in Consumers : pc'[d] # "down"
  BY DEF Move, TypeOK, ConsumerType, Holders, Busy
<1>3. QED
  BY <1>1, <1>2 DEF Holders

LEMMA HoldersRelease ==
  ASSUME TypeOK, Holders, NEW c \in Consumers, pc[c] \in Busy, Acknowledge(c), Finish(c)
  PROVE  Holders'
<1>1. /\ pc'[c] = "loop"
      /\ \A d \in Consumers : d # c => pc'[d] = pc[d] /\ msg'[d] = msg[d]
      /\ page' = page /\ pel' = pel \ {msg[c].id}
  BY DEF TypeOK, ConsumerType, Acknowledge, Finish, Move
<1>2. "loop" \notin Busy
  BY DEF Busy
<1>3. \A d \in Consumers : page'[d] = {} /\ pc'[d] # "down"
  BY <1>1 DEF Holders
<1>4. ASSUME NEW d \in Consumers, pc'[d] \in Busy PROVE msg'[d].id \in pel'
  BY <1>1, <1>2, <1>4 DEF Holders
<1>5. ASSUME NEW i \in pel' PROVE \E d \in Consumers : pc'[d] \in Busy /\ msg'[d].id = i
  BY <1>1, <1>5 DEF Holders
<1>6. \A d, e \in Consumers :
        pc'[d] \in Busy /\ pc'[e] \in Busy /\ msg'[d].id = msg'[e].id => d = e
  BY <1>1, <1>2 DEF Holders
<1>7. QED
  BY <1>3, <1>4, <1>5, <1>6 DEF Holders

LEMMA HoldersStep ==
  ASSUME TypeOK, troubles = 0, Holders, [Next]_vars, troubles' = 0
  PROVE  Holders'
<1>1. ASSUME NEW j \in Jobs, Enqueue(j) PROVE Holders'
  BY <1>1 DEF Enqueue, AppendNew, consumerVars, Holders
<1>2. ASSUME NEW c \in Consumers, Handle(c) \/ Retry(c) \/ DeadLetter(c) PROVE Holders'
  <2>1. PICK stage \in Busy : Move(c, stage)
    BY <1>2
    DEF Handle, HandleOk, HandleRetryable, HandlePermanent, Retry, DeadLetter, ToSettle, Busy
  <2>2. pc[c] \in Busy /\ UNCHANGED <<page, msg, pel>>
    BY <1>2
    DEF Handle, HandleOk, HandleRetryable, HandlePermanent, Retry, DeadLetter, ToSettle, Busy,
        AppendRetry, AppendDead, streamVars
  <2>3. QED
    BY <2>1, <2>2, HoldersKeep
<1>3. ASSUME NEW c \in Consumers, Ack(c) \/ Settle(c) PROVE Holders'
  BY <1>3, HoldersRelease DEF Ack, Settle, Busy
<1>4. CASE UNCHANGED vars
  BY <1>4 DEF vars, streamVars, consumerVars, Holders
<1>5. QED
  BY <1>1, <1>2, <1>3, <1>4, CalmSteps, HoldersRead DEF CalmWork

\* Three ways in which a calm step can go on: it gives no verdict and brings no
\* entry to life; it appends an entry that alone carries its job on; it gives
\* the job of a live entry a verdict, after which no entry of the job is live.
LEMMA VerdictsSame ==
  ASSUME TypeOK, Verdicts, UNCHANGED <<stream, dead, oks>>,
         \A i \in Ids : Live(i)' => Live(i)
  PROVE  Verdicts'
<1>1. Ids' = Ids /\ Succeeded' = Succeeded /\ Buried' = Buried /\ Accepted' = Accepted
  BY DEF Ids, Succeeded, Buried, Accepted
<1>2. QED
  BY <1>1 DEF Verdicts

LEMMA VerdictsAppend ==
  ASSUME TypeOK, Verdicts, NEW e \in Entries, stream' = Append(stream, e),
         UNCHANGED <<dead, oks>>, e.job \notin Succeeded \cup Buried,
         \A i \in Ids : Live(i)' => Live(i) /\ stream[i].job # e.job
  PROVE  Verdicts'
<1>1. /\ Len(stream) \in Nat /\ Len(stream') = Len(stream) + 1
      /\ stream'[Len(stream) + 1] = e
      /\ \A i \in Ids : stream'[i] = stream[i]
  BY AppendProperties DEF TypeOK, StreamType, Ids
<1>2. Ids' = Ids \cup {Len(stream) + 1} /\ Len(stream) + 1 \notin Ids
  BY <1>1 DEF Ids
<1>3. Succeeded' = Succeeded /\ Buried' = Buried
  BY DEF Succeeded, Buried
<1>4. Accepted \subseteq Accepted'
  BY <1>1, <1>2 DEF Accepted
<1>5. ASSUME NEW i \in Ids', NEW k \in Ids', Live(i)', Live(k)',
             stream'[i].job = stream'[k].job
      PROVE  i = k
  BY <1>1, <1>2, <1>5 DEF Verdicts
<1>6. ASSUME NEW i \in Ids', Live(i)' PROVE stream'[i].job \notin Succeeded' \cup Buried'
  BY <1>1, <1>2, <1>3, <1>6 DEF Verdicts
<1>7. QED
  BY <1>3, <1>4, <1>5, <1>6 DEF Verdicts

LEMMA VerdictsGiven ==
  ASSUME TypeOK, Verdicts, stream' = stream, NEW x \in Ids, Live(x),
         \A i \in Ids : Live(i)' => Live(i) /\ i # x,
         \/ dead' = dead /\ oks' = [oks EXCEPT ![stream[x].job] = @ + 1]
         \/ oks' = oks /\ dead' = Append(dead, stream[x])
  PROVE  Verdicts'
<1> DEFINE j == stream[x].job
<1>1. /\ stream[x] \in Entries /\ j \in Jobs /\ j \in Accepted
      /\ Ids' = Ids /\ Accepted' = Accepted
  <2>1. stream[x] \in Entries
    BY DEF TypeOK, StreamType, Ids
  <2>2. Ids' = Ids /\ Accepted' = Accepted
    BY DEF Ids, Accepted
  <2>3. QED
    BY <2>1, <2>2 DEF Entries, Accepted
<1>2. /\ j \notin Succeeded /\ j \notin Buried /\ oks[j] = 0
  BY <1>1 DEF Verdicts, Succeeded, TypeOK, HistoryType
<1>3. ASSUME NEW i \in Ids, Live(i)' PROVE stream[i].job # j
  BY <1>3 DEF Verdicts
<1>4. \/ Buried' = Buried /\ Succeeded' = Succeeded \cup {j} /\ dead' = dead
      \/ /\ Buried' = Buried \cup {j} /\ Succeeded' = Succeeded
         /\ Len(dead) \in Nat /\ Len(dead') = Len(dead) + 1
         /\ dead'[Len(dead) + 1] = stream[x]
         /\ \A a \in 1 .. Len(dead) : dead'[a] = dead[a]
  <2>1. CASE dead' = dead /\ oks' = [oks EXCEPT ![stream[x].job] = @ + 1]
    <3>1. Succeeded' = Succeeded \cup {j}
      BY <1>1, <2>1 DEF Succeeded, TypeOK, HistoryType
    <3>2. Buried' = Buried
      BY <2>1 DEF Buried
    <3>3. QED
      BY <2>1, <3>1, <3>2
  <2>2. CASE oks' = oks /\ dead' = Append(dead, stream[x])
    <3>1. /\ Len(dead) \in Nat /\ Len(dead') = Len(dead) + 1
          /\ dead'[Len(dead) + 1] = stream[x]
          /\ \A a \in 1 .. Len(dead) : dead'[a] = dead[a]
      BY <1>1, <2>2, AppendProperties DEF TypeOK, StreamType
    <3>2. 1 .. Len(dead') = (1 .. Len(dead)) \cup {Len(dead) + 1}
      BY <3>1
    <3>3. Buried' = Buried \cup {j}
      BY <3>1, <3>2 DEF Buried
    <3>4. Succeeded' = Succeeded
      BY <2>2 DEF Succeeded
    <3>5. QED
      BY <3>1, <3>3, <3>4
  <2>3. QED
    BY <2>1, <2>2
<1>5. ASSUME NEW i \in Ids', NEW k \in Ids', Live(i)', Live(k)',
             stream'[i].job = stream'[k].job
      PROVE  i = k
  BY <1>1, <1>5 DEF Verdicts
<1>6. ASSUME NEW i \in Ids', Live(i)' PROVE stream'[i].job \notin Succeeded' \cup Buried'
  BY <1>1, <1>3, <1>4, <1>6 DEF Verdicts
<1>7. ASSUME NEW k \in Jobs PROVE oks'[k] <= 1
  BY <1>1, <1>2 DEF Verdicts, TypeOK, HistoryType
<1>8. \A k \in Buried' : k \notin Succeeded'
  BY <1>2, <1>4 DEF Verdicts
<1>9. ASSUME NEW a \in 1 .. Len(dead'), NEW b \in 1 .. Len(dead'),
             dead'[a].job = dead'[b].job
      PROVE  a = b
  <2>1. \A k \in 1 .. Len(dead) : dead[k].job # j
    BY <1>2 DEF Buried
  <2>2. QED
    BY <1>4, <1>9, <2>1 DEF Verdicts
<1>10. Succeeded' \cup Buried' \subseteq Accepted'
  BY <1>1, <1>4 DEF Verdicts
<1>11. QED
  BY <1>5, <1>6, <1>7, <1>8, <1>9, <1>10 DEF Verdicts

\* The entry of a busy consumer is live until its run is over, and no other
\* consumer keeps it alive.
LEMMA TaskEnds ==
  ASSUME TypeOK, Holders, NEW c \in Consumers, pc[c] \in {"handle", "retry", "bury"},
         NEW stage \in {"ack", "settle"}, Move(c, stage), UNCHANGED <<cursor, msg>>
  PROVE  /\ msg[c].id \in Ids /\ Live(msg[c].id)
         /\ \A i \in Ids : Live(i)' => Live(i) /\ i # msg[c].id
<1>1. pc[c] \in Busy /\ msg[c].id \in Ids /\ msg[c].id \in pel /\ ~(msg[c].id > cursor)
  BY DEF Busy, TypeOK, StreamType, ConsumerType, Holders
<1>2. pc'[c] = stage /\ \A d \in Consumers : d # c => pc'[d] = pc[d]
  BY DEF Move, TypeOK, ConsumerType
<1>3. ASSUME NEW i \in Ids, Live(i)' PROVE Live(i) /\ i # msg[c].id
  <2>1. CASE i > cursor
    BY <1>1, <2>1 DEF Live
  <2>2. CASE ~(i > cursor)
    <3>1. PICK d \in Consumers : pc'[d] \in {"handle", "retry", "bury"} /\ msg'[d].id = i
      BY <1>3, <2>2 DEF Live
    <3>2. d # c /\ pc[d] = pc'[d]
      BY <1>2, <3>1
    <3>3. pc[d] \in Busy /\ msg[d].id = i
      BY <3>1, <3>2 DEF Busy
    <3>4. i # msg[c].id
      BY <1>1, <3>2, <3>3 DEF Holders
    <3>5. Live(i)
      BY <3>1, <3>2, <3>3 DEF Live
    <3>6. QED
      BY <3>4, <3>5
  <2>3. QED
    BY <2>1, <2>2
<1>4. QED
  BY <1>1, <1>3 DEF Live

LEMMA VerdictsEnqueue ==
  ASSUME TypeOK, Verdicts, NEW j \in Jobs, Enqueue(j)
  PROVE  Verdicts'
<1> DEFINE e == [job |-> j, attempts |-> 0]
<1>1. e \in Entries /\ e.job = j /\ stream' = Append(stream, e)
  BY DEF Enqueue, AppendNew, Entries
<1> HIDE DEF e
<1>2. UNCHANGED <<cursor, dead, oks, pc, msg>>
  BY DEF Enqueue, AppendNew, consumerVars, historyVars
<1>3. j \notin Accepted
  BY DEF Enqueue, Accepted
<1>4. j \notin Succeeded \cup Buried
  BY <1>3 DEF Verdicts
<1>5. \A i \in Ids : Live(i)' => Live(i) /\ stream[i].job # j
  BY <1>2, <1>3 DEF Live, Accepted
<1>6. QED
  BY <1>1, <1>2, <1>4, <1>5, VerdictsAppend

LEMMA VerdictsRead ==
  ASSUME TypeOK, Verdicts, NEW c \in Consumers, Read(c)
  PROVE  Verdicts'
<1>1. /\ UNCHANGED <<stream, dead, oks>> /\ cursor' = cursor + 1 /\ cursor \in Nat
      /\ pc'[c] = "handle" /\ msg'[c].id = cursor + 1
      /\ \A d \in Consumers : d # c => pc'[d] = pc[d] /\ msg'[d] = msg[d]
  BY DEF Read, DeliverNext, Move, historyVars, TypeOK, StreamType, ConsumerType
<1>2. ASSUME NEW i \in Ids, Live(i)' PROVE Live(i)
  <2>1. i \in Nat
    BY DEF Ids
  <2>2. CASE i > cursor
    BY <2>2 DEF Live
  <2>3. CASE ~(i > cursor)
    <3>1. PICK d \in Consumers : pc'[d] \in {"handle", "retry", "bury"} /\ msg'[d].id = i
      BY <1>1, <1>2, <2>1, <2>3 DEF Live
    <3>2. d # c
      BY <1>1, <2>1, <2>3, <3>1
    <3>3. QED
      BY <1>1, <3>1, <3>2 DEF Live
  <2>4. QED
    BY <2>2, <2>3
<1>3. QED
  BY <1>1, <1>2, VerdictsSame

LEMMA VerdictsRetry ==
  ASSUME TypeOK, Holders, Verdicts, NEW c \in Consumers, Retry(c)
  PROVE  Verdicts'
<1> DEFINE e == [Entry(c) EXCEPT !.attempts = @ + 1]
<1>1. /\ pc[c] \in Busy /\ pc[c] \in {"handle", "retry", "bury"} /\ Move(c, "settle")
      /\ UNCHANGED <<cursor, msg, dead, oks>>
  BY DEF Retry, AppendRetry, ToSettle, historyVars, Busy
<1>2. e \in Entries /\ e.job = Entry(c).job /\ stream' = Append(stream, e)
  BY <1>1, EntryType DEF Entries, Retry, AppendRetry
<1> HIDE DEF e
<1>3. /\ msg[c].id \in Ids /\ Live(msg[c].id)
      /\ \A i \in Ids : Live(i)' => Live(i) /\ i # msg[c].id
  BY <1>1, TaskEnds
<1>4. e.job \notin Succeeded \cup Buried
  BY <1>2, <1>3 DEF Verdicts, Entry
<1>5. \A i \in Ids : Live(i)' => Live(i) /\ stream[i].job # e.job
  BY <1>2, <1>3 DEF Verdicts, Entry
<1>6. QED
  BY <1>1, <1>2, <1>4, <1>5, VerdictsAppend

LEMMA VerdictsVerdict ==
  ASSUME TypeOK, Holders, Verdicts, NEW c \in Consumers, HandleOk(c) \/ DeadLetter(c)
  PROVE  Verdicts'
<1>1. /\ pc[c] \in {"handle", "retry", "bury"}
      /\ UNCHANGED <<stream, cursor, msg>>
      /\ \E stage \in {"ack", "settle"} : Move(c, stage)
      /\ \/ dead' = dead /\ oks' = [oks EXCEPT ![Entry(c).job] = @ + 1]
         \/ oks' = oks /\ dead' = Append(dead, Entry(c))
  BY DEF HandleOk, DeadLetter, AppendDead, ToSettle, historyVars, streamVars
<1>2. PICK x : x = msg[c].id
  OBVIOUS
<1>3. /\ x \in Ids /\ Live(x)
      /\ \A i \in Ids : Live(i)' => Live(i) /\ i # x
  BY <1>1, <1>2, TaskEnds
<1>4. Entry(c) = stream[x]
  BY <1>2 DEF Entry
<1>5. QED
  BY <1>1, <1>3, <1>4, VerdictsGiven

LEMMA VerdictsFailure ==
  ASSUME TypeOK, Verdicts, NEW c \in Consumers, HandleRetryable(c) \/ HandlePermanent(c)
  PROVE  Verdicts'
<1>1. /\ UNCHANGED <<stream, cursor, dead, oks, msg>> /\ pc[c] = "handle"
      /\ \A d \in Consumers : d # c => pc'[d] = pc[d]
  BY DEF HandleRetryable, HandlePermanent, Move, streamVars, TypeOK, ConsumerType
<1>2. \A i \in Ids : Live(i)' => Live(i)
  BY <1>1 DEF Live
<1>3. QED
  BY <1>1, <1>2, VerdictsSame

LEMMA VerdictsRelease ==
  ASSUME TypeOK, Verdicts, NEW c \in Consumers, Ack(c) \/ Settle(c)
  PROVE  Verdicts'
<1>1. /\ UNCHANGED <<stream, cursor, dead, oks>> /\ pc'[c] = "loop"
      /\ \A d \in Consumers : d # c => pc'[d] = pc[d] /\ msg'[d] = msg[d]
  BY DEF Ack, Settle, Acknowledge, Finish, Move, historyVars, TypeOK, ConsumerType
<1>2. \A i \in Ids : Live(i)' => Live(i)
  BY <1>1 DEF Live
<1>3. QED
  BY <1>1, <1>2, VerdictsSame

LEMMA VerdictsStep ==
  ASSUME TypeOK, troubles = 0, Holders, Verdicts, [Next]_vars, troubles' = 0
  PROVE  Verdicts'
<1>1. CASE UNCHANGED vars
  BY <1>1, VerdictsSame DEF vars, streamVars, consumerVars, historyVars, Live
<1>2. QED
  BY <1>1, CalmSteps, VerdictsEnqueue, VerdictsRead, VerdictsRetry, VerdictsVerdict,
     VerdictsFailure, VerdictsRelease
  DEF CalmWork, Handle

LEMMA CalmStep == CalmInv /\ [Next]_vars => CalmInv'
<1> SUFFICES ASSUME CalmInv, [Next]_vars PROVE CalmInv'
  OBVIOUS
<1>1. TypeOK /\ TypeOK'
  BY TypeStep DEF CalmInv
<1>2. troubles' = 0 => troubles = 0
  <2>1. troubles \in Nat
    BY <1>1 DEF TypeOK, HistoryType
  <2>2. UNCHANGED troubles \/ troubles' = troubles + 1
    BY DEF Next, Work, Disturb, Restart, Read, ClaimOrphans, TakeClaimed, Handle, HandleOk,
      HandleRetryable, HandlePermanent, Ack, Retry, DeadLetter, Settle, ToSettle, Steal,
      ReadFault, AckFault, RetryFault, DeadLetterFault, SettleFault, Resend, Abort, Stop,
      Enqueue, EnqueueAgain, Trouble, vars
  <2>3. QED
    BY <2>1, <2>2
<1>3. QED
  BY <1>1, <1>2, HoldersStep, VerdictsStep DEF CalmInv

\* Distinct dead letters of one job would be two positions with the same job.
LEMMA OneLetter ==
  ASSUME Verdicts, NEW j \in Jobs
  PROVE  /\ Cardinality({i \in 1 .. Len(dead) : dead[i].job = j}) \in {0, 1}
         /\ j \notin Buried => Cardinality({i \in 1 .. Len(dead) : dead[i].job = j}) = 0
<1> DEFINE letters == {i \in 1 .. Len(dead) : dead[i].job = j}
<1>1. CASE letters = {}
  BY <1>1, FS_EmptySet
<1>2. CASE letters # {}
  <2>1. PICK a \in letters : TRUE
    BY <1>2
  <2>2. letters = {a}
    BY <2>1 DEF Verdicts
  <2>3. Cardinality(letters) = 1
    BY <2>2, FS_Singleton
  <2>4. j \in Buried
    BY <2>1 DEF Buried
  <2>5. QED
    BY <2>3, <2>4
<1>3. QED
  BY <1>1, <1>2

\* Without stolen entries, stopped workers and failed Redis calls, retries and
\* concurrent consumers included, no job succeeds twice, is dead-lettered twice,
\* or both.
THEOREM CalmQueueGivesOneVerdict == Spec => []OneVerdictWhenCalm
<1>1. Spec => Init /\ [][Next]_vars
  BY DEF Spec
<1>2. CalmInv => OneVerdictWhenCalm
  <2> SUFFICES ASSUME CalmInv, troubles = 0, NEW j \in Jobs
               PROVE  oks[j] + Cardinality({i \in 1 .. Len(dead) : dead[i].job = j}) <= 1
    BY DEF OneVerdictWhenCalm
  <2>1. Verdicts /\ oks[j] \in Nat /\ oks[j] <= 1
    BY DEF CalmInv, Verdicts, TypeOK, HistoryType
  <2>2. CASE j \in Buried
    <3>1. oks[j] = 0
      BY <2>1, <2>2 DEF Verdicts, Succeeded
    <3>2. QED
      BY <2>1, <3>1, OneLetter
  <2>3. CASE j \notin Buried
    BY <2>1, <2>3, OneLetter
  <2>4. QED
    BY <2>2, <2>3
<1>3. QED
  BY <1>1, <1>2, CalmInit, CalmStep, PTL

=============================================================================
