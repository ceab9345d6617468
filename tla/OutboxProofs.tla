---------------------------- MODULE OutboxProofs ----------------------------
(***************************************************************************)
(* Theorems about Outbox, for every set of events, dispatchers, batch      *)
(* size, number of attempts and number of troubles.                        *)
(***************************************************************************)
EXTENDS Outbox, TLAPS

LEMMA ClaimableRows ==
  ASSUME NEW S
  PROVE  Oldest(Claimable \ S) \subseteq Claimable /\ Claimable \subseteq stored
  BY DEF Oldest, Claimable

LEMMA TypeInit == Init => TypeOK
<1> SUFFICES ASSUME Init PROVE TypeOK
  OBVIOUS
<1>1. RowType
  BY OutboxAssumption DEF Init, RowType
<1>2. DispatcherType
  BY OutboxAssumption DEF Init, DispatcherType, Stages
<1>3. HistoryType
  BY DEF Init, HistoryType
<1>4. QED
  BY <1>1, <1>2, <1>3 DEF TypeOK

\* Dispatchers whose variables do not change stay well typed while rows are added.
LEMMA DispatcherStay ==
  ASSUME DispatcherType, UNCHANGED dispatcherVars, stored \subseteq stored'
  PROVE  DispatcherType'
  BY DEF DispatcherType, dispatcherVars

LEMMA DispatcherMove ==
  ASSUME DispatcherType, NEW d \in Dispatchers, UNCHANGED <<stored, snapshot>>,
         NEW stage \in Stages, Move(d, stage),
         NEW rows \in SUBSET stored, batch' = [batch EXCEPT ![d] = rows],
         stage \in {"dispatch", "publish", "fail"} <=> rows # {}
  PROVE  DispatcherType'
<1>1. /\ pc' \in [Dispatchers -> Stages]
      /\ batch' \in [Dispatchers -> SUBSET stored']
      /\ snapshot' \in [Dispatchers -> [Events -> 0 .. MaxAttempts - 1]]
  BY DEF DispatcherType, Move
<1>2. ASSUME NEW x \in Dispatchers
      PROVE  pc'[x] \in {"dispatch", "publish", "fail"} <=> batch'[x] # {}
  BY <1>2 DEF DispatcherType, Move
<1>3. QED
  BY <1>1, <1>2 DEF DispatcherType

LEMMA LeaseType ==
  ASSUME RowType, NEW d \in Dispatchers, NEW rows \in SUBSET Events, Lease(d, rows),
         UNCHANGED sourceVars
  PROVE  RowType'
<1>1. lock' \in [Events -> Dispatchers \cup {NoOne}]
  BY DEF RowType, Lease
<1>2. stale' \subseteq {e \in Events : lock'[e] # NoOne}
  BY DEF RowType, Lease
<1>3. QED
  BY <1>1, <1>2 DEF RowType, Lease, sourceVars

LEMMA NextRowType ==
  ASSUME DispatcherType, RowType, NEW d \in Dispatchers, NEW e \in Events, NextRow(d, e)
  PROVE  DispatcherType' /\ e \in stored
<1>1. batch[d] \in SUBSET stored /\ e \in batch[d]
  BY DEF DispatcherType, NextRow, IsCurrent
<1>2. CASE batch[d] = {e}
  <2>1. Move(d, "idle") /\ batch' = [batch EXCEPT ![d] = {}]
    BY <1>2 DEF NextRow
  <2>2. QED
    BY <1>1, <2>1, DispatcherMove DEF NextRow, sourceVars, Stages
<1>3. CASE batch[d] # {e}
  <2>1. Move(d, "dispatch") /\ batch' = [batch EXCEPT ![d] = batch[d] \ {e}]
    BY <1>3 DEF NextRow
  <2>2. batch[d] \ {e} # {} /\ batch[d] \ {e} \in SUBSET stored
    BY <1>1, <1>3
  <2>3. QED
    BY <1>1, <2>1, <2>2, DispatcherMove DEF NextRow, sourceVars, Stages
<1>4. QED
  BY <1>1, <1>2, <1>3

LEMMA UnlockType ==
  ASSUME RowType, NEW e \in Events, Unlock(e)
  PROVE  /\ lock' \in [Events -> Dispatchers \cup {NoOne}]
         /\ stale' \subseteq {f \in Events : lock'[f] # NoOne}
  BY DEF RowType, Unlock

LEMMA DispatchType ==
  ASSUME DispatcherType, NEW d \in Dispatchers, pc[d] = "dispatch",
         NEW stage \in {"publish", "fail"}, Move(d, stage), UNCHANGED <<stored, batch, snapshot>>
  PROVE  DispatcherType'
<1>1. batch[d] \in SUBSET stored /\ batch[d] # {} /\ batch' = [batch EXCEPT ![d] = batch[d]]
  BY DEF DispatcherType
<1>2. QED
  BY <1>1, DispatcherMove DEF Stages

LEMMA TypeStep == TypeOK /\ [Next]_vars => TypeOK'
<1> SUFFICES ASSUME TypeOK, [Next]_vars PROVE TypeOK'
  OBVIOUS
<1> USE DEF TypeOK
<1>1. ASSUME NEW e \in Events, Change(e) PROVE TypeOK'
  <2>1. RowType'
    BY <1>1 DEF Change, RowType, rowVars
  <2>2. DispatcherType'
    BY <1>1, DispatcherStay DEF Change
  <2>3. HistoryType'
    BY <1>1 DEF Change, HistoryType, historyVars
  <2>4. QED
    BY <2>1, <2>2, <2>3
<1>2. ASSUME NEW e \in Events, AddDetached(e) \/ AddLost(e) PROVE TypeOK'
  <2>1. RowType'
    BY <1>2 DEF AddDetached, AddLost, RowType, rowVars
  <2>2. DispatcherType'
    BY <1>2, DispatcherStay DEF AddDetached, AddLost
  <2>3. HistoryType'
    BY <1>2 DEF AddDetached, AddLost, Trouble, HistoryType, historyVars
  <2>4. QED
    BY <2>1, <2>2, <2>3
<1>3. ASSUME NEW e \in Events, LeaseRunsOut(e) \/ LeaseOverrun(e) PROVE TypeOK'
  <2>1. lock[e] # NoOne
    <3>1. CASE LeaseRunsOut(e)
      BY <3>1 DEF LeaseRunsOut
    <3>2. CASE LeaseOverrun(e)
      BY <3>2 DEF LeaseOverrun, InHand
    <3>3. QED
      BY <1>3, <3>1, <3>2
  <2>2. RowType'
    BY <1>3, <2>1 DEF LeaseRunsOut, LeaseOverrun, RowType, sourceVars
  <2>3. DispatcherType'
    BY <1>3, DispatcherStay DEF LeaseRunsOut, LeaseOverrun, sourceVars
  <2>4. HistoryType'
    BY <1>3 DEF LeaseRunsOut, LeaseOverrun, Trouble, HistoryType, historyVars
  <2>5. QED
    BY <2>2, <2>3, <2>4
<1>4. ASSUME NEW d \in Dispatchers, Claim(d) PROVE TypeOK'
  <2>1. PICK skipped \in SUBSET (Marking(d) \cap Claimable) :
          LET rows == Oldest(Claimable \ skipped) IN
            /\ Lease(d, rows)
            /\ batch' = [batch EXCEPT ![d] = rows]
            /\ snapshot' =
                 [snapshot EXCEPT ![d] = [e \in Events |-> IF e \in rows THEN attempts[e] ELSE 0]]
    BY <1>4 DEF Claim
  <2> DEFINE rows == Oldest(Claimable \ skipped)
             counts == [e \in Events |-> IF e \in rows THEN attempts[e] ELSE 0]
  <2>2. rows \subseteq Claimable /\ rows \subseteq stored /\ rows # {}
    BY <2>1, ClaimableRows DEF Lease
  <2>3. rows \in SUBSET Events
    BY <2>2 DEF RowType
  <2>4. counts \in [Events -> 0 .. MaxAttempts - 1]
    BY <2>2, OutboxAssumption DEF Claimable, RowType
  <2>5. Lease(d, rows) /\ batch' = [batch EXCEPT ![d] = rows]
        /\ snapshot' = [snapshot EXCEPT ![d] = counts]
    BY <2>1
  <2> HIDE DEF rows, counts
  <2>6. RowType'
    BY <1>4, <2>3, <2>5, LeaseType DEF Claim
  <2>7. DispatcherType'
    <3>1. Move(d, "dispatch") /\ UNCHANGED stored
      BY <1>4 DEF Claim, sourceVars
    <3>2. ASSUME NEW x \in Dispatchers
          PROVE  pc'[x] \in {"dispatch", "publish", "fail"} <=> batch'[x] # {}
      BY <2>2, <2>5, <3>1, <3>2 DEF DispatcherType, Move
    <3>3. /\ pc' \in [Dispatchers -> Stages]
          /\ batch' \in [Dispatchers -> SUBSET stored']
          /\ snapshot' \in [Dispatchers -> [Events -> 0 .. MaxAttempts - 1]]
      BY <2>2, <2>4, <2>5, <3>1 DEF DispatcherType, Move, Stages
    <3>4. QED
      BY <3>2, <3>3 DEF DispatcherType
  <2>8. HistoryType'
    BY <1>4 DEF Claim, HistoryType, historyVars
  <2>9. QED
    BY <2>6, <2>7, <2>8
<1>5. ASSUME NEW d \in Dispatchers, ClaimFault(d) PROVE TypeOK'
  <2>1. Oldest(Claimable) \in SUBSET Events
    BY DEF Oldest, Claimable, RowType
  <2>2. RowType'
    BY <1>5, <2>1, LeaseType DEF ClaimFault
  <2>3. DispatcherType'
    BY <1>5, DispatcherStay DEF ClaimFault, sourceVars
  <2>4. HistoryType'
    BY <1>5 DEF ClaimFault, Trouble, HistoryType, historyVars
  <2>5. QED
    BY <2>2, <2>3, <2>4
<1>6. ASSUME NEW d \in Dispatchers,
             DispatchJob(d) \/ DispatchSilent(d) \/ DispatchUnknown(d) \/ DispatchFault(d)
      PROVE  TypeOK'
  <2>1. UNCHANGED <<sourceVars, rowVars, batch, snapshot, overrun>>
    BY <1>6 DEF DispatchJob, DispatchSilent, DispatchUnknown, DispatchFault, historyVars
  <2>2. RowType'
    BY <2>1 DEF RowType, sourceVars, rowVars
  <2>3. DispatcherType'
    BY <1>6, <2>1, DispatchType
    DEF DispatchJob, DispatchSilent, DispatchUnknown, DispatchFault, sourceVars
  <2>4. sent' \in [Events -> Nat] /\ failures' \in [Events -> Nat]
    <3>1. CASE DispatchJob(d)
      BY <3>1 DEF DispatchJob, HistoryType
    <3>2. CASE DispatchSilent(d)
      BY <3>2 DEF DispatchSilent, HistoryType, historyVars
    <3>3. CASE DispatchUnknown(d)
      BY <3>3, OutboxAssumption DEF DispatchUnknown, HistoryType
    <3>4. CASE DispatchFault(d)
      BY <3>4 DEF DispatchFault, HistoryType
    <3>5. QED
      BY <1>6, <3>1, <3>2, <3>3, <3>4
  <2>5. troubles' \in Nat
    BY <1>6
    DEF DispatchJob, DispatchSilent, DispatchUnknown, DispatchFault, Trouble, HistoryType
  <2>6. QED
    BY <2>1, <2>2, <2>3, <2>4, <2>5 DEF HistoryType
<1>7. ASSUME NEW d \in Dispatchers, MarkPublished(d) PROVE TypeOK'
  <2>1. PICK e \in Events : NextRow(d, e) /\ Unlock(e) /\ published' = published \cup {e}
    BY <1>7 DEF MarkPublished
  <2>2. DispatcherType' /\ e \in stored
    BY <2>1, NextRowType
  <2>3. RowType'
    BY <1>7, <2>1, <2>2, UnlockType DEF MarkPublished, NextRow, RowType, sourceVars
  <2>4. HistoryType'
    BY <1>7, <2>1 DEF MarkPublished, NextRow, HistoryType, historyVars
  <2>5. QED
    BY <2>2, <2>3, <2>4
<1>8. ASSUME NEW d \in Dispatchers, MarkFailed(d) PROVE TypeOK'
  <2>1. PICK e \in Events : /\ NextRow(d, e)
                           /\ Unlock(e)
                           /\ attempts' = [attempts EXCEPT ![e] = snapshot[d][e] + 1]
    BY <1>8 DEF MarkFailed
  <2>2. DispatcherType'
    BY <2>1, NextRowType
  <2>3. snapshot[d][e] + 1 \in 0 .. MaxAttempts
    BY OutboxAssumption DEF DispatcherType
  <2>4. attempts' \in [Events -> 0 .. MaxAttempts]
    BY <2>1, <2>3 DEF RowType
  <2>5. RowType'
    BY <1>8, <2>1, <2>4, UnlockType DEF MarkFailed, NextRow, RowType, sourceVars
  <2>6. HistoryType'
    BY <1>8, <2>1 DEF MarkFailed, NextRow, HistoryType, historyVars
  <2>7. QED
    BY <2>2, <2>5, <2>6
<1>9. ASSUME NEW d \in Dispatchers, MarkFault(d) PROVE TypeOK'
  <2>1. PICK e \in Events : NextRow(d, e)
    BY <1>9 DEF MarkFault
  <2>2. DispatcherType'
    BY <2>1, NextRowType
  <2>3. RowType'
    BY <1>9, <2>1 DEF MarkFault, NextRow, RowType, sourceVars, rowVars
  <2>4. HistoryType'
    BY <1>9, <2>1 DEF MarkFault, NextRow, Trouble, HistoryType, historyVars
  <2>5. QED
    BY <2>2, <2>3, <2>4
<1>10. ASSUME NEW d \in Dispatchers, Stop(d) \/ Restart(d) PROVE TypeOK'
  <2>1. RowType'
    BY <1>10 DEF Stop, Restart, RowType, sourceVars, rowVars
  <2>2. DispatcherType'
    <3>1. CASE Stop(d)
      BY <3>1, DispatcherMove DEF Stop, sourceVars, Stages
    <3>2. CASE Restart(d)
      <4>1. batch[d] = {} /\ batch' = [batch EXCEPT ![d] = {}]
        BY <3>2 DEF Restart, DispatcherType
      <4>2. QED
        BY <3>2, <4>1, DispatcherMove DEF Restart, sourceVars, Stages
    <3>3. QED
      BY <1>10, <3>1, <3>2
  <2>3. HistoryType'
    BY <1>10 DEF Stop, Restart, Trouble, HistoryType, historyVars
  <2>4. QED
    BY <2>1, <2>2, <2>3
<1>11. CASE UNCHANGED vars
  <2>1. RowType'
    BY <1>11 DEF vars, RowType, sourceVars, rowVars
  <2>2. DispatcherType'
    BY <1>11, DispatcherStay DEF vars, sourceVars
  <2>3. HistoryType'
    BY <1>11 DEF vars, HistoryType, historyVars
  <2>4. QED
    BY <2>1, <2>2, <2>3
<1>12. ASSUME NEW d \in Dispatchers, Resend(d) PROVE TypeOK'
  <2>1. RowType'
    BY <1>12 DEF Resend, RowType, sourceVars, rowVars
  <2>2. DispatcherType'
    BY <1>12, DispatcherStay DEF Resend, sourceVars
  <2>3. HistoryType'
    BY <1>12 DEF Resend, Trouble, HistoryType
  <2>4. QED
    BY <2>1, <2>2, <2>3
<1>13. QED
  BY <1>1, <1>2, <1>3, <1>4, <1>5, <1>6, <1>7, <1>8, <1>9, <1>10, <1>11, <1>12
  DEF Next, Work, Disturb

\* Rows, dispatchers and counters always have the shape the program relies on;
\* in particular no row ever counts more than MaxAttempts attempts.
THEOREM TypeCorrect == Spec => []TypeOK
<1>1. Spec => Init /\ [][Next]_vars
  BY DEF Spec
<1>2. QED
  BY <1>1, TypeInit, TypeStep, PTL

-----------------------------------------------------------------------------
(* What is published was sent.                                             *)

SentInv ==
  /\ TypeOK
  /\ PublishedWasSent
  /\ \A d \in Dispatchers : pc[d] = "publish" =>
       \A e \in Events \ (Silent \cup Unknown) : IsCurrent(d, e) => sent[e] > 0

\* Jobs are never taken back.
LEMMA SentGrows ==
  ASSUME TypeOK, [Next]_vars
  PROVE  \A e \in Events : sent[e] \in Nat /\ sent'[e] \in Nat /\ sent[e] <= sent'[e]
<1>1. sent \in [Events -> Nat]
  BY DEF TypeOK, HistoryType
<1>2. \/ UNCHANGED sent
      \/ \E e \in Events : sent' = [sent EXCEPT ![e] = @ + 1]
  BY DEF Next, Work, Disturb, Change, AddDetached, AddLost, LeaseRunsOut, LeaseOverrun,
         Claim, ClaimFault, DispatchJob, DispatchSilent, DispatchUnknown, DispatchFault, Resend,
         MarkPublished, MarkFailed, MarkFault, NextRow, Stop, Restart, vars, historyVars
<1>3. QED
  BY <1>1, <1>2

\* The row a dispatcher works on stays the same until it has marked it.
LEMMA CurrentStays ==
  ASSUME TypeOK, [Next]_vars, NEW d \in Dispatchers, pc'[d] \in {"publish", "fail"}
  PROVE  /\ batch'[d] = batch[d]
         /\ snapshot'[d] = snapshot[d]
         /\ pc'[d] # pc[d] => pc[d] = "dispatch"
<1>1. ASSUME NEW x \in Dispatchers, Work(x) \/ Disturb(x) \/ Restart(x)
      PROVE  /\ batch'[d] = batch[d]
             /\ snapshot'[d] = snapshot[d]
             /\ pc'[d] # pc[d] => pc[d] = "dispatch"
  <2>1. CASE x # d
    BY <1>1, <2>1
    DEF TypeOK, DispatcherType, Work, Disturb, Restart, Claim, ClaimFault, DispatchJob,
        DispatchSilent, DispatchUnknown, DispatchFault, Resend, MarkPublished, MarkFailed,
        MarkFault, NextRow, Stop, Move, dispatcherVars
  <2>2. CASE x = d
    BY <1>1, <2>2
    DEF TypeOK, DispatcherType, Work, Disturb, Restart, Claim, ClaimFault, DispatchJob,
        DispatchSilent, DispatchUnknown, DispatchFault, Resend, MarkPublished, MarkFailed,
        MarkFault, NextRow, Stop, Move, dispatcherVars
  <2>3. QED
    BY <2>1, <2>2
<1>2. QED
  BY <1>1 DEF Next, Change, AddDetached, AddLost, LeaseRunsOut, LeaseOverrun, vars,
              dispatcherVars

LEMMA SentInit == Init => SentInv
<1> SUFFICES ASSUME Init PROVE SentInv
  OBVIOUS
<1>1. PublishedWasSent /\ \A d \in Dispatchers : pc[d] # "publish"
  BY DEF Init, PublishedWasSent
<1>2. QED
  BY <1>1, TypeInit DEF SentInv

LEMMA SentStep == SentInv /\ [Next]_vars => SentInv'
<1> SUFFICES ASSUME SentInv, [Next]_vars PROVE SentInv'
  OBVIOUS
<1>1. TypeOK /\ TypeOK'
  BY TypeStep DEF SentInv
<1>2. \A e \in Events : sent[e] \in Nat /\ sent'[e] \in Nat /\ sent[e] <= sent'[e]
  BY <1>1, SentGrows
<1>3. ASSUME NEW d \in Dispatchers, pc'[d] = "publish",
             NEW e \in Events \ (Silent \cup Unknown), IsCurrent(d, e)'
      PROVE  sent'[e] > 0
  <2>1. IsCurrent(d, e) /\ (pc[d] = "publish" \/ pc[d] = "dispatch")
    BY <1>1, <1>3, CurrentStays DEF IsCurrent
  <2>2. CASE pc[d] = "publish"
    BY <1>2, <2>1, <2>2 DEF SentInv
  <2>3. CASE pc[d] = "dispatch"
    <3>1. DispatchJob(d) \/ DispatchSilent(d)
      <4>1. ASSUME NEW x \in Dispatchers, Work(x) \/ Disturb(x) \/ Restart(x)
            PROVE  DispatchJob(d) \/ DispatchSilent(d)
        <5>1. x = d
          BY <1>1, <1>3, <2>3, <4>1
          DEF TypeOK, DispatcherType, Work, Disturb, Restart, Claim, ClaimFault, DispatchJob,
              DispatchSilent, DispatchUnknown, DispatchFault, Resend, MarkPublished, MarkFailed,
              MarkFault, NextRow, Stop, Move, dispatcherVars
        <5>2. QED
          BY <1>1, <1>3, <2>3, <4>1, <5>1
          DEF TypeOK, DispatcherType, Work, Disturb, Restart, Claim, ClaimFault,
              DispatchUnknown, DispatchFault, Resend, MarkPublished, MarkFailed,
              MarkFault, NextRow, Stop, Move, dispatcherVars
      <4>2. QED
        BY <1>3, <2>3, <4>1
        DEF Next, Change, AddDetached, AddLost, LeaseRunsOut, LeaseOverrun, vars, dispatcherVars
    <3>2. \A f \in Events : IsCurrent(d, f) => f = e
      BY <2>1, OutboxAssumption DEF IsCurrent
    <3>3. DispatchJob(d)
      BY <3>1, <3>2, OutboxAssumption DEF DispatchSilent
    <3>4. sent' = [sent EXCEPT ![e] = @ + 1]
      BY <3>2, <3>3 DEF DispatchJob
    <3>5. QED
      BY <1>1, <3>4 DEF TypeOK, HistoryType
  <2>4. QED
    BY <2>1, <2>2, <2>3
<1>4. ASSUME NEW e \in published' \ (Silent \cup Unknown) PROVE sent'[e] > 0
  <2>1. e \in Events
    BY <1>1, <1>4 DEF TypeOK, RowType
  <2>2. CASE e \in published
    BY <1>2, <1>4, <2>1, <2>2 DEF SentInv, PublishedWasSent
  <2>3. CASE e \notin published
    <3>1. PICK d \in Dispatchers : MarkPublished(d)
      BY <1>4, <2>3
      DEF Next, Work, Disturb, Change, AddDetached, AddLost, LeaseRunsOut, LeaseOverrun,
          Claim, ClaimFault, DispatchJob, DispatchSilent, DispatchUnknown, DispatchFault, Resend,
          MarkFailed, MarkFault, Stop, Restart, vars, rowVars, Lease
    <3>2. pc[d] = "publish" /\ IsCurrent(d, e)
      BY <1>4, <2>3, <3>1 DEF MarkPublished, NextRow
    <3>3. QED
      BY <1>2, <1>4, <2>1, <3>2 DEF SentInv
  <2>4. QED
    BY <2>2, <2>3
<1>5. PublishedWasSent'
  BY <1>4 DEF PublishedWasSent
<1>6. QED
  BY <1>1, <1>3, <1>5 DEF SentInv

\* No row is marked published before its job was enqueued.
THEOREM OnlySentIsPublished == Spec => []PublishedWasSent
<1>1. Spec => Init /\ [][Next]_vars
  BY DEF Spec
<1>2. SentInv => PublishedWasSent
  BY DEF SentInv
<1>3. QED
  BY <1>1, <1>2, SentInit, SentStep, PTL

-----------------------------------------------------------------------------
(* Leases.                                                                 *)

\* A dispatcher that works on a row holds its running lease, unless the lease of
\* this row once ran out under a dispatcher.
LeaseHeld ==
  \A d \in Dispatchers : \A e \in batch[d] :
    (lock[e] = d /\ e \notin stale) \/ e \in overrun

LeaseInv == TypeOK /\ LeaseHeld

LEMMA LeaseStep == LeaseInv /\ [Next]_vars => LeaseInv'
<1> SUFFICES ASSUME LeaseInv, [Next]_vars PROVE LeaseInv'
  OBVIOUS
<1>1. TypeOK /\ TypeOK' /\ LeaseHeld
  BY TypeStep DEF LeaseInv
<1>2. batch \in [Dispatchers -> SUBSET Events]
  BY <1>1 DEF TypeOK, DispatcherType, RowType
<1>3. lock \in [Events -> Dispatchers \cup {NoOne}]
  BY <1>1 DEF TypeOK, RowType
<1>4. ASSUME UNCHANGED <<lock, stale, overrun>>,
             \A d \in Dispatchers : batch'[d] \subseteq batch[d]
      PROVE  LeaseHeld'
  BY <1>1, <1>4 DEF LeaseHeld
<1>5. ASSUME NEW d \in Dispatchers, NEW rows, Lease(d, rows), UNCHANGED overrun,
             rows \subseteq Claimable, batch'[d] \subseteq rows \cup batch[d],
             \A x \in Dispatchers \ {d} : batch'[x] = batch[x]
      PROVE  LeaseHeld'
  <2>1. rows \subseteq Events
    BY <1>1, <1>5 DEF Claimable, TypeOK, RowType
  <2>2. /\ \A e \in Events : lock'[e] = IF e \in rows THEN d ELSE lock[e]
        /\ stale' = stale \ rows
    BY <1>5 DEF Lease
  <2>3. ASSUME NEW x \in Dispatchers, NEW e \in batch[x], e \in rows PROVE e \in overrun
    BY <1>1, <1>5, <2>3, OutboxAssumption DEF LeaseHeld, Claimable
  <2>4. ASSUME NEW x \in Dispatchers, NEW e \in batch'[x]
        PROVE  (lock'[e] = x /\ e \notin stale') \/ e \in overrun
    <3>1. CASE e \in batch[x] /\ e \in rows
      BY <2>3, <3>1
    <3>2. CASE e \in batch[x] /\ e \notin rows
      BY <1>1, <1>2, <2>2, <3>2 DEF LeaseHeld
    <3>3. CASE e \notin batch[x]
      BY <1>5, <2>1, <2>2, <2>4, <3>3
    <3>4. QED
      BY <3>1, <3>2, <3>3
  <2>5. QED
    BY <1>5, <2>4 DEF LeaseHeld
<1>6. ASSUME NEW d \in Dispatchers, Claim(d) PROVE LeaseHeld'
  <2>1. PICK skipped \in SUBSET (Marking(d) \cap Claimable) :
          LET rows == Oldest(Claimable \ skipped) IN
            /\ Lease(d, rows)
            /\ batch' = [batch EXCEPT ![d] = rows]
    BY <1>6 DEF Claim
  <2> DEFINE rows == Oldest(Claimable \ skipped)
  <2>2. rows \subseteq Claimable
    BY ClaimableRows
  <2>3. Lease(d, rows) /\ batch' = [batch EXCEPT ![d] = rows]
    BY <2>1
  <2>4. UNCHANGED overrun
    BY <1>6 DEF Claim, historyVars
  <2> HIDE DEF rows
  <2>5. QED
    BY <1>2, <1>5, <2>2, <2>3, <2>4
<1>7. ASSUME NEW d \in Dispatchers, ClaimFault(d) PROVE LeaseHeld'
  <2>1. Oldest(Claimable) \subseteq Claimable
    BY DEF Oldest
  <2>2. Lease(d, Oldest(Claimable)) /\ UNCHANGED <<batch, overrun>>
    BY <1>7 DEF ClaimFault, dispatcherVars, historyVars
  <2>3. QED
    BY <1>5, <2>1, <2>2
<1>8. ASSUME NEW d \in Dispatchers, MarkPublished(d) \/ MarkFailed(d) PROVE LeaseHeld'
  <2>1. PICK f \in Events : NextRow(d, f) /\ Unlock(f)
    BY <1>8 DEF MarkPublished, MarkFailed
  <2>2. f \in batch[d] /\ batch' = [batch EXCEPT ![d] = @ \ {f}] /\ UNCHANGED overrun
    BY <2>1 DEF NextRow, IsCurrent, historyVars
  <2>3. lock' = [lock EXCEPT ![f] = NoOne] /\ stale' = stale \ {f}
    BY <2>1 DEF Unlock
  <2>4. ASSUME NEW x \in Dispatchers, NEW e \in batch'[x]
        PROVE  (lock'[e] = x /\ e \notin stale') \/ e \in overrun
    <3>1. e \in batch[x] /\ (x = d => e # f)
      BY <1>2, <2>2, <2>4
    <3>2. CASE e = f
      BY <1>1, <2>2, <3>1, <3>2 DEF LeaseHeld
    <3>3. CASE e # f
      BY <1>1, <1>2, <1>3, <2>3, <3>1, <3>3 DEF LeaseHeld
    <3>4. QED
      BY <3>2, <3>3
  <2>5. QED
    BY <2>2, <2>4 DEF LeaseHeld
<1>9. ASSUME NEW e \in Events, LeaseRunsOut(e) \/ LeaseOverrun(e) PROVE LeaseHeld'
  <2>1. UNCHANGED <<lock, batch>> /\ stale' = stale \cup {e} /\ overrun \subseteq overrun'
    BY <1>9 DEF LeaseRunsOut, LeaseOverrun, dispatcherVars, historyVars
  <2>2. \A x \in Dispatchers : e \in batch[x] => e \in overrun' \/ lock[e] # x
    <3>1. CASE LeaseOverrun(e)
      BY <3>1 DEF LeaseOverrun
    <3>2. CASE LeaseRunsOut(e)
      BY <3>2 DEF LeaseRunsOut, InHand
    <3>3. QED
      BY <1>9, <3>1, <3>2
  <2>3. QED
    BY <1>1, <2>1, <2>2 DEF LeaseHeld
<1>10. \/ \E d \in Dispatchers : Claim(d) \/ ClaimFault(d) \/ MarkPublished(d) \/ MarkFailed(d)
       \/ \E e \in Events : LeaseRunsOut(e) \/ LeaseOverrun(e)
       \/ UNCHANGED <<lock, stale, overrun>> /\ \A d \in Dispatchers : batch'[d] \subseteq batch[d]
  <2>1. ASSUME NEW d \in Dispatchers, MarkFault(d)
        PROVE  UNCHANGED <<lock, stale, overrun>> /\ \A x \in Dispatchers : batch'[x] \subseteq batch[x]
    BY <1>2, <2>1 DEF MarkFault, NextRow, rowVars, historyVars
  <2>2. ASSUME NEW d \in Dispatchers, Stop(d) \/ Restart(d)
        PROVE  UNCHANGED <<lock, stale, overrun>> /\ \A x \in Dispatchers : batch'[x] \subseteq batch[x]
    BY <1>2, <2>2 DEF Stop, Restart, rowVars, historyVars
  <2>3. ASSUME NEW d \in Dispatchers,
               \/ DispatchJob(d) \/ DispatchSilent(d) \/ DispatchUnknown(d)
               \/ DispatchFault(d) \/ Resend(d)
        PROVE  UNCHANGED <<lock, stale, overrun, batch>>
    BY <2>3 DEF DispatchJob, DispatchSilent, DispatchUnknown, DispatchFault, Resend, rowVars,
                historyVars, dispatcherVars
  <2>4. ASSUME NEW e \in Events, Change(e) \/ AddDetached(e) \/ AddLost(e)
        PROVE  UNCHANGED <<lock, stale, overrun, batch>>
    BY <2>4 DEF Change, AddDetached, AddLost, rowVars, historyVars, dispatcherVars
  <2>5. UNCHANGED vars => UNCHANGED <<lock, stale, overrun, batch>>
    BY DEF vars, rowVars, historyVars, dispatcherVars
  <2>6. QED
    BY <2>1, <2>2, <2>3, <2>4, <2>5 DEF Next, Work, Disturb
<1>11. QED
  BY <1>1, <1>4, <1>6, <1>7, <1>8, <1>9, <1>10 DEF LeaseInv

\* Two dispatchers have the same row in hand only if its lease ran out under one
\* of them, although the marks of late dispatchers release leases of others.
THEOREM LeasesAreExclusive == Spec => []LeaseExclusive
<1>1. Spec => Init /\ [][Next]_vars
  BY DEF Spec
<1>2. Init => LeaseInv
  BY TypeInit DEF Init, LeaseInv, LeaseHeld
<1>3. LeaseInv => LeaseExclusive
  BY DEF LeaseInv, LeaseHeld, LeaseExclusive
<1>4. QED
  BY <1>1, <1>2, <1>3, LeaseStep, PTL

-----------------------------------------------------------------------------
(* Attempts.                                                               *)

\* Every attempt a row or a snapshot counts is backed by a failed dispatch.
AttemptsBacked ==
  /\ \A e \in Events : attempts[e] <= failures[e]
  /\ \A d \in Dispatchers : \A e \in Events : snapshot[d][e] <= failures[e]
  /\ \A d \in Dispatchers : pc[d] = "fail" =>
       \A e \in Events : IsCurrent(d, e) => snapshot[d][e] + 1 <= failures[e]

AttemptsInv == TypeOK /\ AttemptsBacked

LEMMA FailuresGrow ==
  ASSUME TypeOK, [Next]_vars
  PROVE  \A e \in Events :
           failures[e] \in Nat /\ failures'[e] \in Nat /\ failures[e] <= failures'[e]
<1>1. failures \in [Events -> Nat]
  BY DEF TypeOK, HistoryType
<1>2. \/ UNCHANGED failures
      \/ \E e \in Events : failures' = [failures EXCEPT ![e] = @ + 1]
  BY OutboxAssumption
  DEF Next, Work, Disturb, Change, AddDetached, AddLost, LeaseRunsOut, LeaseOverrun,
      Claim, ClaimFault, DispatchJob, DispatchSilent, DispatchUnknown, DispatchFault, Resend,
      MarkPublished, MarkFailed, MarkFault, NextRow, Stop, Restart, vars, historyVars
<1>3. QED
  BY <1>1, <1>2

\* A dispatcher gets to "fail" by a dispatch of its current row that is counted.
LEMMA EnterFail ==
  ASSUME TypeOK, [Next]_vars, NEW d \in Dispatchers, pc'[d] = "fail", pc[d] # "fail",
         NEW e \in Events, IsCurrent(d, e)
  PROVE  failures'[e] = failures[e] + 1
<1>1. DispatchUnknown(d) \/ DispatchFault(d)
  <2>1. ASSUME NEW x \in Dispatchers, Work(x) \/ Disturb(x) \/ Restart(x)
        PROVE  DispatchUnknown(d) \/ DispatchFault(d)
    <3>1. x = d
      BY <2>1
      DEF TypeOK, DispatcherType, Work, Disturb, Restart, Claim, ClaimFault, DispatchJob,
          DispatchSilent, DispatchUnknown, DispatchFault, Resend, MarkPublished, MarkFailed,
          MarkFault, NextRow, Stop, Move, dispatcherVars
    <3>2. QED
      BY <2>1, <3>1
      DEF TypeOK, DispatcherType, Work, Disturb, Restart, Claim, ClaimFault, DispatchJob,
          DispatchSilent, Resend, MarkPublished, MarkFailed, MarkFault, NextRow, Stop, Move,
          dispatcherVars
  <2>2. QED
    BY <2>1 DEF Next, Change, AddDetached, AddLost, LeaseRunsOut, LeaseOverrun, vars,
                dispatcherVars
<1>2. \A f \in Events : IsCurrent(d, f) => f = e
  BY OutboxAssumption DEF IsCurrent
<1>3. failures' = [failures EXCEPT ![e] = @ + 1]
  BY <1>1, <1>2, OutboxAssumption DEF DispatchUnknown, DispatchFault
<1>4. QED
  BY <1>3 DEF TypeOK, HistoryType

LEMMA AttemptsStep == AttemptsInv /\ [Next]_vars => AttemptsInv'
<1> SUFFICES ASSUME AttemptsInv, [Next]_vars PROVE AttemptsInv'
  OBVIOUS
<1>1. TypeOK /\ TypeOK'
  BY TypeStep DEF AttemptsInv
<1>2. \A e \in Events :
        failures[e] \in Nat /\ failures'[e] \in Nat /\ failures[e] <= failures'[e]
  BY <1>1, FailuresGrow
<1>3. \A e \in Events : attempts[e] \in Nat /\ attempts'[e] \in Nat
  BY <1>1, OutboxAssumption DEF TypeOK, RowType
<1>4. \A d \in Dispatchers, e \in Events : snapshot[d][e] \in Nat /\ snapshot'[d][e] \in Nat
  BY <1>1, OutboxAssumption DEF TypeOK, DispatcherType
<1>5. ASSUME NEW e \in Events PROVE attempts'[e] <= failures'[e]
  <2>1. CASE attempts'[e] = attempts[e]
    BY <1>2, <1>3, <2>1 DEF AttemptsInv, AttemptsBacked
  <2>2. CASE attempts'[e] # attempts[e]
    <3>1. PICK d \in Dispatchers : MarkFailed(d)
      BY <2>2
      DEF Next, Work, Disturb, Change, AddDetached, AddLost, LeaseRunsOut, LeaseOverrun,
          Claim, ClaimFault, DispatchJob, DispatchSilent, DispatchUnknown, DispatchFault, Resend,
          MarkPublished, MarkFault, Stop, Restart, vars, rowVars, Lease
    <3>2. pc[d] = "fail" /\ IsCurrent(d, e) /\ attempts'[e] = snapshot[d][e] + 1
      <4>1. attempts \in [Events -> 0 .. MaxAttempts]
        BY <1>1 DEF TypeOK, RowType
      <4>2. QED
        BY <2>2, <3>1, <4>1 DEF MarkFailed, NextRow
    <3>3. QED
      BY <1>2, <1>3, <1>4, <3>2 DEF AttemptsInv, AttemptsBacked
  <2>3. QED
    BY <2>1, <2>2
<1>6. ASSUME NEW d \in Dispatchers, NEW e \in Events PROVE snapshot'[d][e] <= failures'[e]
  <2>1. CASE snapshot'[d][e] = snapshot[d][e]
    BY <1>2, <1>4, <2>1 DEF AttemptsInv, AttemptsBacked
  <2>2. CASE snapshot'[d][e] # snapshot[d][e]
    <3>1. PICK x \in Dispatchers : Claim(x)
      BY <2>2
      DEF Next, Work, Disturb, Change, AddDetached, AddLost, LeaseRunsOut, LeaseOverrun,
          ClaimFault, DispatchJob, DispatchSilent, DispatchUnknown, DispatchFault, Resend,
          MarkPublished, MarkFailed, MarkFault, NextRow, Stop, Restart, vars, dispatcherVars
    <3>2. snapshot'[d][e] = attempts[e] \/ snapshot'[d][e] = 0
      <4>1. PICK rows : snapshot' = [snapshot EXCEPT ![x] =
                          [f \in Events |-> IF f \in rows THEN attempts[f] ELSE 0]]
        BY <3>1 DEF Claim
      <4>2. x = d
        BY <1>1, <2>2, <4>1 DEF TypeOK, DispatcherType
      <4>3. QED
        BY <1>1, <4>1, <4>2 DEF TypeOK, DispatcherType
    <3>3. QED
      BY <1>2, <1>3, <1>4, <3>2 DEF AttemptsInv, AttemptsBacked
  <2>3. QED
    BY <2>1, <2>2
<1>7. ASSUME NEW d \in Dispatchers, pc'[d] = "fail", NEW e \in Events, IsCurrent(d, e)'
      PROVE  snapshot'[d][e] + 1 <= failures'[e]
  <2>1. IsCurrent(d, e) /\ snapshot'[d] = snapshot[d]
    BY <1>1, <1>7, CurrentStays DEF IsCurrent
  <2>2. CASE pc[d] = "fail"
    BY <1>2, <1>4, <2>1, <2>2 DEF AttemptsInv, AttemptsBacked
  <2>3. CASE pc[d] # "fail"
    <3>1. failures'[e] = failures[e] + 1
      BY <1>1, <1>7, <2>1, <2>3, EnterFail
    <3>2. snapshot[d][e] <= failures[e]
      BY DEF AttemptsInv, AttemptsBacked
    <3>3. QED
      BY <1>2, <1>4, <2>1, <3>1, <3>2
  <2>4. QED
    BY <2>2, <2>3
<1>8. AttemptsBacked'
  BY <1>5, <1>6, <1>7 DEF AttemptsBacked
<1>9. QED
  BY <1>1, <1>8 DEF AttemptsInv

\* The outbox never gives up on a row before MaxAttempts dispatches of it failed.
THEOREM AbandonmentJustified == Spec => []AbandonedJustified
<1>1. Spec => Init /\ [][Next]_vars
  BY DEF Spec
<1>2. Init => AttemptsInv
  BY TypeInit DEF Init, AttemptsInv, AttemptsBacked
<1>3. AttemptsInv => AbandonedJustified
  <2>1. ASSUME AttemptsInv, NEW e \in stored, attempts[e] >= MaxAttempts
        PROVE  failures[e] >= MaxAttempts
    <3>1. e \in Events
      BY <2>1 DEF AttemptsInv, TypeOK, RowType
    <3>2. attempts[e] \in Nat /\ failures[e] \in Nat /\ attempts[e] <= failures[e]
      BY <2>1, <3>1, OutboxAssumption
      DEF AttemptsInv, AttemptsBacked, TypeOK, RowType, HistoryType
    <3>3. QED
      BY <2>1, <3>2, OutboxAssumption
  <2>2. QED
    BY <2>1 DEF AbandonedJustified
<1>4. QED
  BY <1>1, <1>2, <1>3, AttemptsStep, PTL

=============================================================================
