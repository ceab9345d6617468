--------------------------- MODULE RealtimeProofs ---------------------------
(***************************************************************************)
(* Proofs about the realtime parts: the hub (Hub), for any clients, any    *)
(* number of callers of handleEvent and any capacity of the channels; the  *)
(* calls that ring and meet (Calls), for any users and any number of       *)
(* calls; the chat page over its connection (ChatClient), for any number   *)
(* of messages, changes and loads.                                         *)
(***************************************************************************)
EXTENDS Hub, Calls, ChatClient, TLAPS, SequenceTheorems, FiniteSetTheorems

-----------------------------------------------------------------------------
(* The hub. *)

\* What is true of a connection that Handle has not seen.
UnknownInv ==
  \A c \in Clients : conn[c] = "new" =>
    /\ c \notin clients /\ c \notin closed /\ c \notin closing
    /\ reader[c] = "none" /\ writer[c] = "none"
    /\ \A p \in Callers : c \notin todo[p] /\ c \notin slow[p]

\* A closed client has no entry.
ClosedInv == closed \cap clients = {}

\* While the read lock is held every client still to look at has its entry.
ScanInv ==
  \A p \in Callers : caller[p] = "scan" => handled[p] > 0 /\ todo[p] \subseteq clients

\* Whoever is about to close a client has removed its entry.
RemovedInv ==
  /\ \A c \in Clients : reader[c] = "close" \/ writer[c] = "close" => c \notin clients
  /\ \A p \in Callers : caller[p] = "cut" => todo[p] \cap clients = {}
  /\ closing \cap clients = {}

HubInv == TypeOK /\ UnknownInv /\ ClosedInv /\ ScanInv /\ RemovedInv /\ NoPanic

LEMMA HubInitially == Init => HubInv
<1> SUFFICES ASSUME Init PROVE HubInv
  OBVIOUS
<1>1. channel \in [Clients -> Seq(Events)] /\ \A c \in Clients : Len(channel[c]) <= Capacity
  BY HubAssumption DEF Init
<1>2. TypeOK
  <2>1. handled \in [Callers -> 0 .. MaxEvents]
    BY HubAssumption DEF Init
  <2>2. /\ todo \in [Callers -> SUBSET Clients] /\ slow \in [Callers -> SUBSET Clients]
        /\ received \in [Clients -> [Callers -> 0 .. MaxEvents]]
    BY HubAssumption DEF Init
  <2>3. /\ conn \in [Clients -> {"new", "open", "broken"}]
        /\ reader \in [Clients -> {"none", "read", "remove", "close", "done"}]
        /\ writer \in [Clients -> {"none", "write", "remove", "close", "done"}]
        /\ caller \in [Callers -> {"idle", "scan", "cut"}]
    BY DEF Init
  <2> QED
    BY <1>1, <2>1, <2>2, <2>3 DEF Init, TypeOK
<1>3. UnknownInv
  BY DEF Init, UnknownInv
<1>4. ClosedInv /\ ScanInv /\ NoPanic
  BY DEF Init, ClosedInv, ScanInv, NoPanic
<1>5. RemovedInv
  BY DEF Init, RemovedInv
<1> QED
  BY <1>2, <1>3, <1>4, <1>5 DEF HubInv

-----------------------------------------------------------------------------
(* Types.                                                                  *)
LEMMA ConnectionTypes ==
  ASSUME TypeOK, NEW c \in Clients,
         Handle(c) \/ Break(c) \/ ReadLoop(c) \/ HubCloses(c) \/ HubDeletes
  PROVE  TypeOK'
<1> USE DEF TypeOK
<1>1. CASE Handle(c)
  BY <1>1 DEF Handle, callerVars, closeVars, eventVars
<1>2. CASE Break(c)
  BY <1>2 DEF Break, loopVars, callerVars, closeVars, eventVars
<1>3. CASE Subscribe(c)
  BY <1>3 DEF Subscribe, ReadVars, callerVars, closeVars, eventVars
<1>4. CASE ReadFails(c)
  BY <1>4 DEF ReadFails, clientVars, ReadVars, callerVars, closeVars, eventVars
<1>5. CASE ReaderRemoves(c)
  BY <1>5 DEF ReaderRemoves, Delete, ReadVars, callerVars, closeVars, eventVars
<1>6. CASE ReaderCloses(c)
  BY <1>6 DEF ReaderCloses, CloseClient, ReadVars, callerVars, closeVars, eventVars
<1>7. CASE HubCloses(c)
  BY <1>7 DEF HubCloses, CloseClient, loopVars, callerVars, eventVars
<1>8. CASE HubDeletes
  BY <1>8 DEF HubDeletes, loopVars, callerVars, eventVars
<1> QED
  BY <1>1, <1>2, <1>3, <1>4, <1>5, <1>6, <1>7, <1>8 DEF ReadLoop

LEMMA WriterTypes ==
  ASSUME TypeOK, NEW c \in Clients, WriteLoop(c)
  PROVE  TypeOK'
<1> USE DEF TypeOK, WriteVars, callerVars, closeVars
<1>1. CASE WriteEvent(c)
  <2> DEFINE ch == channel[c]
  <2>1. ch \in Seq(Events) /\ ch # <<>> /\ Len(ch) <= Capacity
    BY <1>1 DEF WriteEvent
  <2>2. Head(ch) \in Events /\ Tail(ch) \in Seq(Events) /\ Len(Tail(ch)) <= Capacity
    BY <2>1, HubAssumption
  <2>3. channel' = [channel EXCEPT ![c] = Tail(ch)]
    BY <1>1 DEF WriteEvent
  <2>4. channel' \in [Clients -> Seq(Events)] /\ \A d \in Clients : Len(channel'[d]) <= Capacity
    BY <2>2, <2>3, SMT
  <2>5. CASE conn[c] = "open"
    <3> DEFINE e == Head(ch)
    <3>1. writer' = writer /\ received' = [received EXCEPT ![c][e[1]] = e[2]]
      BY <1>1, <2>5 DEF WriteEvent
    <3>2. e[1] \in Callers /\ e[2] \in 0 .. MaxEvents
      BY <2>2, HubAssumption DEF Events
    <3>3. received' \in [Clients -> [Callers -> 0 .. MaxEvents]]
      BY <3>1, <3>2
    <3> QED
      BY <1>1, <2>4, <3>1, <3>3 DEF WriteEvent, clientVars
  <2>6. CASE conn[c] # "open"
    <3> HIDE DEF TypeOK
    <3>1. writer' = [writer EXCEPT ![c] = "remove"] /\ received' = received
      BY <1>1, <2>6 DEF WriteEvent
    <3>2. writer \in [Clients -> {"none", "write", "remove", "close", "done"}]
      BY DEF TypeOK
    <3>3. writer' \in [Clients -> {"none", "write", "remove", "close", "done"}]
      BY <3>1, <3>2
    <3> QED
      BY <1>1, <2>4, <3>1, <3>3 DEF WriteEvent, clientVars, TypeOK
  <2> QED
    BY <2>5, <2>6
<1>2. CASE WriteEnds(c)
  BY <1>2 DEF WriteEnds, clientVars, eventVars
<1>3. CASE PingFails(c)
  BY <1>3 DEF PingFails, clientVars, eventVars
<1>4. CASE WriterRemoves(c)
  BY <1>4 DEF WriterRemoves, Delete, eventVars
<1>5. CASE WriterCloses(c)
  BY <1>5 DEF WriterCloses, CloseClient, eventVars
<1> QED
  BY <1>1, <1>2, <1>3, <1>4, <1>5 DEF WriteLoop

LEMMA CallerTypes ==
  ASSUME TypeOK, ScanInv, NEW p \in Callers, HandleEvent(p)
  PROVE  TypeOK'
<1> USE DEF TypeOK, CallVars, loopVars, closeVars
<1>1. CASE BeginScan(p)
  BY <1>1, HubAssumption DEF BeginScan, clientVars, Events
<1>2. CASE EndScan(p)
  BY <1>2 DEF EndScan, clientVars, eventVars
<1>3. ASSUME NEW c \in Clients, PassOver(p, c)
      PROVE  TypeOK'
  BY <1>3 DEF PassOver, clientVars, eventVars
<1>4. ASSUME NEW c \in Clients, Send(p, c)
      PROVE  TypeOK'
  <2> DEFINE longer == Append(channel[c], <<p, handled[p]>>)
  <2>1. <<p, handled[p]>> \in Events /\ channel[c] \in Seq(Events) /\ Len(channel[c]) < Capacity
    BY <1>4, HubAssumption DEF Send, ScanInv, Events
  <2>2. longer \in Seq(Events) /\ Len(longer) <= Capacity
    BY <2>1, HubAssumption
  <2>3. channel' = [channel EXCEPT ![c] = longer]
    BY <1>4 DEF Send
  <2>4. channel' \in [Clients -> Seq(Events)] /\ \A d \in Clients : Len(channel'[d]) <= Capacity
    BY <2>2, <2>3
  <2> QED
    BY <1>4, <2>4 DEF Send, clientVars, eventVars
<1>5. ASSUME NEW c \in Clients, FindSlow(p, c)
      PROVE  TypeOK'
  BY <1>5 DEF FindSlow, clientVars
<1>6. ASSUME NEW c \in Clients, RemoveSlow(p, c)
      PROVE  TypeOK'
  BY <1>6 DEF RemoveSlow, Delete, eventVars
<1>7. ASSUME NEW c \in Clients, CloseSlow(p, c)
      PROVE  TypeOK'
  BY <1>7 DEF CloseSlow, CloseClient, eventVars
<1> QED
  BY <1>1, <1>2, <1>3, <1>4, <1>5, <1>6, <1>7 DEF HandleEvent

LEMMA HubTypeStep == HubInv /\ [Next]_vars => TypeOK'
<1> SUFFICES ASSUME HubInv, [Next]_vars PROVE TypeOK'
  OBVIOUS
<1> USE DEF HubInv
<1>1. ASSUME NEW c \in Clients, Handle(c) \/ Break(c) \/ ReadLoop(c) \/ HubCloses(c)
      PROVE  TypeOK'
  BY <1>1, ConnectionTypes
<1>2. ASSUME NEW c \in Clients, WriteLoop(c)
      PROVE  TypeOK'
  BY <1>2, WriterTypes
<1>3. ASSUME NEW p \in Callers, HandleEvent(p)
      PROVE  TypeOK'
  BY <1>3, CallerTypes
<1>4. CASE HubDeletes
  BY <1>4 DEF HubDeletes, clientVars, loopVars, callerVars, eventVars, TypeOK
<1>5. CASE UNCHANGED vars
  BY <1>5 DEF vars, clientVars, loopVars, callerVars, closeVars, eventVars, TypeOK
<1> QED
  BY <1>1, <1>2, <1>3, <1>4, <1>5 DEF Next

-----------------------------------------------------------------------------
(* Who is where.                                                           *)
Where == UnknownInv /\ ClosedInv /\ ScanInv /\ RemovedInv /\ NoPanic

LEMMA HubConnectionStep ==
  ASSUME HubInv, NEW c \in Clients, Handle(c) \/ Break(c) \/ ReadLoop(c) \/ HubCloses(c)
  PROVE  Where'
<1> USE DEF HubInv, TypeOK, Where, UnknownInv, ClosedInv, ScanInv, RemovedInv, NoPanic
<1>1. CASE Handle(c)
  BY <1>1 DEF Handle, Readers, callerVars, closeVars, eventVars
<1>2. CASE Break(c)
  BY <1>2 DEF Break, loopVars, callerVars, closeVars, eventVars
<1>3. CASE Subscribe(c)
  BY <1>3 DEF Subscribe, ReadVars, callerVars, closeVars, eventVars
<1>4. CASE ReadFails(c)
  BY <1>4 DEF ReadFails, clientVars, ReadVars, callerVars, closeVars, eventVars
<1>5. CASE ReaderRemoves(c)
  BY <1>5 DEF ReaderRemoves, Delete, Readers, ReadVars, callerVars, closeVars, eventVars
<1>6. CASE ReaderCloses(c)
  BY <1>6 DEF ReaderCloses, CloseClient, ReadVars, callerVars, closeVars, eventVars
<1>7. CASE HubCloses(c)
  BY <1>7 DEF HubCloses, CloseClient, loopVars, callerVars, eventVars
<1> QED
  BY <1>1, <1>2, <1>3, <1>4, <1>5, <1>6, <1>7 DEF ReadLoop

LEMMA WriterStep ==
  ASSUME HubInv, NEW c \in Clients, WriteLoop(c)
  PROVE  Where'
<1> USE DEF HubInv, TypeOK, Where, UnknownInv, ClosedInv, ScanInv, RemovedInv, NoPanic,
            WriteVars, callerVars, closeVars
<1>1. CASE WriteEvent(c)
  BY <1>1 DEF WriteEvent, clientVars
<1>2. CASE WriteEnds(c)
  BY <1>2 DEF WriteEnds, clientVars, eventVars
<1>3. CASE PingFails(c)
  BY <1>3 DEF PingFails, clientVars, eventVars
<1>4. CASE WriterRemoves(c)
  BY <1>4 DEF WriterRemoves, Delete, Readers, eventVars
<1>5. CASE WriterCloses(c)
  BY <1>5 DEF WriterCloses, CloseClient, eventVars
<1> QED
  BY <1>1, <1>2, <1>3, <1>4, <1>5 DEF WriteLoop

LEMMA CallerStep ==
  ASSUME HubInv, NEW p \in Callers, HandleEvent(p)
  PROVE  Where'
<1> USE DEF HubInv, TypeOK, Where, UnknownInv, ClosedInv, ScanInv, RemovedInv, NoPanic,
            CallVars, loopVars, closeVars
<1>1. CASE BeginScan(p)
  BY <1>1 DEF BeginScan, clientVars, Events
<1>2. CASE EndScan(p)
  BY <1>2 DEF EndScan, clientVars, eventVars
<1>3. ASSUME NEW c \in Clients, PassOver(p, c)
      PROVE  Where'
  BY <1>3 DEF PassOver, clientVars, eventVars
<1>4. ASSUME NEW c \in Clients, Send(p, c)
      PROVE  Where'
  BY <1>4 DEF Send, clientVars, eventVars
<1>5. ASSUME NEW c \in Clients, FindSlow(p, c)
      PROVE  Where'
  BY <1>5 DEF FindSlow, clientVars
<1>6. ASSUME NEW c \in Clients, RemoveSlow(p, c)
      PROVE  Where'
  BY <1>6 DEF RemoveSlow, Delete, Readers, eventVars
<1>7. ASSUME NEW c \in Clients, CloseSlow(p, c)
      PROVE  Where'
  BY <1>7 DEF CloseSlow, CloseClient, eventVars
<1> QED
  BY <1>1, <1>2, <1>3, <1>4, <1>5, <1>6, <1>7 DEF HandleEvent

LEMMA HubStep == HubInv /\ [Next]_vars => HubInv'
<1> SUFFICES ASSUME HubInv, [Next]_vars PROVE Where'
  BY HubTypeStep DEF HubInv, Where
<1>1. CASE HubDeletes
  BY <1>1 DEF HubDeletes, Readers, clientVars, loopVars, callerVars, eventVars, HubInv, TypeOK,
              Where, UnknownInv, ClosedInv, ScanInv, RemovedInv, NoPanic
<1>2. CASE UNCHANGED vars
  BY <1>2 DEF vars, clientVars, loopVars, callerVars, closeVars, eventVars, HubInv,
              Where, UnknownInv, ClosedInv, ScanInv, RemovedInv, NoPanic
<1> QED
  BY <1>1, <1>2, HubConnectionStep, WriterStep, CallerStep DEF Next

-----------------------------------------------------------------------------
\* The hub's state keeps its shape and no channel outgrows its capacity.
THEOREM TypeCorrect == Spec => []TypeOK
<1>1. HubInv => TypeOK
  BY DEF HubInv
<1> QED
  BY <1>1, HubInitially, HubStep, PTL DEF Spec

\* Neither handleEvent nor the goroutines that remove clients, nor Close, ever
\* write to a closed channel or close one twice.
THEOREM ChannelsAreSafe == Spec => []NoPanic
<1>1. HubInv => NoPanic
  BY DEF HubInv
<1> QED
  BY <1>1, HubInitially, HubStep, PTL DEF Spec

\* Whoever is in h.clients has an open channel: removal comes before closing.
THEOREM EntriesAreOpen == Spec => []ClosedInv
<1>1. HubInv => ClosedInv
  BY DEF HubInv
<1> QED
  BY <1>1, HubInitially, HubStep, PTL DEF Spec

-----------------------------------------------------------------------------
(* No gap.  What a client has received or has in its channel of a caller's  *)
(* events is an interval, in order, that reaches up to the newest event the *)
(* caller has put to it, as long as the client has its entry and was not    *)
(* found slow.                                                              *)
Numbers == 0 .. MaxEvents

Queued(c, p, n) == \E k \in 1 .. Len(channel[c]) : channel[c][k] = <<p, n>>

Known(c, p, n) == (n # 0 /\ n = received[c][p]) \/ Queued(c, p, n)

\* Clients that have an entry and were not found slow by the event under way.
InLine(c, p) == c \in clients /\ c \notin slow[p]

Newest(c, p) ==
  IF caller[p] = "scan" /\ c \in todo[p] THEN handled[p] - 1 ELSE handled[p]

InOrder(c, p) ==
  /\ \A k, l \in 1 .. Len(channel[c]) :
       k < l /\ channel[c][k][1] = p /\ channel[c][l][1] = p =>
         channel[c][k][2] < channel[c][l][2]
  /\ \A n \in Numbers : Queued(c, p, n) => received[c][p] < n

Unbroken(c, p) ==
  \A a, b, n \in Numbers : Known(c, p, a) /\ Known(c, p, b) /\ a < n /\ n < b => Known(c, p, n)

UpToDate(c, p) ==
  InLine(c, p) =>
    \A n \in Numbers : Known(c, p, n) => n <= Newest(c, p) /\ Known(c, p, Newest(c, p))

NoneMissing(c, p) == InOrder(c, p) /\ Unbroken(c, p) /\ UpToDate(c, p)

\* A writer that gave up may have dropped an event, but it writes no other.
GapInv ==
  \A c \in Clients, p \in Callers : writer[c] = "write" => NoneMissing(c, p)

\* Events are for subscribers only.
SubscribedInv ==
  \A c \in Clients : c \notin subscribed => \A p \in Callers, n \in Numbers : ~Known(c, p, n)

\* A caller forgets whom it found slow only when their entries are gone.
SlowInv ==
  /\ \A c \in Clients : conn[c] = "new" => c \notin subscribed
  /\ \A p \in Callers : /\ caller[p] = "idle" => slow[p] = {}
                        /\ caller[p] = "scan" => slow[p] \cap todo[p] = {}

LineInv == HubInv /\ SlowInv /\ SubscribedInv /\ GapInv

LEMMA LineInit == Init => LineInv
<1> SUFFICES ASSUME Init PROVE LineInv
  OBVIOUS
<1>1. ASSUME NEW c \in Clients, NEW p \in Callers, NEW n \in Numbers PROVE ~Known(c, p, n)
  BY DEF Init, Known, Queued
<1>2. SubscribedInv
  BY <1>1 DEF SubscribedInv
<1>3. SlowInv
  BY DEF Init, SlowInv
<1>4. GapInv
  BY DEF Init, GapInv
<1> QED
  BY <1>2, <1>3, <1>4, HubInitially DEF LineInv

LEMMA GapTypes ==
  ASSUME TypeOK, NEW c \in Clients, NEW p \in Callers
  PROVE  /\ received[c][p] \in Numbers /\ handled[p] \in Numbers /\ Newest(c, p) \in Int
         /\ channel[c] \in Seq(Events) /\ Len(channel[c]) \in Nat
         /\ \A k \in 1 .. Len(channel[c]) :
              /\ channel[c][k] = <<channel[c][k][1], channel[c][k][2]>>
              /\ channel[c][k][1] \in Callers /\ channel[c][k][2] \in Numbers
              /\ channel[c][k][2] # 0
<1>1. received[c][p] \in Numbers /\ handled[p] \in Numbers
  BY DEF TypeOK, Numbers
<1>2. channel[c] \in Seq(Events) /\ Len(channel[c]) \in Nat
  BY DEF TypeOK
<1>3. ASSUME NEW k \in 1 .. Len(channel[c])
      PROVE  /\ channel[c][k] = <<channel[c][k][1], channel[c][k][2]>>
             /\ channel[c][k][1] \in Callers /\ channel[c][k][2] \in Numbers
             /\ channel[c][k][2] # 0
  <2>1. channel[c][k] \in Callers \X (1 .. MaxEvents)
    BY <1>2 DEF Events
  <2> QED
    BY <2>1, HubAssumption DEF Numbers
<1>4. Newest(c, p) \in Int
  BY <1>1, HubAssumption DEF Newest, Numbers
<1> QED
  BY <1>1, <1>2, <1>3, <1>4

\* What is not known leaves no gap.
LEMMA GapNothing ==
  ASSUME TypeOK, NEW c \in Clients, NEW p \in Callers, \A n \in Numbers : ~Known(c, p, n),
         channel'[c] = channel[c], received'[c] = received[c]
  PROVE  NoneMissing(c, p)'
<1>1. \A n \in Numbers : ~Known(c, p, n)' /\ ~Queued(c, p, n)'
  BY DEF Known, Queued
<1>2. \A k \in 1 .. Len(channel[c]) : channel[c][k][1] # p
  BY GapTypes DEF Known, Queued
<1> QED
  BY <1>1, <1>2 DEF NoneMissing, InOrder, Unbroken, UpToDate

\* A step that leaves the client's channel alone.
LEMMA GapKept ==
  ASSUME TypeOK, NEW c \in Clients, NEW p \in Callers, NoneMissing(c, p),
         channel'[c] = channel[c], received'[c] = received[c],
         InLine(c, p)' => InLine(c, p) /\ Newest(c, p)' = Newest(c, p)
  PROVE  NoneMissing(c, p)'
<1>1. \A n : (Known(c, p, n)' <=> Known(c, p, n)) /\ (Queued(c, p, n)' <=> Queued(c, p, n))
  BY DEF Known, Queued
<1>2. InOrder(c, p)'
  BY <1>1 DEF NoneMissing, InOrder
<1>3. Unbroken(c, p)'
  BY <1>1 DEF NoneMissing, Unbroken, Numbers
<1>4. UpToDate(c, p)'
  <2> SUFFICES ASSUME InLine(c, p)', NEW n \in Numbers, Known(c, p, n)'
               PROVE  n <= Newest(c, p)' /\ Known(c, p, Newest(c, p))'
    BY DEF UpToDate, Numbers
  <2>1. Newest(c, p)' = Newest(c, p) /\ n <= Newest(c, p) /\ Known(c, p, Newest(c, p))
    BY <1>1 DEF NoneMissing, UpToDate
  <2> QED
    BY <1>1, <2>1 DEF Known, Queued
<1> QED
  BY <1>2, <1>3, <1>4 DEF NoneMissing

\* Send puts the caller's newest event behind those before.
LEMMA GapSend ==
  ASSUME LineInv, NEW c \in Clients, NEW q \in Callers, NEW p \in Callers,
         Send(p, c), writer[c] = "write"
  PROVE  NoneMissing(c, q)'
<1> DEFINE e == <<p, handled[p]>>
<1>1. /\ TypeOK /\ NoneMissing(c, q)
      /\ caller[p] = "scan" /\ c \in todo[p] /\ c \in clients /\ c \notin slow[p]
      /\ handled[p] > 0 /\ handled[p] \in Numbers
  BY GapTypes DEF LineInv, HubInv, GapInv, NoneMissing, Send, ScanInv, SlowInv
<1>2. e \in Events /\ channel'[c] = Append(channel[c], e)
  BY <1>1, HubAssumption DEF Send, TypeOK, Events, Numbers
<1>3. /\ Len(channel[c]) \in Nat /\ Len(channel'[c]) = Len(channel[c]) + 1
      /\ channel'[c][Len(channel[c]) + 1] = e
      /\ \A k \in 1 .. Len(channel[c]) : channel'[c][k] = channel[c][k]
  BY <1>1, <1>2, GapTypes, AppendProperties
<1>4. UNCHANGED <<received, handled, clients, slow, caller, writer>>
  BY DEF Send, clientVars, CallVars, loopVars, eventVars
<1>5. todo' = [todo EXCEPT ![p] = todo[p] \ {c}]
  BY DEF Send
<1>6. ASSUME NEW n PROVE Queued(c, q, n)' <=> Queued(c, q, n) \/ (q = p /\ n = handled[p])
  <2>1. ASSUME Queued(c, q, n)' PROVE Queued(c, q, n) \/ (q = p /\ n = handled[p])
    <3>1. PICK k \in 1 .. Len(channel'[c]) : channel'[c][k] = <<q, n>>
      BY <2>1 DEF Queued
    <3>2. CASE k = Len(channel[c]) + 1
      BY <1>3, <3>1, <3>2
    <3>3. CASE k \in 1 .. Len(channel[c])
      BY <1>3, <3>1, <3>3 DEF Queued
    <3> QED
      BY <1>3, <3>2, <3>3
  <2>2. ASSUME Queued(c, q, n) PROVE Queued(c, q, n)'
    <3>1. PICK k \in 1 .. Len(channel[c]) : channel[c][k] = <<q, n>>
      BY <2>2 DEF Queued
    <3>2. k \in 1 .. Len(channel'[c]) /\ channel'[c][k] = <<q, n>>
      BY <1>3, <3>1
    <3> QED
      BY <3>2 DEF Queued
  <2>3. ASSUME q = p, n = handled[p] PROVE Queued(c, q, n)'
    <3>1. Len(channel[c]) + 1 \in 1 .. Len(channel'[c])
      BY <1>3
    <3> QED
      BY <1>3, <2>3, <3>1 DEF Queued
  <2> QED
    BY <2>1, <2>2, <2>3
<1>7. \A n \in Numbers : Known(c, q, n)' <=> Known(c, q, n) \/ (q = p /\ n = handled[p])
  BY <1>4, <1>6 DEF Known
<1>8. Newest(c, p) = handled[p] - 1 /\ InLine(c, p)
  BY <1>1 DEF Newest, InLine
<1>9. CASE q # p
  <2>1. InLine(c, q)' = InLine(c, q) /\ Newest(c, q)' = Newest(c, q)
    BY <1>1, <1>4, <1>5, <1>9 DEF InLine, Newest, TypeOK
  <2>2. \A n : (Known(c, q, n)' <=> Known(c, q, n)) /\ (Queued(c, q, n)' <=> Queued(c, q, n))
    BY <1>4, <1>6, <1>9 DEF Known
  <2>3. InOrder(c, q)'
    <3>1. \A n \in Numbers : Queued(c, q, n)' => received'[c][q] < n
      BY <1>1, <1>4, <2>2 DEF NoneMissing, InOrder
    <3>2. ASSUME NEW k \in 1 .. Len(channel'[c]), channel'[c][k][1] = q
          PROVE  k \in 1 .. Len(channel[c]) /\ channel'[c][k] = channel[c][k]
      BY <1>3, <1>9, <3>2
    <3>3. ASSUME NEW k \in 1 .. Len(channel'[c]), NEW l \in 1 .. Len(channel'[c]),
                 k < l, channel'[c][k][1] = q, channel'[c][l][1] = q
          PROVE  channel'[c][k][2] < channel'[c][l][2]
      BY <1>1, <3>2, <3>3 DEF NoneMissing, InOrder
    <3> QED
      BY <3>1, <3>3 DEF InOrder, Numbers
  <2>4. Unbroken(c, q)'
    BY <1>1, <2>2 DEF NoneMissing, Unbroken, Numbers
  <2>5. UpToDate(c, q)'
    <3> SUFFICES ASSUME InLine(c, q)', NEW n \in Numbers, Known(c, q, n)'
                 PROVE  n <= Newest(c, q)' /\ Known(c, q, Newest(c, q))'
      BY DEF UpToDate, Numbers
    <3>1. Newest(c, q)' = Newest(c, q) /\ n <= Newest(c, q) /\ Known(c, q, Newest(c, q))
      BY <1>1, <2>1, <2>2 DEF NoneMissing, UpToDate
    <3> QED
      BY <2>2, <3>1 DEF Known, Queued
  <2> QED
    BY <2>3, <2>4, <2>5 DEF NoneMissing
<1>10. CASE q = p
  <2>1. \A n \in Numbers : Known(c, p, n) => n <= handled[p] - 1 /\ Known(c, p, handled[p] - 1)
    BY <1>1, <1>8, <1>10 DEF NoneMissing, UpToDate
  <2>2. received[c][p] < handled[p]
    BY <1>1, <2>1, GapTypes, HubAssumption DEF Known, Numbers
  <2>3. InOrder(c, p)'
    <3>1. \A n \in Numbers : Queued(c, p, n)' => received'[c][p] < n
      BY <1>1, <1>4, <1>6, <1>10, <2>2 DEF NoneMissing, InOrder, Numbers
    <3>2. \A k \in 1 .. Len(channel[c]) : channel[c][k][1] = p => channel[c][k][2] < handled[p]
      <4> SUFFICES ASSUME NEW k \in 1 .. Len(channel[c]), channel[c][k][1] = p
                   PROVE  channel[c][k][2] < handled[p]
        OBVIOUS
      <4> DEFINE n == channel[c][k][2]
      <4>1. n \in Numbers /\ channel[c][k] = <<p, n>>
        BY <1>1, GapTypes
      <4>2. Known(c, p, n)
        BY <4>1 DEF Known, Queued
      <4>3. n <= handled[p] - 1
        BY <2>1, <4>1, <4>2
      <4> QED
        BY <1>1, <4>1, <4>3, HubAssumption DEF Numbers
    <3>3. ASSUME NEW k \in 1 .. Len(channel'[c]), NEW l \in 1 .. Len(channel'[c]),
                 k < l, channel'[c][k][1] = p, channel'[c][l][1] = p
          PROVE  channel'[c][k][2] < channel'[c][l][2]
      <4>1. k \in 1 .. Len(channel[c]) /\ channel'[c][k] = channel[c][k]
        BY <1>3, <3>3
      <4>2. CASE l = Len(channel[c]) + 1
        BY <1>3, <3>2, <3>3, <4>1, <4>2
      <4>3. CASE l # Len(channel[c]) + 1
        <5>1. l \in 1 .. Len(channel[c]) /\ channel'[c][l] = channel[c][l]
          BY <1>3, <4>3
        <5>2. InOrder(c, p)
          BY <1>1, <1>10 DEF NoneMissing
        <5> QED
          BY <3>3, <4>1, <5>1, <5>2 DEF InOrder
      <4> QED
        BY <4>2, <4>3
    <3> QED
      BY <3>1, <3>3 DEF InOrder, Numbers
  <2>4. Unbroken(c, p)'
    <3> SUFFICES ASSUME NEW a \in Numbers, NEW b \in Numbers, NEW n \in Numbers,
                        Known(c, p, a)', Known(c, p, b)', a < n, n < b
                 PROVE  Known(c, p, n)'
      BY DEF Unbroken, Numbers
    <3>1. b <= handled[p]
      BY <1>1, <1>7, <1>10, <2>1, HubAssumption DEF Numbers
    <3>2. Known(c, p, a)
      BY <1>1, <1>7, <1>10, <3>1, HubAssumption DEF Numbers
    <3>3. handled[p] - 1 \in Numbers /\ Known(c, p, handled[p] - 1)
      BY <1>1, <2>1, <3>2, HubAssumption DEF Numbers
    <3>4. n = handled[p] - 1 \/ n < handled[p] - 1
      BY <1>1, <3>1, HubAssumption DEF Numbers
    <3>5. Known(c, p, n)
      BY <1>1, <1>10, <3>2, <3>3, <3>4 DEF NoneMissing, Unbroken
    <3> QED
      BY <1>7, <1>10, <3>5
  <2>5. UpToDate(c, p)'
    <3>1. Newest(c, p)' = handled[p]
      BY <1>1, <1>4, <1>5 DEF Newest, TypeOK
    <3>2. Known(c, p, handled[p])'
      BY <1>1, <1>4, <1>7, <1>10 DEF Known, Queued
    <3>3. \A n \in Numbers : Known(c, p, n)' => n <= handled[p]
      BY <1>1, <1>7, <1>10, <2>1, HubAssumption DEF Numbers
    <3>4. Known(c, p, Newest(c, p))'
      BY <1>4, <3>1, <3>2 DEF Known, Queued
    <3> QED
      BY <3>1, <3>3, <3>4 DEF UpToDate, Numbers
  <2> QED
    BY <1>10, <2>3, <2>4, <2>5 DEF NoneMissing
<1> QED
  BY <1>9, <1>10

\* The writer takes the head of the channel: a caller's events that it leaves
\* are later ones, and if the head was the caller's it is what the client
\* received last.
LEMMA TakenFromChannel ==
  ASSUME LineInv, NEW c \in Clients, WriteEvent(c), conn[c] = "open", NEW q \in Callers
  PROVE  LET e == Head(channel[c])
         IN  /\ e[1] \in Callers /\ e[2] \in Numbers /\ e[2] # 0
             /\ Queued(c, e[1], e[2])
             /\ received'[c][q] = IF q = e[1] THEN e[2] ELSE received[c][q]
             /\ \A n \in Numbers :
                  /\ Queued(c, q, n)' => Queued(c, q, n) /\ (q = e[1] => e[2] < n)
                  /\ Queued(c, q, n) => Queued(c, q, n)' \/ (q = e[1] /\ n = e[2])
<1> DEFINE s == channel[c]
           e == Head(s)
<1>1. TypeOK /\ InOrder(c, q) /\ writer[c] = "write"
  BY DEF LineInv, HubInv, GapInv, NoneMissing, WriteEvent
<1>2. s \in Seq(Events) /\ s # <<>> /\ Len(s) \in Nat \ {0}
  BY <1>1, GapTypes, EmptySeq DEF WriteEvent
<1>3. e = s[1] /\ channel'[c] = Tail(s)
  BY <1>1, <1>2 DEF WriteEvent, TypeOK
<1>4. Len(Tail(s)) = Len(s) - 1 /\ \A k \in 1 .. Len(Tail(s)) : Tail(s)[k] = s[k + 1]
  BY <1>2, HeadTailProperties
<1>5. e[1] \in Callers /\ e[2] \in Numbers /\ e[2] # 0 /\ Queued(c, e[1], e[2])
  <2>1. 1 \in 1 .. Len(s)
    BY <1>2
  <2> QED
    BY <1>1, <1>3, <2>1, GapTypes DEF Queued
<1>6. received' = [received EXCEPT ![c][e[1]] = e[2]]
  BY DEF WriteEvent
<1>7. received'[c][q] = IF q = e[1] THEN e[2] ELSE received[c][q]
  BY <1>1, <1>6 DEF TypeOK
<1>8. ASSUME NEW n \in Numbers, Queued(c, q, n)'
      PROVE  Queued(c, q, n) /\ (q = e[1] => e[2] < n)
  <2>1. PICK k \in 1 .. Len(channel'[c]) : channel'[c][k] = <<q, n>>
    BY <1>8 DEF Queued
  <2>2. k + 1 \in 1 .. Len(s) /\ s[k + 1] = <<q, n>> /\ 1 \in 1 .. Len(s) /\ 1 < k + 1
    BY <1>2, <1>3, <1>4, <2>1
  <2>3. Queued(c, q, n)
    BY <2>2 DEF Queued
  <2>4. s[k + 1][1] = q /\ s[k + 1][2] = n
    BY <2>2
  <2>5. q = e[1] => e[2] < n
    BY <1>1, <1>3, <2>2, <2>4 DEF InOrder
  <2> QED
    BY <2>3, <2>5
<1>9. ASSUME NEW n \in Numbers, Queued(c, q, n)
      PROVE  Queued(c, q, n)' \/ (q = e[1] /\ n = e[2])
  <2>1. PICK k \in 1 .. Len(s) : s[k] = <<q, n>>
    BY <1>9 DEF Queued
  <2>2. CASE k = 1
    BY <1>3, <2>1, <2>2
  <2>3. CASE k # 1
    <3>1. k - 1 \in 1 .. Len(Tail(s)) /\ Tail(s)[k - 1] = s[k]
      BY <1>2, <1>4, <2>1, <2>3
    <3> QED
      BY <1>3, <2>1, <3>1 DEF Queued
  <2> QED
    BY <2>2, <2>3
<1> QED
  BY <1>5, <1>7, <1>8, <1>9

LEMMA GapWrite ==
  ASSUME LineInv, NEW c \in Clients, NEW q \in Callers, WriteEvent(c), conn[c] = "open"
  PROVE  NoneMissing(c, q)'
<1> DEFINE e == Head(channel[c])
<1>1. TypeOK /\ NoneMissing(c, q) /\ received[c][q] \in Numbers
  BY GapTypes DEF LineInv, HubInv, GapInv, NoneMissing, WriteEvent
<1>2. /\ e[2] \in Numbers /\ e[2] # 0 /\ e[1] \in Callers /\ Queued(c, e[1], e[2])
      /\ received'[c][q] = IF q = e[1] THEN e[2] ELSE received[c][q]
      /\ \A n \in Numbers :
           /\ Queued(c, q, n)' => Queued(c, q, n) /\ (q = e[1] => e[2] < n)
           /\ Queued(c, q, n) => Queued(c, q, n)' \/ (q = e[1] /\ n = e[2])
  BY TakenFromChannel
<1>3. q = e[1] => Known(c, q, e[2]) /\ received[c][q] < e[2]
  BY <1>1, <1>2 DEF Known, NoneMissing, InOrder
<1> HIDE DEF e
<1>4. \A n \in Numbers : Known(c, q, n)' => Known(c, q, n) /\ (q = e[1] => e[2] <= n)
  BY <1>2, HubAssumption DEF Known, Numbers
<1>5. \A n \in Numbers :
        Known(c, q, n) => Known(c, q, n)' \/ (q = e[1] /\ n = received[c][q])
  BY <1>2 DEF Known
<1>6. InOrder(c, q)'
  <2>1. \A n \in Numbers : Queued(c, q, n)' => received'[c][q] < n
    BY <1>1, <1>2 DEF NoneMissing, InOrder
  <2>2. /\ Len(channel[c]) \in Nat /\ Len(channel'[c]) = Len(channel[c]) - 1
        /\ \A k \in 1 .. Len(channel'[c]) : channel'[c][k] = channel[c][k + 1]
    <3>1. channel[c] \in Seq(Events) /\ channel[c] # <<>> /\ channel'[c] = Tail(channel[c])
      BY <1>1 DEF WriteEvent, TypeOK
    <3> QED
      BY <3>1, HeadTailProperties
  <2>3. ASSUME NEW k \in 1 .. Len(channel'[c]), NEW l \in 1 .. Len(channel'[c]),
               k < l, channel'[c][k][1] = q, channel'[c][l][1] = q
        PROVE  channel'[c][k][2] < channel'[c][l][2]
    <3>1. k + 1 \in 1 .. Len(channel[c]) /\ l + 1 \in 1 .. Len(channel[c]) /\ k + 1 < l + 1
      BY <2>2, <2>3
    <3> QED
      BY <1>1, <2>2, <2>3, <3>1 DEF NoneMissing, InOrder
  <2> QED
    BY <2>1, <2>3 DEF InOrder, Numbers
<1>7. Unbroken(c, q)'
  <2> SUFFICES ASSUME NEW a \in Numbers, NEW b \in Numbers, NEW n \in Numbers,
                      Known(c, q, a)', Known(c, q, b)', a < n, n < b
               PROVE  Known(c, q, n)'
    BY DEF Unbroken, Numbers
  <2>1. Known(c, q, n)
    BY <1>1, <1>4 DEF NoneMissing, Unbroken
  <2>2. q = e[1] => n # received[c][q]
    BY <1>1, <1>2, <1>3, <1>4, HubAssumption DEF Numbers
  <2> QED
    BY <1>5, <2>1, <2>2
<1>8. UpToDate(c, q)'
  <2> SUFFICES ASSUME InLine(c, q)', NEW n \in Numbers, Known(c, q, n)'
               PROVE  n <= Newest(c, q)' /\ Known(c, q, Newest(c, q))'
    BY DEF UpToDate, Numbers
  <2>1. InLine(c, q) /\ Newest(c, q)' = Newest(c, q)
    BY DEF InLine, Newest, WriteEvent, clientVars, WriteVars, callerVars
  <2>2. \A m \in Numbers : Known(c, q, m) => m <= Newest(c, q) /\ Known(c, q, Newest(c, q))
    BY <1>1, <2>1 DEF NoneMissing, UpToDate
  <2>3. n <= Newest(c, q) /\ Known(c, q, Newest(c, q))
    BY <1>4, <2>2
  <2>4. Newest(c, q) \in Numbers
    BY <1>1, <2>3, GapTypes, HubAssumption DEF Known, Queued, Numbers, Newest
  <2>5. q = e[1] => Newest(c, q) # received[c][q]
    BY <1>1, <1>2, <1>3, <2>2, <2>4, HubAssumption DEF Numbers
  <2>6. Known(c, q, Newest(c, q))'
    BY <1>5, <2>1, <2>3, <2>4, <2>5 DEF Known, Queued
  <2> QED
    BY <2>1, <2>3, <2>6
<1> QED
  BY <1>6, <1>7, <1>8 DEF NoneMissing

\* All other steps leave what is known of a client alone.
Elsewhere(c) == channel'[c] = channel[c] /\ received'[c] = received[c]

LEMMA ConnectionGap ==
  ASSUME LineInv, NEW c \in Clients, NEW d \in Clients,
         Handle(d) \/ Break(d) \/ ReadLoop(d) \/ HubCloses(d) \/ HubDeletes
  PROVE  /\ Elsewhere(c) /\ UNCHANGED <<caller, todo, slow, handled>>
         /\ c \in subscribed => clients' \cap {c} \subseteq clients
         /\ c \in subscribed /\ writer'[c] = "write" => writer[c] = "write"
         /\ subscribed \subseteq subscribed'
<1> USE DEF Elsewhere, LineInv, HubInv, TypeOK, SlowInv, clientVars, loopVars, callerVars,
            closeVars, eventVars
<1>1. CASE Handle(d)
  BY <1>1 DEF Handle
<1>2. CASE Break(d)
  BY <1>2 DEF Break
<1>3. CASE ReadLoop(d)
  BY <1>3 DEF ReadLoop, Subscribe, ReadFails, ReaderRemoves, ReaderCloses, Delete, CloseClient,
              ReadVars
<1>4. CASE HubCloses(d)
  BY <1>4 DEF HubCloses, CloseClient
<1>5. CASE HubDeletes
  BY <1>5 DEF HubDeletes
<1> QED
  BY <1>1, <1>2, <1>3, <1>4, <1>5

\* Of the writer's steps those that write nothing end it.
LEMMA WriterGap ==
  ASSUME LineInv, NEW c \in Clients, NEW d \in Clients, WriteLoop(d),
         writer'[c] = "write", ~(d = c /\ WriteEvent(c) /\ conn[c] = "open")
  PROVE  /\ Elsewhere(c) /\ UNCHANGED <<caller, todo, slow, handled, subscribed>>
         /\ clients' \subseteq clients /\ writer[c] = "write"
<1> USE DEF Elsewhere, LineInv, HubInv, TypeOK, clientVars, WriteVars, callerVars, closeVars,
            eventVars
<1>1. CASE WriteEvent(d)
  <2>1. channel' = [channel EXCEPT ![d] = Tail(channel[d])] /\ writer[d] = "write"
    BY <1>1 DEF WriteEvent
  <2>2. CASE conn[d] = "open"
    <3>1. received' = [received EXCEPT ![d][Head(channel[d])[1]] = Head(channel[d])[2]]
      BY <1>1, <2>2 DEF WriteEvent
    <3>2. c # d
      BY <1>1, <2>2
    <3> QED
      BY <1>1, <2>1, <2>2, <3>1, <3>2 DEF WriteEvent
  <2>3. CASE conn[d] # "open"
    <3>1. writer' = [writer EXCEPT ![d] = "remove"] /\ received' = received
      BY <1>1, <2>3 DEF WriteEvent
    <3>2. writer'[d] = "remove"
      BY <3>1
    <3>3. c # d
      BY <3>2
    <3> QED
      BY <1>1, <2>1, <3>1, <3>3 DEF WriteEvent
  <2> QED
    BY <2>2, <2>3
<1>2. CASE WriteEnds(d)
  BY <1>2 DEF WriteEnds
<1>3. CASE PingFails(d)
  BY <1>3 DEF PingFails
<1>4. CASE WriterRemoves(d)
  BY <1>4 DEF WriterRemoves, Delete
<1>5. CASE WriterCloses(d)
  BY <1>5 DEF WriterCloses, CloseClient
<1> QED
  BY <1>1, <1>2, <1>3, <1>4, <1>5 DEF WriteLoop

\* A caller's steps: a client that is passed over is no subscriber, one that is
\* found slow leaves the line, and it does not come back before its entry goes.
LEMMA CallerGap ==
  ASSUME LineInv, NEW c \in Clients, NEW p \in Callers, NEW q \in Callers, HandleEvent(q),
         ~Send(q, c)
  PROVE  /\ Elsewhere(c) /\ UNCHANGED <<writer, subscribed>>
         /\ c \in subscribed /\ InLine(c, p)' =>
              InLine(c, p) /\ Newest(c, p)' = Newest(c, p)
<1> USE DEF Elsewhere, LineInv, HubInv, TypeOK, clientVars, CallVars, loopVars, closeVars,
            eventVars, InLine, Newest
<1>1. CASE BeginScan(q)
  <2>1. Elsewhere(c) /\ UNCHANGED <<writer, subscribed, clients, slow>>
    BY <1>1 DEF BeginScan
  <2>2. c \in clients => Newest(c, p)' = Newest(c, p)
    <3>1. CASE p = q
      BY <1>1, <3>1, HubAssumption DEF BeginScan
    <3>2. CASE p # q
      BY <1>1, <3>2 DEF BeginScan
    <3> QED
      BY <3>1, <3>2
  <2> QED
    BY <2>1, <2>2
<1>2. CASE EndScan(q)
  <2>1. Elsewhere(c) /\ UNCHANGED <<writer, subscribed, clients, slow, handled, todo>>
    BY <1>2 DEF EndScan
  <2>2. Newest(c, p)' = Newest(c, p)
    <3>1. CASE p = q
      BY <1>2, <3>1 DEF EndScan
    <3>2. CASE p # q
      BY <1>2, <3>2 DEF EndScan
    <3> QED
      BY <3>1, <3>2
  <2> QED
    BY <2>1, <2>2
<1>3. ASSUME NEW d \in Clients, PassOver(q, d)
      PROVE  /\ Elsewhere(c) /\ UNCHANGED <<writer, subscribed, clients, slow, caller, handled>>
             /\ c \in subscribed => (c \in todo'[p] <=> c \in todo[p])
  BY <1>3 DEF PassOver
<1>4. ASSUME NEW d \in Clients, Send(q, d)
      PROVE  /\ Elsewhere(c) /\ UNCHANGED <<writer, subscribed, clients, slow, caller, handled>>
             /\ c \in todo'[p] <=> c \in todo[p]
  BY <1>4 DEF Send
<1>5. ASSUME NEW d \in Clients, FindSlow(q, d)
      PROVE  /\ Elsewhere(c) /\ UNCHANGED <<writer, subscribed, clients, caller, handled>>
             /\ c \notin slow'[p] => c \notin slow[p] /\ (c \in todo'[p] <=> c \in todo[p])
  BY <1>5 DEF FindSlow
<1>6. ASSUME NEW d \in Clients, RemoveSlow(q, d)
      PROVE  /\ Elsewhere(c) /\ UNCHANGED <<writer, subscribed, slow, caller, handled>>
             /\ clients' \subseteq clients
             /\ caller[p] = "scan" => todo'[p] = todo[p]
  BY <1>6 DEF RemoveSlow, Delete
<1>7. ASSUME NEW d \in Clients, CloseSlow(q, d)
      PROVE  /\ Elsewhere(c) /\ UNCHANGED <<writer, subscribed, clients, handled>>
             /\ c \in clients /\ c \notin slow'[p] => c \notin slow[p]
             /\ (caller'[p] = "scan") <=> (caller[p] = "scan")
             /\ caller[p] = "scan" => todo'[p] = todo[p]
  BY <1>7 DEF CloseSlow, CloseClient, RemovedInv
<1> QED
  BY <1>1, <1>2, <1>3, <1>4, <1>5, <1>6, <1>7 DEF HandleEvent

LEMMA GapStep == LineInv /\ [Next]_vars => GapInv'
<1> SUFFICES ASSUME LineInv, [Next]_vars, NEW c \in Clients, NEW p \in Callers,
                    writer'[c] = "write"
             PROVE  NoneMissing(c, p)'
  BY DEF GapInv, NoneMissing
<1>1. TypeOK
  BY DEF LineInv, HubInv
<1>2. ASSUME Elsewhere(c),
             c \in subscribed =>
               /\ writer[c] = "write"
               /\ InLine(c, p)' => InLine(c, p) /\ Newest(c, p)' = Newest(c, p)
      PROVE  NoneMissing(c, p)'
  <2>1. CASE c \in subscribed
    <3>1. NoneMissing(c, p)
      BY <1>2, <2>1 DEF LineInv, GapInv, NoneMissing
    <3> QED
      BY <1>1, <1>2, <2>1, <3>1, GapKept DEF Elsewhere
  <2>2. CASE c \notin subscribed
    BY <1>1, <1>2, <2>2, GapNothing DEF Elsewhere, LineInv, SubscribedInv
  <2> QED
    BY <2>1, <2>2
<1>3. ASSUME Elsewhere(c), UNCHANGED <<caller, todo, slow, handled>>,
             c \in subscribed => clients' \cap {c} \subseteq clients /\ writer[c] = "write"
      PROVE  NoneMissing(c, p)'
  BY <1>2, <1>3 DEF InLine, Newest
<1>4. ASSUME NEW d \in Clients,
             Handle(d) \/ Break(d) \/ ReadLoop(d) \/ HubCloses(d) \/ HubDeletes
      PROVE  NoneMissing(c, p)'
  BY <1>3, <1>4, ConnectionGap
<1>5. ASSUME NEW d \in Clients, WriteLoop(d) PROVE NoneMissing(c, p)'
  BY <1>3, <1>5, GapWrite, WriterGap
<1>6. ASSUME NEW q \in Callers, HandleEvent(q) PROVE NoneMissing(c, p)'
  <2>1. CASE Send(q, c)
    <3>1. writer[c] = "write"
      BY <2>1 DEF Send, CallVars, loopVars
    <3> QED
      BY <2>1, <3>1, GapSend
  <2>2. CASE ~Send(q, c)
    BY <1>2, <1>6, <2>2, CallerGap
  <2> QED
    BY <2>1, <2>2
<1>7. CASE UNCHANGED vars
  BY <1>3, <1>7 DEF vars, clientVars, loopVars, callerVars, eventVars, Elsewhere
<1> QED
  BY <1>4, <1>5, <1>6, <1>7 DEF Next

LEMMA SlowStep == LineInv /\ [Next]_vars => SlowInv'
<1> SUFFICES ASSUME LineInv, [Next]_vars PROVE SlowInv'
  OBVIOUS
<1> USE DEF LineInv, HubInv, TypeOK, SlowInv, clientVars, loopVars, callerVars, closeVars,
            eventVars, CallVars, ReadVars, WriteVars
<1>1. ASSUME NEW c \in Clients,
             Handle(c) \/ Break(c) \/ ReadLoop(c) \/ WriteLoop(c) \/ HubCloses(c)
      PROVE  /\ UNCHANGED <<caller, slow, todo>>
             /\ \A d \in Clients : conn'[d] = "new" => conn[d] = "new"
             /\ \A d \in Clients : conn[d] = "new" => d \notin subscribed'
  <2>1. CASE Handle(c) \/ Break(c) \/ HubCloses(c)
    BY <1>1, <2>1 DEF Handle, Break, HubCloses, CloseClient
  <2>2. CASE ReadLoop(c)
    BY <1>1, <2>2
    DEF ReadLoop, Subscribe, ReadFails, ReaderRemoves, ReaderCloses, Delete, CloseClient
  <2>3. CASE WriteLoop(c)
    BY <1>1, <2>3
    DEF WriteLoop, WriteEvent, WriteEnds, PingFails, WriterRemoves, WriterCloses, Delete,
        CloseClient
  <2> QED
    BY <1>1, <2>1, <2>2, <2>3
<1>2. ASSUME NEW q \in Callers, HandleEvent(q)
      PROVE  /\ subscribed' = subscribed
             /\ \A d \in Clients : conn'[d] = "new" => conn[d] = "new"
  BY <1>2 DEF HandleEvent, BeginScan, EndScan, PassOver, Send, FindSlow, RemoveSlow, CloseSlow,
              Delete, CloseClient
<1>3. ASSUME NEW q \in Callers, HandleEvent(q), NEW p \in Callers
      PROVE  /\ caller'[p] = "idle" => slow'[p] = {}
             /\ caller'[p] = "scan" => slow'[p] \cap todo'[p] = {}
  <2>1. CASE BeginScan(q)
    BY <2>1 DEF BeginScan
  <2>2. CASE EndScan(q)
    BY <2>2 DEF EndScan
  <2>3. ASSUME NEW d \in Clients, PassOver(q, d) \/ Send(q, d) \/ FindSlow(q, d)
        PROVE  /\ caller'[p] = "idle" => slow'[p] = {}
               /\ caller'[p] = "scan" => slow'[p] \cap todo'[p] = {}
    <3>1. CASE PassOver(q, d) \/ Send(q, d)
      BY <3>1 DEF PassOver, Send
    <3>2. CASE FindSlow(q, d) /\ p # q
      BY <3>2 DEF FindSlow
    <3>3. CASE FindSlow(q, d) /\ p = q
      <4>1. /\ slow'[p] = slow[p] \cup {d} /\ todo'[p] = todo[p] \ {d}
            /\ caller'[p] = "scan" /\ caller[p] = "scan"
        BY <3>3 DEF FindSlow
      <4> QED
        BY <4>1
    <3> QED
      BY <2>3, <3>1, <3>2, <3>3
  <2>4. ASSUME NEW d \in Clients, RemoveSlow(q, d) \/ CloseSlow(q, d)
        PROVE  /\ caller'[p] = "idle" => slow'[p] = {}
               /\ caller'[p] = "scan" => slow'[p] \cap todo'[p] = {}
    <3>1. CASE RemoveSlow(q, d)
      BY <3>1 DEF RemoveSlow
    <3>2. CASE CloseSlow(q, d) /\ p = q
      <4>1. slow'[p] = slow[p] \ {d} /\ caller'[p] = IF slow[p] = {d} THEN "idle" ELSE "cut"
        BY <3>2 DEF CloseSlow
      <4> QED
        BY <4>1
    <3>3. CASE CloseSlow(q, d) /\ p # q
      BY <3>3 DEF CloseSlow
    <3> QED
      BY <2>4, <3>1, <3>2, <3>3
  <2> QED
    BY <1>3, <2>1, <2>2, <2>3, <2>4 DEF HandleEvent
<1>4. CASE HubDeletes \/ UNCHANGED vars
  BY <1>4 DEF HubDeletes, vars
<1> HIDE DEF LineInv, HubInv, TypeOK
<1>5. ASSUME NEW c \in Clients,
             Handle(c) \/ Break(c) \/ ReadLoop(c) \/ WriteLoop(c) \/ HubCloses(c)
      PROVE  SlowInv'
  <2>1. SlowInv
    BY DEF LineInv
  <2> QED
    BY <1>1, <1>5, <2>1
<1>6. ASSUME NEW q \in Callers, HandleEvent(q) PROVE SlowInv'
  <2>1. SlowInv
    BY DEF LineInv
  <2> QED
    BY <1>2, <1>3, <1>6, <2>1
<1> QED
  BY <1>4, <1>5, <1>6 DEF Next

LEMMA SubscribedStep == LineInv /\ [Next]_vars => SubscribedInv'
<1> SUFFICES ASSUME LineInv, [Next]_vars, NEW c \in Clients, c \notin subscribed',
                    NEW p \in Callers, NEW n \in Numbers, Known(c, p, n)'
             PROVE  FALSE
  BY DEF SubscribedInv, Numbers
<1>1. TypeOK
  BY DEF LineInv, HubInv
<1>2. ASSUME subscribed \subseteq subscribed', Elsewhere(c) PROVE FALSE
  BY <1>2 DEF Elsewhere, Known, Queued, LineInv, SubscribedInv
<1>3. ASSUME NEW d \in Clients,
             Handle(d) \/ Break(d) \/ ReadLoop(d) \/ HubCloses(d) \/ HubDeletes
      PROVE  FALSE
  BY <1>2, <1>3, ConnectionGap
<1>4. ASSUME NEW d \in Clients, WriteLoop(d) PROVE FALSE
  <2>1. subscribed' = subscribed
    BY <1>4 DEF WriteLoop, WriteEvent, WriteEnds, PingFails, WriterRemoves, WriterCloses,
                Delete, CloseClient, clientVars
  <2>2. CASE channel[c] = <<>> /\ WriteEvent(d)
    <3>1. d # c
      BY <2>2 DEF WriteEvent
    <3>2. Elsewhere(c)
      BY <1>1, <2>2, <3>1 DEF WriteEvent, Elsewhere, TypeOK
    <3> QED
      BY <1>2, <2>1, <3>2
  <2>3. CASE channel[c] # <<>> /\ WriteEvent(d)
    <3>1. 1 \in 1 .. Len(channel[c]) /\ Queued(c, channel[c][1][1], channel[c][1][2])
      <4>1. Len(channel[c]) \in Nat \ {0} /\ 1 \in 1 .. Len(channel[c])
        BY <1>1, <2>3, EmptySeq DEF TypeOK
      <4> QED
        BY <1>1, <4>1, GapTypes DEF Queued
    <3>2. channel[c][1][1] \in Callers /\ channel[c][1][2] \in Numbers
      BY <1>1, <3>1, GapTypes
    <3> QED
      BY <2>1, <3>1, <3>2 DEF LineInv, SubscribedInv, Known
  <2>4. CASE ~WriteEvent(d)
    <3>1. Elsewhere(c)
      BY <1>4, <2>4 DEF WriteLoop, WriteEnds, PingFails, WriterRemoves, WriterCloses,
                Delete, CloseClient, eventVars, Elsewhere
    <3> QED
      BY <1>2, <2>1, <3>1
  <2> QED
    BY <2>2, <2>3, <2>4
<1>5. ASSUME NEW q \in Callers, HandleEvent(q) PROVE FALSE
  <2>1. CASE Send(q, c)
    BY <2>1 DEF Send, clientVars
  <2>2. CASE ~Send(q, c)
    BY <1>2, <1>5, <2>2, CallerGap
  <2> QED
    BY <2>1, <2>2
<1>6. CASE UNCHANGED vars
  BY <1>2, <1>6 DEF vars, clientVars, eventVars, Elsewhere
<1> QED
  BY <1>3, <1>4, <1>5, <1>6 DEF Next

LEMMA LineStep == LineInv /\ [Next]_vars => LineInv'
  BY HubStep, SlowStep, SubscribedStep, GapStep DEF LineInv

\* Only a write to an open connection is received.
LEMMA ReceivedByWrite ==
  ASSUME LineInv, [Next]_vars, NEW c \in Clients, NEW p \in Callers,
         received'[c][p] # received[c][p]
  PROVE  WriteEvent(c) /\ conn[c] = "open"
<1>1. ASSUME NEW d \in Clients, WriteLoop(d), ~(WriteEvent(c) /\ conn[c] = "open")
      PROVE  received'[c] = received[c]
  <2>1. CASE WriteEvent(d)
    BY <1>1, <2>1 DEF WriteEvent, LineInv, HubInv, TypeOK
  <2>2. CASE ~WriteEvent(d)
    BY <1>1, <2>2 DEF WriteLoop, WriteEnds, PingFails, WriterRemoves, WriterCloses, eventVars
  <2> QED
    BY <2>1, <2>2
<1>2. ASSUME NEW q \in Callers, HandleEvent(q) PROVE received'[c] = received[c]
  BY <1>2 DEF HandleEvent, BeginScan, EndScan, PassOver, Send, FindSlow, RemoveSlow, CloseSlow,
              eventVars
<1>3. CASE UNCHANGED vars
  BY <1>3 DEF vars, eventVars
<1> QED
  BY <1>1, <1>2, <1>3, ConnectionGap DEF Next, Elsewhere

\* An event reaches a browser only right after the one before it: handleEvent
\* drops no event of a client it does not cut, and the channel keeps the order.
THEOREM EventsArriveWithoutGap == Spec => NoGap
<1>1. ASSUME LineInv, [Next]_vars, NEW c \in Clients, NEW p \in Callers,
             received'[c][p] # received[c][p], received[c][p] # 0
      PROVE  received'[c][p] = received[c][p] + 1
  <2> DEFINE e == Head(channel[c])
             r == received[c][p]
  <2>1. WriteEvent(c) /\ conn[c] = "open"
    BY <1>1, ReceivedByWrite
  <2>2. /\ e[2] \in Numbers /\ Queued(c, e[1], e[2])
        /\ received'[c][p] = IF p = e[1] THEN e[2] ELSE r
        /\ \A n \in Numbers :
             /\ Queued(c, p, n)' => Queued(c, p, n) /\ (p = e[1] => e[2] < n)
             /\ Queued(c, p, n) => Queued(c, p, n)' \/ (p = e[1] /\ n = e[2])
    BY <1>1, <2>1, TakenFromChannel
  <2>3. TypeOK /\ NoneMissing(c, p) /\ r \in Numbers
    BY <1>1, <2>1, GapTypes DEF LineInv, HubInv, GapInv, NoneMissing, WriteEvent
  <2> HIDE DEF e, r
  <2>4. p = e[1] /\ received'[c][p] = e[2] /\ Queued(c, p, e[2])
    BY <1>1, <2>2 DEF r
  <2>5. r < e[2] /\ Known(c, p, r) /\ Known(c, p, e[2])
    BY <1>1, <2>2, <2>3, <2>4 DEF NoneMissing, InOrder, Known, r
  <2>6. ASSUME r + 1 < e[2] PROVE FALSE
    <3>1. r + 1 \in Numbers /\ r < r + 1
      BY <2>2, <2>3, <2>6, HubAssumption DEF Numbers
    <3>2. Known(c, p, r + 1)
      BY <2>2, <2>3, <2>5, <2>6, <3>1 DEF NoneMissing, Unbroken
    <3>3. Queued(c, p, r + 1)
      BY <2>3, <3>2, HubAssumption DEF Known, Numbers, r
    <3>4. e[2] < r + 1
      BY <2>2, <2>4, <2>6, <3>1, <3>3, HubAssumption DEF Numbers
    <3> QED
      BY <2>2, <2>3, <2>6, <3>4, HubAssumption DEF Numbers
  <2>7. e[2] = r + 1
    BY <2>2, <2>3, <2>5, <2>6, HubAssumption DEF Numbers
  <2> QED
    BY <2>4, <2>7 DEF r
<1>2. LineInv /\ [Next]_vars =>
        [\A c \in Clients, p \in Callers :
           received'[c][p] # received[c][p] =>
             received[c][p] = 0 \/ received'[c][p] = received[c][p] + 1]_vars
  BY <1>1
<1> QED
  BY <1>2, LineInit, LineStep, PTL DEF Spec, NoGap

-----------------------------------------------------------------------------
(* Calls. *)

\* Whatever is about a call is about one that somebody dialled.
DialledInv ==
    /\ \A u \in User : dial[u] # NotDialling => from[dial[u].call] \in User
    /\ \A id \in frames : from[id.call] \in User
    /\ \A u \in User : \A id \in incomingCalls[u] : from[id.call] \in User
    /\ \A u \in User : \A a \in asks[u] : from[a.id.call] \in User

\* Of a call that nothing failed for there is one id, that of its first request.
BellInv == \A c \in Call \ failed :
    /\ \A id \in frames : id.call = c => id.nth = 1
    /\ \A u \in User : \A id \in incomingCalls[u] : id.call = c => id.nth = 1
    /\ \A u \in User : dial[u].call = c => dial[u].step \notin {"again", "stored"}

\* Its caller has gone to no other meeting.
WentInv == \A c \in Call \ failed : went[c] \in {0, c}

\* A call is dialled once, by its caller, who goes when it has been, and the frame
\* comes after.
DialOnceInv == \A c \in Call :
    /\ from[c] = "nobody" => went[c] = 0
    /\ \A u \in User : dial[u] # NotDialling /\ dial[u].call = c => from[c] = u /\ went[c] = 0
    /\ \A id \in frames : id.call = c => went[c] # 0

\* A call that nothing failed for has not rung before its first request; while the
\* frame is to come, the bell that has begun is there, unless it was answered; and when
\* the frame has come there is a bell, or an answer, or no page for it.
RingOf(c) ==
    /\ \/ from[c] = "nobody"
       \/ \E u \in User : dial[u].call = c /\ dial[u].step \in {"meeting", "invite"}
       => rings[c] = 0
    /\ c \notin early =>
         /\ rings[c] <= 1
         /\ rings[c] = 1 /\ FrameToCome(c) => IdOf(c, 1) \in incomingCalls[Callee(c)]
    /\ ~FrameToCome(c) => \/ c \in answered \cup absent
                          \/ IdOf(c, 1) \in incomingCalls[Callee(c)]

RingInv == \A c \in Call \ failed : RingOf(c)

CallsInv == CallsTypeOK /\ DialledInv /\ BellInv /\ WentInv /\ DialOnceInv /\ RingInv

\* What every page and every stream of a state that is well-formed has.
LEMMA GoneToRoom ==
  ASSUME CallsTypeOK, NEW u \in User, NEW m \in 1..2 * MaxCalls, NEW as \in User,
         GoToRoom(u, m, as)
  PROVE  /\ page' \in [User -> {"chat", "away", "room"}]
         /\ stream' \in [User -> Nat] /\ shut' \in [User -> BOOLEAN]
         /\ room' \in [User -> [meeting : 0..2 * MaxCalls, as : User]]
         /\ \A v \in User : /\ stream'[v] \in 0..MaxStreams[v]
                            /\ stream'[v] # 0 => page'[v] = "chat"
                            /\ (page'[v] = "room") = (room'[v].meeting # 0)
<1>1. /\ page' = [page EXCEPT ![u] = "room"]
      /\ stream' = [stream EXCEPT ![u] = 0] /\ shut' = [shut EXCEPT ![u] = FALSE]
      /\ room' = [room EXCEPT ![u] = [meeting |-> m, as |-> as]]
  BY DEF GoToRoom
<1>2. /\ page \in [User -> {"chat", "away", "room"}] /\ stream \in [User -> Nat]
      /\ shut \in [User -> BOOLEAN]
      /\ room \in [User -> [meeting : 0..2 * MaxCalls, as : User]]
      /\ \A v \in User : /\ stream[v] \in 0..MaxStreams[v]
                         /\ stream[v] # 0 => page[v] = "chat"
                         /\ (page[v] = "room") = (room[v].meeting # 0)
  BY DEF CallsTypeOK
<1>3. m \in 0..2 * MaxCalls /\ m # 0
  BY CallBounds
<1>4. 0 \in 0..MaxStreams[u]
  BY CallBounds
<1>5. room' \in [User -> [meeting : 0..2 * MaxCalls, as : User]]
  BY <1>1, <1>2, <1>3
<1>6. QED
  BY <1>1, <1>2, <1>3, <1>4, <1>5

\* A notification that is added or taken away.
LEMMA RingTyped ==
  ASSUME CallsTypeOK, NEW id \in InvitationId, NEW v,
         Ring(v, id) \/ UNCHANGED <<incomingCalls, rings>>
  PROVE  incomingCalls' \in [User -> SUBSET InvitationId] /\ rings' \in [Call -> Nat]
BY DEF Ring, CallsTypeOK, InvitationId

LEMMA NoMoreTyped ==
  ASSUME CallsTypeOK, NEW id \in InvitationId, NEW u \in User, RingsNoMore(u, id)
  PROVE  /\ incomingCalls' \in [User -> SUBSET InvitationId]
         /\ answered' \subseteq Call /\ early' \subseteq Call
         /\ UNCHANGED <<rings, absent>>
BY DEF RingsNoMore, CallsTypeOK, InvitationId

LEMMA StreamsType ==
  ASSUME CallsTypeOK, NEW u \in User, Streams(u)
  PROVE  CallsTypeOK'
<1>1. CASE OpenStream(u)
  <2>1. PICK k \in 1..MaxStreams[u] :
          /\ stream' = [stream EXCEPT ![u] = k]
          /\ handlers' = handlers \cup {<<u, k>>}
          /\ sseClients' = [sseClients EXCEPT ![u] = k]
    BY <1>1 DEF OpenStream
  <2>2. k \in Nat /\ k \in 0..MaxStreams[u]
    BY CallBounds
  <2>3. page[u] = "chat" /\ UNCHANGED <<callInvitations, storeVars, page, shut, room, from, dial,
                                        frames, asks, went, failed, ringHistory, callTroubles>>
    BY <1>1 DEF OpenStream
  <2>4. /\ handlers' \subseteq User \X Nat
        /\ stream' \in [User -> Nat] /\ sseClients' \in [User -> Nat]
        /\ \A h \in handlers' : h[2] \in 1..MaxStreams[h[1]]
    BY <2>1, <2>2 DEF CallsTypeOK
  <2>5. \A v \in User :
         /\ {stream'[v], sseClients'[v]} \subseteq 0..MaxStreams[v]
         /\ stream'[v] # 0 => page[v] = "chat"
         /\ sseClients'[v] # 0 => <<v, sseClients'[v]>> \in handlers'
    BY <2>1, <2>2, <2>3 DEF CallsTypeOK
  <2>6. QED
    BY <2>3, <2>4, <2>5 DEF CallsTypeOK, ringHistory, storeVars
<1>2. ASSUME NEW k \in 1..MaxStreams[u], HandlerEnds(u, k) PROVE CallsTypeOK'
  <2>1. /\ handlers' = handlers \ {<<u, k>>}
        /\ sseClients' = [sseClients EXCEPT ![u] = 0]
        /\ stream' = [stream EXCEPT ![u] = IF @ = k THEN 0 ELSE @]
        /\ UNCHANGED <<callInvitations, storeVars, page, shut, room, from, dial, frames, asks,
                       went, failed, ringHistory, callTroubles>>
    BY <1>2 DEF HandlerEnds
  <2>2. 0 \in 0..MaxStreams[u]
    BY CallBounds
  <2>3. /\ handlers' \subseteq User \X Nat
        /\ stream' \in [User -> Nat] /\ sseClients' \in [User -> Nat]
        /\ \A h \in handlers' : h[2] \in 1..MaxStreams[h[1]]
    BY <2>1, <2>2 DEF CallsTypeOK
  <2>4. \A v \in User :
         /\ {stream'[v], sseClients'[v]} \subseteq 0..MaxStreams[v]
         /\ stream'[v] # 0 => page[v] = "chat"
         /\ sseClients'[v] # 0 => <<v, sseClients'[v]>> \in handlers'
    BY <2>1, <2>2 DEF CallsTypeOK
  <2>5. QED
    BY <2>1, <2>3, <2>4 DEF CallsTypeOK, ringHistory, storeVars
<1>3. CASE StreamRefused(u)
  <2>1. /\ shut' = [shut EXCEPT ![u] = TRUE] /\ callTroubles' \in 0..MaxCallTroubles
        /\ UNCHANGED <<callServerVars, storeVars, page, stream, room, from, dial, frames,
                       asks, went, failed, ringHistory>>
    BY <1>3, CallBounds DEF StreamRefused, CallTrouble, CallsTypeOK
  <2>2. QED
    BY <2>1 DEF CallsTypeOK, callServerVars, storeVars, ringHistory
<1>4. CASE StreamBreaks(u)
  <2>1. /\ stream' = [stream EXCEPT ![u] = 0]
        /\ UNCHANGED <<callServerVars, storeVars, page, shut, room, from, dial, frames,
                       asks, went, failed, ringHistory, callTroubles>>
    BY <1>4 DEF StreamBreaks
  <2>2. 0 \in 0..MaxStreams[u]
    BY CallBounds
  <2>3. QED
    BY <2>1, <2>2 DEF CallsTypeOK, callServerVars, storeVars, ringHistory
<1>5. QED
  BY <1>1, <1>2, <1>3, <1>4 DEF Streams

LEMMA PagesAndServerType ==
  ASSUME CallsTypeOK, Restart \/ \E u \in User : LeaveChat(u) \/ BackToChat(u)
  PROVE  CallsTypeOK'
<1>1. CASE Restart
  <2>1. /\ handlers' = {} /\ sseClients' = [u \in User |-> 0] /\ stream' = [u \in User |-> 0]
        /\ callInvitations' = [id \in InvitationId |-> "none"]
        /\ UNCHANGED <<storeVars, page, shut, room, from, dial, frames, asks, went, failed,
                       ringHistory>>
        /\ callTroubles' \in 0..MaxCallTroubles
    BY <1>1, CallBounds DEF Restart, CallTrouble, CallsTypeOK
  <2>2. callInvitations' \in [InvitationId -> Status]
    BY <2>1 DEF Status
  <2>3. \A u \in User : 0 \in 0..MaxStreams[u]
    BY CallBounds
  <2>4. QED
    BY <2>1, <2>2, <2>3 DEF CallsTypeOK, ringHistory, storeVars
<1>2. ASSUME NEW u \in User, LeaveChat(u) PROVE CallsTypeOK'
  <2>1. /\ page' = [page EXCEPT ![u] = "away"] /\ page[u] = "chat"
        /\ stream' = [stream EXCEPT ![u] = 0] /\ shut' = [shut EXCEPT ![u] = FALSE]
        /\ UNCHANGED <<callServerVars, storeVars, room, from, dial, frames, asks, went, failed,
                       ringHistory, callTroubles>>
    BY <1>2 DEF LeaveChat
  <2>2. 0 \in 0..MaxStreams[u]
    BY CallBounds
  <2>3. QED
    BY <2>1, <2>2 DEF CallsTypeOK, ringHistory, storeVars, callServerVars
<1>3. ASSUME NEW u \in User, BackToChat(u) PROVE CallsTypeOK'
  <2>1. /\ page' = [page EXCEPT ![u] = "chat"]
        /\ room' = [room EXCEPT ![u] = Nowhere]
        /\ UNCHANGED <<callServerVars, storeVars, stream, shut, from, dial, frames, asks, went, failed,
                       ringHistory, callTroubles>>
    BY <1>3 DEF BackToChat
  <2>2. Nowhere \in [meeting : 0..2 * MaxCalls, as : User] /\ Nowhere.meeting = 0
    BY CallBounds DEF Nowhere
  <2>3. room' \in [User -> [meeting : 0..2 * MaxCalls, as : User]]
    BY <2>1, <2>2 DEF CallsTypeOK
  <2>4. QED
    BY <2>1, <2>2, <2>3 DEF CallsTypeOK, ringHistory, storeVars, callServerVars
<1>4. QED
  BY <1>1, <1>2, <1>3

LEMMA DiallingType ==
  ASSUME CallsTypeOK, NEW u \in User, Dial(u) \/ Dialling(u)
  PROVE  CallsTypeOK'
<1> DEFINE Step == {"meeting", "invite", "invited", "again", "stored"}
<1>0. /\ dial \in [User -> [call : Call, step : Step] \cup {NotDialling}]
      /\ NotDialling.step = "no" /\ failed \subseteq Call
      /\ went \in [Call -> 0..2 * MaxCalls]
      /\ callTroubles \in 0..MaxCallTroubles /\ MaxCallTroubles \in Nat
  BY CallBounds DEF CallsTypeOK, NotDialling
<1>1. CallTrouble => callTroubles' \in 0..MaxCallTroubles
  BY <1>0 DEF CallTrouble
<1>2. dial[u].step \in Step => dial[u].call \in Call
  BY <1>0
<1>3. ASSUME NEW s \in Step, dial[u].step \in Step, Dialled(u, s)
      PROVE  dial' \in [User -> [call : Call, step : Step] \cup {NotDialling}]
  <2>1. [dial[u] EXCEPT !.step = s] \in [call : Call, step : Step]
    BY <1>0, <1>3
  <2>2. QED
    BY <1>0, <1>3, <2>1 DEF Dialled
<1>4. CASE Dial(u)
  <2>1. PICK c \in Call : /\ from' = [from EXCEPT ![c] = u]
                          /\ dial' = [dial EXCEPT ![u] = [call |-> c, step |-> "meeting"]]
    BY <1>4 DEF Dial
  <2>2. /\ outgoing' = [outgoing EXCEPT ![u] = TRUE]
        /\ UNCHANGED <<callServerVars, incomingCalls, activeCall, pageVars, frames, asks, went,
                       failed, ringHistory, callTroubles>>
    BY <1>4 DEF Dial
  <2>3. dial' \in [User -> [call : Call, step : Step] \cup {NotDialling}]
    BY <1>0, <2>1
  <2>4. from' \in [Call -> User \cup {"nobody"}] /\ outgoing' \in [User -> BOOLEAN]
    BY <2>1, <2>2 DEF CallsTypeOK
  <2>5. QED
    BY <2>2, <2>3, <2>4 DEF CallsTypeOK, ringHistory, callServerVars, pageVars
<1>5. CASE MeetingMade(u)
  <2>1. /\ dial' \in [User -> [call : Call, step : Step] \cup {NotDialling}]
        /\ UNCHANGED <<callServerVars, storeVars, pageVars, from, frames, asks, went, failed,
                       ringHistory, callTroubles>>
    BY <1>3, <1>5 DEF MeetingMade
  <2>2. QED
    BY <2>1 DEF CallsTypeOK, ringHistory, callServerVars, pageVars, storeVars
<1>6. CASE InviteHandled(u)
  <2>1. PICK id \in InvitationId : \E v \in {Callee(dial[u].call)} :
          /\ callInvitations' = [callInvitations EXCEPT ![id] = "pending"]
          /\ Ring(v, id) \/ UNCHANGED <<incomingCalls, rings>>
    <3>1. \A n \in {1, 2} : IdOf(dial[u].call, n) \in InvitationId
      BY <1>2, <1>6 DEF InviteHandled, IdOf, InvitationId
    <3>2. QED
      BY <1>6, <3>1 DEF InviteHandled
  <2>2. /\ dial' \in [User -> [call : Call, step : Step] \cup {NotDialling}]
        /\ UNCHANGED <<handlers, sseClients, outgoing, activeCall, pageVars, from, frames, asks,
                       went, failed, answered, early, absent, callTroubles>>
    BY <1>3, <1>6 DEF InviteHandled
  <2>3. callInvitations' \in [InvitationId -> Status]
    BY <2>1 DEF CallsTypeOK, Status
  <2>4. incomingCalls' \in [User -> SUBSET InvitationId] /\ rings' \in [Call -> Nat]
    BY <2>1, RingTyped
  <2>5. QED
    BY <2>2, <2>3, <2>4 DEF CallsTypeOK, pageVars
<1>7. CASE InviteFails(u)
  <2>1. /\ dial' \in [User -> [call : Call, step : Step] \cup {NotDialling}]
        /\ failed' \subseteq Call /\ callTroubles' \in 0..MaxCallTroubles
        /\ UNCHANGED <<callServerVars, storeVars, pageVars, from, frames, asks, went, ringHistory>>
    BY <1>0, <1>1, <1>2, <1>3, <1>7 DEF InviteFails
  <2>2. QED
    BY <2>1 DEF CallsTypeOK, ringHistory, callServerVars, pageVars, storeVars
<1>8. CASE Fallback(u)
  <2>1. Alone(dial[u].call) \in 1..2 * MaxCalls /\ Alone(dial[u].call) \in 0..2 * MaxCalls
    BY <1>2, <1>8, CallBounds DEF Fallback, Alone, Call
  <2>2. /\ dial' = [dial EXCEPT ![u] = NotDialling]
        /\ failed' \subseteq Call /\ callTroubles' \in 0..MaxCallTroubles
        /\ GoToRoom(u, Alone(dial[u].call), u)
        /\ outgoing' = [outgoing EXCEPT ![u] = FALSE]
        /\ went' = [went EXCEPT ![dial[u].call] = Alone(dial[u].call)]
        /\ UNCHANGED <<callServerVars, incomingCalls, activeCall, from, frames, asks, ringHistory>>
    BY <1>0, <1>1, <1>2, <1>8 DEF Fallback
  <2>3. went' \in [Call -> 0..2 * MaxCalls]
    BY <1>0, <2>1, <2>2
  <2>4. dial' \in [User -> [call : Call, step : Step] \cup {NotDialling}]
    BY <1>0, <2>2
  <2>5. outgoing' \in [User -> BOOLEAN]
    BY <2>2 DEF CallsTypeOK
  <2>6. QED
    BY <2>1, <2>2, <2>3, <2>4, <2>5, GoneToRoom DEF CallsTypeOK, ringHistory,
       callServerVars
<1>9. CASE Go(u)
  <2>1. dial[u].call \in Call /\ MeetingDialled(u) \in 1..2 * MaxCalls
    BY <1>2, <1>9, CallBounds DEF Go, MeetingDialled, Call
  <2>2. FrameId(u) \in InvitationId
    BY <2>1 DEF FrameId, IdOf, InvitationId
  <2>3. frames' \subseteq InvitationId /\ failed' \subseteq Call
        /\ callTroubles' \in 0..MaxCallTroubles
    BY <1>0, <1>1, <1>9, <2>1, <2>2 DEF Go, CallsTypeOK
  <2>4. /\ dial' = [dial EXCEPT ![u] = NotDialling]
        /\ GoToRoom(u, MeetingDialled(u), u)
        /\ went' = [went EXCEPT ![dial[u].call] = MeetingDialled(u)]
        /\ UNCHANGED <<callServerVars, storeVars, from, asks, ringHistory>>
    BY <1>9 DEF Go
  <2>5. /\ dial' \in [User -> [call : Call, step : Step] \cup {NotDialling}]
        /\ went' \in [Call -> 0..2 * MaxCalls]
    BY <1>0, <2>1, <2>4
  <2>6. QED
    BY <2>1, <2>3, <2>4, <2>5, GoneToRoom DEF CallsTypeOK, ringHistory, callServerVars,
       storeVars
<1>10. QED
  BY <1>4, <1>5, <1>6, <1>7, <1>8, <1>9 DEF Dialling

LEMMA FrameType ==
  ASSUME CallsTypeOK, NEW id \in frames, FrameArrives(id)
  PROVE  CallsTypeOK'
<1>1. /\ frames' = frames \ {id} /\ id \in InvitationId /\ id.call \in Call
      /\ Ring(Callee(id.call), id) \/ UNCHANGED <<incomingCalls, rings>>
      /\ absent' \subseteq absent \cup {id.call}
      /\ UNCHANGED <<callServerVars, outgoing, activeCall, pageVars, from, dial, asks, went,
                     failed, answered, early, callTroubles>>
  BY DEF FrameArrives, CallsTypeOK, InvitationId
<1>2. incomingCalls' \in [User -> SUBSET InvitationId] /\ rings' \in [Call -> Nat]
  BY <1>1, RingTyped
<1>3. QED
  BY <1>1, <1>2 DEF CallsTypeOK, callServerVars, pageVars

LEMMA AnswersType ==
  ASSUME CallsTypeOK, NEW u \in User, NEW verb \in Verb, NEW id \in incomingCalls[u],
         Answer(u, verb, id)
  PROVE  CallsTypeOK'
<1>1. /\ asks' = [asks EXCEPT ![u] = @ \cup {[verb |-> verb, id |-> id, state |-> "sent"]}]
      /\ UNCHANGED <<callServerVars, storeVars, pageVars, from, dial, frames, went, failed,
                     ringHistory, callTroubles>>
  BY DEF Answer
<1>2. [verb |-> verb, id |-> id, state |-> "sent"] \in AskType
  BY DEF AskType, CallsTypeOK
<1>3. asks' \in [User -> SUBSET AskType]
  BY <1>1, <1>2 DEF CallsTypeOK
<1>4. QED
  BY <1>1, <1>3 DEF CallsTypeOK, ringHistory, callServerVars, storeVars, pageVars

LEMMA BecomesType ==
  ASSUME CallsTypeOK, NEW u \in User, NEW a \in asks[u], NEW s \in {"sent", "ok", "failed"},
         Becomes(u, a, s)
  PROVE  /\ asks' \in [User -> SUBSET AskType]
         /\ \A v \in User : \A b \in asks'[v] : \E d \in asks[v] : d.id = b.id
<1>1. asks \in [User -> SUBSET AskType] /\ a \in AskType
  BY DEF CallsTypeOK
<1>2. [a EXCEPT !.state = s] \in AskType /\ [a EXCEPT !.state = s].id = a.id
  BY <1>1 DEF AskType
<1>3. asks' = [asks EXCEPT ![u] = (@ \ {a}) \cup {[a EXCEPT !.state = s]}]
  BY DEF Becomes
<1>4. QED
  BY <1>1, <1>2, <1>3

LEMMA AnsweringType ==
  ASSUME CallsTypeOK, NEW u \in User, NEW a \in asks[u], from[a.id.call] \in User,
         \/ AnswerHandled(u, a) \/ AnswerLost(u, a)
         \/ Accepted(u, a) \/ AcceptFailed(u, a) \/ Rejected(u, a)
  PROVE  CallsTypeOK'
<1>0. /\ asks \in [User -> SUBSET AskType] /\ a.verb \in {"accept", "reject"}
      /\ a.id \in InvitationId /\ a.id.call \in Call
  BY DEF CallsTypeOK, AskType, Verb, InvitationId
<1>1. CASE AnswerHandled(u, a)
  <2>1. asks' \in [User -> SUBSET AskType]
    BY <1>1, BecomesType DEF AnswerHandled
  <2>2. callInvitations' \in [InvitationId -> Status]
    BY <1>0, <1>1 DEF AnswerHandled, CallsTypeOK, Status
  <2>3. outgoing' \in [User -> BOOLEAN]
    BY <1>1 DEF AnswerHandled, CallsTypeOK
  <2>4. UNCHANGED <<handlers, sseClients, incomingCalls, activeCall, pageVars, from, dial,
                    frames, went, failed, ringHistory, callTroubles>>
    BY <1>1 DEF AnswerHandled
  <2>5. QED
    BY <2>1, <2>2, <2>3, <2>4 DEF CallsTypeOK, ringHistory, pageVars
<1>2. CASE AnswerLost(u, a)
  <2>1. asks' \in [User -> SUBSET AskType]
    BY <1>2, BecomesType DEF AnswerLost
  <2>2. callTroubles' \in 0..MaxCallTroubles
    BY <1>2, CallBounds DEF AnswerLost, CallTrouble, CallsTypeOK
  <2>3. UNCHANGED <<callServerVars, storeVars, pageVars, from, dial, frames, went, failed,
                    ringHistory>>
    BY <1>2 DEF AnswerLost
  <2>4. QED
    BY <2>1, <2>2, <2>3 DEF CallsTypeOK, ringHistory, callServerVars, storeVars, pageVars
<1>3. CASE Accepted(u, a)
  <2>1. /\ asks' = [asks EXCEPT ![u] = @ \ {a}]
        /\ RingsNoMore(u, a.id)
        /\ activeCall' = [activeCall EXCEPT ![u] = @ \/ a.id \in incomingCalls[u]]
        /\ GoToRoom(u, a.id.call, from[a.id.call])
        /\ UNCHANGED <<callServerVars, outgoing, from, dial, frames, went, failed,
                       callTroubles>>
    BY <1>3 DEF Accepted, TokenIdentity
  <2>2. a.id.call \in 1..2 * MaxCalls
    BY <1>0, CallBounds DEF Call
  <2>3. /\ asks' \in [User -> SUBSET AskType]
        /\ incomingCalls' \in [User -> SUBSET InvitationId]
        /\ answered' \subseteq Call /\ early' \subseteq Call /\ UNCHANGED <<rings, absent>>
    BY <1>0, <2>1, NoMoreTyped DEF CallsTypeOK
  <2>4. activeCall' \in [User -> BOOLEAN]
    <3>1. (activeCall[u] \/ a.id \in incomingCalls[u]) \in BOOLEAN
      OBVIOUS
    <3>2. QED
      BY <2>1, <3>1 DEF CallsTypeOK, ringHistory
  <2>5. QED
    BY <2>1, <2>2, <2>3, <2>4, GoneToRoom DEF CallsTypeOK, ringHistory, callServerVars
<1>4. CASE AcceptFailed(u, a)
  <2>1. /\ asks' = [asks EXCEPT ![u] = @ \ {a}]
        /\ UNCHANGED <<callServerVars, storeVars, pageVars, from, dial, frames, went, failed,
                       ringHistory, callTroubles>>
    BY <1>4 DEF AcceptFailed
  <2>2. asks' \in [User -> SUBSET AskType]
    BY <1>0, <2>1
  <2>3. QED
    BY <2>1, <2>2 DEF CallsTypeOK, ringHistory, callServerVars, storeVars, pageVars
<1>5. CASE Rejected(u, a)
  <2>1. /\ asks' = [asks EXCEPT ![u] = @ \ {a}]
        /\ RingsNoMore(u, a.id)
        /\ UNCHANGED <<callServerVars, outgoing, activeCall, pageVars, from, dial, frames, went,
                       failed, callTroubles>>
    BY <1>5 DEF Rejected
  <2>2. /\ asks' \in [User -> SUBSET AskType]
        /\ incomingCalls' \in [User -> SUBSET InvitationId]
        /\ answered' \subseteq Call /\ early' \subseteq Call /\ UNCHANGED <<rings, absent>>
    BY <1>0, <2>1, NoMoreTyped DEF CallsTypeOK
  <2>3. QED
    BY <2>1, <2>2 DEF CallsTypeOK, ringHistory, callServerVars, pageVars
<1>6. QED
  BY <1>1, <1>2, <1>3, <1>4, <1>5

LEMMA CallsTypeStep ==
  ASSUME CallsInv, CallsNext \/ UNCHANGED callsVars
  PROVE  CallsTypeOK'
<1>1. CASE UNCHANGED callsVars
  BY <1>1 DEF CallsInv, CallsTypeOK, callsVars, callServerVars, storeVars, pageVars,
              ringHistory
<1>2. \A u \in User : \A a \in asks[u] : from[a.id.call] \in User
  BY DEF CallsInv, DialledInv
<1>3. QED
  BY <1>1, <1>2, StreamsType, PagesAndServerType, DiallingType, FrameType, AnswersType,
     AnsweringType
  DEF CallsInv, CallsNext

\* What any step may do to what the invariants are about: the ids it makes are of the
\* call that is being dialled, and the first request's unless something of it failed.
Ringing == frames \cup UNION {incomingCalls[u] : u \in User}

IdsStep == \A id \in Ringing' :
    \/ id \in Ringing
    \/ \E u \in User : /\ dial[u].call = id.call /\ dial[u] # NotDialling
                       /\ dial[u].step \in {"again", "stored"} \/ id.nth = 1

DialStep == \A u \in User :
    \/ dial'[u] \in {dial[u], NotDialling}
    \/ dial'[u].step = "meeting" /\ from'[dial'[u].call] \in User
    \/ /\ dial'[u].call = dial[u].call /\ dial[u] # NotDialling
       /\ \/ dial'[u].step \notin {"again", "stored"}
          \/ dial[u].step = "again" \/ dial[u].call \in failed'

AsksStep == \A u \in User : \A a \in asks'[u] :
    a.id \in incomingCalls[u] \/ \E b \in asks[u] : b.id = a.id

WentStep == \A c \in Call : went'[c] \in {went[c], c} \/ c \in failed'

HistoryStep ==
    /\ failed \subseteq failed'
    /\ \A c \in Call : from[c] \in User => from'[c] \in User

CallStep == IdsStep /\ DialStep /\ AsksStep /\ WentStep /\ HistoryStep

LEMMA QuietCallStep ==
  ASSUME CallsTypeOK, UNCHANGED <<from, dial, frames, asks, incomingCalls, went>>,
         failed \subseteq failed'
  PROVE  CallStep
BY DEF CallStep, IdsStep, Ringing, DialStep, AsksStep, WentStep, HistoryStep

LEMMA DiallingCallStep ==
  ASSUME CallsTypeOK, NEW u \in User, Dial(u) \/ Dialling(u)
  PROVE  CallStep
<1>0. /\ dial \in [User -> [call : Call, step : {"meeting", "invite", "invited",
                                                 "again", "stored"}] \cup {NotDialling}]
      /\ NotDialling.step = "no" /\ from \in [Call -> User \cup {"nobody"}]
      /\ went \in [Call -> 0..2 * MaxCalls] /\ incomingCalls \in [User -> SUBSET InvitationId]
  BY DEF CallsTypeOK, NotDialling
<1>1. AsksStep
  BY DEF AsksStep, Dial, Dialling, MeetingMade, InviteHandled, InviteFails, Fallback, Go
<1>2. CASE Dial(u)
  <2>1. PICK c \in Call : /\ from' = [from EXCEPT ![c] = u]
                          /\ dial' = [dial EXCEPT ![u] = [call |-> c, step |-> "meeting"]]
    BY <1>2 DEF Dial
  <2>2. UNCHANGED <<incomingCalls, frames, asks, went, failed>>
    BY <1>2 DEF Dial
  <2>3. DialStep /\ HistoryStep
    BY <1>0, <2>1, <2>2 DEF DialStep, HistoryStep
  <2>4. QED
    BY <1>1, <2>2, <2>3 DEF CallStep, IdsStep, Ringing, WentStep
<1>3. CASE MeetingMade(u)
  <2>1. /\ dial[u].step = "meeting" /\ dial' = [dial EXCEPT ![u].step = "invite"]
        /\ UNCHANGED <<from, incomingCalls, frames, asks, went, failed>>
    BY <1>3 DEF MeetingMade, Dialled, storeVars
  <2>2. DialStep /\ HistoryStep
    BY <1>0, <2>1 DEF DialStep, HistoryStep
  <2>3. QED
    BY <1>1, <2>1, <2>2 DEF CallStep, IdsStep, Ringing, WentStep
<1>4. CASE InviteHandled(u)
  <2>1. PICK n \in {1, 2} :
          /\ n = 2 => dial[u].step = "again"
          /\ \E v : incomingCalls' \in {incomingCalls,
                      [incomingCalls EXCEPT ![v] = @ \cup {IdOf(dial[u].call, n)}]}
    <3>1. LET id == IdOf(dial[u].call, IF dial[u].step = "invite" THEN 1 ELSE 2)
          IN  \E v : incomingCalls' \in {incomingCalls, [incomingCalls EXCEPT ![v] = @ \cup {id}]}
      BY <1>4 DEF InviteHandled, Ring
    <3>2. CASE dial[u].step = "invite"
      BY <3>1, <3>2
    <3>3. CASE dial[u].step = "again"
      BY <3>1, <3>3
    <3>4. QED
      BY <1>4, <3>2, <3>3 DEF InviteHandled
  <2>2. /\ dial[u].step \in {"invite", "again"}
        /\ dial' = [dial EXCEPT ![u].step = IF dial[u].step = "invite" THEN "invited"
                                            ELSE "stored"]
        /\ UNCHANGED <<from, frames, asks, went, failed>>
    BY <1>4 DEF InviteHandled, Dialled
  <2>3. DialStep /\ HistoryStep
    BY <1>0, <2>2 DEF DialStep, HistoryStep
  <2>4. \A id \in Ringing' : id \in Ringing \/ id = IdOf(dial[u].call, n)
    BY <1>0, <2>1, <2>2 DEF Ringing
  <2>5. IdsStep
    BY <1>0, <2>1, <2>2, <2>4 DEF IdsStep, IdOf
  <2>6. QED
    BY <1>1, <2>2, <2>3, <2>5 DEF CallStep, WentStep
<1>5. CASE InviteFails(u)
  <2>1. /\ dial[u].step \in {"invite", "invited"} /\ dial' = [dial EXCEPT ![u].step = "again"]
        /\ failed' = failed \cup {dial[u].call}
        /\ UNCHANGED <<from, incomingCalls, frames, asks, went>>
    BY <1>5 DEF InviteFails, Dialled, storeVars
  <2>2. DialStep /\ HistoryStep
    BY <1>0, <2>1 DEF DialStep, HistoryStep
  <2>3. QED
    BY <1>1, <2>1, <2>2 DEF CallStep, IdsStep, Ringing, WentStep
<1>6. CASE Fallback(u)
  <2>1. /\ dial' = [dial EXCEPT ![u] = NotDialling]
        /\ failed' = failed \cup {dial[u].call}
        /\ went' = [went EXCEPT ![dial[u].call] = Alone(dial[u].call)]
        /\ UNCHANGED <<from, incomingCalls, frames, asks>>
    BY <1>6 DEF Fallback
  <2>2. DialStep /\ HistoryStep /\ WentStep
    BY <1>0, <2>1 DEF DialStep, HistoryStep, WentStep
  <2>3. QED
    BY <1>1, <2>1, <2>2 DEF CallStep, IdsStep, Ringing
<1>7. CASE Go(u)
  <2>1. /\ dial[u].step \in {"invited", "stored"} /\ dial' = [dial EXCEPT ![u] = NotDialling]
        /\ went' = [went EXCEPT ![dial[u].call] = dial[u].call]
        /\ frames' \in {frames, frames \cup {FrameId(u)}} /\ failed \subseteq failed'
        /\ UNCHANGED <<from, incomingCalls, asks>>
    BY <1>7 DEF Go, MeetingDialled, storeVars
  <2>2. DialStep /\ HistoryStep /\ WentStep
    BY <1>0, <2>1 DEF DialStep, HistoryStep, WentStep
  <2>3. FrameId(u).call = dial[u].call /\ (dial[u].step = "invited" => FrameId(u).nth = 1)
    BY DEF FrameId, IdOf
  <2>4. \A id \in Ringing' : id \in Ringing \/ id = FrameId(u)
    BY <2>1 DEF Ringing
  <2>5. IdsStep
    BY <1>0, <2>1, <2>3, <2>4 DEF IdsStep
  <2>6. QED
    BY <1>1, <2>2, <2>5 DEF CallStep
<1>8. QED
  BY <1>2, <1>3, <1>4, <1>5, <1>6, <1>7 DEF Dialling

LEMMA FrameCallStep ==
  ASSUME CallsTypeOK, NEW id \in frames, FrameArrives(id)
  PROVE  CallStep
<1>1. /\ frames' = frames \ {id} /\ incomingCalls \in [User -> SUBSET InvitationId]
      /\ incomingCalls' \in {incomingCalls,
                             [incomingCalls EXCEPT ![Callee(id.call)] = @ \cup {id}]}
      /\ UNCHANGED <<from, dial, asks, went, failed>>
  BY DEF FrameArrives, Ring, CallsTypeOK
<1>2. \A i \in Ringing' : i \in Ringing
  BY <1>1 DEF Ringing
<1>3. QED
  BY <1>1, <1>2 DEF CallStep, IdsStep, DialStep, AsksStep, WentStep, HistoryStep

LEMMA AnswersCallStep ==
  ASSUME CallsTypeOK, NEW u \in User, NEW verb \in Verb, NEW id \in incomingCalls[u],
         Answer(u, verb, id)
  PROVE  CallStep
<1>1. /\ asks' = [asks EXCEPT ![u] = @ \cup {[verb |-> verb, id |-> id, state |-> "sent"]}]
      /\ asks \in [User -> SUBSET AskType]
      /\ UNCHANGED <<incomingCalls, from, dial, frames, went, failed>>
  BY DEF Answer, storeVars, CallsTypeOK
<1>2. AsksStep
  BY <1>1 DEF AsksStep
<1>3. QED
  BY <1>1, <1>2 DEF CallStep, IdsStep, Ringing, DialStep, WentStep, HistoryStep

LEMMA AnsweringCallStep ==
  ASSUME CallsTypeOK, NEW u \in User, NEW a \in asks[u],
         \/ AnswerHandled(u, a) \/ AnswerLost(u, a)
         \/ Accepted(u, a) \/ AcceptFailed(u, a) \/ Rejected(u, a)
  PROVE  CallStep
<1>0. asks \in [User -> SUBSET AskType] /\ incomingCalls \in [User -> SUBSET InvitationId]
  BY DEF CallsTypeOK
<1>1. UNCHANGED <<from, dial, frames, went, failed>>
  BY DEF AnswerHandled, AnswerLost, Accepted, AcceptFailed, Rejected
<1>2. AsksStep
  <2>1. CASE AnswerHandled(u, a) \/ AnswerLost(u, a)
    <3>1. \A v \in User : \A b \in asks'[v] : \E d \in asks[v] : d.id = b.id
      BY <2>1, BecomesType DEF AnswerHandled, AnswerLost
    <3>2. QED
      BY <3>1 DEF AsksStep
  <2>2. CASE Accepted(u, a) \/ AcceptFailed(u, a) \/ Rejected(u, a)
    BY <1>0, <2>2 DEF AsksStep, Accepted, AcceptFailed, Rejected
  <2>3. QED
    BY <2>1, <2>2
<1>3. \A v \in User : incomingCalls'[v] \subseteq incomingCalls[v]
  BY <1>0 DEF AnswerHandled, AnswerLost, Accepted, AcceptFailed, Rejected, RingsNoMore,
              storeVars
<1>4. \A i \in Ringing' : i \in Ringing
  BY <1>1, <1>3 DEF Ringing
<1>5. QED
  BY <1>1, <1>2, <1>4 DEF CallStep, IdsStep, DialStep, WentStep, HistoryStep

LEMMA AnyCallStep ==
  ASSUME CallsTypeOK, CallsNext \/ UNCHANGED callsVars
  PROVE  CallStep
<1>1. CASE UNCHANGED callsVars \/ Restart
  BY <1>1, QuietCallStep DEF callsVars, storeVars, Restart
<1>2. ASSUME NEW u \in User, Streams(u) \/ LeaveChat(u) \/ BackToChat(u) PROVE CallStep
  BY <1>2, QuietCallStep
  DEF Streams, OpenStream, StreamRefused, StreamBreaks, HandlerEnds, LeaveChat,
      BackToChat,
      storeVars
<1>3. QED
  BY <1>1, <1>2, DiallingCallStep, FrameCallStep, AnswersCallStep, AnsweringCallStep
  DEF CallsNext

\* A call is dialled once.
LEMMA DialOnceStep ==
  ASSUME CallsInv, CallsNext \/ UNCHANGED callsVars
  PROVE  DialOnceInv'
<1>0. /\ dial \in [User -> [call : Call, step : {"meeting", "invite", "invited",
                                                 "again", "stored"}] \cup {NotDialling}]
      /\ NotDialling.step = "no" /\ NotDialling.call = 0 /\ 0 \notin Call
      /\ from \in [Call -> User \cup {"nobody"}] /\ went \in [Call -> 0..2 * MaxCalls]
      /\ frames \subseteq InvitationId /\ DialOnceInv
      /\ \A u \in User : dial[u] # NotDialling => from[dial[u].call] \in User
  BY DEF CallsInv, CallsTypeOK, NotDialling, Call, DialledInv
<1>1. ASSUME UNCHANGED <<from, dial, went>>, frames' \subseteq frames PROVE DialOnceInv'
  BY <1>0, <1>1 DEF DialOnceInv
<1>2. CASE UNCHANGED callsVars \/ Restart \/ \E id \in frames : FrameArrives(id)
  BY <1>1, <1>2 DEF callsVars, Restart, FrameArrives
<1>3. ASSUME NEW u \in User, Streams(u) \/ LeaveChat(u) \/ BackToChat(u)
                             \/ \E verb \in Verb, id \in incomingCalls[u] : Answer(u, verb, id)
      PROVE  DialOnceInv'
  BY <1>1, <1>3
  DEF Streams, OpenStream, StreamRefused, StreamBreaks, HandlerEnds, LeaveChat,
      BackToChat,
      Answer
<1>4. ASSUME NEW u \in User, NEW a \in asks[u],
             \/ AnswerHandled(u, a) \/ AnswerLost(u, a)
             \/ Accepted(u, a) \/ AcceptFailed(u, a) \/ Rejected(u, a)
      PROVE  DialOnceInv'
  BY <1>1, <1>4 DEF AnswerHandled, AnswerLost, Accepted, AcceptFailed, Rejected
<1>5. ASSUME NEW u \in User, Dial(u) PROVE DialOnceInv'
  <2>1. PICK c \in Call : /\ from[c] = "nobody" /\ from' = [from EXCEPT ![c] = u]
                          /\ dial' = [dial EXCEPT ![u] = [call |-> c, step |-> "meeting"]]
    BY <1>5 DEF Dial
  <2>2. UNCHANGED <<frames, went>> /\ "nobody" \notin User
    BY <1>5, CallBounds DEF Dial
  <2>3. QED
    BY <1>0, <2>1, <2>2 DEF DialOnceInv
<1>6. ASSUME NEW u \in User, MeetingMade(u) \/ InviteHandled(u) \/ InviteFails(u)
      PROVE  DialOnceInv'
  <2>1. /\ dial[u].step # "no" /\ UNCHANGED <<from, frames, went>>
        /\ \E s \in {"invite", "invited", "again", "stored"} :
             dial' = [dial EXCEPT ![u].step = s]
    BY <1>6 DEF MeetingMade, InviteHandled, InviteFails, Dialled
  <2>2. \A v \in User : dial'[v].call = dial[v].call
                        /\ (dial'[v] # NotDialling => dial[v] # NotDialling)
    BY <1>0, <2>1
  <2>3. QED
    BY <1>0, <2>1, <2>2 DEF DialOnceInv
<1>7. ASSUME NEW u \in User, Fallback(u) \/ Go(u) PROVE DialOnceInv'
  <2>1. PICK m \in Nat \ {0} :
          /\ dial[u].step # "no" /\ dial' = [dial EXCEPT ![u] = NotDialling]
          /\ went' = [went EXCEPT ![dial[u].call] = m] /\ from' = from
          /\ frames' \in {frames, frames \cup {FrameId(u)}}
    <3>1. dial[u].call \in Call
      BY <1>0, <1>7 DEF Fallback, Go
    <3>2. dial[u].call \in Nat \ {0} /\ Alone(dial[u].call) \in Nat \ {0}
      BY <3>1, CallBounds DEF Call, Alone
    <3>3. QED
      BY <1>7, <3>1, <3>2 DEF Fallback, Go, MeetingDialled
  <2>2. FrameId(u).call = dial[u].call /\ from[dial[u].call] = u /\ dial[u].call \in Call
    BY <1>0, <2>1 DEF FrameId, IdOf, DialOnceInv
  <2>3. ASSUME NEW c \in Call, from'[c] = "nobody" PROVE went'[c] = 0
    BY <1>0, <2>1, <2>2, <2>3, CallBounds DEF DialOnceInv
  <2>4. ASSUME NEW v \in User, dial'[v] # NotDialling, NEW c \in Call, dial'[v].call = c
        PROVE  from'[c] = v /\ went'[c] = 0
    <3>1. v # u /\ dial[v] = dial'[v] /\ from[c] = v
      BY <1>0, <2>1, <2>4 DEF DialOnceInv
    <3>2. went'[c] = went[c]
      BY <1>0, <2>1, <2>2, <3>1
    <3>3. QED
      BY <1>0, <2>1, <2>4, <3>1, <3>2 DEF DialOnceInv
  <2>5. ASSUME NEW c \in Call, NEW i \in frames', i.call = c PROVE went'[c] # 0
    BY <1>0, <2>1, <2>2, <2>5 DEF DialOnceInv
  <2>6. QED
    BY <2>3, <2>4, <2>5 DEF DialOnceInv
<1>8. QED
  BY <1>2, <1>3, <1>4, <1>5, <1>6, <1>7 DEF CallsNext, Dialling

\* The conversation has two members.
LEMMA OtherIs == \A u \in User : Other(u) \in User /\ Other(u) # u
<1> SUFFICES ASSUME NEW u \in User, \A v \in User : v = u PROVE FALSE
  BY DEF Other
<1>1. User \subseteq {u} /\ IsFiniteSet({u}) /\ Cardinality({u}) = 1
  BY FS_Singleton
<1>2. Cardinality(User) <= 1 /\ Cardinality(User) = 2
  BY <1>1, FS_Subset, CallBounds
<1>3. QED
  BY <1>2

\* A call that a step leaves alone.
LEMMA RingLeft ==
  ASSUME CallsTypeOK, NEW c \in Call, RingOf(c),
         from'[c] = from[c], went'[c] = went[c], rings'[c] = rings[c],
         \A u \in User : dial'[u].call = c /\ dial'[u].step \in {"meeting", "invite"} =>
                            dial[u].call = c /\ dial[u].step \in {"meeting", "invite"},
         c \in early => c \in early', c \in answered \cup absent => c \in (answered \cup absent)',
         FrameToCome(c)' <=> FrameToCome(c),
         \/ from[c] = "nobody" /\ FrameToCome(c)
         \/ IdOf(c, 1) \in incomingCalls[Callee(c)] =>
              IdOf(c, 1) \in incomingCalls'[Callee(c)]
  PROVE  RingOf(c)'
BY DEF RingOf, Callee

LEMMA RingQuietStep ==
  ASSUME CallsInv, UNCHANGED <<from, dial, frames, incomingCalls, went, rings>>,
         failed \subseteq failed', early \subseteq early', answered \subseteq answered',
         absent \subseteq absent'
  PROVE  RingInv'
BY DEF CallsInv, RingInv, RingOf, FrameToCome, Callee

LEMMA RingDialStep ==
  ASSUME CallsInv, NEW u \in User, Dial(u) \/ Dialling(u)
  PROVE  RingInv'
<1>0. /\ CallsTypeOK /\ RingInv /\ DialOnceInv /\ BellInv /\ DialledInv
      /\ dial \in [User -> [call : Call, step : {"meeting", "invite", "invited",
                                                 "again", "stored"}] \cup {NotDialling}]
      /\ NotDialling.step = "no" /\ NotDialling.call = 0 /\ 0 \notin Call
      /\ from \in [Call -> User \cup {"nobody"}] /\ went \in [Call -> 0..2 * MaxCalls]
      /\ frames \subseteq InvitationId /\ rings \in [Call -> Nat]
      /\ incomingCalls \in [User -> SUBSET InvitationId] /\ failed \subseteq Call
  <2>1. CallsTypeOK /\ RingInv /\ DialOnceInv /\ BellInv /\ DialledInv
    BY DEF CallsInv
  <2>2. NotDialling.step = "no" /\ NotDialling.call = 0 /\ 0 \notin Call
    BY DEF NotDialling, Call
  <2>3. QED
    BY <2>1, <2>2 DEF CallsTypeOK
<1>1. CASE Dial(u)
  <2>1. PICK d \in Call : /\ from[d] = "nobody" /\ from' = [from EXCEPT ![d] = u]
                          /\ dial' = [dial EXCEPT ![u] = [call |-> d, step |-> "meeting"]]
    BY <1>1 DEF Dial
  <2>2. UNCHANGED <<incomingCalls, frames, went, failed, rings, answered, early, absent>>
    BY <1>1 DEF Dial, ringHistory
  <2>3. ASSUME NEW c \in Call \ failed PROVE RingOf(c)'
    <3>1. RingOf(c) /\ (FrameToCome(c)' <=> FrameToCome(c))
      BY <1>0, <2>2 DEF RingInv, FrameToCome
    <3>2. CASE c = d
      <4>1. rings[c] = 0 /\ FrameToCome(c)
        BY <1>0, <2>1, <3>1, <3>2 DEF RingOf, DialOnceInv, FrameToCome
      <4>2. QED
        BY <2>2, <3>1, <4>1 DEF RingOf
    <3>3. CASE c # d
      <4>1. from'[c] = from[c] /\ \A v \in User :
              dial'[v].call = c => dial[v].call = c /\ dial'[v].step = dial[v].step
        BY <1>0, <2>1, <3>3
      <4>2. QED
        BY <1>0, <2>2, <3>1, <4>1, RingLeft
    <3>4. QED
      BY <3>2, <3>3
  <2>4. QED
    BY <2>2, <2>3 DEF RingInv
<1>2. CASE MeetingMade(u)
  <2>1. /\ dial[u].step = "meeting" /\ dial' = [dial EXCEPT ![u].step = "invite"]
        /\ UNCHANGED <<from, incomingCalls, frames, went, failed, rings, answered, early, absent>>
    BY <1>2 DEF MeetingMade, Dialled, storeVars, ringHistory
  <2>2. \A v \in User : /\ dial'[v].call = dial[v].call
                        /\ dial'[v].step \in {"meeting", "invite"} =>
                             dial[v].step \in {"meeting", "invite"}
    BY <1>0, <2>1
  <2>3. \A c \in Call : FrameToCome(c)' <=> FrameToCome(c)
    BY <2>1 DEF FrameToCome
  <2>4. QED
    BY <1>0, <2>1, <2>2, <2>3, RingLeft DEF RingInv
<1>3. CASE InviteHandled(u)
  <2> DEFINE d == dial[u].call
  <2> DEFINE id == IdOf(d, IF dial[u].step = "invite" THEN 1 ELSE 2)
  <2>1. /\ dial[u].step \in {"invite", "again"} /\ d \in Call /\ from[d] = u /\ went[d] = 0
        /\ dial' = [dial EXCEPT ![u].step = IF dial[u].step = "invite" THEN "invited"
                                            ELSE "stored"]
        /\ UNCHANGED <<from, frames, went, failed, answered, early, absent>>
    BY <1>0, <1>3 DEF InviteHandled, Dialled, DialOnceInv
  <2>2. id.call = d /\ Callee(d) \in User
    BY <1>0, <2>1, OtherIs DEF IdOf, Callee
  <2>3. Ring(Callee(d), id) \/ UNCHANGED <<incomingCalls, rings>>
    BY <1>3 DEF InviteHandled
  <2>4. \A v \in User : /\ dial'[v].call = dial[v].call
                        /\ dial'[v].step \in {"meeting", "invite"} =>
                             v # u /\ dial[v].step \in {"meeting", "invite"}
    BY <1>0, <2>1
  <2>5. \A c \in Call : FrameToCome(c)' <=> FrameToCome(c)
    BY <2>1 DEF FrameToCome
  <2> HIDE DEF d
  <2>6. /\ \A v \in User : incomingCalls[v] \subseteq incomingCalls'[v]
        /\ \A c \in Call \ {d} : rings'[c] = rings[c]
        /\ rings'[d] \in {rings[d], rings[d] + 1}
        /\ rings'[d] # rings[d] => id \in incomingCalls'[Callee(d)]
    BY <1>0, <2>1, <2>2, <2>3 DEF Ring
  <2>7. ASSUME NEW c \in Call \ failed PROVE RingOf(c)'
    <3>1. CASE c # d
      <4>1. \/ from[c] = "nobody" /\ FrameToCome(c)
            \/ IdOf(c, 1) \in incomingCalls[Callee(c)] =>
                 IdOf(c, 1) \in incomingCalls'[Callee(c)]
        BY <1>0, <2>6, OtherIs DEF Callee, DialOnceInv, FrameToCome
      <4>2. QED
        BY <1>0, <2>1, <2>4, <2>5, <2>6, <3>1, <4>1, RingLeft DEF RingInv
    <3>2. CASE c = d
      <4>1. dial[u].step = "invite" /\ id = IdOf(c, 1) /\ rings[c] = 0 /\ FrameToCome(c)
        <5>1. dial[u].step = "invite"
          BY <1>0, <2>1, <3>2 DEF BellInv, d
        <5>2. rings[c] = 0
          BY <1>0, <3>2, <5>1 DEF RingInv, RingOf, d
        <5>3. QED
          BY <2>1, <3>2, <5>1, <5>2 DEF FrameToCome
      <4>2. \A v \in User : dial'[v].call = c => dial'[v].step \notin {"meeting", "invite"}
        <5> SUFFICES ASSUME NEW v \in User, dial'[v].call = c,
                            dial'[v].step \in {"meeting", "invite"}
                     PROVE FALSE
          OBVIOUS
        <5>1. v # u /\ dial[v].call = c /\ dial[v].step # "no"
          BY <2>4
        <5>2. QED
          BY <1>0, <2>1, <3>2, <5>1 DEF DialOnceInv
      <4>3. from'[c] # "nobody"
        BY <2>1, <3>2, CallBounds
      <4>4. rings'[c] \in {0, 1}
            /\ (rings'[c] = 1 => IdOf(c, 1) \in incomingCalls'[Callee(c)])
        BY <2>6, <3>2, <4>1
      <4>5. Callee(c)' = Callee(c) /\ FrameToCome(c)'
        BY <2>1, <2>5, <4>1 DEF Callee
      <4>6. QED
        BY <4>2, <4>3, <4>4, <4>5 DEF RingOf
    <3>3. QED
      BY <3>1, <3>2
  <2>8. QED
    BY <2>1, <2>7 DEF RingInv
<1>4. CASE InviteFails(u) \/ Fallback(u)
  <2>1. PICK r \in {NotDialling, [dial[u] EXCEPT !.step = "again"]} :
          dial' = [dial EXCEPT ![u] = r]
    BY <1>0, <1>4 DEF InviteFails, Fallback, Dialled
  <2>2. /\ failed' = failed \cup {dial[u].call} /\ dial[u].step # "no"
        /\ \A c \in Call \ {dial[u].call} : went'[c] = went[c]
        /\ UNCHANGED <<from, incomingCalls, frames, rings, answered, early, absent>>
    BY <1>0, <1>4 DEF InviteFails, Fallback, storeVars, ringHistory
  <2>3. ASSUME NEW c \in Call \ failed' PROVE RingOf(c)'
    <3>1. RingOf(c) /\ (FrameToCome(c)' <=> FrameToCome(c))
      BY <1>0, <2>2 DEF RingInv, FrameToCome
    <3>2. \A v \in User : dial'[v].call = c => dial[v].call = c /\ dial'[v].step = dial[v].step
      BY <1>0, <2>1, <2>2
    <3>3. QED
      BY <1>0, <2>2, <3>1, <3>2, RingLeft
  <2>4. QED
    BY <2>3 DEF RingInv
<1>5. CASE Go(u)
  <2> DEFINE d == dial[u].call
  <2>1. /\ dial[u].step \in {"invited", "stored"} /\ dial' = [dial EXCEPT ![u] = NotDialling]
        /\ went' = [went EXCEPT ![d] = d] /\ failed \subseteq failed' /\ d \in Call /\ d # 0
        /\ (frames' = frames \cup {FrameId(u)}) \/ (frames' = frames /\ d \in failed')
        /\ UNCHANGED <<from, incomingCalls, rings, answered, early, absent>>
    BY <1>0, <1>5 DEF Go, MeetingDialled, storeVars, ringHistory
  <2>2. FrameId(u).call = d /\ went[d] = 0
    BY <1>0, <2>1 DEF FrameId, IdOf, DialOnceInv
  <2>3. \A v \in User : dial'[v].call \in Call => v # u /\ dial'[v] = dial[v]
    BY <1>0, <2>1
  <2> HIDE DEF d
  <2>4. ASSUME NEW c \in Call \ failed' PROVE RingOf(c)'
    <3>1. RingOf(c) /\ (FrameToCome(c)' <=> FrameToCome(c)) /\ (c # d => went'[c] = went[c])
      BY <1>0, <2>1, <2>2 DEF RingInv, FrameToCome
    <3>2. CASE c # d
      BY <1>0, <2>1, <2>3, <3>1, <3>2, RingLeft
    <3>3. CASE c = d
      <4>1. \A v \in User : dial'[v].call = c => dial[v].call = c /\ dial'[v].step = dial[v].step
        BY <2>3
      <4>2. FrameToCome(c) /\ Callee(c)' = Callee(c)
        BY <2>1, <2>2, <3>3 DEF FrameToCome, Callee
      <4>3. QED
        BY <2>1, <3>1, <4>1, <4>2 DEF RingOf
    <3>4. QED
      BY <3>2, <3>3
  <2>5. QED
    BY <2>4 DEF RingInv
<1>6. QED
  BY <1>1, <1>2, <1>3, <1>4, <1>5 DEF Dialling

\* The frame's bell is the one that rings already, if it does.
LEMMA RingFrameStep ==
  ASSUME CallsInv, NEW id \in frames, FrameArrives(id)
  PROVE  RingInv'
<1> DEFINE d == id.call
<1>0. /\ CallsTypeOK /\ RingInv /\ DialOnceInv /\ BellInv /\ DialledInv
      /\ from \in [Call -> User \cup {"nobody"}] /\ rings \in [Call -> Nat]
      /\ frames \subseteq InvitationId /\ id \in InvitationId /\ d \in Call
      /\ incomingCalls \in [User -> SUBSET InvitationId]
  BY DEF CallsInv, CallsTypeOK, InvitationId
<1>1. /\ frames' = frames \ {id} /\ absent \subseteq absent'
      /\ Ring(Callee(d), id) \/ (UNCHANGED <<incomingCalls, rings>> /\ d \in absent')
      /\ UNCHANGED <<from, dial, went, failed, answered, early>>
  BY DEF FrameArrives, Heard
<1>2. Callee(d) \in User /\ went[d] # 0
  BY <1>0, OtherIs DEF DialledInv, Callee, DialOnceInv
<1> HIDE DEF d
<1>3. /\ \A v \in User : incomingCalls[v] \subseteq incomingCalls'[v]
      /\ \A c \in Call \ {d} : rings'[c] = rings[c]
      /\ \/ rings'[d] = rings[d]
         \/ rings'[d] = rings[d] + 1 /\ id \notin incomingCalls[Callee(d)]
      /\ id \in incomingCalls'[Callee(d)] \/ d \in absent'
  BY <1>0, <1>1, <1>2 DEF Ring, d
<1>4. ASSUME NEW c \in Call \ failed PROVE RingOf(c)'
  <2>0. RingOf(c)
    BY <1>0 DEF RingInv
  <2>1. CASE c # d
    <3>1. FrameToCome(c)' <=> FrameToCome(c)
      BY <1>1, <2>1 DEF FrameToCome, d
    <3>2. \/ from[c] = "nobody" /\ FrameToCome(c)
          \/ IdOf(c, 1) \in incomingCalls[Callee(c)] =>
               IdOf(c, 1) \in incomingCalls'[Callee(c)]
      BY <1>0, <1>3, OtherIs DEF Callee, DialOnceInv, FrameToCome
    <3>3. QED
      BY <1>0, <1>1, <1>3, <2>0, <2>1, <3>1, <3>2, RingLeft
  <2>2. CASE c = d
    <3>1. id = IdOf(c, 1)
      BY <1>0, <1>1, <2>2 DEF BellInv, InvitationId, IdOf, d
    <3>2. FrameToCome(c)
      BY <2>2 DEF FrameToCome, d
    <3>3. ~FrameToCome(c)'
      <4>1. \A i \in frames : i.call = c => i = id
        BY <1>0, <3>1 DEF BellInv, InvitationId, IdOf
      <4>2. QED
        BY <1>1, <1>2, <2>2, <4>1 DEF FrameToCome
    <3>4. Callee(c)' = Callee(c)
      BY <1>1 DEF Callee
    <3>5. /\ from[c] # "nobody"
          /\ \A v \in User : ~(dial[v].call = c /\ dial[v].step \in {"meeting", "invite"})
      BY <1>0, <1>2, <2>2 DEF DialOnceInv, NotDialling
    <3>6. c \notin early => rings'[c] <= 1
      BY <1>0, <1>3, <2>0, <2>2, <3>1, <3>2 DEF RingOf
    <3>7. QED
      BY <1>1, <1>3, <2>2, <3>1, <3>3, <3>4, <3>5, <3>6 DEF RingOf
  <2>3. QED
    BY <2>1, <2>2
<1>5. QED
  BY <1>1, <1>4 DEF RingInv

\* A bell that is answered while the frame is to come is early.
LEMMA RingAnsweredStep ==
  ASSUME CallsInv, NEW u \in User, NEW a \in asks[u], RingsNoMore(u, a.id),
         UNCHANGED <<from, dial, frames, went, failed>>
  PROVE  RingInv'
<1>0. /\ CallsTypeOK /\ RingInv /\ a.id \in InvitationId
      /\ incomingCalls \in [User -> SUBSET InvitationId]
  BY DEF CallsInv, CallsTypeOK, AskType
<1>1. /\ incomingCalls' = [incomingCalls EXCEPT ![u] = @ \ {a.id}]
      /\ answered' = answered \cup {a.id.call} /\ early \subseteq early'
      /\ FrameToCome(a.id.call) => a.id.call \in early'
      /\ UNCHANGED <<rings, absent>>
  BY DEF RingsNoMore
<1>2. ASSUME NEW c \in Call \ failed PROVE RingOf(c)'
  <2>0. RingOf(c) /\ (FrameToCome(c)' <=> FrameToCome(c)) /\ Callee(c)' = Callee(c)
    BY <1>0 DEF RingInv, FrameToCome, Callee
  <2>1. CASE c # a.id.call
    <3>1. IdOf(c, 1) # a.id
      BY <2>1 DEF IdOf
    <3>2. IdOf(c, 1) \in incomingCalls[Callee(c)] => IdOf(c, 1) \in incomingCalls'[Callee(c)]
      <4>1. CASE Callee(c) = u
        BY <1>0, <1>1, <3>1, <4>1
      <4>2. CASE Callee(c) # u
        BY <1>0, <1>1, <4>2
      <4>3. QED
        BY <4>1, <4>2
    <3>3. QED
      BY <1>0, <1>1, <2>0, <3>2, RingLeft
  <2>2. CASE c = a.id.call
    BY <1>1, <2>0, <2>2 DEF RingOf
  <2>3. QED
    BY <2>1, <2>2
<1>3. QED
  BY <1>2 DEF RingInv

LEMMA RingStep ==
  ASSUME CallsInv, CallsNext \/ UNCHANGED callsVars
  PROVE  RingInv'
<1>1. CASE UNCHANGED callsVars \/ Restart
  BY <1>1, RingQuietStep DEF callsVars, Restart, storeVars, ringHistory
<1>2. ASSUME NEW u \in User, Streams(u) \/ LeaveChat(u) \/ BackToChat(u)
                             \/ \E verb \in Verb, id \in incomingCalls[u] : Answer(u, verb, id)
      PROVE  RingInv'
  BY <1>2, RingQuietStep
  DEF Streams, OpenStream, StreamRefused, StreamBreaks, HandlerEnds, LeaveChat,
      BackToChat,
      Answer, storeVars, ringHistory
<1>3. ASSUME NEW u \in User, NEW a \in asks[u],
             AnswerHandled(u, a) \/ AnswerLost(u, a) \/ AcceptFailed(u, a)
      PROVE  RingInv'
  BY <1>3, RingQuietStep DEF AnswerHandled, AnswerLost, AcceptFailed, storeVars,
     ringHistory
<1>4. ASSUME NEW u \in User, NEW a \in asks[u], Accepted(u, a) \/ Rejected(u, a)
      PROVE  RingInv'
  BY <1>4, RingAnsweredStep DEF Accepted, Rejected
<1>5. QED
  BY <1>1, <1>2, <1>3, <1>4, RingDialStep, RingFrameStep DEF CallsNext

LEMMA CallsStep ==
  ASSUME CallsInv, CallsNext \/ UNCHANGED callsVars
  PROVE  CallsInv'
<1>1. CallsTypeOK /\ CallsTypeOK' /\ CallStep /\ DialledInv /\ BellInv /\ WentInv
  BY AnyCallStep, CallsTypeStep DEF CallsInv
<1>2. /\ \A id \in Ringing : id.call \in Call /\ from[id.call] \in User
      /\ \A id \in Ringing : id.call \notin failed => id.nth = 1
      /\ \A u \in User : dial[u] # NotDialling => dial[u].call \in Call
  BY <1>1 DEF CallsTypeOK, DialledInv, BellInv, Ringing, InvitationId
<1>3. \A id \in Ringing' : from'[id.call] \in User /\ (id.call \notin failed' => id.nth = 1)
  <2> SUFFICES ASSUME NEW id \in Ringing'
               PROVE  from'[id.call] \in User /\ (id.call \notin failed' => id.nth = 1)
    OBVIOUS
  <2>1. CASE id \in Ringing
    BY <1>1, <1>2, <2>1 DEF CallStep, HistoryStep
  <2>2. ASSUME NEW u \in User, dial[u].call = id.call, dial[u] # NotDialling,
               dial[u].step \in {"again", "stored"} \/ id.nth = 1
        PROVE  from'[id.call] \in User /\ (id.call \notin failed' => id.nth = 1)
    BY <1>1, <1>2, <2>2 DEF CallStep, HistoryStep, DialledInv, BellInv
  <2>3. QED
    BY <1>1, <2>1, <2>2 DEF CallStep, IdsStep
<1>4. ASSUME NEW u \in User PROVE dial'[u] # NotDialling => from'[dial'[u].call] \in User
  BY <1>1, <1>2, <1>4 DEF CallStep, DialStep, HistoryStep, DialledInv
<1>5. ASSUME NEW u \in User, NEW a \in asks'[u] PROVE from'[a.id.call] \in User
  <2>1. from[a.id.call] \in User /\ a.id.call \in Call
    BY <1>1, <1>2, <1>5
    DEF CallStep, AsksStep, DialledInv, CallsTypeOK, Ringing, AskType, InvitationId
  <2>2. QED
    BY <1>1, <2>1 DEF CallStep, HistoryStep
<1>6. ASSUME NEW c \in Call \ failed', NEW u \in User, dial'[u].call = c
      PROVE  dial'[u].step \notin {"again", "stored"}
  BY <1>1, <1>6 DEF CallStep, DialStep, HistoryStep, BellInv, NotDialling, Call
<1>7. DialledInv' /\ BellInv'
  BY <1>3, <1>4, <1>5, <1>6 DEF DialledInv, BellInv, Ringing
<1>8. WentInv'
  BY <1>1 DEF CallStep, WentStep, HistoryStep, WentInv
<1>9. QED
  BY <1>1, <1>7, <1>8, DialOnceStep, RingStep DEF CallsInv

LEMMA CallsInitially == CallsInit => CallsInv
<1> SUFFICES ASSUME CallsInit PROVE CallsInv
  OBVIOUS
<1>1. CallsTypeOK
  <2>1. Nowhere \in [meeting : 0..2 * MaxCalls, as : User] /\ Nowhere.meeting = 0
    <3>1. User # {}
      BY CallBounds, FS_EmptySet
    <3>2. QED
      BY <3>1, CallBounds DEF Nowhere
  <2>2. /\ room \in [User -> [meeting : 0..2 * MaxCalls, as : User]]
        /\ \A u \in User : (page[u] = "room") = (room[u].meeting # 0)
    BY <2>1 DEF CallsInit
  <2>3. 0 \in 0..MaxCallTroubles /\ 0 \in 0..2 * MaxCalls /\ \A u \in User : 0 \in 0..MaxStreams[u]
    BY CallBounds
  <2>4. went \in [Call -> 0..2 * MaxCalls] /\ callInvitations \in [InvitationId -> Status]
    BY <2>3 DEF CallsInit, Status
  <2>5. QED
    BY <2>2, <2>3, <2>4 DEF CallsInit, CallsTypeOK
<1>2. DialledInv /\ BellInv /\ WentInv
  BY DEF CallsInit, DialledInv, BellInv, WentInv, NotDialling
<1>3. DialOnceInv /\ RingInv
  BY DEF CallsInit, DialOnceInv, RingInv, RingOf, FrameToCome, NotDialling, Call
<1>4. QED
  BY <1>1, <1>2, <1>3 DEF CallsInv

LEMMA CallsInvariant == CallsSpec => []CallsInv
<1>1. CallsInv /\ [CallsNext]_callsVars => CallsInv'
  BY CallsStep
<1>2. QED
  BY <1>1, CallsInitially, PTL DEF CallsSpec

\* Pages, streams, invitations and answers keep their shape: a page that is not the
\* chat has no stream, and whoever is in a room is in a meeting.
THEOREM CallsTyped == CallsSpec => []CallsTypeOK
BY CallsInvariant, PTL DEF CallsInv

\* A call of which nothing was lost never rings twice at once, and rings once in all
\* unless it was answered before its frame came, for any number of calls, streams and
\* answers.
THEOREM CallsRingOnce == CallsSpec => []RingsOnce
<1>1. ASSUME CallsInv, NEW u \in User, NEW c \in Call \ failed
      PROVE  Cardinality({id \in incomingCalls[u] : id.call = c}) <= 1
  <2> DEFINE S == {id \in incomingCalls[u] : id.call = c}
  <2>1. S \subseteq {IdOf(c, 1)}
    BY <1>1 DEF CallsInv, CallsTypeOK, BellInv, InvitationId, IdOf
  <2>2. IsFiniteSet({IdOf(c, 1)}) /\ Cardinality({IdOf(c, 1)}) = 1
    BY FS_Singleton
  <2>3. Cardinality(S) <= 1
    BY <2>1, <2>2, FS_Subset
  <2>4. QED
    BY <2>3
<1>2. CallsInv => \A c \in Call \ failed : c \notin early => rings[c] <= 1
  BY DEF CallsInv, RingInv, RingOf
<1>3. CallsInv => RingsOnce
  BY <1>1, <1>2 DEF RingsOnce
<1>4. QED
  BY <1>3, CallsInvariant, PTL

\* Once its frame has come, a call of which nothing was lost has a notification at the
\* called, was answered, or found no chat page, whatever became of the streams.
THEOREM CallsRingOnChat == CallsSpec => []RingsOnChat
<1>1. CallsInv => RingsOnChat
  <2> SUFFICES ASSUME CallsInv, NEW c \in Call \ failed, ~FrameToCome(c),
                      c \notin answered \cup absent
               PROVE  \E id \in incomingCalls[Callee(c)] : id.call = c
    BY DEF RingsOnChat
  <2>1. IdOf(c, 1) \in incomingCalls[Callee(c)] /\ IdOf(c, 1).call = c
    BY DEF CallsInv, RingInv, RingOf, IdOf
  <2>2. QED
    BY <2>1
<1>2. QED
  BY <1>1, CallsInvariant, PTL

\* Whoever accepts a call of which nothing failed is in the meeting of its caller.
THEOREM CallsMeet == CallsSpec => []TogetherUnlessFailed
<1>1. CallsInv => TogetherUnlessFailed
  BY DEF CallsInv, WentInv, TogetherUnlessFailed
<1>2. QED
  BY <1>1, CallsInvariant, PTL

-----------------------------------------------------------------------------
(* The chat page. *)

USE DEF Has

\* The page is told connected while it is; it may be told so without being so only
\* before its first socket has opened.
ConnectedInv == (connected => uiConnected) /\ ClaimIsHonest

\* Before the user is a member there is nothing to see.
StrangerInv == access = "not yet" =>
    /\ stored = <<>> /\ list = <<>> /\ reads = <<>> /\ ~listed
    /\ own.what \in {"nothing", "create"} /\ ~own.stored
    /\ \A k \in DOMAIN listReads : ~listReads[k].has

\* One event waits at a time; a message is stored once, under a number that was
\* given out; what was sent and is stored is what the answer brings.
OnceInv ==
    /\ Len(pending) <= 1
    /\ own.what = "send" /\ own.stored => own.msg \in Message
    /\ \A k \in DOMAIN stored : stored[k].id <= posted
    /\ \A j, k \in DOMAIN stored : stored[j].id = stored[k].id => j = k

\* Something is on its way after which a load will be sent, or the gap noted.
Coming(kinds, load) ==
    \/ ~uiConnected \/ asked[load] > 0 \/ last \in kinds
    \/ \E k \in DOMAIN pending : pending[k].kind \in kinds
    \/ \E k \in DOMAIN pipe : pipe[k] \in kinds

\* The messages on the screen are those stored, or excused, or an answer that has
\* them is under way; and an answer that has others comes before one of those.
MessagesFine ==
    /\ list = stored \/ excused \/ \E k \in DOMAIN reads : reads[k].snap = stored
    /\ \A k \in DOMAIN reads :
         ~reads[k].overtaken /\ reads[k].snap # stored
         => \E j \in DOMAIN reads : j > k /\ reads[j].snap = stored

MessagesInv == Shown /\ Has => Coming(MessageKind, "messages") \/ MessagesFine

\* The same of the conversation in the list of conversations.
ListedFine ==
    /\ \/ listed = Has \/ listExcused
       \/ \E k \in DOMAIN listReads : listReads[k].has = Has
    /\ \A k \in DOMAIN listReads :
         ~listReads[k].overtaken /\ listReads[k].has # Has
         => \E j \in DOMAIN listReads : j > k /\ listReads[j].has = Has

ListedInv == Coming({"conversation"}, "conversations") \/ ListedFine

\* A conversation that is to be shown and not in the list is being loaded.
RestoringInv == active /\ ~listed => asked["conversations"] > 0 \/ listReads # <<>>

ChatInv ==
    /\ ChatTypeOK /\ ConnectedInv /\ StrangerInv /\ OnceInv
    /\ MessagesInv /\ ListedInv /\ RestoringInv

\* A step of the connection, or none; a trouble may be counted by another step.
RealtimeMoves ==
    \/ Opened \/ Refused \/ Retry \/ SubscribeRead \/ SubscribeDropped
    \/ Dropped \/ PageHidden \/ EffectAgain
    \/ TokenExpires \/ TokensCleared \/ Poll \/ PollByCookie
    \/ \E kind \in Kind : Push(kind)
    \/ Receive \/ Rendered
    \/ /\ UNCHANGED <<sock, connected, uiConnected, timer, intentional, subscription, pipe,
                      last, token, opened, stranded>>
       /\ Trouble \/ UNCHANGED troubles

LEMMA RealtimeStep ==
  ASSUME RealtimeTypeOK, ConnectedInv, RealtimeMoves
  PROVE  RealtimeTypeOK' /\ ConnectedInv'
<1>0. /\ sock \in {"none", "connecting", "open"}
      /\ connected \in BOOLEAN /\ uiConnected \in BOOLEAN /\ timer \in BOOLEAN
      /\ intentional \in BOOLEAN /\ token \in {"good", "expired", "none"}
      /\ opened \in BOOLEAN /\ stranded \in BOOLEAN
      /\ subscription \in {"none", "sent", "held"}
      /\ pipe \in Seq(Kind) /\ Len(pipe) <= MaxPipe /\ <<>> \in Seq(Kind) /\ Len(<<>>) = 0
      /\ last \in Kind \cup {"none"}
      /\ troubles \in 0..MaxTroubles /\ MaxTroubles \in Nat /\ MaxPipe \in Nat \ {0}
  BY ChatBounds, EmptySeq DEF RealtimeTypeOK
<1>1. connected = (sock = "open") /\ (connected => uiConnected)
      /\ (uiConnected /\ ~connected => ~opened)
  BY DEF RealtimeTypeOK, ConnectedInv, ClaimIsHonest
<1>2. /\ subscription # "none" => sock = "open"
      /\ pipe # <<>> => subscription = "held"
      /\ intentional => sock = "none" /\ ~timer
  BY DEF RealtimeTypeOK
<1>3. Trouble => troubles' \in 0..MaxTroubles
  BY <1>0 DEF Trouble
<1>4. CASE Opened
  <2>1. /\ sock = "connecting" /\ sock' = "open" /\ connected' = TRUE /\ uiConnected' = TRUE
        /\ subscription' = "sent" /\ opened' = TRUE
        /\ UNCHANGED <<timer, intentional, pipe, last, token, stranded, troubles>>
    BY <1>0, <1>1, <1>4 DEF Opened, SetConnected
  <2>2. QED
    BY <1>0, <1>2, <2>1 DEF RealtimeTypeOK, ConnectedInv, ClaimIsHonest
<1>5. ASSUME \/ Closed \/ Disconnect,
             UNCHANGED <<last, token, opened, stranded>>, troubles' \in 0..MaxTroubles,
             Closed => sock # "none" /\ UNCHANGED intentional
      PROVE  RealtimeTypeOK' /\ ConnectedInv'
  <2>1. /\ sock' = "none" /\ connected' = FALSE
        /\ uiConnected' = IF connected THEN FALSE ELSE uiConnected
        /\ subscription' = "none" /\ pipe' = <<>>
        /\ timer' \in BOOLEAN /\ intentional' \in BOOLEAN
        /\ intentional' => ~timer'
    BY <1>0, <1>2, <1>5 DEF Closed, Disconnect, SetConnected
  <2>2. uiConnected' \in BOOLEAN /\ last' \in Kind \cup {"none"}
        /\ token' \in {"good", "expired", "none"}
        /\ opened' \in BOOLEAN /\ stranded' \in BOOLEAN
    BY <1>0, <1>5, <2>1
  <2>3. RealtimeTypeOK'
    <3>1. pipe' \in Seq(Kind) /\ Len(pipe') <= MaxPipe
      BY <1>0, <2>1
    <3>2. connected' = (sock' = "open") /\ connected' \in BOOLEAN
      BY <2>1
    <3>3. QED
      BY <1>5, <2>1, <2>2, <3>1, <3>2 DEF RealtimeTypeOK
  <2>4. uiConnected' => ~opened'
    BY <1>1, <1>5, <2>1
  <2>5. QED
    BY <2>1, <2>3, <2>4 DEF ConnectedInv, ClaimIsHonest
<1>6. CASE Refused \/ Dropped \/ PageHidden
  <2>1. CASE Refused
    <3>1. sock = "connecting" /\ Closed /\ troubles' \in 0..MaxTroubles
          /\ UNCHANGED <<intentional, last, token, opened, stranded>>
      BY <1>0, <1>3, <2>1 DEF Refused
    <3>2. QED
      BY <1>5, <3>1
  <2>2. CASE Dropped
    <3>1. sock = "open" /\ Closed /\ troubles' \in 0..MaxTroubles
          /\ UNCHANGED <<intentional, last, token, opened, stranded>>
      BY <1>3, <2>2 DEF Dropped
    <3>2. QED
      BY <1>5, <3>1
  <2>3. CASE PageHidden
    <3>1. Disconnect /\ UNCHANGED <<last, token, opened, stranded>>
          /\ troubles' \in 0..MaxTroubles /\ ~timer' /\ intentional'
      BY <1>3, <2>3 DEF PageHidden, Disconnect
    <3>2. Closed => FALSE
      BY <3>1 DEF Closed
    <3>3. QED
      BY <1>5, <3>1, <3>2
  <2>4. QED
    BY <1>6, <2>1, <2>2, <2>3
<1>7. ASSUME Connect
      PROVE  /\ sock' = sock \/ (sock = "none" /\ sock' = "connecting")
             /\ intentional' \in BOOLEAN /\ stranded' \in BOOLEAN
             /\ intentional' => intentional /\ sock' = "none"
  <2>1. CASE sock = "none" /\ token # "none"
    BY <1>0, <1>7, <2>1 DEF Connect
  <2>2. CASE ~(sock = "none" /\ token # "none")
    BY <1>0, <1>2, <1>7, <2>2 DEF Connect
  <2>3. QED
    BY <2>1, <2>2
<1>8. CASE Retry
  <2>1. /\ timer' = FALSE /\ Connect
        /\ UNCHANGED <<connected, uiConnected, subscription, pipe, last, token, opened, troubles>>
    BY <1>8 DEF Retry
  <2>2. QED
    BY <1>0, <1>1, <1>2, <1>7, <2>1 DEF RealtimeTypeOK, ConnectedInv, ClaimIsHonest
<1>9. CASE EffectAgain
  <2>1. /\ Connect /\ uiConnected' = TRUE /\ opened' = connected /\ last' = "none"
        /\ subscription' = IF sock = "open" /\ subscription = "none" THEN "sent" ELSE subscription
        /\ UNCHANGED <<connected, timer, pipe, token, troubles>>
    BY <1>9 DEF EffectAgain
  <2>2. /\ subscription' \in {"none", "sent", "held"}
        /\ subscription' # "none" => sock = "open"
        /\ pipe # <<>> => subscription' = "held"
    BY <1>0, <1>2, <2>1
  <2>3. QED
    BY <1>0, <1>1, <1>2, <1>7, <2>1, <2>2 DEF RealtimeTypeOK, ConnectedInv, ClaimIsHonest
<1>10. CASE SubscribeRead \/ SubscribeDropped
  <2>1. /\ subscription = "sent" /\ subscription' \in {"held", "none"}
        /\ troubles' \in 0..MaxTroubles
        /\ UNCHANGED <<sock, connected, uiConnected, timer, intentional, pipe, last, token,
                       opened, stranded>>
    BY <1>0, <1>3, <1>10 DEF SubscribeRead, SubscribeDropped
  <2>2. QED
    BY <1>0, <1>1, <1>2, <2>1 DEF RealtimeTypeOK, ConnectedInv, ClaimIsHonest
<1>11. CASE TokenExpires \/ TokensCleared \/ Poll \/ PollByCookie
  <2>1. /\ token' \in {"good", "expired", "none"} /\ troubles' \in 0..MaxTroubles
        /\ UNCHANGED <<sock, connected, uiConnected, timer, intentional, subscription, pipe,
                       last, opened, stranded>>
    BY <1>0, <1>3, <1>11 DEF TokenExpires, TokensCleared, Poll, PollByCookie
  <2>2. QED
    BY <1>0, <1>1, <1>2, <2>1 DEF RealtimeTypeOK, ConnectedInv, ClaimIsHonest
<1>12. ASSUME NEW kind \in Kind, Push(kind) PROVE RealtimeTypeOK' /\ ConnectedInv'
  <2>1. /\ pipe' \in Seq(Kind) /\ Len(pipe') <= MaxPipe
        /\ pipe' # <<>> => subscription = "held"
    BY <1>0, <1>2, <1>12 DEF Push
  <2>2. UNCHANGED <<sock, connected, uiConnected, timer, intentional, subscription, last, token,
                    opened, stranded, troubles>>
    BY <1>12 DEF Push
  <2>3. QED
    BY <1>0, <1>1, <1>2, <2>1, <2>2 DEF RealtimeTypeOK, ConnectedInv, ClaimIsHonest
<1>13. CASE Receive
  <2>1. /\ last' \in Kind /\ pipe' \in Seq(Kind) /\ Len(pipe') <= MaxPipe
        /\ subscription = "held"
    BY <1>0, <1>2, <1>13, HeadTailProperties DEF Receive
  <2>2. UNCHANGED <<sock, connected, uiConnected, timer, intentional, subscription, token,
                    opened, stranded, troubles>>
    BY <1>13 DEF Receive
  <2>3. QED
    BY <1>0, <1>1, <1>2, <2>1, <2>2 DEF RealtimeTypeOK, ConnectedInv, ClaimIsHonest
<1>14. CASE Rendered
  BY <1>0, <1>1, <1>2, <1>14 DEF Rendered, RealtimeTypeOK, ConnectedInv, ClaimIsHonest
<1>15. CASE /\ UNCHANGED <<sock, connected, uiConnected, timer, intentional, subscription, pipe,
                           last, token, opened, stranded>>
            /\ Trouble \/ UNCHANGED troubles
  BY <1>0, <1>1, <1>2, <1>3, <1>15 DEF RealtimeTypeOK, ConnectedInv, ClaimIsHonest
<1>16. QED
  BY <1>4, <1>6, <1>8, <1>9, <1>10, <1>11, <1>12, <1>13, <1>14, <1>15 DEF RealtimeMoves

LEMMA WithoutIs ==
  ASSUME NEW S, NEW s \in Seq(S), NEW k \in DOMAIN s
  PROVE  /\ Without(s, k) \in Seq(S) /\ Len(Without(s, k)) = Len(s) - 1
         /\ DOMAIN Without(s, k) = 1..Len(s) - 1
         /\ \A j \in 1..Len(s) - 1 : Without(s, k)[j] = IF j < k THEN s[j] ELSE s[j + 1]
<1> DEFINE a == SubSeq(s, 1, k - 1)
           b == SubSeq(s, k + 1, Len(s))
<1>0. Len(s) \in Nat /\ DOMAIN s = 1..Len(s) /\ k \in 1..Len(s) /\ k - 1 \in Int /\ k + 1 \in Int
  BY LenProperties
<1>1. /\ a \in Seq(S) /\ Len(a) = k - 1
      /\ \A i \in 1..k - 1 : a[i] = s[i]
  <2>1. \A i \in 1..k - 1 : s[i] \in S
    BY <1>0, ElementOfSeq
  <2>2. /\ a \in Seq(S) /\ Len(a) = IF 1 <= k - 1 THEN k - 1 - 1 + 1 ELSE 0
        /\ \A i \in 1..k - 1 - 1 + 1 : a[i] = s[1 + i - 1]
    BY <1>0, <2>1, SubSeqProperties
  <2> HIDE DEF a
  <2>3. \A i \in 1..k - 1 : i \in 1..k - 1 - 1 + 1 /\ 1 + i - 1 = i
    BY <1>0
  <2>4. QED
    BY <1>0, <2>2, <2>3
<1>2. /\ b \in Seq(S) /\ Len(b) = Len(s) - k
      /\ \A i \in 1..Len(s) - k : b[i] = s[k + i]
  <2>1. \A i \in k + 1..Len(s) : s[i] \in S
    BY <1>0, ElementOfSeq
  <2>2. /\ b \in Seq(S) /\ Len(b) = IF k + 1 <= Len(s) THEN Len(s) - (k + 1) + 1 ELSE 0
        /\ \A i \in 1..Len(s) - (k + 1) + 1 : b[i] = s[k + 1 + i - 1]
    BY <1>0, <2>1, SubSeqProperties
  <2> HIDE DEF b
  <2>3. \A i \in 1..Len(s) - k : i \in 1..Len(s) - (k + 1) + 1 /\ k + 1 + i - 1 = k + i
    BY <1>0
  <2>4. QED
    BY <1>0, <2>2, <2>3
<1>3. Without(s, k) = a \o b
  BY DEF Without
<1> HIDE DEF a, b
<1>4. /\ a \o b \in Seq(S) /\ Len(a \o b) = Len(a) + Len(b)
      /\ \A i \in 1..Len(a) + Len(b) : (a \o b)[i] = IF i <= Len(a) THEN a[i] ELSE b[i - Len(a)]
  BY <1>1, <1>2, ConcatProperties
<1>5. Len(a) + Len(b) = Len(s) - 1
  BY <1>0, <1>1, <1>2
<1>6. ASSUME NEW j \in 1..Len(s) - 1
      PROVE  (a \o b)[j] = IF j < k THEN s[j] ELSE s[j + 1]
  <2>1. CASE j < k
    <3>1. j \in 1..Len(a) + Len(b) /\ j <= Len(a) /\ j \in 1..k - 1
      BY <1>0, <1>1, <1>5, <2>1
    <3>2. QED
      BY <1>1, <1>4, <2>1, <3>1
  <2>2. CASE ~(j < k)
    <3>1. /\ j \in 1..Len(a) + Len(b) /\ ~(j <= Len(a)) /\ j - Len(a) \in 1..Len(s) - k
          /\ k + (j - Len(a)) = j + 1
      BY <1>0, <1>1, <1>5, <2>2
    <3>2. QED
      BY <1>2, <1>4, <2>2, <3>1
  <2>3. QED
    BY <2>1, <2>2
<1>7. QED
  BY <1>3, <1>4, <1>5, <1>6, LenProperties

LEMMA OnTopIs ==
  ASSUME NEW S, NEW s \in Seq(S), NEW m \in S
  PROVE  /\ <<m>> \o s \in Seq(S) /\ DOMAIN (<<m>> \o s) = 1..Len(s) + 1
         /\ (<<m>> \o s)[1] = m
         /\ \A k \in 2..Len(s) + 1 : (<<m>> \o s)[k] = s[k - 1] /\ k - 1 \in DOMAIN s
<1>1. <<m>> \in Seq(S) /\ Len(<<m>>) = 1 /\ <<m>>[1] = m /\ Len(s) \in Nat
      /\ DOMAIN s = 1..Len(s)
  BY LenProperties
<1>2. /\ <<m>> \o s \in Seq(S) /\ Len(<<m>> \o s) = 1 + Len(s)
      /\ \A i \in 1..1 + Len(s) : (<<m>> \o s)[i] = IF i <= 1 THEN <<m>>[i] ELSE s[i - 1]
  BY <1>1, ConcatProperties
<1>3. DOMAIN (<<m>> \o s) = 1..Len(s) + 1
  BY <1>1, <1>2, LenProperties
<1>4. QED
  BY <1>1, <1>2, <1>3

LEMMA EditedIs ==
  ASSUME NEW s \in Seq(Message), NEW m \in Message
  PROVE  /\ Edited(s, m) \in Seq(Message) /\ DOMAIN Edited(s, m) = DOMAIN s
         /\ \A k \in DOMAIN s : Edited(s, m)[k] = IF s[k].id = m.id THEN m ELSE s[k]
BY DEF Edited

\* A load that is asked for is counted.
LEMMA Asked ==
  ASSUME ChatTypeOK, NEW S \in SUBSET Load, Ask(S),
         Len(reads') = Len(reads), Len(listReads') = Len(listReads)
  PROVE  /\ asked' \in [Load -> 0..MaxLoads] /\ InFlight' <= MaxLoads
         /\ \A l \in Load : asked'[l] = asked[l] + IF l \in S THEN 1 ELSE 0
<1>0. /\ asked \in [Load -> 0..MaxLoads] /\ InFlight <= MaxLoads /\ MaxLoads \in Nat
      /\ Len(reads) \in Nat /\ Len(listReads) \in Nat
  BY ChatBounds, LenProperties DEF ChatTypeOK
<1>1. Load = {"messages", "conversations"} /\ "messages" # "conversations"
  BY DEF Load
<1>2. \A l \in Load : asked'[l] = asked[l] + IF l \in S THEN 1 ELSE 0
  BY DEF Ask
<1>3. /\ S = {} => Cardinality(S) = 0
      /\ S \in {{"messages"}, {"conversations"}} => Cardinality(S) = 1
      /\ S = {"messages", "conversations"} => Cardinality(S) = 2
  <2>1. Cardinality({}) = 0 /\ \A x : IsFiniteSet({x}) /\ Cardinality({x}) = 1
    BY FS_EmptySet, FS_Singleton
  <2>2. Cardinality({"messages"} \cup {"conversations"}) = 2
    <3>1. /\ IsFiniteSet({"messages"}) /\ Cardinality({"messages"}) = 1
          /\ "conversations" \notin {"messages"}
      BY <1>1, <2>1
    <3>2. Cardinality({"messages"} \cup {"conversations"})
          = IF "conversations" \in {"messages"} THEN Cardinality({"messages"})
            ELSE Cardinality({"messages"}) + 1
      BY <3>1, FS_AddElement
    <3>3. QED
      BY <3>1, <3>2
  <2>3. {"messages", "conversations"} = {"messages"} \cup {"conversations"}
    OBVIOUS
  <2>4. QED
    BY <2>1, <2>2, <2>3
<1>4. S \in {{}, {"messages"}, {"conversations"}, {"messages", "conversations"}}
  BY <1>1
<1>5. /\ asked'["messages"] \in Nat /\ asked'["conversations"] \in Nat
      /\ asked["messages"] \in Nat /\ asked["conversations"] \in Nat
      /\ "messages" \in Load /\ "conversations" \in Load
  BY <1>0, <1>1, <1>2
<1>6. InFlight' = InFlight + Cardinality(S)
  <2>1. InFlight' = asked'["messages"] + asked'["conversations"] + Len(reads) + Len(listReads)
    BY DEF InFlight
  <2>2. CASE S = {}
    BY <1>0, <1>2, <1>3, <1>5, <2>1, <2>2 DEF InFlight
  <2>3. CASE S = {"messages"}
    BY <1>0, <1>1, <1>2, <1>3, <1>5, <2>1, <2>3 DEF InFlight
  <2>4. CASE S = {"conversations"}
    BY <1>0, <1>1, <1>2, <1>3, <1>5, <2>1, <2>4 DEF InFlight
  <2>5. CASE S = {"messages", "conversations"}
    BY <1>0, <1>1, <1>2, <1>3, <1>5, <2>1, <2>5 DEF InFlight
  <2>6. QED
    BY <1>4, <2>2, <2>3, <2>4, <2>5
<1>7. InFlight' <= MaxLoads
  <2>1. InFlight \in Nat
    BY <1>0, <1>5 DEF InFlight
  <2>2. CASE S = {}
    BY <1>0, <1>3, <1>6, <2>1, <2>2
  <2>3. CASE S # {}
    BY <1>6, <2>3 DEF Ask
  <2>4. QED
    BY <2>2, <2>3
<1>8. asked' \in [Load -> 0..MaxLoads]
  <2>1. asked'["messages"] <= MaxLoads /\ asked'["conversations"] <= MaxLoads
    BY <1>0, <1>5, <1>7 DEF InFlight
  <2>2. \A l \in Load : asked'[l] \in 0..MaxLoads
    BY <1>0, <1>1, <1>5, <2>1
  <2>3. QED
    BY <2>2 DEF Ask
<1>9. QED
  BY <1>2, <1>7, <1>8

\* Marking answers as overtaken changes nothing else of them.
OnlyMarked(old, new) ==
    /\ DOMAIN new = DOMAIN old
    /\ \A k \in DOMAIN old : new[k].snap = old[k].snap /\ (old[k].overtaken => new[k].overtaken)
OnlyMarkedLists(old, new) ==
    /\ DOMAIN new = DOMAIN old
    /\ \A k \in DOMAIN old : new[k].has = old[k].has /\ (old[k].overtaken => new[k].overtaken)

LEMMA Marked ==
  ASSUME NEW rs \in Seq(Read), NEW f \in [DOMAIN rs -> BOOLEAN], NEW new,
         new = [k \in DOMAIN rs |-> [rs[k] EXCEPT !.overtaken = @ \/ f[k]]]
  PROVE  /\ new \in Seq(Read) /\ Len(new) = Len(rs) /\ OnlyMarked(rs, new)
         /\ \A k \in DOMAIN rs : new[k].overtaken <=> rs[k].overtaken \/ f[k]
<1>1. Len(rs) \in Nat /\ DOMAIN rs = 1..Len(rs) /\ \A k \in DOMAIN rs : rs[k] \in Read
  BY LenProperties, ElementOfSeq
<1>2. ASSUME NEW k \in DOMAIN rs
      PROVE  /\ new[k] \in Read /\ new[k].snap = rs[k].snap
             /\ new[k].overtaken <=> rs[k].overtaken \/ f[k]
  <2>1. /\ new[k] = [rs[k] EXCEPT !.overtaken = rs[k].overtaken \/ f[k]]
        /\ rs[k] \in [snap : Seq(Message), overtaken : BOOLEAN]
    BY <1>1 DEF Read
  <2>2. (rs[k].overtaken \/ f[k]) \in BOOLEAN
    OBVIOUS
  <2>3. QED
    BY <2>1, <2>2 DEF Read
<1>3. new \in [1..Len(rs) -> Read]
  BY <1>1, <1>2
<1>4. new \in Seq(Read) /\ Len(new) = Len(rs)
  BY <1>1, <1>3, LenProperties
<1>5. QED
  BY <1>1, <1>2, <1>4 DEF OnlyMarked

LEMMA MarkedLists ==
  ASSUME NEW rs \in Seq(ListRead), NEW f \in [DOMAIN rs -> BOOLEAN], NEW new,
         new = [k \in DOMAIN rs |-> [rs[k] EXCEPT !.overtaken = @ \/ f[k]]]
  PROVE  /\ new \in Seq(ListRead) /\ Len(new) = Len(rs) /\ OnlyMarkedLists(rs, new)
         /\ \A k \in DOMAIN rs : new[k].overtaken <=> rs[k].overtaken \/ f[k]
<1>1. Len(rs) \in Nat /\ DOMAIN rs = 1..Len(rs) /\ \A k \in DOMAIN rs : rs[k] \in ListRead
  BY LenProperties, ElementOfSeq
<1>2. ASSUME NEW k \in DOMAIN rs
      PROVE  /\ new[k] \in ListRead /\ new[k].has = rs[k].has
             /\ new[k].overtaken <=> rs[k].overtaken \/ f[k]
  <2>1. /\ new[k] = [rs[k] EXCEPT !.overtaken = rs[k].overtaken \/ f[k]]
        /\ rs[k] \in [has : BOOLEAN, overtaken : BOOLEAN]
    BY <1>1 DEF ListRead
  <2>2. (rs[k].overtaken \/ f[k]) \in BOOLEAN
    OBVIOUS
  <2>3. QED
    BY <2>1, <2>2 DEF ListRead
<1>3. new \in [1..Len(rs) -> ListRead]
  BY <1>1, <1>2
<1>4. new \in Seq(ListRead) /\ Len(new) = Len(rs)
  BY <1>1, <1>3, LenProperties
<1>5. QED
  BY <1>1, <1>2, <1>4 DEF OnlyMarkedLists

LEMMA UnheardIs ==
  ASSUME reads \in Seq(Read), listReads \in Seq(ListRead), NEW kind, Unheard(kind)
  PROVE  /\ reads' \in Seq(Read) /\ Len(reads') = Len(reads) /\ OnlyMarked(reads, reads')
         /\ kind \in MessageKind =>
              \A k \in DOMAIN reads : reads[k].snap # stored => reads'[k].overtaken
         /\ listReads' \in Seq(ListRead) /\ Len(listReads') = Len(listReads)
         /\ OnlyMarkedLists(listReads, listReads')
         /\ kind = "conversation" =>
              \A k \in DOMAIN listReads :
                listReads[k].has # Has => listReads'[k].overtaken
         /\ excused' = (list' # stored' /\ (excused \/ kind \in MessageKind))
         /\ listExcused' = (listed' # Has' /\ (listExcused \/ kind = "conversation"))
<1>1. PICK f : f = [k \in DOMAIN reads |-> kind \in MessageKind /\ reads[k].snap # stored]
  OBVIOUS
<1>2. PICK g : g = [k \in DOMAIN listReads |->
                      kind = "conversation" /\ listReads[k].has # Has]
  OBVIOUS
<1>3. f \in [DOMAIN reads -> BOOLEAN] /\ g \in [DOMAIN listReads -> BOOLEAN]
  BY <1>1, <1>2
<1>4. /\ reads' = [k \in DOMAIN reads |->
            [reads[k] EXCEPT !.overtaken = @ \/ (kind \in MessageKind /\ reads[k].snap # stored)]]
      /\ listReads' = [k \in DOMAIN listReads |->
            [listReads[k] EXCEPT !.overtaken =
                @ \/ (kind = "conversation" /\ listReads[k].has # Has)]]
      /\ Judge(kind \in MessageKind, kind = "conversation")
  BY DEF Unheard, Overtaken
<1>5. /\ reads' = [k \in DOMAIN reads |-> [reads[k] EXCEPT !.overtaken = @ \/ f[k]]]
      /\ listReads' = [k \in DOMAIN listReads |-> [listReads[k] EXCEPT !.overtaken = @ \/ g[k]]]
  BY <1>1, <1>2, <1>4
<1>6. /\ reads' \in Seq(Read) /\ Len(reads') = Len(reads) /\ OnlyMarked(reads, reads')
      /\ \A k \in DOMAIN reads : reads'[k].overtaken <=> reads[k].overtaken \/ f[k]
  BY <1>3, <1>5, Marked
<1>7. /\ listReads' \in Seq(ListRead) /\ Len(listReads') = Len(listReads)
      /\ OnlyMarkedLists(listReads, listReads')
      /\ \A k \in DOMAIN listReads : listReads'[k].overtaken <=> listReads[k].overtaken \/ g[k]
  BY <1>3, <1>5, MarkedLists
<1>8. QED
  BY <1>1, <1>2, <1>4, <1>6, <1>7 DEF Judge

LEMMA ComingKept ==
  ASSUME NEW K, NEW l \in Load, Coming(K, l),
         UNCHANGED <<uiConnected, last, pending, pipe>>, asked[l] > 0 => asked'[l] > 0
  PROVE  Coming(K, l)'
BY DEF Coming

LEMMA MessagesFineKept ==
  ASSUME MessagesFine, UNCHANGED <<list, stored>>,
         reads' = reads \/ OnlyMarked(reads, reads'),
         excused /\ list # stored => excused'
  PROVE  MessagesFine'
<1>1. DOMAIN reads' = DOMAIN reads
      /\ \A k \in DOMAIN reads : reads'[k].snap = reads[k].snap
                                 /\ (reads[k].overtaken => reads'[k].overtaken)
  BY DEF OnlyMarked
<1>2. QED
  BY <1>1 DEF MessagesFine

LEMMA ListedFineKept ==
  ASSUME ListedFine, UNCHANGED <<listed, access>>,
         listReads' = listReads \/ OnlyMarkedLists(listReads, listReads'),
         listExcused /\ listed # Has => listExcused'
  PROVE  ListedFine'
<1>1. DOMAIN listReads' = DOMAIN listReads
      /\ \A k \in DOMAIN listReads : listReads'[k].has = listReads[k].has
                                     /\ (listReads[k].overtaken => listReads'[k].overtaken)
  BY DEF OnlyMarkedLists
<1>2. QED
  BY <1>1 DEF ListedFine

\* What goes unheard is noted; nothing that was fine stops being so.
LEMMA UnheardFine ==
  ASSUME ChatTypeOK, NEW kind, Unheard(kind), UNCHANGED <<stored, access>>
  PROVE  /\ kind \in MessageKind => MessagesFine'
         /\ kind = "conversation" => ListedFine'
         /\ MessagesFine /\ UNCHANGED list => MessagesFine'
         /\ ListedFine /\ UNCHANGED listed => ListedFine'
<1>0. reads \in Seq(Read) /\ listReads \in Seq(ListRead)
  BY DEF ChatTypeOK
<1>1. /\ OnlyMarked(reads, reads')
      /\ kind \in MessageKind =>
           \A k \in DOMAIN reads : reads[k].snap # stored => reads'[k].overtaken
      /\ OnlyMarkedLists(listReads, listReads')
      /\ kind = "conversation" =>
           \A k \in DOMAIN listReads :
             listReads[k].has # Has => listReads'[k].overtaken
      /\ excused' = (list' # stored' /\ (excused \/ kind \in MessageKind))
      /\ listExcused' = (listed' # Has' /\ (listExcused \/ kind = "conversation"))
  BY <1>0, UnheardIs
<1>2. kind \in MessageKind => MessagesFine'
  <2> SUFFICES ASSUME kind \in MessageKind PROVE MessagesFine'
    OBVIOUS
  <2>1. list' = stored' \/ excused'
    BY <1>1
  <2>2. \A k \in DOMAIN reads' : reads'[k].overtaken \/ reads'[k].snap = stored'
    BY <1>1 DEF OnlyMarked
  <2>3. QED
    BY <2>1, <2>2 DEF MessagesFine
<1>3. kind = "conversation" => ListedFine'
  <2> SUFFICES ASSUME kind = "conversation" PROVE ListedFine'
    OBVIOUS
  <2>1. listed' = Has' \/ listExcused'
    BY <1>1
  <2>2. \A k \in DOMAIN listReads' :
          listReads'[k].overtaken \/ listReads'[k].has = Has'
    BY <1>1 DEF OnlyMarkedLists
  <2>3. QED
    BY <2>1, <2>2 DEF ListedFine
<1>4. MessagesFine /\ UNCHANGED list => MessagesFine'
  BY <1>1, MessagesFineKept
<1>5. ListedFine /\ UNCHANGED listed => ListedFine'
  BY <1>1, ListedFineKept
<1>6. QED
  BY <1>2, <1>3, <1>4, <1>5

LEMMA StrangerKept ==
  ASSUME StrangerInv, UNCHANGED <<stored, access, own>>,
         list' = list \/ list' = <<>>, listed' = listed \/ ~listed',
         Len(reads') = Len(reads), reads \in Seq(Read), reads' \in Seq(Read),
         listReads' = listReads \/ OnlyMarkedLists(listReads, listReads')
  PROVE  StrangerInv'
<1>1. reads = <<>> => reads' = <<>>
  BY EmptySeq, LenProperties
<1>2. (\A k \in DOMAIN listReads : ~listReads[k].has)
      => \A k \in DOMAIN listReads' : ~listReads'[k].has
  BY DEF OnlyMarkedLists
<1>3. QED
  BY <1>1, <1>2 DEF StrangerInv

\* The connection.
LEMMA ConnectionStepInv ==
  ASSUME ChatInv, Reconnect \/ ConnectionStep
  PROVE  ChatInv'
<1> DEFINE S == {"conversations"} \cup IF Shown THEN {"messages"} ELSE {}
<1>0. ChatTypeOK /\ RealtimeTypeOK /\ ConnectedInv
  BY DEF ChatInv, ChatTypeOK
<1>1. /\ \/ Opened \/ Refused \/ Retry \/ SubscribeRead \/ SubscribeDropped \/ Dropped
         \/ PageHidden \/ TokenExpires \/ TokensCleared
      /\ Reload
      /\ UNCHANGED <<serverVars, viewVars, reads, listReads, own, changes, history>>
  BY DEF Reconnect, ConnectionStep
<1>2. RealtimeTypeOK' /\ ConnectedInv'
  BY <1>0, <1>1, RealtimeStep DEF RealtimeMoves
<1>3. S \in SUBSET Load /\ "conversations" \in S /\ (Shown => "messages" \in S)
  BY DEF Load
<1>4. /\ asked' \in [Load -> 0..MaxLoads] /\ InFlight' <= MaxLoads
      /\ \A l \in Load : asked[l] > 0 => asked'[l] > 0
      /\ Flips => \A l \in S : asked'[l] > 0
  <2>1. asked \in [Load -> 0..MaxLoads] /\ InFlight <= MaxLoads
    BY <1>0 DEF ChatTypeOK
  <2>2. CASE Flips
    <3>1. Ask(S)
      BY <1>1, <2>2 DEF Reload
    <3> HIDE DEF S
    <3>2. /\ asked' \in [Load -> 0..MaxLoads] /\ InFlight' <= MaxLoads
          /\ \A l \in Load : asked'[l] = asked[l] + IF l \in S THEN 1 ELSE 0
      BY <1>0, <1>1, <1>3, <3>1, Asked
    <3>3. QED
      BY <1>3, <2>1, <3>2
  <2>3. CASE ~Flips
    BY <1>1, <2>1, <2>3 DEF Reload, InFlight
  <2>4. QED
    BY <2>2, <2>3
<1>5. ChatTypeOK'
  BY <1>0, <1>1, <1>2, <1>4 DEF ChatTypeOK, serverVars, viewVars, history
<1>6. StrangerInv' /\ OnceInv' /\ RestoringInv'
  BY <1>1, <1>4 DEF ChatInv, StrangerInv, OnceInv, RestoringInv, serverVars, viewVars, Load
<1>7. ASSUME NEW K, NEW l \in S, Coming(K, l) PROVE Coming(K, l)'
  <2> HIDE DEF S
  <2>1. last' = last /\ pending' = pending /\ l \in Load
    BY <1>1, <1>3
    DEF serverVars, Opened, Refused, Retry, SubscribeRead, SubscribeDropped, Dropped, PageHidden,
        TokenExpires, TokensCleared
  <2>2. CASE ~uiConnected' \/ Flips
    BY <1>4, <2>2 DEF Coming
  <2>3. CASE uiConnected' /\ ~Flips
    <3>1. pipe' = pipe
      BY <1>0, <1>1, <2>3
      DEF Flips, RealtimeTypeOK, ConnectedInv, Opened, Refused, Retry, SubscribeRead,
          SubscribeDropped, Dropped, PageHidden, TokenExpires, TokensCleared, Closed,
          Disconnect, SetConnected
    <3>2. QED
      BY <1>4, <1>7, <2>1, <2>3, <3>1, ComingKept DEF Flips
  <2>4. QED
    BY <2>2, <2>3
<1>8. MessagesInv'
  <2> SUFFICES ASSUME Shown, Has PROVE Coming(MessageKind, "messages")' \/ MessagesFine'
    BY <1>1 DEF MessagesInv, Shown, viewVars, serverVars
  <2>1. Coming(MessageKind, "messages") \/ MessagesFine
    BY DEF ChatInv, MessagesInv
  <2>2. MessagesFine => MessagesFine'
    BY <1>1, MessagesFineKept DEF viewVars, serverVars, history
  <2>3. QED
    BY <1>3, <1>7, <2>1, <2>2
<1>9. ListedInv'
  <2>1. Coming({"conversation"}, "conversations") \/ ListedFine
    BY DEF ChatInv, ListedInv
  <2>2. ListedFine => ListedFine'
    BY <1>1, ListedFineKept DEF viewVars, serverVars, history
  <2>3. QED
    BY <1>3, <1>7, <2>1, <2>2 DEF ListedInv
<1>10. QED
  BY <1>2, <1>5, <1>6, <1>8, <1>9 DEF ChatInv

\* The effect runs again: whatever was to be loaded is asked for.
LEMMA PlacedInv ==
  ASSUME ChatInv, Placed
  PROVE  ChatInv'
<1> DEFINE S == {"conversations"} \cup IF Shown THEN {"messages"} ELSE {}
<1>0. ChatTypeOK /\ RealtimeTypeOK /\ ConnectedInv
  BY DEF ChatInv, ChatTypeOK
<1>1. /\ changes < MaxChanges /\ changes' = changes + 1 /\ EffectAgain /\ Ask(S)
      /\ UNCHANGED <<serverVars, viewVars, reads, listReads, own, history>>
  BY DEF Placed
<1>2. RealtimeTypeOK' /\ ConnectedInv'
  BY <1>0, <1>1, RealtimeStep DEF RealtimeMoves
<1>3. S \in SUBSET Load /\ "conversations" \in S /\ (Shown => "messages" \in S)
  BY DEF Load
<1> HIDE DEF S
<1>4. /\ asked' \in [Load -> 0..MaxLoads] /\ InFlight' <= MaxLoads
      /\ \A l \in S : asked'[l] > 0
  <2>1. /\ asked' \in [Load -> 0..MaxLoads] /\ InFlight' <= MaxLoads
        /\ \A l \in Load : asked'[l] = asked[l] + IF l \in S THEN 1 ELSE 0
    BY <1>0, <1>1, <1>3, Asked
  <2>2. \A l \in Load : asked[l] \in Nat
    <3>1. asked \in [Load -> 0..MaxLoads] /\ MaxLoads \in Nat
      BY <1>0, ChatBounds DEF ChatTypeOK
    <3>2. QED
      BY <3>1
  <2>3. QED
    BY <1>3, <2>1, <2>2
<1>5. changes' \in 0..MaxChanges
  <2>1. changes \in 0..MaxChanges /\ MaxChanges \in Nat
    BY <1>0, ChatBounds DEF ChatTypeOK
  <2>2. QED
    BY <1>1, <2>1
<1>6. ChatTypeOK'
  BY <1>0, <1>1, <1>2, <1>4, <1>5 DEF ChatTypeOK, serverVars, viewVars, history
<1>7. StrangerInv' /\ OnceInv' /\ RestoringInv'
  BY <1>1, <1>3, <1>4
  DEF ChatInv, StrangerInv, OnceInv, RestoringInv, serverVars, viewVars
<1>8. MessagesInv' /\ ListedInv'
  <2>1. Shown' = Shown
    BY <1>1 DEF Shown, viewVars
  <2>2. QED
    BY <1>3, <1>4, <2>1 DEF MessagesInv, ListedInv, Coming
<1>9. QED
  BY <1>2, <1>6, <1>7, <1>8 DEF ChatInv

LEMMA QuietEventsInv ==
  ASSUME ChatInv, MembersPolled \/ RenewedByCookie \/ Noise
  PROVE  ChatInv'
<1>0. ChatTypeOK /\ RealtimeTypeOK /\ ConnectedInv
  BY DEF ChatInv, ChatTypeOK
<1>1. /\ Poll \/ PollByCookie \/ Push("other")
      /\ UNCHANGED chatVars
  BY DEF MembersPolled, RenewedByCookie, Noise
<1>2. RealtimeTypeOK' /\ ConnectedInv'
  BY <1>0, <1>1, RealtimeStep DEF RealtimeMoves, Kind
<1>3. ChatTypeOK'
  BY <1>0, <1>1, <1>2
  DEF ChatTypeOK, chatVars, serverVars, viewVars, loadVars, history, InFlight
<1>4. StrangerInv' /\ OnceInv' /\ RestoringInv'
  BY <1>1
  DEF ChatInv, StrangerInv, OnceInv, RestoringInv, chatVars, serverVars, viewVars, loadVars
<1>5. ASSUME NEW K, NEW l, Coming(K, l) PROVE Coming(K, l)'
  <2>1. UNCHANGED <<uiConnected, last, pending, asked>>
    BY <1>1 DEF Poll, PollByCookie, Push, chatVars, serverVars, loadVars
  <2>2. \A k \in DOMAIN pipe : k \in DOMAIN pipe' /\ pipe'[k] = pipe[k]
    <3>1. pipe' = pipe \/ pipe' = Append(pipe, "other")
      BY <1>1 DEF Poll, PollByCookie, Push
    <3>2. pipe \in Seq(Kind) /\ DOMAIN pipe = 1..Len(pipe) /\ Len(pipe) \in Nat
      BY <1>0, LenProperties DEF RealtimeTypeOK
    <3>3. QED
      BY <3>1, <3>2
  <2>3. QED
    BY <1>5, <2>1, <2>2 DEF Coming
<1>6. UNCHANGED <<list, stored, reads, listReads, listed, active, access, excused, listExcused>>
  BY <1>1 DEF chatVars, serverVars, viewVars, loadVars, history
<1>7. MessagesInv' /\ ListedInv'
  BY <1>5, <1>6, MessagesFineKept, ListedFineKept DEF ChatInv, MessagesInv, ListedInv, Shown
<1>8. QED
  BY <1>2, <1>3, <1>4, <1>7 DEF ChatInv

\* An event that is published, received or rendered: after it a load is still to come,
\* or it went unheard.
MessagesStillCome == Coming(MessageKind, "messages") => Coming(MessageKind, "messages")'
ListStillComes ==
    Coming({"conversation"}, "conversations") => Coming({"conversation"}, "conversations")'

EventMoves ==
    /\ UNCHANGED <<stored, posted, access, viewVars, own, changes>>
    /\ \/ \E kind \in Kind : Push(kind) \/ Receive \/ Rendered
       \/ /\ UNCHANGED <<sock, connected, uiConnected, timer, intentional, subscription, pipe,
                         last, token, opened, stranded>>
          /\ Trouble
    /\ \/ UNCHANGED asked \/ \E S \in SUBSET Load : Ask(S)
    /\ \/ /\ UNCHANGED <<reads, listReads, history>>
          /\ MessagesStillCome /\ ListStillComes
       \/ \E kind \in Kind :
            /\ Unheard(kind)
            /\ kind \in MessageKind \/ MessagesStillCome
            /\ kind = "conversation" \/ ListStillComes
    /\ Len(pending') <= 1 /\ pending' \in Seq(Event)

LEMMA EventMovesInv ==
  ASSUME ChatInv, EventMoves
  PROVE  ChatInv'
<1>0. ChatTypeOK /\ RealtimeTypeOK /\ ConnectedInv
  BY DEF ChatInv, ChatTypeOK
<1>1. RealtimeTypeOK' /\ ConnectedInv'
  BY <1>0, RealtimeStep DEF EventMoves, RealtimeMoves
<1>2. /\ reads' \in Seq(Read) /\ Len(reads') = Len(reads)
      /\ listReads' \in Seq(ListRead) /\ Len(listReads') = Len(listReads)
      /\ listReads' = listReads \/ OnlyMarkedLists(listReads, listReads')
      /\ excused' \in BOOLEAN /\ listExcused' \in BOOLEAN
  <2>1. reads \in Seq(Read) /\ listReads \in Seq(ListRead)
        /\ excused \in BOOLEAN /\ listExcused \in BOOLEAN
    BY <1>0 DEF ChatTypeOK
  <2>2. CASE UNCHANGED <<reads, listReads, history>>
    BY <2>1, <2>2 DEF history
  <2>3. ASSUME NEW kind \in Kind, Unheard(kind) PROVE <1>2!:
    BY <2>1, <2>3, UnheardIs
  <2>4. QED
    BY <2>2, <2>3 DEF EventMoves
<1>3. /\ asked' \in [Load -> 0..MaxLoads] /\ InFlight' <= MaxLoads
      /\ \A l \in Load : asked[l] > 0 => asked'[l] > 0
  <2>1. asked \in [Load -> 0..MaxLoads] /\ InFlight <= MaxLoads
    BY <1>0 DEF ChatTypeOK
  <2>2. ASSUME NEW S \in SUBSET Load, Ask(S) PROVE <1>3!:
    <3>1. /\ asked' \in [Load -> 0..MaxLoads] /\ InFlight' <= MaxLoads
          /\ \A l \in Load : asked'[l] = asked[l] + IF l \in S THEN 1 ELSE 0
      BY <1>0, <1>2, <2>2, Asked
    <3>2. QED
      BY <2>1, <3>1
  <2>3. CASE UNCHANGED asked
    BY <1>2, <2>1, <2>3 DEF InFlight
  <2>4. QED
    BY <2>2, <2>3 DEF EventMoves
<1>4. ChatTypeOK'
  BY <1>0, <1>1, <1>2, <1>3 DEF EventMoves, ChatTypeOK, viewVars
<1>5. StrangerInv'
  BY <1>0, <1>2, StrangerKept DEF EventMoves, viewVars, ChatInv, ChatTypeOK
<1>6. OnceInv'
  BY DEF EventMoves, ChatInv, OnceInv
<1>7. RestoringInv'
  <2>1. listReads # <<>> => listReads' # <<>>
    BY <1>0, <1>2, LenProperties, EmptySeq DEF ChatTypeOK
  <2>2. QED
    BY <1>3, <2>1 DEF EventMoves, ChatInv, RestoringInv, viewVars, Load
<1>8. MessagesInv'
  <2> SUFFICES ASSUME Shown, Has PROVE Coming(MessageKind, "messages")' \/ MessagesFine'
    BY DEF EventMoves, MessagesInv, Shown, viewVars
  <2>1. Coming(MessageKind, "messages") \/ MessagesFine
    BY DEF ChatInv, MessagesInv
  <2>2. CASE UNCHANGED <<reads, listReads, history>> /\ MessagesStillCome
    BY <2>1, <2>2, MessagesFineKept DEF EventMoves, viewVars, history, MessagesStillCome
  <2>3. ASSUME NEW kind \in Kind, Unheard(kind), kind \in MessageKind \/ MessagesStillCome
        PROVE  Coming(MessageKind, "messages")' \/ MessagesFine'
    BY <1>0, <2>1, <2>3, UnheardFine DEF EventMoves, viewVars, MessagesStillCome
  <2>4. QED
    BY <2>2, <2>3 DEF EventMoves
<1>9. ListedInv'
  <2>1. Coming({"conversation"}, "conversations") \/ ListedFine
    BY DEF ChatInv, ListedInv
  <2>2. CASE UNCHANGED <<reads, listReads, history>> /\ ListStillComes
    BY <2>1, <2>2, ListedFineKept DEF EventMoves, viewVars, history, ListedInv, ListStillComes
  <2>3. ASSUME NEW kind \in Kind, Unheard(kind), kind = "conversation" \/ ListStillComes
        PROVE  ListedInv'
    BY <1>0, <2>1, <2>3, UnheardFine DEF EventMoves, viewVars, ListedInv, ListStillComes
  <2>4. QED
    BY <2>2, <2>3 DEF EventMoves
<1>10. QED
  BY <1>1, <1>4, <1>5, <1>6, <1>7, <1>8, <1>9 DEF ChatInv

\* The one event that waits, and what goes with it.
LEMMA PendingIs ==
  ASSUME ChatInv, pending # <<>>, pending' = <<>>
  PROVE  /\ Head(pending).kind \in Kind
         /\ \A k \in DOMAIN pending : pending[k].kind = Head(pending).kind
         /\ Len(pending') <= 1 /\ pending' \in Seq(Event)
<1>1. Len(pending) <= 1 /\ pending \in Seq(Event)
  BY DEF ChatInv, ChatTypeOK, OnceInv
<1>2. Len(pending) = 1 /\ DOMAIN pending = {1} /\ Head(pending) = pending[1]
  <2>1. Len(pending) \in Nat \ {0} /\ DOMAIN pending = 1..Len(pending)
    BY <1>1, LenProperties, EmptySeq
  <2>2. Len(pending) = 1
    BY <1>1, <2>1
  <2>3. QED
    BY <1>1, <2>1, <2>2
<1>3. pending[1] \in Event
  BY <1>1, <1>2
<1>4. Len(<<>>) = 0 /\ <<>> \in Seq(Event)
  BY EmptySeq
<1>5. QED
  BY <1>2, <1>3, <1>4 DEF Event

LEMMA PublishInv ==
  ASSUME ChatInv, Publish
  PROVE  ChatInv'
<1>0. RealtimeTypeOK /\ ConnectedInv /\ pipe \in Seq(Kind)
  BY DEF ChatInv, ChatTypeOK, RealtimeTypeOK
<1>1. PICK kind : kind = Head(pending).kind
  OBVIOUS
<1>2. /\ Push(kind) /\ pending' = <<>>
      /\ UNCHANGED <<stored, posted, access, viewVars, asked, own, changes>>
      /\ IF subscription # "held" /\ uiConnected THEN Unheard(kind)
         ELSE UNCHANGED <<reads, listReads, history>>
  BY <1>1 DEF Publish
<1>3. /\ kind \in Kind /\ \A k \in DOMAIN pending : pending[k].kind = kind
      /\ Len(pending') <= 1 /\ pending' \in Seq(Event)
  BY <1>1, PendingIs DEF Publish
<1>4. UNCHANGED <<uiConnected, last, asked>>
      /\ \A k \in DOMAIN pipe : k \in DOMAIN pipe' /\ pipe'[k] = pipe[k]
  <2>1. pipe' = pipe \/ pipe' = Append(pipe, kind)
    BY <1>2 DEF Push
  <2>2. DOMAIN pipe = 1..Len(pipe) /\ Len(pipe) \in Nat
    BY <1>0, LenProperties
  <2>3. QED
    BY <1>0, <1>2, <1>3, <2>1, <2>2 DEF Push
<1>5. ASSUME NEW K, NEW l, Coming(K, l), kind \notin K PROVE Coming(K, l)'
  BY <1>3, <1>4, <1>5 DEF Coming
<1>6. CASE subscription # "held" /\ uiConnected
  <2>1. Unheard(kind) /\ (kind \in MessageKind \/ MessagesStillCome)
        /\ (kind = "conversation" \/ ListStillComes)
    BY <1>2, <1>5, <1>6 DEF MessagesStillCome, ListStillComes
  <2>2. QED
    BY <1>2, <1>3, <2>1, EventMovesInv DEF EventMoves
<1>7. CASE ~(subscription # "held" /\ uiConnected)
  <2>1. ASSUME NEW K, NEW l, Coming(K, l) PROVE Coming(K, l)'
    <3>1. CASE subscription # "held"
      BY <1>4, <1>7, <3>1 DEF Coming
    <3>2. CASE subscription = "held"
      <4>1. pipe' = Append(pipe, kind) /\ DOMAIN pipe' = 1..Len(pipe) + 1
            /\ pipe'[Len(pipe) + 1] = kind /\ Len(pipe) \in Nat
        BY <1>0, <1>2, <1>3, <3>2, LenProperties DEF Push
      <4>2. QED
        BY <1>3, <1>4, <2>1, <4>1 DEF Coming
    <3>3. QED
      BY <3>1, <3>2
  <2>2. QED
    BY <1>2, <1>3, <1>7, <2>1, EventMovesInv DEF EventMoves, MessagesStillCome, ListStillComes
<1>8. QED
  BY <1>6, <1>7

LEMMA PublishFailsInv ==
  ASSUME ChatInv, PublishFails
  PROVE  ChatInv'
<1>1. PICK kind : kind = Head(pending).kind
  OBVIOUS
<1>2. /\ Trouble /\ pending' = <<>>
      /\ UNCHANGED <<sock, connected, uiConnected, timer, intentional, subscription, pipe, last,
                     token, opened, stranded>>
      /\ UNCHANGED <<stored, posted, access, viewVars, asked, own, changes>>
      /\ IF uiConnected THEN Unheard(kind) ELSE UNCHANGED <<reads, listReads, history>>
  BY <1>1 DEF PublishFails
<1>3. /\ kind \in Kind /\ \A k \in DOMAIN pending : pending[k].kind = kind
      /\ Len(pending') <= 1 /\ pending' \in Seq(Event)
  BY <1>1, PendingIs DEF PublishFails
<1>4. CASE uiConnected
  <2>1. ASSUME NEW K, NEW l, Coming(K, l), kind \notin K PROVE Coming(K, l)'
    BY <1>2, <1>3, <2>1 DEF Coming
  <2>2. Unheard(kind) /\ (kind \in MessageKind \/ MessagesStillCome)
        /\ (kind = "conversation" \/ ListStillComes)
    BY <1>2, <1>4, <2>1 DEF MessagesStillCome, ListStillComes
  <2>3. QED
    BY <1>2, <1>3, <2>2, EventMovesInv DEF EventMoves
<1>5. CASE ~uiConnected
  <2>1. MessagesStillCome /\ ListStillComes
    BY <1>2, <1>5 DEF MessagesStillCome, ListStillComes, Coming
  <2>2. QED
    BY <1>2, <1>3, <1>5, <2>1, EventMovesInv DEF EventMoves
<1>6. QED
  BY <1>4, <1>5

LEMMA LoadOfIs == \A kind \in Kind :
    /\ LoadOf(kind) = {"messages"} => kind \in MessageKind
    /\ LoadOf(kind) = {"conversations"} <=> kind = "conversation"
    /\ LoadOf(kind) \in {{}, {"messages"}, {"conversations"}}
<1>1. {"messages"} # {"conversations"} /\ {"messages"} # {} /\ {"conversations"} # {}
  OBVIOUS
<1>2. QED
  BY <1>1 DEF LoadOf, Kind, MessageKind

LEMMA ReceiveInv ==
  ASSUME ChatInv, ReceiveEvent
  PROVE  ChatInv'
<1>0. /\ pipe \in Seq(Kind) /\ pipe # <<>> /\ last \in Kind \cup {"none"} /\ "none" \notin Kind
      /\ Len(pending) <= 1 /\ pending \in Seq(Event)
  BY DEF ChatInv, ChatTypeOK, RealtimeTypeOK, OnceInv, ReceiveEvent, Receive, Kind, MessageKind
<1>1. /\ Receive /\ last' = Head(pipe) /\ pipe' = Tail(pipe)
      /\ UNCHANGED <<stored, posted, access, pending, uiConnected, viewVars, asked, own, changes>>
      /\ IF last = "none" \/ (LoadOf(last) # {} /\ LoadOf(last) = LoadOf(last'))
         THEN UNCHANGED <<reads, listReads, history>> ELSE Unheard(last)
  BY DEF ReceiveEvent, Receive, serverVars
<1>2. \A k \in DOMAIN pipe : pipe[k] = last' \/ \E j \in DOMAIN pipe' : pipe'[j] = pipe[k]
  <2>1. /\ DOMAIN pipe = 1..Len(pipe) /\ Len(pipe) \in Nat /\ Head(pipe) = pipe[1]
        /\ Tail(pipe) \in Seq(Kind) /\ Len(Tail(pipe)) = Len(pipe) - 1
        /\ \A i \in 1..Len(pipe) - 1 : Tail(pipe)[i] = pipe[i + 1]
    BY <1>0, LenProperties, HeadTailProperties
  <2>2. DOMAIN pipe' = 1..Len(pipe) - 1
    BY <1>1, <2>1, LenProperties
  <2>3. ASSUME NEW k \in DOMAIN pipe, k # 1 PROVE k - 1 \in DOMAIN pipe' /\ pipe'[k - 1] = pipe[k]
    BY <1>1, <2>1, <2>2, <2>3
  <2>4. QED
    BY <1>1, <2>1, <2>3
<1>3. last' \in Kind
  BY <1>0, <1>1, HeadTailProperties
<1>4. ASSUME NEW K, NEW l, Coming(K, l), last \in K => last' \in K PROVE Coming(K, l)'
  BY <1>1, <1>2, <1>4 DEF Coming
<1>5. "none" \notin MessageKind /\ "none" # "conversation"
  BY DEF MessageKind
<1>6. CASE last = "none" \/ (LoadOf(last) # {} /\ LoadOf(last) = LoadOf(last'))
  <2>1. (last \in MessageKind => last' \in MessageKind)
        /\ (last = "conversation" => last' = "conversation")
    <3>1. CASE last = "none"
      BY <1>5, <3>1
    <3>2. CASE last # "none"
      <4>1. last \in Kind /\ LoadOf(last) # {} /\ LoadOf(last) = LoadOf(last')
        BY <1>0, <1>6, <3>2
      <4>2. QED
        BY <1>3, <4>1, LoadOfIs DEF MessageKind
    <3>3. QED
      BY <3>1, <3>2
  <2>2. MessagesStillCome /\ ListStillComes
    BY <1>4, <2>1 DEF MessagesStillCome, ListStillComes
  <2>3. QED
    BY <1>0, <1>1, <1>3, <1>6, <2>2, EventMovesInv DEF EventMoves
<1>7. CASE ~(last = "none" \/ (LoadOf(last) # {} /\ LoadOf(last) = LoadOf(last')))
  <2>1. last \in Kind /\ Unheard(last)
    BY <1>0, <1>1, <1>7
  <2>2. (last \in MessageKind \/ MessagesStillCome) /\ (last = "conversation" \/ ListStillComes)
    BY <1>4 DEF MessagesStillCome, ListStillComes
  <2>3. QED
    BY <1>0, <1>1, <2>1, <2>2, EventMovesInv DEF EventMoves
<1>8. QED
  BY <1>6, <1>7

LEMMA RenderInv ==
  ASSUME ChatInv, RenderEvent
  PROVE  ChatInv'
<1>0. /\ last \in Kind /\ last' = "none" /\ "none" \notin Kind
      /\ Len(pending) <= 1 /\ pending \in Seq(Event) /\ ChatTypeOK
  BY DEF ChatInv, ChatTypeOK, RealtimeTypeOK, OnceInv, RenderEvent, Rendered, Kind, MessageKind
<1>1. /\ Rendered /\ Ask(LoadOf(last))
      /\ UNCHANGED <<stored, posted, access, pending, pipe, uiConnected, viewVars, own, changes>>
      /\ IF LoadOf(last) = {} THEN Unheard(last) ELSE UNCHANGED <<reads, listReads, history>>
  BY DEF RenderEvent, Rendered, serverVars
<1>2. LoadOf(last) \in SUBSET Load
  BY <1>0, LoadOfIs DEF Load
<1>3. \A l \in Load : asked'[l] = asked[l] + IF l \in LoadOf(last) THEN 1 ELSE 0
  BY <1>1 DEF Ask
<1>4. \A l \in Load : asked[l] \in 0..MaxLoads
  BY <1>0 DEF ChatTypeOK
<1>5. ASSUME NEW K, NEW l \in Load, Coming(K, l), last \in K => l \in LoadOf(last)
      PROVE  Coming(K, l)'
  <2>1. asked[l] > 0 \/ l \in LoadOf(last) => asked'[l] > 0
    BY <1>3, <1>4
  <2>2. QED
    BY <1>1, <1>5, <2>1 DEF Coming
<1>6. "messages" \in Load /\ "conversations" \in Load
  BY DEF Load
<1>7. CASE LoadOf(last) = {}
  <2>1. last # "conversation"
    BY <1>0, <1>7, LoadOfIs
  <2>2. (last \in MessageKind \/ MessagesStillCome) /\ ListStillComes
    BY <1>5, <1>6, <2>1 DEF MessagesStillCome, ListStillComes
  <2>3. QED
    BY <1>0, <1>1, <1>2, <1>7, <2>2, EventMovesInv DEF EventMoves
<1>8. CASE LoadOf(last) # {}
  <2>1. /\ last \in MessageKind => "messages" \in LoadOf(last)
        /\ last = "conversation" => "conversations" \in LoadOf(last)
    BY <1>0, <1>8, LoadOfIs DEF MessageKind
  <2>2. MessagesStillCome /\ ListStillComes
    BY <1>5, <1>6, <2>1 DEF MessagesStillCome, ListStillComes
  <2>3. QED
    BY <1>0, <1>1, <1>2, <1>8, <2>2, EventMovesInv DEF EventMoves
<1>9. QED
  BY <1>7, <1>8

LEMMA NoMoreInFlight ==
  ASSUME ChatTypeOK, asked' \in [Load -> Nat],
         reads' \in Seq(Read), listReads' \in Seq(ListRead),
         asked'["messages"] + asked'["conversations"] + Len(reads') + Len(listReads')
         <= asked["messages"] + asked["conversations"] + Len(reads) + Len(listReads)
  PROVE  InFlight' <= MaxLoads /\ asked' \in [Load -> 0..MaxLoads]
<1>1. /\ asked \in [Load -> 0..MaxLoads] /\ InFlight <= MaxLoads /\ MaxLoads \in Nat
      /\ Len(reads) \in Nat /\ Len(listReads) \in Nat
      /\ Len(reads') \in Nat /\ Len(listReads') \in Nat
  BY ChatBounds, LenProperties DEF ChatTypeOK
<1>2. Load = {"messages", "conversations"}
  BY DEF Load
<1>3. /\ asked'["messages"] \in Nat /\ asked'["conversations"] \in Nat
      /\ asked["messages"] \in Nat /\ asked["conversations"] \in Nat
  BY <1>1, <1>2
<1>4. InFlight = asked["messages"] + asked["conversations"] + Len(reads) + Len(listReads)
  BY DEF InFlight
<1>5. InFlight' = asked'["messages"] + asked'["conversations"] + Len(reads') + Len(listReads')
  BY DEF InFlight
<1>6. InFlight' <= MaxLoads
  BY <1>1, <1>3, <1>4, <1>5
<1>7. asked'["messages"] <= MaxLoads /\ asked'["conversations"] <= MaxLoads
  <2>1. \A a, b, c, d, m \in Nat : a + b + c + d <= m => a <= m /\ b <= m
    OBVIOUS
  <2>2. Len(reads') \in Nat /\ Len(listReads') \in Nat /\ MaxLoads \in Nat
    BY <1>1
  <2>3. QED
    BY <1>3, <1>5, <1>6, <2>1, <2>2
<1>8. \A l \in Load : asked'[l] \in 0..MaxLoads
  BY <1>1, <1>2, <1>3, <1>7
<1>9. QED
  BY <1>6, <1>8

LEMMA ReadMessagesInv ==
  ASSUME ChatInv, ReadMessages
  PROVE  ChatInv'
<1> DEFINE new == [snap |-> stored, overtaken |-> FALSE]
<1>0. /\ ChatTypeOK /\ RealtimeTypeOK /\ ConnectedInv /\ MaxLoads \in Nat
      /\ asked \in [Load -> 0..MaxLoads] /\ reads \in Seq(Read) /\ listReads \in Seq(ListRead)
      /\ Len(reads) \in Nat /\ DOMAIN reads = 1..Len(reads) /\ Len(listReads) \in Nat
      /\ "messages" \in Load /\ "conversations" \in Load
  BY ChatBounds, LenProperties DEF ChatInv, ChatTypeOK, Load
<1>1. /\ asked["messages"] > 0 /\ asked' = [asked EXCEPT !["messages"] = @ - 1]
      /\ reads' = IF Has THEN Append(reads, new) ELSE reads
      /\ UNCHANGED <<rtVars, serverVars, viewVars, listReads, own, changes, history>>
  BY DEF ReadMessages
<1>2. new \in Read /\ new.snap = stored
  BY <1>0 DEF Read, ChatTypeOK
<1> HIDE DEF new
<1>3. /\ reads' \in Seq(Read) /\ Len(reads') \in {Len(reads), Len(reads) + 1}
      /\ Has => /\ DOMAIN reads' = 1..Len(reads) + 1
                           /\ reads'[Len(reads) + 1] = new
                           /\ \A k \in DOMAIN reads : reads'[k] = reads[k]
  BY <1>0, <1>1, <1>2, LenProperties
<1>4. /\ asked' \in [Load -> 0..MaxLoads] /\ asked'["conversations"] = asked["conversations"]
      /\ asked'["messages"] = asked["messages"] - 1
      /\ asked["messages"] \in 0..MaxLoads /\ asked["conversations"] \in 0..MaxLoads
  BY <1>0, <1>1
<1>5. InFlight' <= MaxLoads
  <2>1. asked' \in [Load -> Nat] /\ Len(reads') \in Nat /\ Len(listReads') \in Nat
    BY <1>0, <1>4, <1>1, <1>3, LenProperties
  <2>2. asked'["messages"] + asked'["conversations"] + Len(reads') + Len(listReads')
        <= asked["messages"] + asked["conversations"] + Len(reads) + Len(listReads)
    BY <1>0, <1>1, <1>3, <1>4
  <2>3. QED
    BY <1>0, <1>1, <1>3, <2>1, <2>2, NoMoreInFlight
<1>6. RealtimeTypeOK' /\ ConnectedInv'
  BY <1>0, <1>1, RealtimeStep DEF RealtimeMoves, rtVars
<1>7. ChatTypeOK'
  BY <1>0, <1>1, <1>3, <1>4, <1>5, <1>6 DEF ChatTypeOK, serverVars, viewVars, history
<1>8. StrangerInv' /\ OnceInv' /\ RestoringInv'
  BY <1>1, <1>4 DEF ChatInv, StrangerInv, OnceInv, RestoringInv, serverVars, viewVars
<1>9. MessagesInv'
  <2> SUFFICES ASSUME Has PROVE MessagesFine'
    BY <1>1 DEF MessagesInv, serverVars
  <2>1. /\ Len(reads) + 1 \in DOMAIN reads' /\ reads'[Len(reads) + 1].snap = stored'
        /\ \A k \in DOMAIN reads' : k <= Len(reads) + 1
    BY <1>0, <1>1, <1>2, <1>3 DEF serverVars
  <2>2. ASSUME NEW k \in DOMAIN reads', reads'[k].snap # stored' PROVE Len(reads) + 1 > k
    <3>1. k \in 1..Len(reads) + 1 /\ k # Len(reads) + 1
      BY <1>3, <2>1, <2>2
    <3>2. QED
      BY <1>0, <3>1
  <2>3. QED
    BY <2>1, <2>2 DEF MessagesFine
<1>10. ListedInv'
  <2>1. Coming({"conversation"}, "conversations") => Coming({"conversation"}, "conversations")'
    BY <1>1, <1>4 DEF Coming, rtVars, serverVars
  <2>2. ListedFine => ListedFine'
    BY <1>1, ListedFineKept DEF viewVars, serverVars, history
  <2>3. QED
    BY <2>1, <2>2 DEF ChatInv, ListedInv
<1>11. QED
  BY <1>6, <1>7, <1>8, <1>9, <1>10 DEF ChatInv

LEMMA ReadConversationsInv ==
  ASSUME ChatInv, ReadConversations
  PROVE  ChatInv'
<1> DEFINE new == [has |-> Has, overtaken |-> FALSE]
<1>0. /\ ChatTypeOK /\ RealtimeTypeOK /\ ConnectedInv /\ MaxLoads \in Nat
      /\ asked \in [Load -> 0..MaxLoads] /\ reads \in Seq(Read) /\ listReads \in Seq(ListRead)
      /\ Len(listReads) \in Nat /\ DOMAIN listReads = 1..Len(listReads) /\ Len(reads) \in Nat
      /\ "messages" \in Load /\ "conversations" \in Load
  BY ChatBounds, LenProperties DEF ChatInv, ChatTypeOK, Load
<1>1. /\ asked["conversations"] > 0 /\ asked' = [asked EXCEPT !["conversations"] = @ - 1]
      /\ listReads' = Append(listReads, new)
      /\ UNCHANGED <<rtVars, serverVars, viewVars, reads, own, changes, history>>
  BY DEF ReadConversations
<1>2. new \in ListRead /\ new.has = Has /\ new.has \in BOOLEAN
  <2>1. PICK h \in BOOLEAN : h = Has
    <3>1. Has = TRUE \/ Has = FALSE
      OBVIOUS
    <3>2. QED
      BY <3>1
  <2>2. new = [has |-> h, overtaken |-> FALSE]
    BY <2>1
  <2>3. QED
    BY <2>1, <2>2 DEF ListRead
<1> HIDE DEF new
<1>3. /\ listReads' \in Seq(ListRead) /\ Len(listReads') = Len(listReads) + 1
      /\ DOMAIN listReads' = 1..Len(listReads) + 1
      /\ listReads'[Len(listReads) + 1] = new
      /\ \A k \in DOMAIN listReads : listReads'[k] = listReads[k]
  BY <1>0, <1>1, <1>2, LenProperties
<1>4. /\ asked' \in [Load -> 0..MaxLoads] /\ asked'["messages"] = asked["messages"]
      /\ asked'["conversations"] = asked["conversations"] - 1
      /\ asked["messages"] \in 0..MaxLoads /\ asked["conversations"] \in 0..MaxLoads
  BY <1>0, <1>1
<1>5. InFlight' <= MaxLoads
  <2>1. asked' \in [Load -> Nat] /\ Len(reads') \in Nat /\ Len(listReads') \in Nat
    BY <1>0, <1>4, <1>1, <1>3, LenProperties
  <2>2. asked'["messages"] + asked'["conversations"] + Len(reads') + Len(listReads')
        <= asked["messages"] + asked["conversations"] + Len(reads) + Len(listReads)
    BY <1>0, <1>1, <1>3, <1>4
  <2>3. QED
    BY <1>0, <1>1, <1>3, <2>1, <2>2, NoMoreInFlight
<1>6. RealtimeTypeOK' /\ ConnectedInv'
  BY <1>0, <1>1, RealtimeStep DEF RealtimeMoves, rtVars
<1>7. ChatTypeOK'
  BY <1>0, <1>1, <1>3, <1>4, <1>5, <1>6 DEF ChatTypeOK, serverVars, viewVars, history
<1>8. StrangerInv'
  <2>1. ASSUME access = "not yet", NEW k \in DOMAIN listReads' PROVE ~listReads'[k].has
    <3>1. k \in DOMAIN listReads \/ k = Len(listReads) + 1
      BY <1>0, <1>3
    <3>2. \A j \in DOMAIN listReads : ~listReads[j].has
      BY <2>1 DEF ChatInv, StrangerInv
    <3>3. ~new.has
      BY <1>2, <2>1
    <3>4. QED
      BY <1>3, <3>1, <3>2, <3>3
  <2>2. QED
    BY <1>1, <2>1 DEF ChatInv, StrangerInv, serverVars, viewVars
<1>9. OnceInv' /\ RestoringInv'
  <2>1. listReads' # <<>>
    BY <1>0, <1>3, EmptySeq
  <2>2. QED
    BY <1>1, <2>1 DEF ChatInv, OnceInv, RestoringInv, serverVars
<1>10. MessagesInv'
  <2>1. Coming(MessageKind, "messages") => Coming(MessageKind, "messages")'
    BY <1>1, <1>4 DEF Coming, rtVars, serverVars
  <2>2. MessagesFine => MessagesFine'
    BY <1>1, MessagesFineKept DEF viewVars, serverVars, history
  <2>3. QED
    BY <1>1, <2>1, <2>2 DEF ChatInv, MessagesInv, Shown, viewVars, serverVars
<1>11. ListedInv'
  <2>1. /\ Len(listReads) + 1 \in DOMAIN listReads'
        /\ listReads'[Len(listReads) + 1].has = Has'
    BY <1>0, <1>1, <1>2, <1>3 DEF serverVars
  <2>2. \A k \in DOMAIN listReads' :
          listReads'[k].has # Has' => Len(listReads) + 1 > k
    BY <1>0, <1>3, <2>1
  <2>3. ListedFine'
    BY <2>1, <2>2 DEF ListedFine
  <2>4. QED
    BY <2>3 DEF ListedInv
<1>12. QED
  BY <1>6, <1>7, <1>8, <1>9, <1>10, <1>11 DEF ChatInv

LEMMA AnswerMessagesInv ==
  ASSUME ChatInv, NEW k \in DOMAIN reads, AnswerMessages(k)
  PROVE  ChatInv'
<1>0. /\ ChatTypeOK /\ RealtimeTypeOK /\ ConnectedInv
      /\ reads \in Seq(Read) /\ listReads \in Seq(ListRead)
      /\ Len(reads) \in Nat /\ DOMAIN reads = 1..Len(reads) /\ Len(listReads) \in Nat
      /\ \A j \in DOMAIN reads : reads[j] \in Read
      /\ k \in 1..Len(reads)
  BY LenProperties, ElementOfSeq DEF ChatInv, ChatTypeOK
<1>1. /\ list' = reads[k].snap
      /\ reads' = [j \in DOMAIN Without(reads, k) |->
                      IF j < k THEN [reads[j] EXCEPT !.overtaken = TRUE] ELSE reads[j + 1]]
      /\ UNCHANGED <<rtVars, serverVars, listed, active, asked, listReads, own, changes>>
      /\ excused' = (list' # stored' /\ (excused \/ reads[k].overtaken))
      /\ listExcused' = (listed' # Has' /\ (listExcused \/ FALSE))
  BY DEF AnswerMessages, Judge
<1>2. DOMAIN Without(reads, k) = 1..Len(reads) - 1
  BY <1>0, WithoutIs
<1>3. ASSUME NEW j \in 1..Len(reads) - 1
      PROVE  /\ reads'[j] \in Read
             /\ j < k => reads'[j].snap = reads[j].snap /\ reads'[j].overtaken
             /\ ~(j < k) => reads'[j] = reads[j + 1]
  <2>1. j \in DOMAIN reads /\ j + 1 \in DOMAIN reads
    BY <1>0
  <2>2. reads[j] \in [snap : Seq(Message), overtaken : BOOLEAN]
    BY <1>0, <2>1 DEF Read
  <2>3. QED
    BY <1>0, <1>1, <1>2, <2>1, <2>2 DEF Read
<1>4. /\ reads' \in [1..Len(reads) - 1 -> Read] /\ Len(reads) - 1 \in Nat
      /\ DOMAIN reads' = 1..Len(reads) - 1
  BY <1>0, <1>1, <1>2, <1>3
<1>5. reads' \in Seq(Read) /\ Len(reads') = Len(reads) - 1
  <2>1. reads' \in Seq(Read)
    BY <1>4
  <2>2. QED
    BY <1>4, <2>1, LenProperties
<1>6. RealtimeTypeOK' /\ ConnectedInv'
  BY <1>0, <1>1, RealtimeStep DEF RealtimeMoves, rtVars
<1>7. ChatTypeOK'
  <2>1. list' \in Seq(Message)
    BY <1>0, <1>1 DEF Read
  <2>2. InFlight' <= MaxLoads
    <3>0. asked \in [Load -> 0..MaxLoads] /\ MaxLoads \in Nat
          /\ "messages" \in Load /\ "conversations" \in Load
      BY <1>0, ChatBounds DEF ChatTypeOK, Load
    <3>1. asked["messages"] \in Nat /\ asked["conversations"] \in Nat
          /\ asked' \in [Load -> Nat]
      BY <1>1, <3>0
    <3>2. asked'["messages"] + asked'["conversations"] + Len(reads') + Len(listReads')
          <= asked["messages"] + asked["conversations"] + Len(reads) + Len(listReads)
      BY <1>0, <1>1, <1>5, <3>1
    <3>3. QED
      BY <1>0, <1>1, <1>5, <3>1, <3>2, NoMoreInFlight
  <2>3. excused' \in BOOLEAN /\ listExcused' \in BOOLEAN
    BY <1>1
  <2>4. QED
    BY <1>0, <1>1, <1>5, <1>6, <2>1, <2>2, <2>3 DEF ChatTypeOK, serverVars
<1>8. access # "not yet"
  <2>1. reads # <<>>
    <3>1. Len(reads) # 0
      BY <1>0
    <3>2. QED
      BY <3>1
  <2>2. QED
    BY <2>1 DEF ChatInv, StrangerInv
<1>9. StrangerInv' /\ OnceInv' /\ RestoringInv'
  BY <1>1, <1>8 DEF ChatInv, StrangerInv, OnceInv, RestoringInv, serverVars
<1>10. MessagesInv'
  <2> SUFFICES ASSUME Shown, Has, MessagesFine PROVE MessagesFine'
    <3>1. Coming(MessageKind, "messages") => Coming(MessageKind, "messages")'
      BY <1>1 DEF Coming, rtVars, serverVars
    <3>2. QED
      BY <1>1, <3>1 DEF ChatInv, MessagesInv, Shown, serverVars
  <2>1. stored' = stored
    BY <1>1 DEF serverVars
  <2>2. ASSUME NEW j \in DOMAIN reads, j > k
        PROVE  j - 1 \in DOMAIN reads' /\ reads'[j - 1] = reads[j]
    <3>1. j - 1 \in 1..Len(reads) - 1 /\ ~(j - 1 < k) /\ j - 1 + 1 = j
      BY <1>0, <2>2
    <3>2. QED
      BY <1>3, <1>4, <3>1
  <2>3. list' = stored' \/ excused' \/ \E j \in DOMAIN reads' : reads'[j].snap = stored'
    <3>1. CASE reads[k].snap = stored \/ reads[k].overtaken
      BY <1>1, <2>1, <3>1
    <3>2. CASE reads[k].snap # stored /\ ~reads[k].overtaken
      <4>1. PICK j \in DOMAIN reads : j > k /\ reads[j].snap = stored
        BY <3>2 DEF MessagesFine
      <4>2. QED
        BY <2>1, <2>2, <4>1
    <3>3. QED
      BY <3>1, <3>2
  <2>4. ASSUME NEW i \in DOMAIN reads', ~reads'[i].overtaken, reads'[i].snap # stored'
        PROVE  \E j \in DOMAIN reads' : j > i /\ reads'[j].snap = stored'
    <3>1. ~(i < k) /\ reads'[i] = reads[i + 1] /\ i + 1 \in DOMAIN reads /\ i \in Nat
      BY <1>0, <1>3, <1>4, <2>4
    <3>2. PICK j \in DOMAIN reads : j > i + 1 /\ reads[j].snap = stored
      BY <2>1, <2>4, <3>1 DEF MessagesFine
    <3>3. j > k /\ j - 1 > i
      BY <1>0, <3>1, <3>2
    <3>4. QED
      BY <2>1, <2>2, <3>2, <3>3
  <2>5. QED
    BY <2>3, <2>4 DEF MessagesFine
<1>11. ListedInv'
  <2>1. Coming({"conversation"}, "conversations") => Coming({"conversation"}, "conversations")'
    BY <1>1 DEF Coming, rtVars, serverVars
  <2>2. ListedFine => ListedFine'
    BY <1>1, ListedFineKept DEF serverVars
  <2>3. QED
    BY <2>1, <2>2 DEF ChatInv, ListedInv
<1>12. QED
  BY <1>6, <1>7, <1>9, <1>10, <1>11 DEF ChatInv

LEMMA NextIn == ASSUME NEW n \in Nat, NEW i \in 1..n - 1 PROVE i \in 1..n /\ i + 1 \in 1..n
OBVIOUS

LEMMA AnswerConversationsInv ==
  ASSUME ChatInv, NEW k \in DOMAIN listReads, AnswerConversations(k)
  PROVE  ChatInv'
<1>0. /\ ChatTypeOK /\ RealtimeTypeOK /\ ConnectedInv
      /\ reads \in Seq(Read) /\ listReads \in Seq(ListRead)
      /\ Len(listReads) \in Nat /\ DOMAIN listReads = 1..Len(listReads) /\ Len(reads) \in Nat
      /\ \A j \in DOMAIN listReads : listReads[j] \in ListRead
      /\ k \in 1..Len(listReads)
  BY LenProperties, ElementOfSeq DEF ChatInv, ChatTypeOK
<1>1. /\ listed' = listReads[k].has /\ active' = ActiveAfter(listReads[k].has)
      /\ asked' = IF ~Shown /\ listed' /\ active'
                  THEN [asked EXCEPT !["messages"] = @ + 1] ELSE asked
      /\ listReads' = [j \in DOMAIN Without(listReads, k) |->
                  IF j < k THEN [listReads[j] EXCEPT !.overtaken = TRUE] ELSE listReads[j + 1]]
      /\ UNCHANGED <<rtVars, serverVars, list, reads, own, changes>>
      /\ excused' = (list' # stored' /\ (excused \/ FALSE))
      /\ listExcused' = (listed' # Has' /\ (listExcused \/ listReads[k].overtaken))
  BY DEF AnswerConversations, Judge
<1>2. DOMAIN Without(listReads, k) = 1..Len(listReads) - 1
  BY <1>0, WithoutIs
<1>3. ASSUME NEW j \in 1..Len(listReads) - 1
      PROVE  /\ listReads'[j] \in ListRead
             /\ j < k => listReads'[j].has = listReads[j].has /\ listReads'[j].overtaken
             /\ ~(j < k) => listReads'[j] = listReads[j + 1]
  <2>1. j \in DOMAIN listReads /\ j + 1 \in DOMAIN listReads
    BY <1>0
  <2>2. listReads[j] \in [has : BOOLEAN, overtaken : BOOLEAN]
    BY <1>0, <2>1 DEF ListRead
  <2>3. QED
    BY <1>0, <1>1, <1>2, <2>1, <2>2 DEF ListRead
<1>4. /\ listReads' \in [1..Len(listReads) - 1 -> ListRead] /\ Len(listReads) - 1 \in Nat
      /\ DOMAIN listReads' = 1..Len(listReads) - 1
  BY <1>0, <1>1, <1>2, <1>3
<1>5. listReads' \in Seq(ListRead) /\ Len(listReads') = Len(listReads) - 1
  <2>1. listReads' \in Seq(ListRead)
    BY <1>4
  <2>2. QED
    BY <1>4, <2>1, LenProperties
<1>6. RealtimeTypeOK' /\ ConnectedInv'
  BY <1>0, <1>1, RealtimeStep DEF RealtimeMoves, rtVars
<1>7. listReads[k].has \in BOOLEAN /\ active \in BOOLEAN
  BY <1>0 DEF ListRead, ChatTypeOK
<1>8. /\ asked' \in [Load -> Nat] /\ asked'["conversations"] = asked["conversations"]
      /\ asked'["messages"] \in {asked["messages"], asked["messages"] + 1}
      /\ ~Shown /\ listed' /\ active' => asked'["messages"] > 0
      /\ asked["messages"] > 0 => asked'["messages"] > 0
      /\ asked["messages"] \in Nat /\ asked["conversations"] \in Nat
  <2>1. asked \in [Load -> 0..MaxLoads] /\ MaxLoads \in Nat
        /\ "messages" \in Load /\ "conversations" \in Load
    BY <1>0, ChatBounds DEF ChatTypeOK, Load
  <2>2. QED
    BY <1>1, <2>1
<1>9. ChatTypeOK'
  <2>1. InFlight' <= MaxLoads /\ asked' \in [Load -> 0..MaxLoads]
    <3>1. asked'["messages"] + asked'["conversations"] + Len(reads') + Len(listReads')
          <= asked["messages"] + asked["conversations"] + Len(reads) + Len(listReads)
      <4>1. Len(reads') = Len(reads) /\ Len(listReads') = Len(listReads) - 1
        BY <1>1, <1>5
      <4>2. /\ asked'["conversations"] = asked["conversations"]
            /\ asked'["messages"] <= asked["messages"] + 1
            /\ asked'["messages"] \in Nat
        BY <1>8
      <4>3. QED
        BY <1>0, <1>8, <4>1, <4>2
    <3>2. reads' \in Seq(Read) /\ listReads' \in Seq(ListRead) /\ asked' \in [Load -> Nat]
      BY <1>0, <1>1, <1>5, <1>8
    <3>3. QED
      BY <1>0, <3>1, <3>2, NoMoreInFlight
  <2>2. /\ excused' \in BOOLEAN /\ listExcused' \in BOOLEAN /\ listed' \in BOOLEAN
        /\ active' \in BOOLEAN
    BY <1>1, <1>7 DEF ActiveAfter
  <2>3. QED
    BY <1>0, <1>1, <1>5, <1>6, <2>1, <2>2 DEF ChatTypeOK, serverVars
<1>10. StrangerInv'
  <2> SUFFICES ASSUME access = "not yet" PROVE StrangerInv'
    BY <1>1 DEF StrangerInv, serverVars
  <2>1. \A j \in DOMAIN listReads : ~listReads[j].has
    BY DEF ChatInv, StrangerInv
  <2>2. ~listed'
    BY <1>1, <2>1
  <2>3. ASSUME NEW j \in DOMAIN listReads' PROVE ~listReads'[j].has
    <3>1. j \in 1..Len(listReads) - 1
      BY <1>4
    <3>2. j \in DOMAIN listReads /\ j + 1 \in DOMAIN listReads
      <4>1. j \in 1..Len(listReads) /\ j + 1 \in 1..Len(listReads)
        BY <1>0, <3>1, NextIn
      <4>2. QED
        BY <1>0, <4>1
    <3>3. CASE j < k
      BY <1>3, <2>1, <3>1, <3>2, <3>3
    <3>4. CASE ~(j < k)
      BY <1>3, <2>1, <3>1, <3>2, <3>4
    <3>5. QED
      BY <3>3, <3>4
  <2>4. QED
    BY <1>1, <2>2, <2>3 DEF ChatInv, StrangerInv, serverVars
<1>11. OnceInv' /\ RestoringInv'
  BY <1>1, <1>7 DEF ChatInv, OnceInv, RestoringInv, serverVars, ActiveAfter
<1>12. MessagesInv'
  <2> SUFFICES ASSUME Shown', Shown, Has
               PROVE  Coming(MessageKind, "messages")' \/ MessagesFine'
    BY <1>1, <1>8 DEF MessagesInv, Shown, serverVars, Coming
  <2>1. Coming(MessageKind, "messages") => Coming(MessageKind, "messages")'
    BY <1>1, <1>8 DEF Coming, rtVars, serverVars
  <2>2. MessagesFine => MessagesFine'
    BY <1>1, MessagesFineKept DEF serverVars
  <2>3. QED
    BY <2>1, <2>2 DEF ChatInv, MessagesInv
<1>13. ListedInv'
  <2> SUFFICES ASSUME ListedFine PROVE ListedFine'
    <3>1. Coming({"conversation"}, "conversations") => Coming({"conversation"}, "conversations")'
      BY <1>1, <1>8 DEF Coming, rtVars, serverVars
    <3>2. QED
      BY <3>1 DEF ChatInv, ListedInv
  <2>1. access' = access
    BY <1>1 DEF serverVars
  <2>2. ASSUME NEW j \in DOMAIN listReads, j > k
        PROVE  j - 1 \in DOMAIN listReads' /\ listReads'[j - 1] = listReads[j]
    <3>1. j - 1 \in 1..Len(listReads) - 1 /\ ~(j - 1 < k) /\ j - 1 + 1 = j
      BY <1>0, <2>2
    <3>2. QED
      BY <1>3, <1>4, <3>1
  <2>3. \/ listed' = Has' \/ listExcused'
        \/ \E j \in DOMAIN listReads' : listReads'[j].has = Has'
    <3>1. CASE listReads[k].has = Has \/ listReads[k].overtaken
      BY <1>1, <2>1, <3>1
    <3>2. CASE listReads[k].has # Has /\ ~listReads[k].overtaken
      <4>1. PICK j \in DOMAIN listReads : j > k /\ listReads[j].has = Has
        BY <3>2 DEF ListedFine
      <4>2. QED
        BY <2>1, <2>2, <4>1
    <3>3. QED
      BY <3>1, <3>2
  <2>4. ASSUME NEW i \in DOMAIN listReads', ~listReads'[i].overtaken,
               listReads'[i].has # Has'
        PROVE  \E j \in DOMAIN listReads' : j > i /\ listReads'[j].has = Has'
    <3>1. ~(i < k) /\ listReads'[i] = listReads[i + 1] /\ i + 1 \in DOMAIN listReads /\ i \in Nat
      BY <1>0, <1>3, <1>4, <2>4
    <3>2. PICK j \in DOMAIN listReads : j > i + 1 /\ listReads[j].has = Has
      BY <2>1, <2>4, <3>1 DEF ListedFine
    <3>3. j > k /\ j - 1 > i
      BY <1>0, <3>1, <3>2
    <3>4. QED
      BY <2>1, <2>2, <3>2, <3>3
  <2>5. QED
    BY <2>3, <2>4 DEF ListedFine
<1>14. QED
  BY <1>6, <1>9, <1>10, <1>11, <1>12, <1>13 DEF ChatInv

LEMMA LoadFailsInv ==
  ASSUME ChatInv, MessagesFail \/ ConversationsFail
  PROVE  ChatInv'
<1>0. /\ ChatTypeOK /\ RealtimeTypeOK /\ ConnectedInv
      /\ reads \in Seq(Read) /\ listReads \in Seq(ListRead)
      /\ Len(listReads) \in Nat /\ Len(reads) \in Nat
      /\ asked \in [Load -> 0..MaxLoads] /\ MaxLoads \in Nat
      /\ "messages" \in Load /\ "conversations" \in Load
  BY ChatBounds, LenProperties DEF ChatInv, ChatTypeOK, Load
<1>1. PICK kind \in {"message.changed", "conversation"} :
        /\ Unheard(kind) /\ Trouble
        /\ kind = "message.changed" =>
             /\ asked["messages"] > 0 /\ asked' = [asked EXCEPT !["messages"] = @ - 1]
             /\ UNCHANGED viewVars
        /\ kind = "conversation" =>
             /\ asked["conversations"] > 0 /\ asked' = [asked EXCEPT !["conversations"] = @ - 1]
             /\ list' = <<>> /\ listed' = FALSE /\ active' = FALSE
        /\ UNCHANGED <<sock, connected, uiConnected, timer, intentional, subscription, pipe,
                       last, token, opened, stranded, serverVars, own, changes>>
  <2>1. "message.changed" # "conversation"
    OBVIOUS
  <2>2. CASE MessagesFail
    BY <2>1, <2>2 DEF MessagesFail
  <2>3. CASE ConversationsFail
    BY <2>1, <2>3 DEF ConversationsFail
  <2>4. QED
    BY <2>2, <2>3
<1>2. /\ reads' \in Seq(Read) /\ Len(reads') = Len(reads)
      /\ listReads' \in Seq(ListRead) /\ Len(listReads') = Len(listReads)
      /\ OnlyMarkedLists(listReads, listReads')
      /\ excused' \in BOOLEAN /\ listExcused' \in BOOLEAN
  <2>1. excused \in BOOLEAN /\ listExcused \in BOOLEAN
    BY <1>0 DEF ChatTypeOK
  <2>2. QED
    BY <1>0, <1>1, <2>1, UnheardIs
<1>3. /\ asked' \in [Load -> Nat]
      /\ asked'["messages"] + asked'["conversations"] <= asked["messages"] + asked["conversations"]
      /\ asked'["messages"] \in Nat /\ asked'["conversations"] \in Nat
      /\ asked["messages"] \in Nat /\ asked["conversations"] \in Nat
      /\ kind = "message.changed" => asked'["conversations"] = asked["conversations"]
  <2>1. "messages" # "conversations" /\ "message.changed" # "conversation"
    OBVIOUS
  <2>2. /\ asked["messages"] \in Nat /\ asked["conversations"] \in Nat
        /\ asked \in [Load -> Nat]
    BY <1>0
  <2>3. CASE kind = "message.changed"
    <3>1. asked["messages"] > 0 /\ asked' = [asked EXCEPT !["messages"] = @ - 1]
      BY <1>1, <2>3
    <3>2. QED
      BY <1>0, <2>2, <2>1, <3>1
  <2>4. CASE kind = "conversation"
    <3>1. asked["conversations"] > 0 /\ asked' = [asked EXCEPT !["conversations"] = @ - 1]
      BY <1>1, <2>4
    <3>2. QED
      BY <1>0, <2>1, <2>2, <2>4, <3>1
  <2>5. QED
    BY <2>3, <2>4
<1>4. InFlight' <= MaxLoads /\ asked' \in [Load -> 0..MaxLoads]
  <2>1. asked'["messages"] + asked'["conversations"] + Len(reads') + Len(listReads')
        <= asked["messages"] + asked["conversations"] + Len(reads) + Len(listReads)
    BY <1>0, <1>2, <1>3
  <2>2. QED
    BY <1>0, <1>2, <1>3, <2>1, NoMoreInFlight
<1>5. RealtimeTypeOK' /\ ConnectedInv'
  BY <1>0, <1>1, RealtimeStep DEF RealtimeMoves
<1>6. ChatTypeOK'
  <2>1. list' \in Seq(Message) /\ listed' \in BOOLEAN /\ active' \in BOOLEAN
    BY <1>0, <1>1, EmptySeq DEF ChatTypeOK, viewVars
  <2>2. QED
    BY <1>0, <1>1, <1>2, <1>4, <1>5, <2>1 DEF ChatTypeOK, serverVars
<1>7. StrangerInv'
  BY <1>0, <1>1, <1>2, StrangerKept DEF viewVars, serverVars, ChatInv
<1>8. OnceInv'
  BY <1>1 DEF ChatInv, OnceInv, serverVars
<1>9. RestoringInv'
  <2>1. listReads # <<>> => listReads' # <<>>
    BY <1>0, <1>2, LenProperties, EmptySeq
  <2>2. CASE kind = "message.changed"
    <3>1. UNCHANGED <<listed, active>> /\ asked'["conversations"] = asked["conversations"]
      BY <1>1, <1>3, <2>2 DEF viewVars
    <3>2. active /\ ~listed => asked["conversations"] > 0 \/ listReads # <<>>
      BY DEF ChatInv, RestoringInv
    <3>3. QED
      BY <2>1, <3>1, <3>2 DEF RestoringInv
  <2>3. CASE kind = "conversation"
    BY <1>1, <2>3 DEF RestoringInv
  <2>4. QED
    BY <2>2, <2>3
<1>10. MessagesInv'
  <2>1. CASE kind = "message.changed"
    BY <1>0, <1>1, <2>1, UnheardFine DEF MessagesInv, serverVars, MessageKind
  <2>2. CASE kind = "conversation"
    BY <1>1, <2>2 DEF MessagesInv, Shown
  <2>3. QED
    BY <2>1, <2>2
<1>11. ListedInv'
  <2>1. CASE kind = "message.changed"
    <3>1. Coming({"conversation"}, "conversations") => Coming({"conversation"}, "conversations")'
      BY <1>1, <1>3, <2>1 DEF Coming, serverVars
    <3>2. ListedFine => ListedFine'
      BY <1>0, <1>1, <2>1, UnheardFine DEF serverVars, viewVars
    <3>3. QED
      BY <3>1, <3>2 DEF ChatInv, ListedInv
  <2>2. CASE kind = "conversation"
    BY <1>0, <1>1, <2>2, UnheardFine DEF ListedInv, serverVars
  <2>3. QED
    BY <2>1, <2>2
<1>12. QED
  BY <1>5, <1>6, <1>7, <1>8, <1>9, <1>10, <1>11 DEF ChatInv

LEMMA SelectInv ==
  ASSUME ChatInv, Select
  PROVE  ChatInv'
<1>0. ChatTypeOK /\ RealtimeTypeOK /\ ConnectedInv
  BY DEF ChatInv, ChatTypeOK
<1>1. /\ listed /\ active' = TRUE
      /\ UNCHANGED <<rtVars, serverVars, list, listed, reads, listReads, own, changes, history>>
      /\ Ask({"messages"})
  BY DEF Select, AskIfShownNow, Shown
<1>2. {"messages"} \in SUBSET Load /\ "messages" \in Load /\ "conversations" \in Load
      /\ asked \in [Load -> 0..MaxLoads]
  BY <1>0 DEF Load, ChatTypeOK
<1>3. /\ asked' \in [Load -> 0..MaxLoads] /\ InFlight' <= MaxLoads
      /\ \A l \in Load : asked'[l] = asked[l] + IF l \in {"messages"} THEN 1 ELSE 0
  BY <1>0, <1>1, <1>2, Asked
<1>4. asked'["messages"] > 0 /\ asked'["conversations"] = asked["conversations"]
  <2>1. asked["messages"] \in 0..MaxLoads /\ asked["conversations"] \in 0..MaxLoads
    BY <1>2
  <2>2. QED
    BY <1>2, <1>3, <2>1
<1>5. RealtimeTypeOK' /\ ConnectedInv'
  BY <1>0, <1>1, RealtimeStep DEF RealtimeMoves, rtVars
<1>6. ChatTypeOK'
  BY <1>0, <1>1, <1>3, <1>5 DEF ChatTypeOK, serverVars, history
<1>7. StrangerInv' /\ OnceInv' /\ RestoringInv'
  BY <1>1 DEF ChatInv, StrangerInv, OnceInv, RestoringInv, serverVars
<1>8. MessagesInv'
  BY <1>4 DEF MessagesInv, Coming
<1>9. ListedInv'
  <2>1. Coming({"conversation"}, "conversations") => Coming({"conversation"}, "conversations")'
    BY <1>1, <1>4 DEF Coming, rtVars, serverVars
  <2>2. ListedFine => ListedFine'
    BY <1>1, ListedFineKept DEF serverVars, history
  <2>3. QED
    BY <2>1, <2>2 DEF ChatInv, ListedInv
<1>10. QED
  BY <1>5, <1>6, <1>7, <1>8, <1>9 DEF ChatInv

\* A change that is stored, by whomever: its event, which is to be published, brings it
\* to the screen.
ChangeStored ==
    /\ UNCHANGED <<rtVars, viewVars, loadVars>>
    /\ AsJudged
    /\ own' \in Request
    /\ own'.what = "send" /\ own'.stored => own'.msg \in Message
    /\ stored' \in Seq(Message) /\ posted' \in 0..MaxPosts /\ changes' \in 0..MaxChanges
    /\ access' \in {"not yet", "member", "creator", "left"}
    /\ Len(pending') = 1 /\ pending' \in Seq(Event)
    /\ stored' # stored => pending'[1].kind \in MessageKind
    /\ access' # access => pending'[1].kind = "conversation"
    /\ stored' = stored \/ access' = access
    /\ \A k \in DOMAIN stored' : stored'[k].id <= posted'
    /\ \A j, k \in DOMAIN stored' : stored'[j].id = stored'[k].id => j = k
    /\ access' = "not yet" => UNCHANGED <<access, stored, own>>
    /\ pending = <<>>
    /\ Has' /\ ~Has => access = "not yet"

LEMMA ChangeStoredInv ==
  ASSUME ChatInv, ChangeStored
  PROVE  ChatInv'
<1>0. ChatTypeOK /\ RealtimeTypeOK /\ ConnectedInv /\ excused \in BOOLEAN /\ listExcused \in BOOLEAN
  BY DEF ChatInv, ChatTypeOK
<1>1. /\ UNCHANGED <<rtVars, listed, active, list, asked, reads, listReads>>
      /\ excused' = (list' # stored' /\ (excused \/ FALSE))
      /\ listExcused' = (listed' # Has' /\ (listExcused \/ FALSE))
  BY DEF ChangeStored, AsJudged, Judge, viewVars, loadVars
<1>2. RealtimeTypeOK' /\ ConnectedInv'
  BY <1>0, <1>1, RealtimeStep DEF RealtimeMoves, rtVars
<1>3. ChatTypeOK'
  <2>1. InFlight' = InFlight
    BY <1>1 DEF InFlight
  <2>2. excused' \in BOOLEAN /\ listExcused' \in BOOLEAN
    BY <1>1
  <2>3. QED
    BY <1>0, <1>1, <1>2, <2>1, <2>2 DEF ChatTypeOK, ChangeStored
<1>4. DOMAIN pending' = {1} /\ DOMAIN pending = {}
  <2>1. DOMAIN pending' = 1..1
    BY LenProperties DEF ChangeStored
  <2>2. DOMAIN pending = 1..0
    BY LenProperties, EmptySeq DEF ChangeStored
  <2>3. 1..1 = {1} /\ 1..0 = {}
    OBVIOUS
  <2>4. QED
    BY <2>1, <2>2, <2>3
<1>5. StrangerInv'
  BY <1>1 DEF ChangeStored, ChatInv, StrangerInv
<1>6. OnceInv'
  <2>1. Len(pending') = 1
    BY DEF ChangeStored
  <2>2. \A k \in DOMAIN stored' : stored'[k].id <= posted'
    BY DEF ChangeStored
  <2>3. \A j, k \in DOMAIN stored' : stored'[j].id = stored'[k].id => j = k
    BY DEF ChangeStored
  <2>4. own'.what = "send" /\ own'.stored => own'.msg \in Message
    BY DEF ChangeStored
  <2>5. Message' = Message
    BY DEF Message, Id
  <2>6. QED
    BY <2>1, <2>2, <2>3, <2>4, <2>5 DEF OnceInv
<1>7. RestoringInv'
  BY <1>1 DEF ChatInv, RestoringInv
<1>8. ASSUME NEW K, NEW l, Coming(K, l) PROVE Coming(K, l)'
  BY <1>1, <1>4, <1>8 DEF Coming, rtVars
<1>9. ASSUME NEW K, NEW l, pending'[1].kind \in K PROVE Coming(K, l)'
  BY <1>4, <1>9 DEF Coming
<1>10. MessagesInv'
  <2> SUFFICES ASSUME Shown', Has'
               PROVE  Coming(MessageKind, "messages")' \/ MessagesFine'
    BY DEF MessagesInv
  <2>1. CASE stored' # stored
    BY <1>9, <2>1 DEF ChangeStored
  <2>2. CASE stored' = stored /\ Has
    <3>1. Coming(MessageKind, "messages") \/ MessagesFine
      BY <1>1, <2>2 DEF ChatInv, MessagesInv, Shown
    <3>2. MessagesFine => MessagesFine'
      BY <1>1, <2>2, MessagesFineKept
    <3>3. QED
      BY <1>8, <3>1, <3>2
  <2>3. CASE ~Has
    BY <1>1, <2>3 DEF ChangeStored, ChatInv, StrangerInv, Shown
  <2>4. QED
    BY <2>1, <2>2, <2>3
<1>11. ListedInv'
  <2>1. CASE access' # access
    <3>1. pending'[1].kind \in {"conversation"}
      BY <2>1 DEF ChangeStored
    <3>2. Coming({"conversation"}, "conversations")'
      BY <1>4, <3>1 DEF Coming
    <3>3. QED
      BY <3>2 DEF ListedInv
  <2>2. CASE access' = access
    <3>1. ListedFine => ListedFine'
      BY <1>1, <2>2, ListedFineKept
    <3>2. QED
      BY <1>8, <3>1 DEF ChatInv, ListedInv
  <2>3. QED
    BY <2>1, <2>2
<1>12. QED
  BY <1>2, <1>3, <1>5, <1>6, <1>7, <1>10, <1>11 DEF ChatInv

LEMMA CommittedIs ==
  ASSUME NEW kind \in Kind, NEW mine \in BOOLEAN, Committed(kind, mine)
  PROVE  Len(pending') = 1 /\ pending' \in Seq(Event) /\ pending'[1].kind = kind /\ pending = <<>>
BY DEF Committed, Event

LEMMA StoredTyped ==
  ASSUME ChatInv
  PROVE  /\ stored \in Seq(Message) /\ posted \in Nat /\ posted <= MaxPosts /\ MaxPosts \in Nat
         /\ changes \in Nat /\ changes <= MaxChanges /\ MaxChanges \in Nat
         /\ Len(stored) \in Nat /\ DOMAIN stored = 1..Len(stored)
         /\ \A k \in DOMAIN stored : /\ stored[k] \in Message /\ stored[k].id \in Nat
                                     /\ stored[k].id <= posted
         /\ \A j, k \in DOMAIN stored : stored[j].id = stored[k].id => j = k
<1>1. /\ stored \in Seq(Message) /\ posted \in 0..MaxPosts /\ changes \in 0..MaxChanges
      /\ MaxPosts \in Nat /\ MaxChanges \in Nat
  BY ChatBounds DEF ChatInv, ChatTypeOK
<1>2. Len(stored) \in Nat /\ DOMAIN stored = 1..Len(stored)
      /\ \A k \in DOMAIN stored : stored[k] \in Message
  BY <1>1, LenProperties, ElementOfSeq
<1>3. \A k \in DOMAIN stored : stored[k].id \in Nat
  BY <1>2 DEF Message, Id
<1>4. /\ \A k \in DOMAIN stored : stored[k].id <= posted
      /\ \A j, k \in DOMAIN stored : stored[j].id = stored[k].id => j = k
  BY DEF ChatInv, OnceInv
<1>5. QED
  BY <1>1, <1>2, <1>3, <1>4

\* A message posted, changed or deleted leaves each message stored once.
LEMMA PostedOnce ==
  ASSUME ChatInv, posted < MaxPosts, posted' = posted + 1, NEW m, m = [id |-> posted', ver |-> 0],
         stored' = <<m>> \o stored
  PROVE  /\ m \in Message /\ stored' \in Seq(Message) /\ posted' \in 0..MaxPosts
         /\ \A k \in DOMAIN stored' : stored'[k].id <= posted'
         /\ \A j, k \in DOMAIN stored' : stored'[j].id = stored'[k].id => j = k
<1>0. /\ stored \in Seq(Message) /\ posted \in Nat /\ posted <= MaxPosts /\ MaxPosts \in Nat
      /\ MaxChanges \in Nat /\ Len(stored) \in Nat
  BY StoredTyped
<1>1. \A k \in DOMAIN stored : stored[k].id \in Nat /\ stored[k].id <= posted
  BY StoredTyped
<1>2. m \in Message /\ m.id = posted + 1
  BY <1>0 DEF Message, Id
<1>3. /\ stored' \in Seq(Message) /\ DOMAIN stored' = 1..Len(stored) + 1 /\ stored'[1] = m
      /\ \A k \in 2..Len(stored) + 1 : stored'[k] = stored[k - 1] /\ k - 1 \in DOMAIN stored
  BY <1>0, <1>2, OnTopIs
<1>4. \A k \in DOMAIN stored' : k = 1 \/ k \in 2..Len(stored) + 1
  BY <1>0, <1>3
<1>5. ASSUME NEW k \in DOMAIN stored', k # 1
      PROVE  stored'[k] = stored[k - 1] /\ k - 1 \in DOMAIN stored /\ k \in Nat
             /\ stored'[k].id \in Nat /\ stored'[k].id <= posted
  <2>1. k \in 2..Len(stored) + 1
    BY <1>4, <1>5
  <2>2. k \in Nat /\ stored'[k] = stored[k - 1] /\ k - 1 \in DOMAIN stored
    BY <1>0, <1>3, <2>1
  <2>3. QED
    BY <1>1, <2>2
<1>6. \A k \in DOMAIN stored' : stored'[k].id <= posted'
  BY <1>0, <1>2, <1>3, <1>5
<1>7. ASSUME NEW j \in DOMAIN stored', NEW k \in DOMAIN stored', stored'[j].id = stored'[k].id
      PROVE  j = k
  <2>1. CASE j = 1 /\ k # 1
    BY <1>0, <1>2, <1>3, <1>5, <1>7, <2>1
  <2>2. CASE j # 1 /\ k = 1
    BY <1>0, <1>2, <1>3, <1>5, <1>7, <2>2
  <2>3. CASE j # 1 /\ k # 1
    <3>1. j - 1 = k - 1 /\ j \in Nat /\ k \in Nat
      BY <1>5, <1>7, <2>3, StoredTyped
    <3>2. QED
      BY <3>1
  <2>4. QED
    BY <2>1, <2>2, <2>3
<1>8. posted' \in 0..MaxPosts
  BY <1>0
<1>9. QED
  BY <1>2, <1>3, <1>6, <1>7, <1>8

LEMMA EditedOnce ==
  ASSUME ChatInv, NEW m \in Message, stored' = Edited(stored, m), posted' = posted
  PROVE  /\ stored' \in Seq(Message)
         /\ \A k \in DOMAIN stored' : stored'[k].id <= posted'
         /\ \A j, k \in DOMAIN stored' : stored'[j].id = stored'[k].id => j = k
<1>1. /\ stored' \in Seq(Message) /\ DOMAIN stored' = DOMAIN stored
      /\ \A k \in DOMAIN stored : stored'[k] = IF stored[k].id = m.id THEN m ELSE stored[k]
  <2>1. stored \in Seq(Message)
    BY StoredTyped
  <2>2. QED
    BY <2>1, EditedIs
<1>2. \A k \in DOMAIN stored : stored'[k].id = stored[k].id
  BY <1>1
<1>3. QED
  BY <1>1, <1>2, StoredTyped

LEMMA DeletedOnce ==
  ASSUME ChatInv, NEW d \in DOMAIN stored, stored' = Without(stored, d), posted' = posted
  PROVE  /\ stored' \in Seq(Message)
         /\ \A k \in DOMAIN stored' : stored'[k].id <= posted'
         /\ \A j, k \in DOMAIN stored' : stored'[j].id = stored'[k].id => j = k
<1>0. stored \in Seq(Message) /\ Len(stored) \in Nat /\ DOMAIN stored = 1..Len(stored)
      /\ d \in 1..Len(stored)
  BY StoredTyped
<1>1. /\ stored' \in Seq(Message) /\ DOMAIN stored' = 1..Len(stored) - 1
      /\ \A j \in 1..Len(stored) - 1 : stored'[j] = IF j < d THEN stored[j] ELSE stored[j + 1]
  BY <1>0, WithoutIs
<1>2. PICK at : at = [j \in 1..Len(stored) - 1 |-> IF j < d THEN j ELSE j + 1]
  OBVIOUS
<1>3. ASSUME NEW j \in 1..Len(stored) - 1
      PROVE  at[j] \in DOMAIN stored /\ stored'[j] = stored[at[j]]
  <2>1. CASE j < d
    BY <1>0, <1>1, <1>2, <2>1
  <2>2. CASE ~(j < d)
    BY <1>0, <1>1, <1>2, <2>2
  <2>3. QED
    BY <2>1, <2>2
<1>4. \A i, j \in 1..Len(stored) - 1 : at[i] = at[j] => i = j
  BY <1>0, <1>2
<1>5. \A k \in DOMAIN stored' : stored'[k].id <= posted'
  BY <1>1, <1>3, StoredTyped
<1>6. ASSUME NEW j \in DOMAIN stored', NEW k \in DOMAIN stored', stored'[j].id = stored'[k].id
      PROVE  j = k
  <2>1. at[j] = at[k]
    <3>1. j \in 1..Len(stored) - 1 /\ k \in 1..Len(stored) - 1
      BY <1>1
    <3>2. /\ at[j] \in DOMAIN stored /\ at[k] \in DOMAIN stored
          /\ stored[at[j]].id = stored[at[k]].id
      BY <1>3, <1>6, <3>1
    <3>3. \A a, b \in DOMAIN stored : stored[a].id = stored[b].id => a = b
      BY StoredTyped
    <3>4. QED
      BY <3>2, <3>3
  <2>2. QED
    BY <1>1, <1>4, <2>1
<1>7. QED
  BY <1>1, <1>5, <1>6

LEMMA NextChange ==
  ASSUME ChatInv, changes < MaxChanges
  PROVE  changes + 1 \in 0..MaxChanges
<1>1. changes \in 0..MaxChanges
  BY DEF ChatInv, ChatTypeOK
<1>2. MaxChanges \in Nat
  BY ChatBounds
<1>3. QED
  BY <1>1, <1>2

LEMMA KindsIn == /\ "message.changed" \in MessageKind /\ "message.deleted" \in MessageKind
                 /\ MessageKind \subseteq Kind /\ "conversation" \in Kind
BY DEF MessageKind, Kind

LEMMA OwnStoreInv ==
  ASSUME ChatInv, OwnStore
  PROVE  ChatInv'
<1>0. /\ own \in Request /\ access \in {"not yet", "member", "creator", "left"}
      /\ MayStore /\ ~own.stored
      /\ access = "not yet" => own.what \in {"nothing", "create"}
      /\ UNCHANGED <<rtVars, viewVars, loadVars>> /\ AsJudged
      /\ posted \in 0..MaxPosts /\ changes \in 0..MaxChanges
      /\ stored \in Seq(Message) /\ TRUE \in BOOLEAN
  BY DEF OwnStore, ChatInv, ChatTypeOK, StrangerInv
<1>1. /\ \A k \in DOMAIN stored : stored[k].id <= posted
      /\ \A j, k \in DOMAIN stored : stored[j].id = stored[k].id => j = k
  BY StoredTyped
<1>2. CASE own.what = "send"
  <2>1. /\ posted' = posted + 1
        /\ own' = [own EXCEPT !.stored = TRUE, !.msg = [id |-> posted', ver |-> 0]]
        /\ stored' = <<own'.msg>> \o stored
        /\ Committed("message.changed", TRUE)
        /\ UNCHANGED <<access, changes>>
        /\ Has /\ posted < MaxPosts
    BY <1>0, <1>2 DEF OwnStore, MayStore
  <2>2. PICK m : m = [id |-> posted', ver |-> 0]
    OBVIOUS
  <2>3. own'.msg = m /\ own' = [own EXCEPT !.stored = TRUE, !.msg = m]
    BY <1>0, <2>1, <2>2 DEF Request
  <2>4. /\ m \in Message /\ stored' \in Seq(Message) /\ posted' \in 0..MaxPosts
        /\ \A k \in DOMAIN stored' : stored'[k].id <= posted'
        /\ \A j, k \in DOMAIN stored' : stored'[j].id = stored'[k].id => j = k
    BY <2>1, <2>2, <2>3, PostedOnce
  <2>5. own' \in Request /\ own'.msg \in Message
    BY <1>0, <2>3, <2>4 DEF Request
  <2>6. Len(pending') = 1 /\ pending' \in Seq(Event) /\ pending'[1].kind = "message.changed"
        /\ pending = <<>>
    BY <1>0, <2>1, CommittedIs, KindsIn
  <2>7. QED
    BY <1>0, <2>1, <2>4, <2>5, <2>6, ChangeStoredInv, KindsIn DEF ChangeStored
<1>3. CASE own.what = "edit"
  <2>1. /\ changes' = changes + 1 /\ own' = [own EXCEPT !.stored = TRUE, !.msg.ver = changes']
        /\ stored' = Edited(stored, own'.msg)
        /\ Committed("message.changed", TRUE)
        /\ UNCHANGED <<posted, access>>
        /\ own.msg.id \in Ids(stored) /\ changes < MaxChanges
    BY <1>0, <1>3 DEF OwnStore, MayStore
  <2>2. own.msg \in Message
    <3>1. PICK k \in DOMAIN stored : stored[k].id = own.msg.id
      BY <2>1 DEF Ids
    <3>2. stored[k] \in Message
      BY StoredTyped
    <3>3. own.msg.id # 0
      BY <3>1, <3>2, ChatBounds DEF Message, Id
    <3>4. own.msg \in Message \cup {NoMessage}
      BY <1>0 DEF Request
    <3>5. QED
      BY <3>3, <3>4 DEF NoMessage
  <2>3. changes' \in 0..MaxChanges
    BY <2>1, NextChange
  <2>4. PICK m : m = [own.msg EXCEPT !.ver = changes']
    OBVIOUS
  <2>5. m \in Message
    BY <2>2, <2>3, <2>4 DEF Message
  <2>6. own' = [own EXCEPT !.stored = TRUE, !.msg = m] /\ own'.msg = m
    BY <1>0, <2>1, <2>4 DEF Request
  <2>7. /\ stored' \in Seq(Message)
        /\ \A k \in DOMAIN stored' : stored'[k].id <= posted'
        /\ \A j, k \in DOMAIN stored' : stored'[j].id = stored'[k].id => j = k
    BY <2>1, <2>5, <2>6, EditedOnce
  <2>8. own' \in Request /\ own'.msg \in Message
    BY <1>0, <2>5, <2>6 DEF Request
  <2>9. Len(pending') = 1 /\ pending' \in Seq(Event) /\ pending'[1].kind = "message.changed"
        /\ pending = <<>>
    BY <1>0, <2>1, CommittedIs, KindsIn
  <2>10. access # "not yet"
    BY <1>0, <1>3
  <2>11. QED
    BY <1>0, <2>1, <2>3, <2>7, <2>8, <2>9, <2>10, ChangeStoredInv, KindsIn DEF ChangeStored
<1>4. CASE own.what = "create"
  <2>1. /\ own' = [own EXCEPT !.stored = TRUE]
        /\ access = "not yet" /\ access' = "creator"
        /\ Committed("conversation", TRUE)
        /\ UNCHANGED <<stored, posted, changes>>
    BY <1>0, <1>4 DEF OwnStore, MayStore
  <2>2. own' \in Request /\ own'.what # "send"
    BY <1>0, <1>4, <2>1 DEF Request
  <2>3. Len(pending') = 1 /\ pending' \in Seq(Event) /\ pending'[1].kind = "conversation"
        /\ pending = <<>>
    BY <1>0, <2>1, CommittedIs, KindsIn
  <2>4. QED
    BY <1>0, <1>1, <1>4, <2>1, <2>2, <2>3, ChangeStoredInv DEF ChangeStored
<1>5. CASE own.what = "leave"
  <2>1. /\ own' = [own EXCEPT !.stored = TRUE]
        /\ Has /\ Leaves /\ changes < MaxChanges /\ changes' = changes + 1
        /\ Committed("conversation", TRUE)
        /\ UNCHANGED <<stored, posted>>
    BY <1>0, <1>5 DEF OwnStore, MayStore
  <2>2. own' \in Request /\ own'.what # "send"
    BY <1>0, <1>5, <2>1 DEF Request
  <2>3. Len(pending') = 1 /\ pending' \in Seq(Event) /\ pending'[1].kind = "conversation"
        /\ pending = <<>>
    BY <1>0, <2>1, CommittedIs, KindsIn
  <2>4. changes' \in 0..MaxChanges
    BY <2>1, NextChange
  <2>5. access' \in {"left", "creator"} /\ access \in {"member", "creator"}
    BY <2>1 DEF Leaves
  <2>6. QED
    BY <1>0, <1>1, <1>5, <2>1, <2>2, <2>3, <2>4, <2>5, ChangeStoredInv DEF ChangeStored
<1>6. QED
  BY <1>2, <1>3, <1>4, <1>5 DEF OwnStore

LEMMA OthersInv ==
  ASSUME ChatInv, Others
  PROVE  ChatInv'
<1>0. /\ own \in Request /\ access \in {"not yet", "member", "creator", "left"}
      /\ UNCHANGED <<rtVars, viewVars, loadVars, own>> /\ AsJudged
      /\ posted \in 0..MaxPosts /\ changes \in 0..MaxChanges
      /\ stored \in Seq(Message) /\ FALSE \in BOOLEAN
      /\ own.what = "send" /\ own.stored => own.msg \in Message
  BY DEF Others, ChatInv, ChatTypeOK, OnceInv
<1>1. /\ \A k \in DOMAIN stored : stored[k].id <= posted
      /\ \A j, k \in DOMAIN stored : stored[j].id = stored[k].id => j = k
  BY StoredTyped
<1>2. ASSUME NEW k \in DOMAIN stored PROVE access # "not yet" /\ stored[k] \in Message
  <2>1. stored # <<>>
    <3>1. DOMAIN <<>> = 1..0 /\ 1..0 = {}
      BY EmptySeq, LenProperties
    <3>2. QED
      BY <3>1
  <2>2. QED
    BY <2>1, StoredTyped DEF ChatInv, StrangerInv
<1>3. CASE /\ posted < MaxPosts /\ Has
           /\ posted' = posted + 1
           /\ stored' = <<[id |-> posted', ver |-> 0]>> \o stored
           /\ Committed("message.changed", FALSE)
           /\ UNCHANGED <<access, changes>>
  <2>1. PICK m : m = [id |-> posted', ver |-> 0]
    OBVIOUS
  <2>2. /\ stored' \in Seq(Message) /\ posted' \in 0..MaxPosts
        /\ \A k \in DOMAIN stored' : stored'[k].id <= posted'
        /\ \A j, k \in DOMAIN stored' : stored'[j].id = stored'[k].id => j = k
    BY <1>3, <2>1, PostedOnce
  <2>3. Len(pending') = 1 /\ pending' \in Seq(Event) /\ pending'[1].kind = "message.changed"
        /\ pending = <<>>
    BY <1>0, <1>3, CommittedIs, KindsIn
  <2>4. QED
    BY <1>0, <1>3, <2>2, <2>3, ChangeStoredInv, KindsIn DEF ChangeStored
<1>4. ASSUME changes < MaxChanges, changes' = changes + 1, UNCHANGED <<posted, access>>,
             NEW k \in DOMAIN stored,
             \/ /\ stored' = Edited(stored, [stored[k] EXCEPT !.ver = changes'])
                /\ Committed("message.changed", FALSE)
             \/ /\ stored' = Without(stored, k)
                /\ Committed("message.deleted", FALSE)
      PROVE  ChatInv'
  <2>1. changes' \in 0..MaxChanges
    BY <1>4, NextChange
  <2>2. /\ stored' \in Seq(Message)
        /\ \A i \in DOMAIN stored' : stored'[i].id <= posted'
        /\ \A i, j \in DOMAIN stored' : stored'[i].id = stored'[j].id => i = j
    <3>1. CASE stored' = Edited(stored, [stored[k] EXCEPT !.ver = changes'])
      <4>1. PICK m : m = [stored[k] EXCEPT !.ver = changes']
        OBVIOUS
      <4>2. m \in Message
        BY <1>2, <2>1, <4>1 DEF Message
      <4>3. QED
        BY <1>4, <3>1, <4>1, <4>2, EditedOnce
    <3>2. CASE stored' = Without(stored, k)
      BY <1>4, <3>2, DeletedOnce
    <3>3. QED
      BY <1>4, <3>1, <3>2
  <2>3. Len(pending') = 1 /\ pending' \in Seq(Event) /\ pending'[1].kind \in MessageKind
        /\ pending = <<>>
    BY <1>0, <1>4, CommittedIs, KindsIn
  <2>4. QED
    BY <1>0, <1>2, <1>4, <2>1, <2>2, <2>3, ChangeStoredInv DEF ChangeStored
<1>5. CASE /\ changes < MaxChanges /\ changes' = changes + 1 /\ UNCHANGED posted
           /\ \/ access = "not yet" /\ access' = "member"
              \/ Has /\ Leaves
           /\ Committed("conversation", FALSE)
           /\ UNCHANGED stored
  <2>1. changes' \in 0..MaxChanges
    BY <1>5, NextChange
  <2>2. Len(pending') = 1 /\ pending' \in Seq(Event) /\ pending'[1].kind = "conversation"
        /\ pending = <<>>
    BY <1>0, <1>5, CommittedIs, KindsIn
  <2>3. access' \in {"member", "creator", "left"} /\ (~Has => access = "not yet")
    BY <1>5 DEF Leaves
  <2>4. QED
    BY <1>0, <1>1, <1>5, <2>1, <2>2, <2>3, ChangeStoredInv DEF ChangeStored
<1>6. QED
  BY <1>3, <1>4, <1>5 DEF Others, OthersChange

\* The user's request begins, or ends without its answer being used.
LEMMA OwnMoves ==
  ASSUME ChatInv,
         UNCHANGED <<sock, connected, uiConnected, timer, intentional, subscription, pipe, last,
                     token, opened, stranded, serverVars, viewVars, loadVars, changes, history>>,
         Trouble \/ UNCHANGED troubles,
         own' \in Request, ~own'.stored,
         access = "not yet" => own'.what \in {"nothing", "create"}
  PROVE  ChatInv'
<1>0. ChatTypeOK /\ RealtimeTypeOK /\ ConnectedInv
  BY DEF ChatInv, ChatTypeOK
<1>1. UNCHANGED <<uiConnected, pipe, last, stored, posted, access, pending, list, listed, active,
                  asked, reads, listReads, changes, excused, listExcused>>
  BY DEF serverVars, viewVars, loadVars, history
<1>2. RealtimeTypeOK' /\ ConnectedInv'
  BY <1>0, RealtimeStep DEF RealtimeMoves
<1>3. ChatTypeOK'
  BY <1>0, <1>1, <1>2 DEF ChatTypeOK, InFlight
<1>4. StrangerInv'
  BY <1>1 DEF ChatInv, StrangerInv
<1>5. OnceInv' /\ RestoringInv'
  BY <1>1 DEF ChatInv, OnceInv, RestoringInv
<1>6. MessagesInv'
  <2>1. Coming(MessageKind, "messages") => Coming(MessageKind, "messages")'
    BY <1>1, ComingKept DEF Load
  <2>2. MessagesFine => MessagesFine'
    BY <1>1, MessagesFineKept
  <2>3. QED
    BY <1>1, <2>1, <2>2 DEF ChatInv, MessagesInv, Shown
<1>7. ListedInv'
  <2>1. Coming({"conversation"}, "conversations") => Coming({"conversation"}, "conversations")'
    BY <1>1, ComingKept DEF Load
  <2>2. ListedFine => ListedFine'
    BY <1>1, ListedFineKept
  <2>3. QED
    BY <2>1, <2>2 DEF ChatInv, ListedInv
<1>8. QED
  BY <1>2, <1>3, <1>4, <1>5, <1>6, <1>7 DEF ChatInv

LEMMA OwnAskInv ==
  ASSUME ChatInv, OwnAsk
  PROVE  ChatInv'
<1>0. /\ own = Idle /\ UNCHANGED <<rtVars, serverVars, viewVars, loadVars, changes, history>>
      /\ list \in Seq(Message)
      /\ access = "not yet" => ~listed
  BY DEF OwnAsk, ChatInv, ChatTypeOK, StrangerInv
<1>1. Idle \in [what : {"nothing", "send", "edit", "create", "leave"}, stored : BOOLEAN,
                msg : Message \cup {NoMessage}]
      /\ ~Idle.stored
  BY DEF Idle
<1>2. /\ own' \in Request /\ ~own'.stored
      /\ access = "not yet" => own'.what \in {"nothing", "create"}
  <2>1. CASE Shown /\ posted < MaxPosts /\ own' = [Idle EXCEPT !.what = "send"]
    BY <1>0, <1>1, <2>1 DEF Request, Shown
  <2>2. ASSUME Shown, NEW k \in DOMAIN list,
               own' = [Idle EXCEPT !.what = "edit", !.msg = list[k]]
        PROVE  <1>2!:
    <3>1. list[k] \in Message
      BY <1>0, <2>2, ElementOfSeq, LenProperties
    <3>2. QED
      BY <1>0, <1>1, <2>2, <3>1 DEF Request, Shown
  <2>3. CASE access = "not yet" /\ own' = [Idle EXCEPT !.what = "create"]
    BY <1>1, <2>3 DEF Request
  <2>4. CASE listed /\ own' = [Idle EXCEPT !.what = "leave"]
    BY <1>0, <1>1, <2>4 DEF Request
  <2>5. QED
    BY <2>1, <2>2, <2>3, <2>4 DEF OwnAsk
<1>3. QED
  BY <1>0, <1>2, OwnMoves DEF rtVars

LEMMA OwnEndsInv ==
  ASSUME ChatInv, OwnRefused \/ OwnLost
  PROVE  ChatInv'
<1>1. own' = Idle
  BY DEF OwnRefused, OwnLost
<1>2. own' \in Request /\ ~own'.stored /\ own'.what = "nothing"
  BY <1>1 DEF Request, Idle
<1>3. Trouble \/ UNCHANGED troubles
  BY DEF OwnRefused, OwnLost, rtVars
<1>4. UNCHANGED <<sock, connected, uiConnected, timer, intentional, subscription, pipe, last,
                  token, opened, stranded, serverVars, viewVars, loadVars, changes, history>>
  BY DEF OwnRefused, OwnLost, rtVars
<1>5. QED
  BY <1>2, <1>3, <1>4, OwnMoves

\* The answers that the user's own, put into the list, comes before are marked; the
\* messages on the screen have them all, or why not is noted.
LEMMA MessageAnswerInv ==
  ASSUME ChatInv, own.what \in {"send", "edit"},
         list' \in Seq(Message), own' = Idle,
         NEW lacks \in [DOMAIN reads -> BOOLEAN],
         reads' = [k \in DOMAIN reads |-> [reads[k] EXCEPT !.overtaken = @ \/ lacks[k]]],
         UNCHANGED <<rtVars, serverVars, listed, active, asked, listReads, changes>>,
         NEW why \in BOOLEAN, Judge(why, FALSE), list = stored /\ ~why => list' = stored
  PROVE  ChatInv'
<1>0. /\ ChatTypeOK /\ RealtimeTypeOK /\ ConnectedInv /\ reads \in Seq(Read)
      /\ excused \in BOOLEAN /\ listExcused \in BOOLEAN
  BY DEF ChatInv, ChatTypeOK
<1>1. /\ reads' \in Seq(Read) /\ Len(reads') = Len(reads) /\ OnlyMarked(reads, reads')
  BY <1>0, Marked
<1>2. /\ excused' = (list' # stored' /\ (excused \/ why))
      /\ listExcused' = (listed' # Has' /\ (listExcused \/ FALSE))
  BY DEF Judge
<1>3. UNCHANGED <<uiConnected, pipe, last, stored, posted, access, pending>>
  BY DEF rtVars, serverVars
<1>4. access # "not yet"
  BY DEF ChatInv, StrangerInv
<1>5. RealtimeTypeOK' /\ ConnectedInv'
  BY <1>0, RealtimeStep DEF RealtimeMoves, rtVars
<1>6. own' \in Request /\ own'.what = "nothing"
  BY DEF Request, Idle
<1>7. ChatTypeOK'
  <2>1. InFlight' = InFlight
    BY <1>1 DEF InFlight
  <2>2. excused' \in BOOLEAN /\ listExcused' \in BOOLEAN
    BY <1>2
  <2>3. QED
    BY <1>0, <1>1, <1>3, <1>5, <1>6, <2>1, <2>2 DEF ChatTypeOK
<1>8. StrangerInv' /\ OnceInv' /\ RestoringInv'
  BY <1>3, <1>4, <1>6 DEF ChatInv, StrangerInv, OnceInv, RestoringInv
<1>9. MessagesInv'
  <2> SUFFICES ASSUME Shown, Has, MessagesFine PROVE MessagesFine'
    <3>1. Coming(MessageKind, "messages") => Coming(MessageKind, "messages")'
      BY <1>3 DEF Coming
    <3>2. QED
      BY <1>3, <3>1 DEF ChatInv, MessagesInv, Shown
  <2>1. /\ DOMAIN reads' = DOMAIN reads
        /\ \A k \in DOMAIN reads : reads'[k].snap = reads[k].snap
                                   /\ (reads[k].overtaken => reads'[k].overtaken)
    BY <1>1 DEF OnlyMarked
  <2>2. list' = stored' \/ excused' \/ \E k \in DOMAIN reads' : reads'[k].snap = stored'
    <3>1. CASE list = stored \/ excused
      BY <1>2, <1>3, <3>1
    <3>2. CASE \E k \in DOMAIN reads : reads[k].snap = stored
      BY <1>3, <2>1, <3>2
    <3>3. QED
      BY <3>1, <3>2 DEF MessagesFine
  <2>3. ASSUME NEW k \in DOMAIN reads', ~reads'[k].overtaken, reads'[k].snap # stored'
        PROVE  \E j \in DOMAIN reads' : j > k /\ reads'[j].snap = stored'
    <3>1. k \in DOMAIN reads /\ ~reads[k].overtaken /\ reads[k].snap # stored
      BY <1>3, <2>1, <2>3
    <3>2. PICK j \in DOMAIN reads : j > k /\ reads[j].snap = stored
      BY <3>1 DEF MessagesFine
    <3>3. QED
      BY <1>3, <2>1, <3>2
  <2>4. QED
    BY <2>2, <2>3 DEF MessagesFine
<1>10. ListedInv'
  <2>1. Coming({"conversation"}, "conversations") => Coming({"conversation"}, "conversations")'
    BY <1>3 DEF Coming
  <2>2. ListedFine => ListedFine'
    BY <1>2, <1>3, ListedFineKept
  <2>3. QED
    BY <2>1, <2>2 DEF ChatInv, ListedInv
<1>11. QED
  BY <1>5, <1>7, <1>8, <1>9, <1>10 DEF ChatInv

LEMMA SendAnswerInv ==
  ASSUME ChatInv, SendAnswer
  PROVE  ChatInv'
<1>1. /\ own.what = "send" /\ own.msg \in Message
      /\ list' = <<own.msg>> \o list /\ own' = Idle
      /\ reads' = [k \in DOMAIN reads |->
                     [reads[k] EXCEPT !.overtaken = @ \/ own.msg.id \notin Ids(reads[k].snap)]]
      /\ UNCHANGED <<rtVars, serverVars, listed, active, asked, listReads, changes>>
      /\ Judge(own.msg.id \in Ids(list) \/ own.msg \notin Messages(stored), FALSE)
  BY DEF SendAnswer, Answered, Overtaken, ChatInv, OnceInv
<1>2. PICK lacks : lacks = [k \in DOMAIN reads |-> own.msg.id \notin Ids(reads[k].snap)]
  OBVIOUS
<1>3. lacks \in [DOMAIN reads -> BOOLEAN]
      /\ reads' = [k \in DOMAIN reads |-> [reads[k] EXCEPT !.overtaken = @ \/ lacks[k]]]
  BY <1>1, <1>2
<1>4. list' \in Seq(Message)
  <2>1. list \in Seq(Message)
    BY DEF ChatInv, ChatTypeOK
  <2>2. QED
    BY <1>1, <2>1, OnTopIs
<1>5. PICK why : why = (own.msg.id \in Ids(list) \/ own.msg \notin Messages(stored))
  OBVIOUS
<1>6. why \in BOOLEAN /\ Judge(why, FALSE)
  BY <1>1, <1>5
<1>7. list = stored => why
  BY <1>5 DEF Ids, Messages
<1>8. QED
  BY <1>1, <1>3, <1>4, <1>6, <1>7, MessageAnswerInv

LEMMA EditAnswerInv ==
  ASSUME ChatInv, EditAnswer
  PROVE  ChatInv'
<1>1. /\ own.what = "edit" /\ own.msg \in Message \cup {NoMessage}
      /\ list' = Edited(list, own.msg) /\ own' = Idle
      /\ reads' = [k \in DOMAIN reads |->
                     [reads[k] EXCEPT !.overtaken = @ \/ own.msg \notin Messages(reads[k].snap)]]
      /\ UNCHANGED <<rtVars, serverVars, listed, active, asked, listReads, changes>>
      /\ Judge(own.msg \notin Messages(stored), FALSE)
  BY DEF EditAnswer, Answered, Overtaken, ChatInv, ChatTypeOK, Request
<1>2. PICK lacks : lacks = [k \in DOMAIN reads |-> own.msg \notin Messages(reads[k].snap)]
  OBVIOUS
<1>3. lacks \in [DOMAIN reads -> BOOLEAN]
      /\ reads' = [k \in DOMAIN reads |-> [reads[k] EXCEPT !.overtaken = @ \/ lacks[k]]]
  BY <1>1, <1>2
<1>4. list \in Seq(Message)
  BY DEF ChatInv, ChatTypeOK
<1>5. list' \in Seq(Message)
  <2>1. CASE own.msg \in Message
    BY <1>1, <1>4, <2>1, EditedIs
  <2>2. CASE own.msg = NoMessage
    <3>1. /\ Len(list) \in Nat /\ DOMAIN list = 1..Len(list)
          /\ \A k \in DOMAIN list : list[k] \in Message
      BY <1>4, LenProperties, ElementOfSeq
    <3>2. \A k \in DOMAIN list : list[k].id # own.msg.id
      BY <2>2, <3>1, ChatBounds DEF Message, Id, NoMessage
    <3>3. list' = [k \in DOMAIN list |-> list[k]]
      BY <1>1, <3>2 DEF Edited
    <3>4. list' \in [1..Len(list) -> Message]
      BY <3>1, <3>3
    <3>5. QED
      BY <3>1, <3>4
  <2>3. QED
    BY <1>1, <2>1, <2>2
<1>6. PICK why : why = (own.msg \notin Messages(stored))
  OBVIOUS
<1>7. why \in BOOLEAN /\ Judge(why, FALSE)
  BY <1>1, <1>6
<1>8. ASSUME list = stored, ~why PROVE list' = stored
  <2>1. PICK k \in DOMAIN stored : stored[k] = own.msg
    BY <1>6, <1>8 DEF Messages
  <2>2. \A j \in DOMAIN stored : stored[j].id = own.msg.id => stored[j] = own.msg
    BY <2>1, StoredTyped
  <2>3. list' = [j \in DOMAIN stored |-> stored[j]]
    BY <1>1, <1>8, <2>2 DEF Edited
  <2>4. stored \in Seq(Message)
    BY <1>4, <1>8
  <2>5. stored \in [1..Len(stored) -> Message] /\ DOMAIN stored = 1..Len(stored)
    BY <2>4, LenProperties
  <2>6. QED
    BY <2>3, <2>5
<1>9. QED
  BY <1>1, <1>3, <1>5, <1>7, <1>8, MessageAnswerInv

LEMMA MoveAnswerInv ==
  ASSUME ChatInv, MoveAnswer
  PROVE  ChatInv'
<1>0. /\ ChatTypeOK /\ RealtimeTypeOK /\ ConnectedInv /\ listReads \in Seq(ListRead)
      /\ excused \in BOOLEAN /\ listExcused \in BOOLEAN
      /\ access \in {"not yet", "member", "creator", "left"}
  BY DEF ChatInv, ChatTypeOK
<1>1. PICK create \in BOOLEAN : create = (own.what = "create")
  OBVIOUS
<1>2. /\ own.stored /\ listed' = create /\ active' = create /\ list' = <<>> /\ own' = Idle
      /\ AskIfShownNow
      /\ listReads' = [k \in DOMAIN listReads |->
                         [listReads[k] EXCEPT !.overtaken = @ \/ listReads[k].has # create]]
      /\ UNCHANGED <<rtVars, serverVars, reads, changes>>
      /\ Judge(Shown, Has # create)
  BY <1>1 DEF MoveAnswer, Answered, Overtaken
<1>3. PICK differs : differs = [k \in DOMAIN listReads |-> listReads[k].has # create]
  OBVIOUS
<1>4. /\ listReads' \in Seq(ListRead) /\ Len(listReads') = Len(listReads)
      /\ OnlyMarkedLists(listReads, listReads')
  <2>1. differs \in [DOMAIN listReads -> BOOLEAN]
        /\ listReads' = [k \in DOMAIN listReads |->
                           [listReads[k] EXCEPT !.overtaken = @ \/ differs[k]]]
    BY <1>2, <1>3
  <2>2. QED
    BY <1>0, <2>1, MarkedLists
<1>5. /\ excused' = (list' # stored' /\ (excused \/ Shown))
      /\ listExcused' = (listed' # Has'
                         /\ (listExcused \/ Has # create))
  BY <1>2 DEF Judge
<1>6. UNCHANGED <<uiConnected, pipe, last, stored, posted, access, pending, reads, changes>>
  BY <1>2 DEF rtVars, serverVars
<1>7. access # "not yet"
  BY <1>2 DEF ChatInv, StrangerInv
<1>8. RealtimeTypeOK' /\ ConnectedInv'
  BY <1>0, <1>2, RealtimeStep DEF RealtimeMoves, rtVars
<1>9. own' \in Request /\ own'.what = "nothing"
  BY <1>2 DEF Request, Idle
<1>10. /\ asked' \in [Load -> 0..MaxLoads] /\ InFlight' <= MaxLoads
       /\ \A l \in Load : asked[l] > 0 => asked'[l] > 0
       /\ ~Shown /\ Shown' => asked'["messages"] > 0
  <2>1. /\ asked \in [Load -> 0..MaxLoads] /\ InFlight <= MaxLoads
        /\ {"messages"} \in SUBSET Load /\ "messages" \in Load
    BY <1>0 DEF ChatTypeOK, Load
  <2>2. CASE ~Shown /\ Shown'
    <3>1. Ask({"messages"})
      BY <1>2, <2>2 DEF AskIfShownNow, Shown
    <3>2. /\ asked' \in [Load -> 0..MaxLoads] /\ InFlight' <= MaxLoads
          /\ \A l \in Load : asked'[l] = asked[l] + IF l \in {"messages"} THEN 1 ELSE 0
      BY <1>0, <1>4, <1>6, <2>1, <3>1, Asked
    <3>3. \A l \in Load : asked[l] \in Nat
      BY <2>1
    <3>4. QED
      BY <2>1, <3>2, <3>3
  <2>3. CASE ~(~Shown /\ Shown')
    <3>1. asked' = asked
      BY <1>2, <2>3 DEF AskIfShownNow, Shown
    <3>2. QED
      BY <1>4, <1>6, <2>1, <2>3, <3>1 DEF InFlight
  <2>4. QED
    BY <2>2, <2>3
<1>11. ChatTypeOK'
  <2>1. excused' \in BOOLEAN /\ listExcused' \in BOOLEAN /\ list' \in Seq(Message)
    BY <1>2, <1>5, EmptySeq
  <2>2. listed' \in BOOLEAN /\ active' \in BOOLEAN
    BY <1>2
  <2>3. QED
    BY <1>0, <1>4, <1>6, <1>8, <1>9, <1>10, <2>1, <2>2 DEF ChatTypeOK
<1>12. StrangerInv' /\ OnceInv' /\ RestoringInv'
  BY <1>2, <1>6, <1>7, <1>9 DEF ChatInv, StrangerInv, OnceInv, RestoringInv
<1>13. ASSUME NEW K, NEW l \in Load, Coming(K, l) PROVE Coming(K, l)'
  BY <1>6, <1>10, <1>13 DEF Coming
<1>14. MessagesInv'
  <2> SUFFICES ASSUME Shown', Has PROVE Coming(MessageKind, "messages")' \/ MessagesFine'
    BY <1>6 DEF MessagesInv
  <2>1. CASE ~Shown
    BY <1>10, <2>1 DEF Coming
  <2>2. CASE Shown
    <3>1. Coming(MessageKind, "messages") \/ MessagesFine
      BY <2>2 DEF ChatInv, MessagesInv
    <3>2. list' = stored' \/ excused'
      BY <1>5, <2>2
    <3>3. MessagesFine => MessagesFine'
      BY <1>6, <3>2 DEF MessagesFine
    <3>4. QED
      BY <1>13, <3>1, <3>3 DEF Load
  <2>3. QED
    BY <2>1, <2>2
<1>15. ListedInv'
  <2>1. listed' = Has' \/ listExcused'
    BY <1>0, <1>2, <1>5, <1>6
  <2>2. /\ DOMAIN listReads' = DOMAIN listReads
        /\ \A k \in DOMAIN listReads : listReads'[k].has = listReads[k].has
                                       /\ (listReads[k].overtaken => listReads'[k].overtaken)
    BY <1>4 DEF OnlyMarkedLists
  <2>3. ListedFine => ListedFine'
    BY <1>6, <2>1, <2>2 DEF ListedFine
  <2>4. QED
    BY <1>13, <2>3 DEF ChatInv, ListedInv, Load
<1>16. QED
  BY <1>8, <1>11, <1>12, <1>14, <1>15 DEF ChatInv

LEMMA ChatStep ==
  ASSUME ChatInv, [ChatNext]_chatClientVars
  PROVE  ChatInv'
<1>1. CASE UNCHANGED chatClientVars
  <2>1. /\ UNCHANGED <<sock, connected, uiConnected, timer, intentional, subscription, pipe, last,
                       token, opened, stranded, serverVars, viewVars, loadVars, changes, history>>
        /\ UNCHANGED troubles /\ own' = own
    BY <1>1 DEF chatClientVars, rtVars, chatVars
  <2>2. UNCHANGED <<stored, posted, access, pending, list, listed, active, asked, reads, listReads,
                    excused, listExcused>>
    BY <2>1 DEF serverVars, viewVars, loadVars, history
  <2>3. ChatTypeOK' /\ ConnectedInv'
    <3>1. RealtimeTypeOK' /\ ConnectedInv'
      BY <2>1, RealtimeStep DEF ChatInv, ChatTypeOK, RealtimeMoves
    <3>2. InFlight' = InFlight
      BY <2>2 DEF InFlight
    <3>3. QED
      BY <2>1, <2>2, <3>1, <3>2 DEF ChatInv, ChatTypeOK
  <2>4. StrangerInv' /\ OnceInv' /\ RestoringInv'
    BY <2>1, <2>2 DEF ChatInv, StrangerInv, OnceInv, RestoringInv
  <2>5. MessagesInv'
    BY <2>1, <2>2 DEF ChatInv, MessagesInv, MessagesFine, Coming, Shown
  <2>6. ListedInv'
    <3>1. Coming({"conversation"}, "conversations") => Coming({"conversation"}, "conversations")'
      BY <2>1, <2>2 DEF Coming
    <3>2. ListedFine => ListedFine'
      BY <2>2, ListedFineKept
    <3>3. QED
      BY <3>1, <3>2 DEF ChatInv, ListedInv
  <2>7. QED
    BY <2>3, <2>4, <2>5, <2>6 DEF ChatInv
<1>2. CASE Reconnect \/ ConnectionStep
  BY <1>2, ConnectionStepInv
<1>3. CASE MembersPolled \/ RenewedByCookie \/ Noise \/ Placed
  BY <1>3, QuietEventsInv, PlacedInv
<1>4. CASE Publish \/ PublishFails \/ ReceiveEvent \/ RenderEvent
  BY <1>4, PublishInv, PublishFailsInv, ReceiveInv, RenderInv
<1>5. CASE LoadStep
  BY <1>5, ReadMessagesInv, ReadConversationsInv, LoadFailsInv, AnswerMessagesInv,
     AnswerConversationsInv DEF LoadStep
<1>6. CASE OwnStep
  BY <1>6, SelectInv, OwnAskInv, OwnStoreInv, SendAnswerInv, EditAnswerInv, MoveAnswerInv,
     OwnEndsInv DEF OwnStep
<1>7. CASE Others
  BY <1>7, OthersInv
<1>8. QED
  BY <1>1, <1>2, <1>3, <1>4, <1>5, <1>6, <1>7 DEF ChatNext

LEMMA ChatInitially == ChatInit => ChatInv
<1> SUFFICES ASSUME ChatInit PROVE ChatInv
  OBVIOUS
<1>0. /\ MaxPipe \in Nat \ {0} /\ MaxTroubles \in Nat
      /\ MaxPosts \in Nat /\ MaxChanges \in Nat /\ MaxLoads \in Nat \ {0}
  BY ChatBounds
<1>1. /\ <<>> \in Seq(Kind) /\ <<>> \in Seq(Message) /\ <<>> \in Seq(Event)
      /\ <<>> \in Seq(Read) /\ <<>> \in Seq(ListRead) /\ Len(<<>>) = 0 /\ DOMAIN <<>> = 1..0
  BY EmptySeq, LenProperties
<1>2. RealtimeTypeOK /\ ConnectedInv
  <2>1. /\ sock = "connecting" /\ connected = FALSE /\ uiConnected = TRUE /\ timer = FALSE
        /\ intentional = FALSE /\ subscription = "none" /\ pipe = <<>> /\ last = "none"
        /\ token = "good" /\ opened = FALSE /\ stranded = FALSE /\ troubles = 0
    BY DEF ChatInit, RealtimeInit
  <2>2. pipe \in Seq(Kind) /\ Len(pipe) <= MaxPipe
    BY <1>0, <1>1, <2>1
  <2>3. troubles \in 0..MaxTroubles
    BY <1>0, <2>1
  <2>4. RealtimeTypeOK
    BY <2>1, <2>2, <2>3 DEF RealtimeTypeOK
  <2>5. QED
    BY <2>1, <2>4 DEF ConnectedInv, ClaimIsHonest
<1>3. /\ stored = <<>> /\ posted = 0 /\ changes = 0 /\ access \in {"not yet", "member"}
      /\ pending = <<>> /\ list = <<>> /\ listed = FALSE /\ active \in BOOLEAN
      /\ asked = [messages |-> 0, conversations |-> 1] /\ reads = <<>> /\ listReads = <<>>
      /\ own = Idle /\ excused = FALSE /\ listExcused = FALSE
  BY DEF ChatInit
<1>4. /\ asked \in [Load -> 0..MaxLoads] /\ asked["messages"] = 0 /\ asked["conversations"] = 1
  <2>1. asked["messages"] = 0 /\ asked["conversations"] = 1
    BY <1>3
  <2>2. DOMAIN asked = Load /\ asked = [l \in Load |-> asked[l]]
    BY <1>3 DEF Load
  <2>3. \A l \in Load : asked[l] \in 0..MaxLoads
    BY <1>0, <2>1 DEF Load
  <2>4. QED
    BY <2>1, <2>2, <2>3
<1>5. InFlight <= MaxLoads
  <2>1. Len(reads) = 0 /\ Len(listReads) = 0
    BY <1>1, <1>3
  <2>2. InFlight = 0 + 1 + 0 + 0
    BY <1>4, <2>1 DEF InFlight
  <2>3. QED
    BY <1>0, <2>2
<1>6. own \in Request /\ own.what = "nothing" /\ ~own.stored
  BY <1>3 DEF Request, Idle
<1>7. ChatTypeOK
  <2>1. /\ stored \in Seq(Message) /\ list \in Seq(Message) /\ pending \in Seq(Event)
        /\ reads \in Seq(Read) /\ listReads \in Seq(ListRead)
    BY <1>1, <1>3
  <2>2. posted \in 0..MaxPosts /\ changes \in 0..MaxChanges
    <3>1. posted = 0 /\ changes = 0
      BY <1>3
    <3>2. 0 \in 0..MaxPosts /\ 0 \in 0..MaxChanges
      BY <1>0
    <3>3. QED
      BY <3>1, <3>2
  <2>3. QED
    BY <1>2, <1>3, <1>4, <1>5, <1>6, <2>1, <2>2 DEF ChatTypeOK
<1>8. 1..0 = {}
  OBVIOUS
<1>9. StrangerInv /\ OnceInv /\ RestoringInv
  <2>1. DOMAIN stored = {} /\ DOMAIN listReads = {}
    BY <1>1, <1>3, <1>8
  <2>2. Len(pending) <= 1
    <3>1. Len(pending) = 0
      BY <1>1, <1>3
    <3>2. QED
      BY <3>1
  <2>3. StrangerInv
    BY <1>3, <1>6, <2>1 DEF StrangerInv
  <2>4. OnceInv
    BY <1>6, <2>1, <2>2 DEF OnceInv
  <2>5. RestoringInv
    BY <1>4 DEF RestoringInv
  <2>6. QED
    BY <2>3, <2>4, <2>5
<1>10. MessagesInv
  BY <1>3 DEF MessagesInv, Shown
<1>11. ListedInv
  BY <1>4 DEF ListedInv, Coming
<1>12. QED
  BY <1>2, <1>7, <1>9, <1>10, <1>11 DEF ChatInv

LEMMA ChatInvariant == ChatSpec => []ChatInv
<1>1. ChatInit => ChatInv
  BY ChatInitially
<1>2. ChatInv /\ [ChatNext]_chatClientVars => ChatInv'
  BY ChatStep
<1>3. QED
  BY <1>1, <1>2, PTL DEF ChatSpec

\* Every variable of the chat page and of its connection has its type.
THEOREM ChatTyped == ChatSpec => []ChatTypeOK
<1>1. ChatInv => ChatTypeOK
  BY DEF ChatInv
<1>2. QED
  BY <1>1, ChatInvariant, PTL

\* From the first socket that is open after the effect has run, the page is told
\* connected only while it is (client.ts:36-40, PlatformContext.tsx:181-211).
THEOREM ClaimsAreHonest == ChatSpec => []ClaimIsHonest
<1>1. ChatInv => ClaimIsHonest
  BY DEF ChatInv, ConnectedInv
<1>2. QED
  BY <1>1, ChatInvariant, PTL

LEMMA QuietMeansSettled ==
  ASSUME ChatInv, Quiet
  PROVE  /\ ~Coming(MessageKind, "messages") /\ ~Coming({"conversation"}, "conversations")
         /\ asked["conversations"] = 0
         /\ reads = <<>> /\ listReads = <<>>
<1>0. /\ subscription = "held" /\ pending = <<>> /\ pipe = <<>> /\ last = "none" /\ InFlight = 0
      /\ reads \in Seq(Read) /\ listReads \in Seq(ListRead)
      /\ asked \in [Load -> 0..MaxLoads]
      /\ "messages" \in Load /\ "conversations" \in Load
  BY DEF Quiet, ChatInv, ChatTypeOK, Load
<1>1. uiConnected
  BY <1>0 DEF ChatInv, ChatTypeOK, RealtimeTypeOK, ConnectedInv
<1>2. Len(reads) \in Nat /\ Len(listReads) \in Nat
      /\ asked["messages"] \in Nat /\ asked["conversations"] \in Nat
  BY <1>0, LenProperties, ChatBounds
<1>3. Len(reads) = 0 /\ Len(listReads) = 0 /\ asked["messages"] = 0 /\ asked["conversations"] = 0
  BY <1>0, <1>2 DEF InFlight
<1>4. reads = <<>> /\ listReads = <<>>
  BY <1>0, <1>3, EmptySeq
<1>5. DOMAIN <<>> = {}
  <2>1. DOMAIN <<>> = 1..0
    BY EmptySeq, LenProperties
  <2>2. 1..0 = {}
    OBVIOUS
  <2>3. QED
    BY <2>1, <2>2
<1>6. "none" \notin MessageKind /\ "none" # "conversation"
  BY DEF MessageKind
<1>7. QED
  BY <1>0, <1>1, <1>3, <1>4, <1>5, <1>6 DEF Coming

\* When all is quiet, the user sees the messages and the conversation as they are stored,
\* or something has happened that the code does not make up for (page.tsx:499-505,
\* 592-625, chat-store.ts:154-228, 297-328, 383-408).
THEOREM QuietViewsAreCurrent == ChatSpec => []QuietViewIsCurrent
<1>1. ASSUME ChatInv, Quiet
      PROVE  /\ listed = Has \/ listExcused
             /\ Shown /\ Has => list = stored \/ excused
  <2>1. /\ ~Coming(MessageKind, "messages") /\ ~Coming({"conversation"}, "conversations")
        /\ reads = <<>> /\ listReads = <<>>
    BY <1>1, QuietMeansSettled
  <2>2. DOMAIN <<>> = {}
    <3>1. DOMAIN <<>> = 1..0
      BY EmptySeq, LenProperties
    <3>2. 1..0 = {}
      OBVIOUS
    <3>3. QED
      BY <3>1, <3>2
  <2>3. ListedFine /\ (Shown /\ Has => MessagesFine)
    BY <1>1, <2>1 DEF ChatInv, ListedInv, MessagesInv
  <2>4. QED
    BY <2>1, <2>2, <2>3 DEF ListedFine, MessagesFine
<1>2. ChatInv => QuietViewIsCurrent
  BY <1>1 DEF QuietViewIsCurrent
<1>3. QED
  BY <1>2, ChatInvariant, PTL

\* The page does not wait for a conversation that no load will bring (page.tsx:777-789,
\* chat-store.ts:170-192).
THEOREM RestoringEnds == ChatSpec => []NoEndlessRestoring
<1>1. ChatInv /\ Quiet => asked["conversations"] = 0 /\ listReads = <<>>
  BY QuietMeansSettled
<1>2. ChatInv => NoEndlessRestoring
  BY <1>1 DEF ChatInv, RestoringInv, NoEndlessRestoring
<1>3. QED
  BY <1>2, ChatInvariant, PTL

=============================================================================
