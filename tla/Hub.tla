-------------------------------- MODULE Hub --------------------------------
(***************************************************************************)
(* The hub that pushes events to browsers (realtime.go): a set of clients  *)
(* under a read-write lock, a bounded channel per client, a goroutine that *)
(* reads each connection and one that writes it, the goroutines in which   *)
(* the event bus calls handleEvent, and Close.                             *)
(*                                                                         *)
(* With Redis the bus has one such goroutine; the in-memory bus runs       *)
(* handleEvent in whatever goroutine publishes.  Four goroutines may find  *)
(* that a client has to go, and each of them removes it and closes it.     *)
(*                                                                         *)
(* A critical section that only changes the set of clients is one step,    *)
(* taken when nobody holds the read lock.  handleEvent holds that lock for *)
(* many steps.  All events are of one workspace.                           *)
(***************************************************************************)
EXTENDS Integers, Sequences, FiniteSets

CONSTANTS
  Clients,    \* connections
  Callers,    \* goroutines in which the bus calls handleEvent
  Capacity,   \* length of a client's channel
  MaxEvents   \* bound: events handled

ASSUME HubAssumption ==
  /\ Capacity \in Nat \ {0}
  /\ MaxEvents \in Nat

VARIABLES
  clients,      \* h.clients
  subscribed,   \* clients that subscribed to the workspace
  conn,         \* state of each connection
  closed,       \* clients whose channel is closed
  channel,      \* the events in each channel
  reader,       \* stage of each readLoop
  writer,       \* stage of each writeLoop
  caller,       \* stage of each caller of handleEvent
  todo,         \* clients it has still to look at
  slow,         \* clients whose channel it found full
  closer,       \* stage of Close
  closing,      \* clients Close has still to close
  handled,      \* how many events each caller has handled
  received,     \* per connection and caller: the last event written, 0 for none
  missed,       \* clients that an event passed by
  panicked      \* a channel was closed twice, or written after it was closed

clientVars == <<clients, subscribed, conn, closed>>
loopVars   == <<reader, writer>>
callerVars == <<caller, todo, slow>>
closeVars  == <<closer, closing>>
eventVars  == <<handled, received, missed>>
vars == <<clientVars, channel, loopVars, callerVars, closeVars, eventVars, panicked>>

\* An event is known by the caller that handles it and a number.
Events == Callers \X (1 .. MaxEvents)

\* Callers that hold the read lock.
Readers == {p \in Callers : caller[p] = "scan"}

Init ==
  /\ clients = {} /\ subscribed = {} /\ closed = {}
  /\ conn = [c \in Clients |-> "new"]
  /\ channel = [c \in Clients |-> <<>>]
  /\ reader = [c \in Clients |-> "none"]
  /\ writer = [c \in Clients |-> "none"]
  /\ caller = [p \in Callers |-> "idle"]
  /\ todo = [p \in Callers |-> {}]
  /\ slow = [p \in Callers |-> {}]
  /\ closer = "open" /\ closing = {}
  /\ handled = [p \in Callers |-> 0]
  /\ received = [c \in Clients |-> [p \in Callers |-> 0]]
  /\ missed = {}
  /\ panicked = FALSE

-----------------------------------------------------------------------------
(* Connections.                                                            *)

\* Handle: the client is registered and its two goroutines start.
Handle(c) ==
  /\ conn[c] = "new"
  /\ Readers = {}
  /\ clients' = clients \cup {c}
  /\ conn' = [conn EXCEPT ![c] = "open"]
  /\ reader' = [reader EXCEPT ![c] = "read"]
  /\ writer' = [writer EXCEPT ![c] = "write"]
  /\ UNCHANGED <<subscribed, closed, channel, callerVars, closeVars, eventVars, panicked>>

\* The browser goes away, or the deadline for its next message passes.
Break(c) ==
  /\ conn[c] = "open"
  /\ conn' = [conn EXCEPT ![c] = "broken"]
  /\ UNCHANGED <<clients, subscribed, closed, channel, loopVars, callerVars, closeVars,
                 eventVars, panicked>>

\* The two halves of removeClient: the entry goes, under the lock, and then
\* closeOnce closes the channel and the connection.
Delete(c) ==
  /\ Readers = {}
  /\ clients' = clients \ {c}
  /\ UNCHANGED <<subscribed, conn, closed, channel>>

\* Mutant: close without closeOnce.
CloseAgain(c) ==
  /\ closed' = closed \cup {c}
  /\ conn' = [conn EXCEPT ![c] = "broken"]
  /\ panicked' = (panicked \/ c \in closed)
  /\ UNCHANGED <<clients, subscribed, channel>>

CloseClient(c) ==
  /\ closed' = closed \cup {c}
  /\ conn' = [conn EXCEPT ![c] = "broken"]
  /\ UNCHANGED <<clients, subscribed, channel, panicked>>

-----------------------------------------------------------------------------
(* readLoop.                                                               *)
ReadVars == <<writer, callerVars, closeVars, eventVars>>

Subscribe(c) ==
  /\ reader[c] = "read" /\ conn[c] = "open"
  /\ subscribed' = subscribed \cup {c}
  /\ UNCHANGED <<clients, conn, closed, channel, reader, ReadVars, panicked>>

ReadFails(c) ==
  /\ reader[c] = "read" /\ conn[c] = "broken"
  /\ reader' = [reader EXCEPT ![c] = "remove"]
  /\ UNCHANGED <<clientVars, channel, ReadVars, panicked>>

ReaderRemoves(c) ==
  /\ reader[c] = "remove"
  /\ Delete(c)
  /\ reader' = [reader EXCEPT ![c] = "close"]
  /\ UNCHANGED <<ReadVars, panicked>>

ReaderCloses(c) ==
  /\ reader[c] = "close"
  /\ CloseClient(c)
  /\ reader' = [reader EXCEPT ![c] = "done"]
  /\ UNCHANGED ReadVars

-----------------------------------------------------------------------------
(* writeLoop.                                                              *)
WriteVars == <<reader, callerVars, closeVars>>

\* An event is taken from the channel and written, which fails on a broken
\* connection.  What is in a closed channel is still taken from it.
WriteEvent(c) ==
  /\ writer[c] = "write" /\ channel[c] # <<>>
  /\ channel' = [channel EXCEPT ![c] = Tail(@)]
  /\ IF conn[c] = "open"
     THEN /\ LET e == Head(channel[c])
             IN  received' = [received EXCEPT ![c][e[1]] = e[2]]
          /\ UNCHANGED writer
     ELSE /\ writer' = [writer EXCEPT ![c] = "remove"]
          /\ UNCHANGED received
  /\ UNCHANGED <<clientVars, WriteVars, handled, missed, panicked>>

\* The loop ends at the end of a closed channel.
WriteEnds(c) ==
  /\ writer[c] = "write" /\ c \in closed /\ channel[c] = <<>>
  /\ writer' = [writer EXCEPT ![c] = "done"]
  /\ UNCHANGED <<clientVars, channel, WriteVars, eventVars, panicked>>

\* The ticker: a ping on a broken connection fails.
PingFails(c) ==
  /\ writer[c] = "write" /\ conn[c] = "broken"
  /\ writer' = [writer EXCEPT ![c] = "remove"]
  /\ UNCHANGED <<clientVars, channel, WriteVars, eventVars, panicked>>

WriterRemoves(c) ==
  /\ writer[c] = "remove"
  /\ Delete(c)
  /\ writer' = [writer EXCEPT ![c] = "close"]
  /\ UNCHANGED <<WriteVars, eventVars, panicked>>

WriterCloses(c) ==
  /\ writer[c] = "close"
  /\ CloseClient(c)
  /\ writer' = [writer EXCEPT ![c] = "done"]
  /\ UNCHANGED <<WriteVars, eventVars>>

-----------------------------------------------------------------------------
(* handleEvent.                                                            *)
CallVars == <<loopVars, closeVars>>

\* The read lock is taken: the set of clients stands still.
BeginScan(p) ==
  /\ caller[p] = "idle" /\ handled[p] < MaxEvents
  /\ handled' = [handled EXCEPT ![p] = @ + 1]
  /\ caller' = [caller EXCEPT ![p] = "scan"]
  /\ todo' = [todo EXCEPT ![p] = clients]
  /\ UNCHANGED <<clientVars, channel, CallVars, slow, received, missed, panicked>>

\* A client that has not subscribed is passed over.
PassOver(p, c) ==
  /\ caller[p] = "scan" /\ c \in todo[p] \ subscribed
  /\ todo' = [todo EXCEPT ![p] = @ \ {c}]
  /\ UNCHANGED <<clientVars, channel, CallVars, caller, slow, eventVars, panicked>>

Send(p, c) ==
  /\ caller[p] = "scan" /\ c \in todo[p] \cap subscribed
  /\ Len(channel[c]) < Capacity
  /\ channel' = [channel EXCEPT ![c] = Append(@, <<p, handled[p]>>)]
  /\ panicked' = (panicked \/ c \in closed)
  /\ todo' = [todo EXCEPT ![p] = @ \ {c}]
  /\ UNCHANGED <<clientVars, CallVars, caller, slow, eventVars>>

\* Mutant: a client whose channel is full is left alone.
FindSlowForgiving(p, c) ==
  /\ caller[p] = "scan" /\ c \in todo[p] \cap subscribed
  /\ Len(channel[c]) = Capacity
  /\ missed' = missed \cup {c}
  /\ panicked' = (panicked \/ c \in closed)
  /\ todo' = [todo EXCEPT ![p] = @ \ {c}]
  /\ UNCHANGED <<clientVars, channel, CallVars, caller, slow, handled, received>>

FindSlow(p, c) ==
  /\ caller[p] = "scan" /\ c \in todo[p] \cap subscribed
  /\ Len(channel[c]) = Capacity
  /\ slow' = [slow EXCEPT ![p] = @ \cup {c}]
  /\ missed' = missed \cup {c}
  /\ panicked' = (panicked \/ c \in closed)
  /\ todo' = [todo EXCEPT ![p] = @ \ {c}]
  /\ UNCHANGED <<clientVars, channel, CallVars, caller, handled, received>>

\* The read lock is released.
EndScan(p) ==
  /\ caller[p] = "scan" /\ todo[p] = {}
  /\ caller' = [caller EXCEPT ![p] = IF slow[p] = {} THEN "idle" ELSE "cut"]
  /\ UNCHANGED <<clientVars, channel, CallVars, todo, slow, eventVars, panicked>>

\* A slow client is removed and closed, one after the other.
RemoveSlow(p, c) ==
  /\ caller[p] = "cut" /\ c \in slow[p] /\ todo[p] = {}
  /\ Delete(c)
  /\ todo' = [todo EXCEPT ![p] = {c}]
  /\ UNCHANGED <<CallVars, caller, slow, eventVars, panicked>>

CloseSlow(p, c) ==
  /\ caller[p] = "cut" /\ c \in todo[p]
  /\ CloseClient(c)
  /\ todo' = [todo EXCEPT ![p] = {}]
  /\ slow' = [slow EXCEPT ![p] = @ \ {c}]
  /\ caller' = [caller EXCEPT ![p] = IF slow[p] = {c} THEN "idle" ELSE "cut"]
  /\ UNCHANGED <<CallVars, eventVars>>

-----------------------------------------------------------------------------
(* Close: all entries go in one critical section, then each is closed.     *)

HubDeletes ==
  /\ closer = "open" /\ Readers = {}
  /\ closer' = "closing"
  /\ closing' = clients
  /\ clients' = {}
  /\ UNCHANGED <<subscribed, conn, closed, channel, loopVars, callerVars, eventVars, panicked>>

HubCloses(c) ==
  /\ closer = "closing" /\ c \in closing
  /\ CloseClient(c)
  /\ closing' = closing \ {c}
  /\ UNCHANGED <<closer, loopVars, callerVars, eventVars>>

-----------------------------------------------------------------------------
ReadLoop(c)  == Subscribe(c) \/ ReadFails(c) \/ ReaderRemoves(c) \/ ReaderCloses(c)
WriteLoop(c) == \/ WriteEvent(c) \/ WriteEnds(c) \/ PingFails(c)
                \/ WriterRemoves(c) \/ WriterCloses(c)
HandleEvent(p) ==
  \/ BeginScan(p) \/ EndScan(p)
  \/ \E c \in Clients : \/ PassOver(p, c) \/ Send(p, c) \/ FindSlow(p, c)
                        \/ RemoveSlow(p, c) \/ CloseSlow(p, c)

Next ==
  \/ \E c \in Clients : Handle(c) \/ Break(c) \/ ReadLoop(c) \/ WriteLoop(c) \/ HubCloses(c)
  \/ \E p \in Callers : HandleEvent(p)
  \/ HubDeletes

Spec == Init /\ [][Next]_vars

\* Goroutines run on.  A goroutine that waits for the lock gets it, however
\* often others read: a blocked Lock keeps new readers out.
FairSpec ==
  /\ Spec
  /\ \A c \in Clients :
       /\ WF_vars(ReadFails(c)) /\ SF_vars(ReaderRemoves(c)) /\ WF_vars(ReaderCloses(c))
       /\ WF_vars(WriteEvent(c)) /\ WF_vars(WriteEnds(c)) /\ WF_vars(PingFails(c))
       /\ SF_vars(WriterRemoves(c)) /\ WF_vars(WriterCloses(c))
  /\ \A p \in Callers :
       /\ WF_vars(EndScan(p))
       /\ \A c \in Clients : /\ WF_vars(PassOver(p, c) \/ Send(p, c) \/ FindSlow(p, c))
                             /\ SF_vars(RemoveSlow(p, c)) /\ WF_vars(CloseSlow(p, c))

-----------------------------------------------------------------------------
TypeOK ==
  /\ clients \subseteq Clients /\ subscribed \subseteq Clients /\ closed \subseteq Clients
  /\ conn \in [Clients -> {"new", "open", "broken"}]
  /\ channel \in [Clients -> Seq(Events)]
  /\ \A c \in Clients : Len(channel[c]) <= Capacity
  /\ reader \in [Clients -> {"none", "read", "remove", "close", "done"}]
  /\ writer \in [Clients -> {"none", "write", "remove", "close", "done"}]
  /\ caller \in [Callers -> {"idle", "scan", "cut"}]
  /\ todo \in [Callers -> SUBSET Clients] /\ slow \in [Callers -> SUBSET Clients]
  /\ closer \in {"open", "closing"} /\ closing \subseteq Clients
  /\ handled \in [Callers -> 0 .. MaxEvents]
  /\ received \in [Clients -> [Callers -> 0 .. MaxEvents]]
  /\ missed \subseteq Clients
  /\ panicked \in BOOLEAN

\* No goroutine writes to a closed channel or closes one twice, although four
\* kinds of them close channels and handleEvent writes without looking: either
\* would bring the whole server down.
NoPanic == ~panicked

\* A client receives the events of a caller, once the first has arrived, in their
\* order and without a gap: an event is dropped only together with the client.
\* With Redis all events come from one caller.
NoGap ==
  [][\A c \in Clients, p \in Callers :
       received'[c][p] # received[c][p] =>
         received[c][p] = 0 \/ received'[c][p] = received[c][p] + 1]_vars

\* A connection that breaks is forgotten: its entry goes and its goroutines
\* end, whoever notices first.
BrokenIsForgotten ==
  \A c \in Clients :
    conn[c] = "broken" ~> c \notin clients /\ reader[c] = "done" /\ writer[c] = "done"

\* A client that misses an event is disconnected.
SlowIsCut == \A c \in Clients : c \in missed ~> c \in closed
=============================================================================
