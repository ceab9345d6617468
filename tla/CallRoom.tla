------------------------------ MODULE CallRoom ------------------------------
(***************************************************************************)
(* The room of a call: the page apps/app/(platform)/calls/room/page.tsx    *)
(* and its hook apps/hooks/use-livekit.ts, for pages that have come to the *)
(* same meeting (Calls says how).                                          *)
(*                                                                         *)
(* A page's state is what React renders; the connection is the Room object *)
(* connect() has made last, and what LiveKit holds of it.  LiveKit keeps   *)
(* one connection of an identity, the last that joins, and tells those who *)
(* are in a room of those who join and leave it afterwards.                *)
(*                                                                         *)
(* connect() is asynchronous: it waits for LiveKit's module, then for the  *)
(* join, then for the microphone and the camera, which the user may be     *)
(* asked to allow, while the page already shows it is connected.  The      *)
(* module is loaded once in a tab; a page that is left in that wait has no *)
(* Room yet for its cleanup to disconnect, and its connect() goes on.      *)
(*                                                                         *)
(* What a connection publishes is left out, and the buttons that mute it:  *)
(* no other state depends on them.                                         *)
(***************************************************************************)
EXTENDS Naturals, FiniteSets

CONSTANTS
    Page,         \* pages of users that come to the meeting
    Identity,     \* the identities of LiveKit tokens
    Video,        \* the pages opened in mode "video", the others in "audio"
    MaxVisits,    \* bound: times each page comes to the room
    MaxRoomTroubles   \* bound: joins that fail, connections lost, devices refused

ASSUME RoomBounds ==
    /\ Video \subseteq Page /\ Identity # {}
    /\ MaxVisits \in [Page -> Nat] /\ MaxRoomTroubles \in Nat

VARIABLES
    at,             \* the chat, the room, the room while the chat is on its way
    credentials,    \* the page has a token and a URL
    as,             \* the identity of its token
    held,           \* the hook's `room` is not null
    conn,           \* the last Room object's connection; "shaky" is one that LiveKit
                    \* is making again
    step,           \* what connect() waits for
    loaded,         \* the tab has LiveKit's module
    ghosts,         \* connect()s of visits that were left while they waited for it
    late,           \* a connect() of a Room that was left is still waiting
    isConnecting, isConnected, isDisconnected,
    remote,         \* remoteParticipants: identities
    visits, roomTroubles,
    again,          \* history: in this visit the timer has connected
    surprised,      \* history: in this visit the connection was lost or left, or
                    \* a device refused, while connect() was waiting
    slipped         \* history: the page was left while it waited for the module

visitVars == <<at, credentials, as>>
hookVars == <<held, step, late>>
flagVars == <<isConnecting, isConnected, isDisconnected>>
bounds == <<visits, roomTroubles>>
roomHistory == <<again, surprised>>
ghostVars == <<loaded, ghosts, slipped>>
roomVars == <<visitVars, hookVars, conn, flagVars, remote, bounds, roomHistory,
              ghostVars>>

Ghosts == [page : Page, visit : Nat, as : Identity,
           at : {"import", "joining", "joined"}]

RoomTypeOK ==
    /\ at \in [Page -> {"chat", "room", "leaving"}]
    /\ credentials \in [Page -> BOOLEAN] /\ as \in [Page -> Identity]
    /\ held \in [Page -> BOOLEAN] /\ late \in [Page -> BOOLEAN]
    /\ conn \in [Page -> {"none", "joining", "joined", "shaky", "left"}]
    /\ step \in [Page -> {"no", "import", "join", "mic", "camera"}]
    /\ loaded \in [Page -> BOOLEAN] /\ ghosts \subseteq Ghosts
    /\ slipped \in [Page -> BOOLEAN]
    /\ isConnecting \in [Page -> BOOLEAN] /\ isConnected \in [Page -> BOOLEAN]
    /\ isDisconnected \in [Page -> BOOLEAN]
    /\ remote \in [Page -> SUBSET Identity]
    /\ visits \in [Page -> Nat] /\ roomTroubles \in 0..MaxRoomTroubles
    /\ again \in [Page -> BOOLEAN] /\ surprised \in [Page -> BOOLEAN]

\* The identity of a page that is not there is of no account.
NoAccount == CHOOSE i \in Identity : TRUE

RoomInit ==
    /\ at = [p \in Page |-> "chat"]
    /\ credentials = [p \in Page |-> FALSE]
    /\ as = [p \in Page |-> NoAccount]
    /\ held = [p \in Page |-> FALSE] /\ late = [p \in Page |-> FALSE]
    /\ conn = [p \in Page |-> "none"]
    /\ step = [p \in Page |-> "no"]
    /\ isConnecting = [p \in Page |-> FALSE] /\ isConnected = [p \in Page |-> FALSE]
    /\ isDisconnected = [p \in Page |-> FALSE]
    /\ remote = [p \in Page |-> {}]
    /\ visits = [p \in Page |-> 0] /\ roomTroubles = 0
    /\ again = [p \in Page |-> FALSE] /\ surprised = [p \in Page |-> FALSE]
    /\ loaded = [p \in Page |-> FALSE] /\ ghosts = {}
    /\ slipped = [p \in Page |-> FALSE]

-----------------------------------------------------------------------------
(* LiveKit. *)

Mounted(p) == at[p] # "chat"
Live(p) == conn[p] \in {"joining", "joined", "shaky"}
InRoom(p) == conn[p] \in {"joined", "shaky"}
Told(p) == conn[p] = "joined"

\* Somebody else than p is in the room as i.
Present(i, p) ==
    \/ \E q \in Page \ {p} : InRoom(q) /\ as[q] = i
    \/ \E g \in ghosts : g.at = "joined" /\ g.as = i

\* Mutant: a disconnection shows, and nothing else changes.
ShowDisconnectedOnly(ps) ==
    LET seen == {p \in ps : Mounted(p)}
    IN /\ isDisconnected' = [p \in Page |-> isDisconnected[p] \/ p \in seen]
       /\ UNCHANGED <<isConnected, isConnecting>>

\* handleDisconnected: the Disconnected event of pages whose connection has ended.
ShowDisconnected(ps) ==
    LET seen == {p \in ps : Mounted(p)}
    IN /\ isConnected' = [p \in Page |-> isConnected[p] /\ p \notin seen]
       /\ isDisconnected' = [p \in Page |-> isDisconnected[p] \/ p \in seen]
       /\ isConnecting' = [p \in Page |-> isConnecting[p] /\ p \notin seen]

\* ParticipantConnected and ParticipantDisconnected, for those who are in the room and
\* whose connection is not being made again.
RemoteAfter(came, gone) ==
    [q \in Page |-> IF Told(q) THEN (remote[q] \ gone) \cup (came \ {as[q]})
                    ELSE remote[q]]

\* A connection of identity i joins, of the pages `new` or of a ghost: LiveKit keeps one
\* of an identity, and the one before is disconnected.
TakesPlace(i, new) ==
    LET out == {q \in Page \ new : InRoom(q) /\ as[q] = i}
        seen == {q \in out : Mounted(q)}
    IN /\ conn' = [q \in Page |-> IF q \in new THEN "joined"
                                  ELSE IF q \in out THEN "left" ELSE conn[q]]
       /\ surprised' = [q \in Page |-> surprised[q] \/ (q \in out /\ step[q] # "no")]
       /\ isConnected' = [q \in Page |-> q \in new \/ (isConnected[q] /\ q \notin seen)]
       /\ isDisconnected' = [q \in Page |-> isDisconnected[q] \/ q \in seen]
       /\ isConnecting' =
            [q \in Page |-> isConnecting[q] /\ q \notin new /\ q \notin seen]
       /\ remote' = RemoteAfter({i}, {})

\* The ghosts whose place is taken.
Displaced(i) == {g \in ghosts : g.at = "joined" /\ g.as = i}

-----------------------------------------------------------------------------
(* The page comes and goes. *)

\* The room's page is mounted, with credentials in its URL or without.
Enter(p) ==
    /\ at[p] = "chat" /\ visits[p] < MaxVisits[p]
    /\ visits' = [visits EXCEPT ![p] = @ + 1]
    /\ at' = [at EXCEPT ![p] = "room"]
    /\ \E c \in BOOLEAN : credentials' = [credentials EXCEPT ![p] = c]
    /\ \E i \in Identity : as' = [as EXCEPT ![p] = i]
    /\ held' = [held EXCEPT ![p] = FALSE] /\ step' = [step EXCEPT ![p] = "no"]
    /\ late' = [late EXCEPT ![p] = FALSE]
    /\ conn' = [conn EXCEPT ![p] = "none"]
    /\ isConnecting' = [isConnecting EXCEPT ![p] = FALSE]
    /\ isConnected' = [isConnected EXCEPT ![p] = FALSE]
    /\ isDisconnected' = [isDisconnected EXCEPT ![p] = FALSE]
    /\ remote' = [remote EXCEPT ![p] = {}]
    /\ again' = [again EXCEPT ![p] = FALSE] /\ surprised' = [surprised EXCEPT ![p] = FALSE]
    /\ UNCHANGED <<roomTroubles, ghostVars>>

\* initializeMeeting makes a meeting, starts it and asks for a token; where that
\* fails the page shows an error, and "Réessayer" loads it again.
Initialize(p) ==
    /\ at[p] = "room" /\ ~credentials[p]
    /\ credentials' = [credentials EXCEPT ![p] = TRUE]
    /\ UNCHANGED <<at, as, hookVars, conn, flagVars, remote, bounds, roomHistory,
                   ghostVars>>

\* Mutant: the cleanup was set up with the room of the first render, which is null.
UnmountedStale(p) == conn[p]

\* The effect's cleanup disconnects the room the hook holds.
Unmounted(p) == IF held[p] \/ ~Live(p) THEN "none" ELSE conn[p]

\* The page is left, by its link, or because the chat has come.  A connect() that
\* waits for the module goes on without it.  The state of the page is gone.
Unmount(p) ==
    /\ Mounted(p)
    /\ ghosts' = ghosts \cup
         IF step[p] # "import" THEN {}
         ELSE {[page |-> p, visit |-> visits[p], as |-> as[p], at |-> "import"]}
    /\ slipped' = [slipped EXCEPT ![p] = @ \/ step[p] = "import"]
    /\ at' = [at EXCEPT ![p] = "chat"]
    /\ credentials' = [credentials EXCEPT ![p] = FALSE]
    /\ conn' = [conn EXCEPT ![p] = Unmounted(p)]
    /\ LET gone == IF InRoom(p) /\ held[p] THEN {as[p]} ELSE {}
       IN remote' = [RemoteAfter({}, gone) EXCEPT ![p] = {}]
    /\ held' = [held EXCEPT ![p] = FALSE] /\ step' = [step EXCEPT ![p] = "no"]
    /\ late' = [late EXCEPT ![p] = FALSE]
    /\ isConnecting' = [isConnecting EXCEPT ![p] = FALSE]
    /\ isConnected' = [isConnected EXCEPT ![p] = FALSE]
    /\ isDisconnected' = [isDisconnected EXCEPT ![p] = FALSE]
    /\ again' = [again EXCEPT ![p] = FALSE] /\ surprised' = [surprised EXCEPT ![p] = FALSE]
    /\ as' = [as EXCEPT ![p] = NoAccount]
    /\ UNCHANGED <<bounds, loaded>>

-----------------------------------------------------------------------------
(* connect(). *)

RoomTrouble == roomTroubles < MaxRoomTroubles /\ roomTroubles' = roomTroubles + 1

\* A new Room takes the place of the one held, which the effect's cleanup disconnects
\* if it is not already.
NewRoom(p) ==
    /\ held' = [held EXCEPT ![p] = TRUE]
    /\ conn' = [conn EXCEPT ![p] = "joining"]
    /\ step' = [step EXCEPT ![p] = "join"]

\* connect() up to its first wait that lasts: the module's, the first time in a tab,
\* and the join's.
Connect(p) ==
    /\ isConnecting' = [isConnecting EXCEPT ![p] = TRUE]
    /\ isDisconnected' = [isDisconnected EXCEPT ![p] = FALSE]
    /\ late' = [late EXCEPT ![p] = @ \/ step[p] # "no"]
    /\ IF loaded[p] THEN NewRoom(p)
       ELSE step' = [step EXCEPT ![p] = "import"] /\ UNCHANGED <<held, conn>>

\* The effect that connects, when the page has credentials and no room.
AutoConnect(p) ==
    /\ Mounted(p) /\ credentials[p]
    /\ ~isConnected[p] /\ ~isConnecting[p] /\ ~held[p]
    /\ Connect(p)
    /\ UNCHANGED <<visitVars, isConnected, remote, bounds, roomHistory, ghostVars>>

\* The timer of the effect that connects again, two seconds after a
\* disconnection.  `connect` is another function at each render, the effect
\* depends on it, and the page renders each second: the timer starts again
\* before it ends.  It ends only where the browser lets the timers of a page in
\* the background run late, and together.
TimerEnds(p) ==
    /\ Mounted(p) /\ credentials[p] /\ isDisconnected[p]
    /\ Connect(p)
    /\ again' = [again EXCEPT ![p] = TRUE]
    /\ UNCHANGED <<visitVars, isConnected, remote, bounds, surprised, ghostVars>>

\* The connect()s of p's tab that wait for the module.
Waiting(p) == {g \in ghosts : g.page = p /\ g.at = "import"}

\* The module has come: whoever waits for it makes a Room and joins, whether or not its
\* page is still there.
Imported(p) ==
    /\ ~loaded[p] /\ (step[p] = "import" \/ Waiting(p) # {})
    /\ loaded' = [loaded EXCEPT ![p] = TRUE]
    /\ ghosts' = (ghosts \ Waiting(p)) \cup {[g EXCEPT !.at = "joining"] : g \in Waiting(p)}
    /\ IF step[p] = "import" THEN NewRoom(p) ELSE UNCHANGED <<held, conn, step>>
    /\ UNCHANGED <<visitVars, late, flagVars, remote, bounds, roomHistory, slipped>>

\* The module does not come: each connect() shows the error, and the effect calls it
\* again.
ImportFails(p) ==
    /\ ~loaded[p] /\ (step[p] = "import" \/ Waiting(p) # {})
    /\ RoomTrouble
    /\ ghosts' = ghosts \ Waiting(p)
    /\ step' = [step EXCEPT ![p] = "no"]
    /\ isConnected' = [isConnected EXCEPT ![p] = FALSE]
    /\ isConnecting' = [isConnecting EXCEPT ![p] = FALSE]
    /\ UNCHANGED <<visitVars, held, late, conn, isDisconnected, remote, visits, roomHistory,
                   loaded, slipped>>

Join(p) ==
    /\ step[p] = "join" /\ conn[p] = "joining"
    /\ TakesPlace(as[p], {p})
    /\ ghosts' = ghosts \ Displaced(as[p])
    /\ step' = [step EXCEPT ![p] = IF p \in Video THEN "mic" ELSE "no"]
    /\ UNCHANGED <<visitVars, held, late, bounds, again, loaded, slipped>>

\* A ghost joins: it is heard and seen, and nothing ends it but its tab.
GhostJoins(g) ==
    /\ g.at = "joining"
    /\ TakesPlace(g.as, {})
    /\ ghosts' = (ghosts \ (Displaced(g.as) \cup {g})) \cup {[g EXCEPT !.at = "joined"]}
    /\ UNCHANGED <<visitVars, hookVars, bounds, again, loaded, slipped>>

\* A ghost cannot join, or is lost.
GhostEnds(g) ==
    /\ g.at # "import" /\ RoomTrouble
    /\ ghosts' = ghosts \ {g}
    /\ remote' = RemoteAfter({}, IF g.at = "joined" THEN {g.as} ELSE {})
    /\ UNCHANGED <<visitVars, hookVars, conn, flagVars, visits, roomHistory, loaded,
                   slipped>>

\* The connection is not made: the Room tells it is disconnected, and connect()
\* shows the error.
JoinFails(p) ==
    /\ step[p] = "join" /\ conn[p] = "joining"
    /\ RoomTrouble
    /\ conn' = [conn EXCEPT ![p] = "left"]
    /\ ShowDisconnected({p})
    /\ step' = [step EXCEPT ![p] = "no"]
    /\ UNCHANGED <<visitVars, held, late, remote, visits, roomHistory, ghostVars>>

\* The Room was left while it was joining.
JoinAborted(p) ==
    /\ step[p] = "join" /\ conn[p] = "left"
    /\ step' = [step EXCEPT ![p] = "no"]
    /\ isConnected' = [isConnected EXCEPT ![p] = FALSE]
    /\ isConnecting' = [isConnecting EXCEPT ![p] = FALSE]
    /\ UNCHANGED <<visitVars, held, late, conn, isDisconnected, remote, bounds, roomHistory,
                   ghostVars>>

\* setMicrophoneEnabled, then setCameraEnabled: on a connection that has ended they
\* publish nothing, and connect() is told they have succeeded.
Microphone(p) ==
    /\ step[p] = "mic"
    /\ step' = [step EXCEPT ![p] = "camera"]
    /\ UNCHANGED <<visitVars, held, late, conn, flagVars, remote, bounds, roomHistory,
                   ghostVars>>

Camera(p) ==
    /\ step[p] = "camera"
    /\ step' = [step EXCEPT ![p] = "no"]
    /\ isConnected' = [isConnected EXCEPT ![p] = TRUE]
    /\ isConnecting' = [isConnecting EXCEPT ![p] = FALSE]
    /\ UNCHANGED <<visitVars, held, late, conn, isDisconnected, remote, bounds, roomHistory,
                   ghostVars>>

\* A device is refused: the page shows it is not connected, though it is.
Refused(p) ==
    /\ step[p] \in {"mic", "camera"}
    /\ RoomTrouble
    /\ step' = [step EXCEPT ![p] = "no"]
    /\ isConnected' = [isConnected EXCEPT ![p] = FALSE]
    /\ isConnecting' = [isConnecting EXCEPT ![p] = FALSE]
    /\ surprised' = [surprised EXCEPT ![p] = TRUE]
    /\ UNCHANGED <<visitVars, held, late, conn, isDisconnected, remote, visits, again,
                   ghostVars>>

\* The connect() of a Room that was left ends, one way or the other: it sets the
\* flags of the page as if it were the only one.
LateEnds(p) ==
    /\ late[p]
    /\ late' = [late EXCEPT ![p] = FALSE]
    /\ \E ok \in BOOLEAN : isConnected' = [isConnected EXCEPT ![p] = ok]
    /\ isConnecting' = [isConnecting EXCEPT ![p] = FALSE]
    /\ surprised' = [surprised EXCEPT ![p] = TRUE]
    /\ UNCHANGED <<visitVars, held, step, conn, isDisconnected, remote, bounds, again,
                   ghostVars>>

-----------------------------------------------------------------------------
(* In the room. *)

\* The connection is lost for good: LiveKit's own attempts have failed.
Lost(p) ==
    /\ InRoom(p)
    /\ RoomTrouble
    /\ conn' = [conn EXCEPT ![p] = "left"]
    /\ ShowDisconnected({p})
    /\ remote' = [RemoteAfter({}, {as[p]}) EXCEPT ![p] = remote[p]]
    /\ surprised' = [surprised EXCEPT ![p] = @ \/ step[p] # "no"]
    /\ UNCHANGED <<visitVars, hookVars, visits, again, ghostVars>>

\* LiveKit makes the connection again: the page shows that it is connecting, and learns
\* of nobody meanwhile.
Reconnecting(p) ==
    /\ Told(p)
    /\ RoomTrouble
    /\ conn' = [conn EXCEPT ![p] = "shaky"]
    /\ isConnecting' = [isConnecting EXCEPT ![p] = TRUE]
    /\ UNCHANGED <<visitVars, hookVars, isConnected, isDisconnected, remote, visits,
                   roomHistory, ghostVars>>

\* It is made: LiveKit tells the page of those who went, and of some or all who are there.
Reconnected(p) ==
    /\ conn[p] = "shaky"
    /\ conn' = [conn EXCEPT ![p] = "joined"]
    /\ isConnected' = [isConnected EXCEPT ![p] = TRUE]
    /\ isConnecting' = [isConnecting EXCEPT ![p] = FALSE]
    /\ LET there == {i \in Identity \ {as[p]} : Present(i, p)}
       IN \E more \in SUBSET there :
            remote' = [remote EXCEPT ![p] = (@ \cap there) \cup more]
    /\ UNCHANGED <<visitVars, hookVars, isDisconnected, bounds, roomHistory, ghostVars>>

\* The controls are disabled while the page is connecting or not connected.
Controls(p) == at[p] = "room" /\ held[p] /\ isConnected[p] /\ ~isConnecting[p]

\* Mutant: those who were in the room are not forgotten.
RemoteKept(p) == remote[p]

RemoteForgotten(p) == {}

\* disconnect(): the room is left, and the chat asked for; until it comes the page
\* has credentials and no room.
HangUp(p) ==
    /\ Controls(p)
    /\ at' = [at EXCEPT ![p] = "leaving"]
    /\ conn' = [conn EXCEPT ![p] = "left"]
    /\ isConnected' = [isConnected EXCEPT ![p] = FALSE]
    /\ isConnecting' = [isConnecting EXCEPT ![p] = FALSE]
    /\ isDisconnected' = [isDisconnected EXCEPT ![p] = TRUE]
    /\ held' = [held EXCEPT ![p] = FALSE]
    /\ remote' = [RemoteAfter({}, IF InRoom(p) THEN {as[p]} ELSE {})
                     EXCEPT ![p] = RemoteForgotten(p)]
    /\ surprised' = [surprised EXCEPT ![p] = @ \/ step[p] # "no"]
    /\ UNCHANGED <<credentials, as, step, late, bounds, again, ghostVars>>

-----------------------------------------------------------------------------
Connecting(p) ==
    \/ AutoConnect(p) \/ Imported(p) \/ ImportFails(p)
    \/ Join(p) \/ JoinFails(p) \/ JoinAborted(p)
    \/ Microphone(p) \/ Camera(p) \/ Refused(p) \/ LateEnds(p)
    \/ Reconnected(p)

RoomNext ==
    \/ \E p \in Page :
         \/ Enter(p) \/ Initialize(p) \/ Unmount(p)
         \/ Connecting(p) \/ TimerEnds(p)
         \/ Reconnecting(p) \/ Lost(p) \/ HangUp(p)
    \/ \E g \in ghosts : GhostJoins(g) \/ GhostEnds(g)

RoomSpec == RoomInit /\ [][RoomNext]_roomVars

-----------------------------------------------------------------------------
(* Properties. *)

\* A page that has been left holds no connection, in whatever way it was left and at
\* whatever moment of connect() but one: while connect() waits for the module there is
\* no Room to disconnect, and whoever leaves then is heard and seen in the room
\* afterwards.  Nobody else is (use-livekit.ts:56-69, 174-183).
GoneIsSilent == \A p \in Page :
    /\ ~Mounted(p) => ~Live(p)
    /\ (\E g \in ghosts : g.page = p) => slipped[p]

\* The page shows that it is connected exactly while it is, unless a device was
\* refused, or the connection lost, while connect() was waiting
\* (use-livekit.ts:113-134, 162-238).
ShowsWhatIs == \A p \in Page :
    Mounted(p) /\ ~surprised[p] => (isConnected[p] <=> InRoom(p))

\* Whoever a page that is in the room shows is there, unless LiveKit is making its
\* connection again, or it was disconnected and has come back by its timer: those it
\* knew are not forgotten (use-livekit.ts:88-94, 247-268).
NoPhantoms == \A p \in Page : Told(p) /\ ~again[p] =>
    \A i \in remote[p] : Present(i, p)

\* A page does not stay connecting: whatever becomes of a join, and whichever
\* connect() it was, and however LiveKit makes it again (use-livekit.ts:124-134, 162-238).
SpinnerEnds == \A p \in Page : isConnecting[p] ~> ~isConnecting[p]

=============================================================================
