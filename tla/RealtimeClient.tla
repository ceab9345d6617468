--------------------------- MODULE RealtimeClient ---------------------------
(***************************************************************************)
(* The web client's realtime connection: the shared RealtimeClient of      *)
(* apps/lib/api/realtime/client.ts and the effect of                       *)
(* apps/context/PlatformContext.tsx that drives it and tells the pages of  *)
(* its state and of its last event.                                        *)
(*                                                                         *)
(* One page, at one workspace: a stay at another, or at none, is left out  *)
(* between its leaving and its coming back.  The server's end is Hub; here *)
(* it is what the client sees of it: a handshake that is refused with a    *)
(* token expired, a subscription that takes effect when its frame is read, *)
(* and events pushed to whoever is subscribed.  An event's kind is all the *)
(* pages tell apart.  A second event with an id already seen changes       *)
(* nothing.                                                                *)
(*                                                                         *)
(* The module has no next-state relation of its own: a page that listens   *)
(* takes part in the steps that change what the page is told.              *)
(***************************************************************************)
EXTENDS Naturals, Sequences

CONSTANTS
    MaxPipe,      \* bound: events on their way to the page
    MaxTroubles   \* bound: connections lost, pages hidden, tokens expired or
                  \* cleared, requests and publications that fail

VARIABLES
    sock,         \* RealtimeClient.socket
    connected,    \* RealtimeClient._isConnected
    uiConnected,  \* PlatformContext's isRealtimeConnected
    timer,        \* reconnectTimer is set
    intentional,  \* intentionalClose
    subscription, \* the workspace's: frame not sent, sent, read by the server
    pipe,         \* events pushed and not yet received
    last,         \* lastRealtimeEvent, until the pages have rendered it
    token,        \* the stored access token: accepted, expired, cleared
    opened,       \* history: a socket has been open since the effect last ran
    stranded,     \* history: connect() found no token, and has not been called since
    troubles      \* troubles so far

rtVars == <<sock, connected, uiConnected, timer, intentional, subscription, pipe,
            last, token, opened, stranded, troubles>>

\* message.created and message.updated, which the pages answer alike, and
\* message.deleted.
MessageKind == {"message.changed", "message.deleted"}
\* conversation.created, .updated, .left and .deleted; and what says nothing of
\* messages or conversations: typing, presence, members, calls.
Kind == MessageKind \cup {"conversation", "other"}

RealtimeTypeOK ==
    /\ sock \in {"none", "connecting", "open"}
    /\ connected \in BOOLEAN /\ uiConnected \in BOOLEAN /\ timer \in BOOLEAN
    /\ intentional \in BOOLEAN /\ token \in {"good", "expired", "none"}
    /\ opened \in BOOLEAN /\ stranded \in BOOLEAN
    /\ subscription \in {"none", "sent", "held"}
    /\ pipe \in Seq(Kind) /\ Len(pipe) <= MaxPipe
    /\ last \in Kind \cup {"none"}
    /\ troubles \in 0..MaxTroubles
    /\ connected = (sock = "open")
    /\ subscription # "none" => sock = "open"
    /\ pipe # <<>> => subscription = "held"
    /\ intentional => sock = "none" /\ ~timer

\* The effect has run once: connect() has made a socket, and its promise has
\* marked the page connected, for it resolves before the socket opens.
RealtimeInit ==
    /\ sock = "connecting"
    /\ connected = FALSE
    /\ uiConnected = TRUE
    /\ timer = FALSE
    /\ intentional = FALSE
    /\ subscription = "none"
    /\ pipe = <<>>
    /\ last = "none"
    /\ token = "good"
    /\ opened = FALSE
    /\ stranded = FALSE
    /\ troubles = 0

-----------------------------------------------------------------------------
Trouble == troubles < MaxTroubles /\ troubles' = troubles + 1

\* setConnected tells its listeners only of a change.
SetConnected(c) ==
    /\ connected' = c
    /\ uiConnected' = IF connected = c THEN uiConnected ELSE c

Opened ==
    /\ sock = "connecting" /\ token # "expired"
    /\ sock' = "open"
    /\ SetConnected(TRUE)
    /\ subscription' = "sent"
    /\ opened' = TRUE
    /\ UNCHANGED <<timer, intentional, pipe, last, token, stranded, troubles>>

\* The server reads the subscribe frame ...
SubscribeRead ==
    /\ subscription = "sent"
    /\ subscription' = "held"
    /\ UNCHANGED <<sock, connected, uiConnected, timer, intentional, pipe, last,
                   token, opened, stranded, troubles>>

\* ... and drops it without a word when it cannot check the membership.
SubscribeDropped ==
    /\ subscription = "sent"
    /\ Trouble
    /\ subscription' = "none"
    /\ UNCHANGED <<sock, connected, uiConnected, timer, intentional, pipe, last,
                   token, opened, stranded>>

\* Mutant: a handshake that fails is not tried again.
ClosedForGood ==
    /\ sock' = "none"
    /\ SetConnected(FALSE)
    /\ timer' = connected
    /\ subscription' = "none"
    /\ pipe' = <<>>

\* The `error` and `close` events of a socket that disconnect() did not close.
Closed ==
    /\ sock' = "none"
    /\ SetConnected(FALSE)
    /\ timer' = TRUE
    /\ subscription' = "none"
    /\ pipe' = <<>>

\* The handshake is refused, for the token or for any other reason.
Refused ==
    /\ sock = "connecting"
    /\ IF token = "good" THEN Trouble ELSE UNCHANGED troubles
    /\ Closed
    /\ UNCHANGED <<intentional, last, token, opened, stranded>>

Dropped ==
    /\ sock = "open"
    /\ Trouble
    /\ Closed
    /\ UNCHANGED <<intentional, last, token, opened, stranded>>

\* connect(): a socket that is there is kept; without a token there is none, and
\* no timer for another try; a token that has expired is good enough.
Connect ==
    LET dials == sock = "none" /\ token # "none"
    IN /\ sock' = IF dials THEN "connecting" ELSE sock
       /\ intentional' = (intentional /\ ~dials)
       /\ stranded' = (sock = "none" /\ token = "none")

Retry ==
    /\ timer
    /\ timer' = FALSE
    /\ Connect
    /\ UNCHANGED <<connected, uiConnected, subscription, pipe, last, token,
                   opened, troubles>>

\* Mutant: the client does not tell that it has disconnected.
DisconnectSilently ==
    /\ intentional' = TRUE
    /\ timer' = FALSE
    /\ sock' = "none"
    /\ connected' = FALSE
    /\ UNCHANGED uiConnected
    /\ subscription' = "none"
    /\ pipe' = <<>>

Disconnect ==
    /\ intentional' = TRUE
    /\ timer' = FALSE
    /\ sock' = "none"
    /\ SetConnected(FALSE)
    /\ subscription' = "none"
    /\ pipe' = <<>>

\* `pagehide`: the page may come back from the back-forward cache, and goes on
\* from here.
PageHidden ==
    /\ ~intentional
    /\ Trouble
    /\ Disconnect
    /\ UNCHANGED <<last, token, opened, stranded>>

\* The token matters to the handshakes only: one that goes while the socket is
\* open is gone when the next begins.
TokenExpires ==
    /\ token = "good" /\ sock # "open"
    /\ Trouble
    /\ token' = "expired"
    /\ UNCHANGED <<sock, connected, uiConnected, timer, intentional, subscription,
                   pipe, last, opened, stranded>>

\* logout() clears the tokens whatever became of its request; the page stays
\* when that failed.
TokensCleared ==
    /\ token # "none" /\ sock # "open"
    /\ Trouble
    /\ token' = "none"
    /\ UNCHANGED <<sock, connected, uiConnected, timer, intentional, subscription,
                   pipe, last, opened, stranded>>

\* The members are read every 15 seconds: a request that is refused refreshes
\* the token (AuthSession), which the realtime client never does.
Poll ==
    /\ token = "expired"
    /\ token' = "good"
    /\ UNCHANGED <<sock, connected, uiConnected, timer, intentional, subscription,
                   pipe, last, opened, stranded, troubles>>

\* With the tokens cleared, the cookie may still bring one.
PollByCookie ==
    /\ token = "none"
    /\ token' = "good"
    /\ UNCHANGED <<sock, connected, uiConnected, timer, intentional, subscription,
                   pipe, last, opened, stranded, troubles>>

\* The effect runs again when activeWorkspaceId has become another, or none (the
\* user and the workspaces are loaded again and that fails), and this one again.
\* Its clean-up leaves the connection as it is; connect() resolves, and marks the
\* page connected, whatever it did.
EffectAgain ==
    /\ subscription' = IF sock = "open" /\ subscription = "none" THEN "sent" ELSE subscription
    /\ Connect
    /\ uiConnected' = TRUE
    /\ opened' = connected
    /\ last' = "none"
    /\ UNCHANGED <<connected, timer, pipe, token, troubles>>

\* The page is told of a change of its connection: `currentUser` becomes another
\* object, and the effects that depend on it run again.
Flips == uiConnected' # uiConnected

\* The server pushes an event, if the client holds a subscription.
Push(kind) ==
    /\ subscription = "held" => Len(pipe) < MaxPipe
    /\ pipe' = IF subscription = "held" THEN Append(pipe, kind) ELSE pipe
    /\ UNCHANGED <<sock, connected, uiConnected, timer, intentional, subscription,
                   last, token, opened, stranded, troubles>>

\* The page's listener stores the event; one that was not rendered is replaced.
Receive ==
    /\ pipe # <<>>
    /\ last' = Head(pipe)
    /\ pipe' = Tail(pipe)
    /\ UNCHANGED <<sock, connected, uiConnected, timer, intentional, subscription,
                   token, opened, stranded, troubles>>

Rendered ==
    /\ last # "none"
    /\ last' = "none"
    /\ UNCHANGED <<sock, connected, uiConnected, timer, intentional, subscription,
                   pipe, token, opened, stranded, troubles>>

-----------------------------------------------------------------------------
(* Properties. *)

\* The page is told connected only while it is, from the first socket that is open
\* after the effect has run: a user whose connection is lost is not shown as
\* online (client.ts:36-40, PlatformContext.tsx:189-194).  Before, the effect's own
\* claim stands, in an outage too: a handshake that fails goes unnoticed.
ClaimIsHonest == uiConnected /\ ~connected => ~opened

\* A page that is not connected becomes so again, whatever closed the socket and
\* with a token expired too (client.ts:104-117, 141-151), unless it was hidden, or
\* a timer fired when the tokens were cleared: connect() then gives up (61-64).
ComesBack == ~connected ~> connected \/ intentional \/ stranded

=============================================================================
