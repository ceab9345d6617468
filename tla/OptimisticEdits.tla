--------------------------- MODULE OptimisticEdits ---------------------------
(***************************************************************************)
(* The web pages that show an edit before the server has stored it: the    *)
(* notifications (app/(platform)/notifications/page.tsx) and the settings  *)
(* for notifications, for the appearance and for a workspace's members     *)
(* (components/settings/*-settings.tsx, app/(platform)/settings/page.tsx). *)
(*                                                                         *)
(* The four differ in what a request carries (one key, or the whole object *)
(* that was on the screen), in what an edit starts from when its answer    *)
(* arrives (the present state, or the state its handler closed over), in   *)
(* what a refusal takes back, and in what they show when their load fails. *)
(* Nobody else edits what they show.                                       *)
(***************************************************************************)
EXTENDS Naturals

CONSTANTS
    Key,           \* notifications, preferences or members
    MaxEdits,      \* bound: edits made
    MaxLoads,      \* bound: loads after the first
    MaxFailures    \* bound: requests that fail

\* A notification is unread (0) or read (1), a preference is off or on, a member has
\* one of two roles, or is none of the workspace (2).
Value == 0..2
Gone == 2

VARIABLES
    form,       \* the page that is open
    stage,      \* its load: sent, read by the server, then the values or an error
    got,        \* the values a load has read that is not answered
    shown,      \* the values on the screen
    stored,     \* the values in the database
    edits,      \* requests that have not been answered
    made,       \* edits made so far
    loads,      \* loads so far, after the first
    failures,   \* failed requests so far
    raced,      \* history: the last load began while an edit was in flight
    collided,   \* history, since that load: an edit began while another was in flight
    refused,    \* history, since that load: a request was refused
    unrolled,   \* history, since that load: a request was refused that the page does
                \* not take back
    lost        \* history, since that load: the answer of a stored edit was lost

editHistory == <<raced, collided, refused, unrolled, lost>>
editVars == <<form, stage, got, shown, stored, edits, made, loads, failures, editHistory>>

Notifications == "notifications"
NotificationSettings == "preferences"
AppearanceSettings == "appearance"
MembersSettings == "members"
Forms == {Notifications, NotificationSettings, AppearanceSettings, MembersSettings}

Values == [Key -> Value]
NoValues == [k \in Key |-> 0]
Edit == 1..MaxEdits

\* An edit whose `here` is false was made before the page was last opened.
Edits == [id : Edit, keys : SUBSET Key, value : Value, whole : Values, before : Values,
          at : {"sent", "stored", "refused"}, here : BOOLEAN]

EditsTypeOK ==
    /\ form \in Forms
    /\ stage \in {"sent", "read", "ready", "failed"}
    /\ got \in Values /\ shown \in Values /\ stored \in Values
    /\ edits \subseteq Edits
    /\ made \in 0..MaxEdits /\ loads \in 0..MaxLoads /\ failures \in 0..MaxFailures
    /\ raced \in BOOLEAN /\ collided \in BOOLEAN /\ refused \in BOOLEAN
    /\ unrolled \in BOOLEAN /\ lost \in BOOLEAN

\* The page has been opened and loads.
EditsInit ==
    /\ form \in Forms
    /\ stage = "sent"
    /\ got = NoValues /\ shown = NoValues
    /\ stored \in [Key -> IF form = MembersSettings THEN Value ELSE 0..1]
    /\ edits = {}
    /\ made = 0 /\ loads = 0 /\ failures = 0
    /\ raced = FALSE /\ collided = FALSE /\ refused = FALSE /\ unrolled = FALSE
    /\ lost = FALSE

-----------------------------------------------------------------------------
(* Loading. *)

\* A load begins.
StartLoading ==
    /\ loads < MaxLoads /\ loads' = loads + 1
    /\ stage' = "sent"
    /\ raced' = (edits # {})
    /\ collided' = FALSE /\ refused' = FALSE /\ unrolled' = FALSE /\ lost' = FALSE
    /\ got' = NoValues
    /\ UNCHANGED <<form, shown, stored, made, failures>>

\* The page, or its section, is left and opened again: the requests in flight go on,
\* but what their answers set is gone.
OpenAgain ==
    /\ edits' = {[e EXCEPT !.here = FALSE] : e \in edits}
    /\ StartLoading

\* The settings page keeps the list of members: it loads it again when the workspace
\* is another object, or the section is, and sets what it is told meanwhile.
Reload ==
    form = MembersSettings /\ StartLoading /\ UNCHANGED edits

LoadingRead ==
    /\ stage = "sent"
    /\ stage' = "read" /\ got' = stored
    /\ UNCHANGED <<form, shown, stored, edits, made, loads, failures, editHistory>>

LoadingAnswered ==
    /\ stage = "read"
    /\ stage' = "ready" /\ shown' = got /\ got' = NoValues
    /\ UNCHANGED <<form, stored, edits, made, loads, failures, editHistory>>

\* What a failed load leaves: no notification, hence none that is unread; no
\* preferences; the appearance of the local copy, or its defaults; no member.
ShownWithoutLoad ==
    CASE form = Notifications -> {[k \in Key |-> 1]}
      [] form = NotificationSettings -> {shown}
      [] form = AppearanceSettings -> [Key -> 0..1]
      [] form = MembersSettings -> {[k \in Key |-> Gone]}

LoadingFails ==
    /\ stage \in {"sent", "read"} /\ failures < MaxFailures
    /\ failures' = failures + 1
    /\ stage' = "failed" /\ shown' \in ShownWithoutLoad /\ got' = NoValues
    /\ UNCHANGED <<form, stored, edits, made, loads, editHistory>>

-----------------------------------------------------------------------------
(* Making an edit. *)

\* f with the keys of K at v.
With(f, K, v) == [k \in Key |-> IF k \in K THEN v ELSE f[k]]

\* The screen at once, for the pages that do not wait for the answer.
Optimistic(K, v) == With(shown, K, v)

\* The appearance and the members can be edited though they could not be loaded.
Editable ==
    stage = "ready"
    \/ (stage = "failed" /\ form \in {AppearanceSettings, MembersSettings})

\* The request of an edit of the keys K to v, and the screen it leaves behind.
Begin(K, v, screen) ==
    /\ made < MaxEdits /\ made' = made + 1
    /\ edits' = edits \cup
         {[id |-> made + 1, keys |-> K, value |-> v, whole |-> With(shown, K, v),
           before |-> shown, at |-> "sent", here |-> TRUE]}
    /\ shown' = screen
    /\ collided' = (collided \/ edits # {})
    /\ UNCHANGED <<form, stage, got, stored, loads, failures, raced, refused, unrolled,
                   lost>>

\* handleSelectNotification: an unread notification is marked read.
Select(k) ==
    /\ form = Notifications /\ stage = "ready" /\ shown[k] = 0
    /\ Begin({k}, 1, Optimistic({k}, 1))

\* handleMarkAllRead: disabled while one is in flight or where nothing is unread.
\* Its button stays where an error has taken the place of the list.
MarkAll ==
    /\ form = Notifications /\ stage \in {"ready", "failed"}
    /\ \E k \in Key : shown[k] = 0
    /\ \A e \in edits : e.here => e.keys # Key
    /\ Begin(Key, 1, Optimistic(Key, 1))

\* Mutant: the switch is disabled only for the preference that is being saved.
ToggleBusyKey(k) ==
    /\ form = NotificationSettings /\ stage = "ready"
    /\ \A e \in edits : e.here => k \notin e.keys
    /\ Begin({k}, 1 - shown[k], Optimistic({k}, 1 - shown[k]))

\* togglePreference: every switch is disabled while one is being saved, since the
\* page was opened.
Toggle(k) ==
    /\ form = NotificationSettings /\ stage = "ready"
    /\ \A e \in edits : ~e.here
    /\ Begin({k}, 1 - shown[k], Optimistic({k}, 1 - shown[k]))

\* save: nothing is disabled.
SaveAppearance(k) ==
    /\ form = AppearanceSettings /\ Editable
    /\ Begin({k}, 1 - shown[k], Optimistic({k}, 1 - shown[k]))

\* handleRoleChange.
ChangeRole(k) ==
    /\ form = MembersSettings /\ Editable /\ shown[k] # Gone
    /\ Begin({k}, 1 - shown[k], Optimistic({k}, 1 - shown[k]))

\* confirmRemoval and submitMember: the screen waits for the answer.
Remove(k) ==
    form = MembersSettings /\ Editable /\ shown[k] # Gone /\ Begin({k}, Gone, shown)
Provision(k) ==
    form = MembersSettings /\ Editable /\ shown[k] = Gone /\ Begin({k}, 0, shown)

-----------------------------------------------------------------------------
(* The server. *)

\* The settings are sent and stored whole; a mark or a role is stored by its key.
StoredAfter(e) ==
    IF form \in {NotificationSettings, AppearanceSettings} THEN e.whole
    ELSE With(stored, e.keys, e.value)

\* A member that has gone cannot be changed or removed, and one that is there cannot
\* be provisioned.
Accepts(e) ==
    form = MembersSettings =>
        \A k \in e.keys : (e.before[k] = Gone) <=> (stored[k] = Gone)

Store(e) ==
    /\ e.at = "sent" /\ Accepts(e)
    /\ stored' = StoredAfter(e)
    /\ edits' = (edits \ {e}) \cup {[e EXCEPT !.at = "stored"]}
    /\ UNCHANGED <<form, stage, got, shown, made, loads, failures, editHistory>>

Refuse(e) ==
    /\ e.at = "sent"
    /\ failures' = IF Accepts(e) THEN failures + 1 ELSE failures
    /\ failures' <= MaxFailures
    /\ refused' = TRUE
    /\ unrolled' = (unrolled \/ form = AppearanceSettings
                              \/ (form = Notifications /\ e.keys = Key))
    /\ edits' = (edits \ {e}) \cup {[e EXCEPT !.at = "refused"]}
    /\ UNCHANGED <<form, stage, got, shown, stored, made, loads, raced, collided, lost>>

-----------------------------------------------------------------------------
(* The answer. *)

\* A member's edit sets the list its handler closed over, changed by the answer; the
\* other pages already show the edit.
ShownOnSuccess(e) == IF form = MembersSettings THEN e.whole ELSE shown

\* What a failure takes back: a selection its own mark, a preference and a role the
\* whole state from before; marking all and the appearance nothing.
ShownOnFailure(e) ==
    CASE form = Notifications /\ e.keys # Key -> With(shown, e.keys, 0)
      [] form = NotificationSettings -> e.before
      [] form = MembersSettings /\ e.value # Gone /\ (\A k \in e.keys : e.before[k] # Gone)
         -> e.before
      [] OTHER -> shown

\* The answer sets what the page shows, if the page is still the one that asked.
Answer(e, screen) ==
    /\ shown' = IF e.here THEN screen ELSE shown
    /\ edits' = edits \ {e}

\* A failed mark of all leaves an error in the place of the list.
FailureStage(e) ==
    IF e.here /\ form = Notifications /\ e.keys = Key THEN "failed" ELSE stage

Succeed(e) ==
    /\ e.at = "stored"
    /\ Answer(e, ShownOnSuccess(e))
    /\ UNCHANGED <<form, stage, got, stored, made, loads, failures, editHistory>>

Fail(e) ==
    /\ e.at = "refused"
    /\ Answer(e, ShownOnFailure(e)) /\ stage' = FailureStage(e)
    /\ UNCHANGED <<form, got, stored, made, loads, failures, editHistory>>

\* The edit is stored, and its answer never comes: for the page it has failed.
LoseAnswer(e) ==
    /\ e.at = "stored" /\ failures < MaxFailures
    /\ failures' = failures + 1 /\ lost' = TRUE
    /\ Answer(e, ShownOnFailure(e)) /\ stage' = FailureStage(e)
    /\ UNCHANGED <<form, got, stored, made, loads, raced, collided, refused, unrolled>>

EditsNext ==
    \/ OpenAgain \/ Reload \/ LoadingRead \/ LoadingAnswered \/ LoadingFails
    \/ MarkAll
    \/ \E k \in Key : \/ Select(k) \/ Toggle(k) \/ SaveAppearance(k)
                      \/ ChangeRole(k) \/ Remove(k) \/ Provision(k)
    \/ \E e \in edits : Store(e) \/ Refuse(e) \/ Succeed(e) \/ Fail(e) \/ LoseAnswer(e)

-----------------------------------------------------------------------------
(* Properties. *)

\* Edits that met on a page that cannot bear it: the notifications bear it unless a
\* request was refused as well.
Mixed ==
    collided /\ (form \in {AppearanceSettings, MembersSettings}
                  \/ (form = Notifications /\ refused))

\* When a page shows what it has loaded, and nothing is in flight, that is what is
\* stored, unless an edit was in flight when the load began, edits met on a page that
\* cannot bear it, the page took nothing back, or the answer of a stored edit was lost.
\* So overlapping marks are safe, a refused preference or role is taken back, two
\* settings are never saved over each other, and a load repairs all that went wrong
\* before it (notification-settings.tsx:31-73, workspace-members-settings.tsx:122-151).
EditsAreStored ==
    stage = "ready" /\ edits = {} /\ ~raced /\ ~Mixed /\ ~unrolled /\ ~lost =>
        shown = stored
=============================================================================
