--------------------------- MODULE WorkspacePages ---------------------------
(***************************************************************************)
(* The web pages that list what a workspace holds: teams, tasks, projects, *)
(* the calendar, the history of calls and the single sign-on settings      *)
(* (apps/app/(platform)/*/page.tsx, workspace-sso-settings.tsx).           *)
(*                                                                         *)
(* A page loads its list when the active workspace changes.  Its effect    *)
(* cancels the load before, whose answer is ignored, but the list in the   *)
(* page's state stays until the new one arrives, and most pages go on      *)
(* rendering it, or what is computed from it, next to the spinner or the   *)
(* error; and what the user creates is put on top of the list that is      *)
(* there when the answer arrives, whichever workspace it was asked for.    *)
(*                                                                         *)
(* One page is open in a behaviour; what differs between the pages is in   *)
(* the record of each.  An item of the list is a number.                   *)
(***************************************************************************)
EXTENDS Naturals

CONSTANTS
    Workspace,     \* workspaces of the user
    MaxItems,      \* bound: items ever stored
    MaxRequests,   \* bound: creations in flight at once
    MaxSwitches,   \* bound: changes of the active workspace, reloads included
    MaxTroubles    \* bound: failed requests of a page

VARIABLES
    page,       \* the page that is open
    active,     \* activeWorkspaceId, 0 when there is none
    items,      \* how often each item is in the page's list
    whose,      \* the workspace that list was loaded for, 0 when there is none
    error,      \* the page shows an error
    load,       \* the load that is not cancelled
    creations,  \* create requests that have not been answered
    owner,      \* the server: the workspace of each item, 0 before it is stored
    mine,       \* history: items whose creation was answered to this page
    crossed,    \* history: the list holds an item created for another workspace
                \* than its own
    overlapped, \* history: the list is of a load that overlapped a creation
    switches,   \* changes of the active workspace so far
    troubles    \* failed requests so far

pagesVars == <<page, active, items, whose, error, load, creations, owner, mine,
               crossed, overlapped, switches, troubles>>
pagesHistory == <<mine, crossed, overlapped>>

Item == 1..MaxItems
Request == 1..MaxRequests
NoItems == [n \in Item |-> 0]
NoLoad == [at |-> "no", ws |-> 0, got |-> {}, overlap |-> FALSE]

-----------------------------------------------------------------------------
(* The pages.  creates: "sent" when the page asks the server to store what  *)
(* is created, "kept" when it only keeps it, "no" when it creates nothing.  *)
(* once: the form is disabled while its request is in flight.               *)
(* shows: a refused creation takes the place of the list.                   *)
(* replaces: the page shows one record, the newest, and saving replaces it. *)
(* again: the effect runs again for the same workspace, when the user or the *)
(* workspace is another object.  keeps: while it loads, or shows an error, the *)
(* page renders the list as well (tasks and projects), the team that is selected *)
(* in it, or the events of its day.                                         *)

TeamsPage ==
    [creates |-> "sent", once |-> FALSE, shows |-> TRUE, replaces |-> FALSE,
     again |-> FALSE, keeps |-> TRUE]
TasksPage == [TeamsPage EXCEPT !.once = TRUE, !.shows = FALSE]
ProjectsPage == [TeamsPage EXCEPT !.creates = "no", !.shows = FALSE]
CallsPage == [ProjectsPage EXCEPT !.again = TRUE, !.keeps = FALSE]
CalendarPage == [ProjectsPage EXCEPT !.creates = "kept"]
WorkspaceSsoSettings ==
    [TasksPage EXCEPT !.replaces = TRUE, !.again = TRUE, !.keeps = FALSE]

Pages == {TeamsPage, TasksPage, ProjectsPage, CallsPage, CalendarPage, WorkspaceSsoSettings}

PagesTypeOK ==
    /\ page \in Pages
    /\ active \in Workspace \cup {0}
    /\ items \in [Item -> 0..2] /\ whose \in Workspace \cup {0} /\ error \in BOOLEAN
    /\ load \in [at : {"no", "sent", "read"}, ws : Workspace \cup {0},
                 got : SUBSET Item, overlap : BOOLEAN]
    /\ creations \subseteq [id : Request, item : Item \cup {0}, ws : Workspace,
                            overlap : BOOLEAN, at : {"sent", "stored"}]
    /\ owner \in [Item -> Workspace \cup {0}]
    /\ mine \subseteq Item /\ crossed \in BOOLEAN /\ overlapped \in BOOLEAN
    /\ switches \in 0..MaxSwitches /\ troubles \in 0..MaxTroubles

-----------------------------------------------------------------------------
(* Loading. *)

Loading == load.at # "no"

\* What the server answers to a list of workspace w, and to its one record.
Held(w) == {n \in Item : owner[n] = w}
Newest(S) == {n \in S : \A m \in S : m <= n}
Listed(w) == IF page.replaces THEN Newest(Held(w)) ELSE Held(w)

\* What the page keeps without the server: the calendar's own events.
Kept == IF page.creates = "kept" THEN mine ELSE {}

\* The list on the screen after S was loaded.
ListOf(S) == [n \in Item |-> IF n \in S \cup Kept THEN 1 ELSE 0]

\* The effect that runs when the active workspace has become w, or again for the
\* same one.  A creation in flight overlaps the load.
StartLoad(w) ==
    /\ load' = IF w = 0 THEN NoLoad
               ELSE [at |-> "sent", ws |-> w, got |-> {}, overlap |-> creations # {}]
    /\ creations' = {[c EXCEPT !.overlap = TRUE] : c \in creations}
    /\ items' = IF w = 0 THEN ListOf({}) ELSE items
    /\ whose' = IF w = 0 THEN 0 ELSE whose
    /\ error' = (error /\ w = 0)
    /\ crossed' = (crossed /\ w # 0)

PagesInit ==
    /\ page \in Pages
    /\ active = CHOOSE w \in Workspace : TRUE   \* the workspaces are interchangeable
    /\ items = NoItems /\ whose = 0 /\ error = FALSE
    /\ load = [at |-> "sent", ws |-> active, got |-> {}, overlap |-> FALSE]
    /\ creations = {}
    /\ owner = [n \in Item |-> 0]
    /\ mine = {} /\ crossed = FALSE /\ overlapped = FALSE
    /\ switches = 0 /\ troubles = 0

\* Mutant: the answer of a cancelled load is taken.
SwitchUncancelled(w) ==
    /\ switches < MaxSwitches /\ switches' = switches + 1
    /\ active' = w
    /\ IF load.at = "read" THEN UNCHANGED <<load, creations, items, whose, error, crossed>>
                           ELSE StartLoad(w)
    /\ UNCHANGED <<page, owner, mine, overlapped, troubles>>

\* The active workspace becomes w: another one, or none, when the context could
\* not be loaded.
Switch(w) ==
    /\ switches < MaxSwitches /\ switches' = switches + 1
    /\ w # active \/ page.again
    /\ active' = w
    /\ StartLoad(w)
    /\ UNCHANGED <<page, owner, mine, overlapped, troubles>>

LoadRead ==
    /\ load.at = "sent"
    /\ load' = [load EXCEPT !.at = "read", !.got = Listed(load.ws)]
    /\ UNCHANGED <<page, active, items, whose, error, creations, owner, pagesHistory,
                   switches, troubles>>

\* The list replaces what was on the screen.
LoadAnswered ==
    /\ load.at = "read"
    /\ items' = ListOf(load.got) /\ whose' = load.ws
    /\ load' = NoLoad
    /\ crossed' = FALSE /\ overlapped' = load.overlap
    /\ UNCHANGED <<page, active, error, creations, owner, mine, switches, troubles>>

\* The error is shown; the list itself stays as it is.
LoadFails ==
    /\ Loading /\ troubles < MaxTroubles
    /\ troubles' = troubles + 1
    /\ load' = NoLoad /\ error' = TRUE
    /\ UNCHANGED <<page, active, items, whose, creations, owner, pagesHistory, switches>>

-----------------------------------------------------------------------------
(* Creating. *)

\* Items are numbered in the order in which they come to exist.
Used == {n \in Item : owner[n] # 0} \cup mine
IsNext(n) == n \notin Used /\ \A k \in Item : k < n => k \in Used

\* handleCreateTeam, handleCreateTask, handleSave: the request is sent.  It overlaps
\* the load in flight.
Create(i) ==
    /\ page.creates = "sent" /\ active # 0
    /\ {c.id : c \in creations} \cap 1..i = 1..(i - 1)   \* the first number not in use
    /\ page.once => creations = {}
    /\ page.replaces => ~Loading /\ ~error
    /\ creations' = creations \cup
         {[id |-> i, item |-> 0, ws |-> active, overlap |-> Loading, at |-> "sent"]}
    /\ load' = [load EXCEPT !.overlap = Loading]
    /\ UNCHANGED <<page, active, items, whose, error, owner, pagesHistory, switches,
                   troubles>>

\* handleCreateEvent: the calendar makes an event that no request carries.
Keep(n) ==
    /\ page.creates = "kept" /\ IsNext(n)
    /\ items' = [items EXCEPT ![n] = 1] /\ mine' = mine \cup {n}
    /\ UNCHANGED <<page, active, whose, error, load, creations, owner, crossed,
                   overlapped, switches, troubles>>

CreateHandled(c, n) ==
    /\ c.at = "sent" /\ IsNext(n)
    /\ owner' = [owner EXCEPT ![n] = c.ws]
    /\ creations' = (creations \ {c}) \cup {[c EXCEPT !.at = "stored", !.item = n]}
    /\ UNCHANGED <<page, active, items, whose, error, load, pagesHistory, switches,
                   troubles>>

\* Another member of the workspace, or another page, stores an item.
OtherCreates(n, w) ==
    /\ IsNext(n)
    /\ owner' = [owner EXCEPT ![n] = w]
    /\ UNCHANGED <<page, active, items, whose, error, load, creations, pagesHistory,
                   switches, troubles>>

\* Mutant: the form closes, and the list waits for the next load.
PutOnTopLater(n) == items

\* setTeams, setTasks: the item is put on top, whether or not it is in the list;
\* setConfig takes the place of the record.
PutOnTop(n) ==
    IF page.replaces THEN ListOf({n}) ELSE [items EXCEPT ![n] = @ + 1]

\* The answer: nothing compares its workspace with the active one, or the list's.
CreateAnswered(c) ==
    /\ c.at = "stored"
    /\ items' = PutOnTop(c.item)
    /\ creations' = creations \ {c}
    /\ mine' = mine \cup {c.item}
    /\ crossed' = (crossed \/ c.ws # whose)
    /\ overlapped' = (overlapped \/ c.overlap)
    /\ UNCHANGED <<page, active, whose, error, load, owner, switches, troubles>>

\* The request fails: refused, or handled and its answer lost.
CreateFails(c) ==
    /\ troubles < MaxTroubles /\ troubles' = troubles + 1
    /\ creations' = creations \ {c}
    /\ error' = (error \/ page.shows)
    /\ UNCHANGED <<page, active, items, whose, load, owner, pagesHistory, switches>>

PagesNext ==
    \/ \E w \in Workspace \cup {0} : Switch(w)
    \/ LoadRead \/ LoadAnswered \/ LoadFails
    \/ \E i \in Request : Create(i)
    \/ \E n \in Item : Keep(n) \/ \E w \in Workspace : OtherCreates(n, w)
    \/ \E c \in creations :
         (\E n \in Item : CreateHandled(c, n)) \/ CreateAnswered(c) \/ CreateFails(c)

-----------------------------------------------------------------------------
(* Properties. *)

\* What the page says: loading, then error, then nothing but the list.
View == CASE Loading -> "spinner" [] ~Loading /\ error -> "error" [] OTHER -> "list"

\* Its list, or a part of it, is on the screen.
Renders == page.keeps \/ View = "list"

\* What is rendered never mixes workspaces, and is of the active one as soon as the page
\* shows neither a spinner nor an error: until then it may be of the workspace before,
\* but the load of that workspace never reaches the list, in any order of the answers.
\* An item created for another workspace than the list's is the exception
\* (teams/page.tsx:103-150, 280).
OwnWorkspaceOnly ==
    /\ View = "list" => whose = active
    /\ Renders /\ ~crossed =>
         \A n \in Item \ Kept : items[n] > 0 => whose # 0 /\ owner[n] = whose

\* What the user has created is once in the list of its workspace wherever that is on
\* the screen, beside a spinner or an error too, when no creation is in flight, unless
\* the load that made the list overlapped one: the answer of the load then drops the
\* item, or lists it before it is put on top (teams/page.tsx:121-134, 280).
CreatedShownOnce ==
    Renders /\ creations = {} /\ ~overlapped /\ ~crossed =>
        \A n \in mine : n \in Listed(whose) \cup Kept => items[n] = 1
=============================================================================
