------------------------------ MODULE Clients ------------------------------
(***************************************************************************)
(* The screens of the web and mobile applications that load and edit what  *)
(* the server holds: the pages of a workspace, the pages that show an edit *)
(* at once, and the mobile application.  They share no state, so a         *)
(* behaviour opens one of the three and the others stay as they began.     *)
(***************************************************************************)
EXTENDS WorkspacePages, OptimisticEdits, MobileApp

ASSUME ClientsAssumption ==
    /\ Workspace # {} /\ 0 \notin Workspace /\ 0 \notin User
    /\ Former \in User
    /\ {MaxItems, MaxRequests, MaxSwitches, MaxTroubles, MaxEdits, MaxLoads, MaxFailures,
        MaxSignIns, MaxLapses} \subseteq Nat

VARIABLE open   \* which of the three is open

clientVars == <<open, pagesVars, editVars, mobileVars>>

\* What is closed has one initial state.
ClosedPages ==
    /\ page = ProjectsPage /\ active = 0 /\ items = NoItems /\ error = FALSE
    /\ load = NoLoad /\ creations = {} /\ owner = NoItems
    /\ mine = {} /\ whose = 0 /\ crossed = FALSE /\ overlapped = FALSE
    /\ switches = 0 /\ troubles = 0
ClosedEdits ==
    EditsInit /\ form = Notifications /\ stored = [k \in Key |-> 0]
ClosedMobile == MobileInit /\ tokenOf = 0

Init ==
    \/ open = "pages" /\ PagesInit /\ ClosedEdits /\ ClosedMobile
    \/ open = "edits" /\ EditsInit /\ ClosedPages /\ ClosedMobile
    \/ open = "mobile" /\ MobileInit /\ ClosedPages /\ ClosedEdits

Next ==
    /\ UNCHANGED open
    /\ \/ open = "pages" /\ PagesNext /\ UNCHANGED <<editVars, mobileVars>>
       \/ open = "edits" /\ EditsNext /\ UNCHANGED <<pagesVars, mobileVars>>
       \/ open = "mobile" /\ MobileNext /\ UNCHANGED <<pagesVars, editVars>>

Spec == Init /\ [][Next]_clientVars
=============================================================================
