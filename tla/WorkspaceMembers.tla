-------------------------- MODULE WorkspaceMembers --------------------------
(***************************************************************************)
(* The members of one workspace: the table workspace_members and the       *)
(* requests that add, provision, update and remove members (workspace.go). *)
(*                                                                         *)
(* A request reads the role of its caller, then the row of the user it is  *)
(* about, then, when that user is an owner, all the owners; and then it    *)
(* writes.  Nothing is locked in between, so that other requests may write *)
(* meanwhile.  A row has an id of its own: one user may have two rows, and *)
(* a row that was deleted comes back when a request saves the copy it read *)
(* before (gorm's Save inserts a row that it does not find).  AddMember     *)
(* takes any error of the lookup for absence and creates the row all the   *)
(* same.                                                                   *)
(*                                                                         *)
(* A guest is treated as a member by all of this.                          *)
(***************************************************************************)
EXTENDS Integers

CONSTANTS
  Users,      \* users who are or may become members
  OwnerID,    \* owner_id of the workspace, who created it
  Requests,   \* requests in flight at the same time
  RowIds,     \* ids of rows: bounds how often members are added
  NoRow       \* an id without a row in the table

Roles == {"owner", "admin", "member"}
Rows == [user : Users, role : Roles]

ASSUME WorkspaceMembersAssumption ==
  /\ OwnerID \in Users
  /\ RowIds \subseteq Nat
  /\ RowIds # {}
  /\ NoRow \notin Rows

VARIABLES
  member,   \* the table: RowIds to rows
  used,     \* the ids taken so far
  pc,       \* stage of each request
  ask,      \* what each request asks for
  auth,     \* the role its caller had when it began
  found,    \* the id of the row it read
  stale     \* requests that another one has overtaken with a write

requestVars == <<pc, ask, auth, found, stale>>
vars == <<member, used, requestVars>>

Asks == [op : {"add", "update"}, target : Users, role : Roles]
          \cup [op : {"remove"}, target : Users, role : {"member"}]
\* "unchecked": an add that could not look for the row and writes all the same.
Stages == {"idle", "target", "owners", "write", "unchecked"}

\* What an idle request asks, may and knows: nothing.
NoAsk == [op |-> "none"]
NoRole == "none"
NoId == -1

\* The rows of a user.  Ids are random and First orders by id, so that which
\* of two rows a request gets was settled by chance when they were created.
RowsOf(u) == {i \in RowIds : member[i] # NoRow /\ member[i].user = u}
IsFirst(i, u) == i \in RowsOf(u) /\ \A j \in RowsOf(u) : i <= j

\* AuthorizeWorkspace: owner_id counts as an owner while it has no row.
HasRole(u, r) ==
  \/ \E i \in RowIds : IsFirst(i, u) /\ member[i].role = r
  \/ RowsOf(u) = {} /\ u = OwnerID /\ r = "owner"

Owners == {i \in RowIds : member[i] # NoRow /\ member[i].role = "owner"}

IsAdminRole(r) == r \in {"owner", "admin"}
ValidAssignment(actorRole, role) ==
  IsAdminRole(actorRole) /\ (role = "owner" => actorRole = "owner")

Init ==
  /\ \E i \in RowIds :
       /\ member = [j \in RowIds |->
                      IF j = i THEN [user |-> OwnerID, role |-> "owner"] ELSE NoRow]
       /\ used = {i}
  /\ pc = [r \in Requests |-> "idle"]
  /\ ask = [r \in Requests |-> NoAsk]
  /\ auth = [r \in Requests |-> NoRole]
  /\ found = [r \in Requests |-> NoId]
  /\ stale = {}

-----------------------------------------------------------------------------
Move(r, from, to) == pc[r] = from /\ pc' = [pc EXCEPT ![r] = to]

\* A request is over, and what it has read is forgotten.
End(r) ==
  /\ pc' = [pc EXCEPT ![r] = "idle"]
  /\ ask' = [ask EXCEPT ![r] = NoAsk]
  /\ auth' = [auth EXCEPT ![r] = NoRole]
  /\ found' = [found EXCEPT ![r] = NoId]

\* A write ends its request and overtakes all the others under way.
Write(r) ==
  /\ pc[r] \in {"write", "unchecked"}
  /\ End(r)
  /\ stale' = {q \in Requests \ {r} : pc[q] # "idle"}

\* The role of the caller is read and checked.
Authorize(r, actor, a) ==
  /\ Move(r, "idle", "target")
  /\ \E role \in Roles :
       /\ HasRole(actor, role)
       /\ IF a.op = "remove" THEN IsAdminRole(role) ELSE ValidAssignment(role, a.role)
       /\ auth' = [auth EXCEPT ![r] = role]
  /\ ask' = [ask EXCEPT ![r] = a]
  /\ UNCHANGED <<member, used, found, stale>>

\* Any other failure ends a request without an effect: a check, the database,
\* the client that goes away.
GiveUp(r) ==
  /\ pc[r] # "idle"
  /\ End(r)
  /\ stale' = stale \ {r}
  /\ UNCHANGED <<member, used>>

-----------------------------------------------------------------------------
(* AddMember and ProvisionWorkspaceUser.                                   *)

\* Mutant: the user may be a member already.
CheckAbsentSkipped(r) ==
  /\ ask[r].op = "add"
  /\ Move(r, "target", "write")
  /\ UNCHANGED <<member, used, ask, auth, found, stale>>

CheckAbsent(r) ==
  /\ ask[r].op = "add"
  /\ RowsOf(ask[r].target) = {}
  /\ Move(r, "target", "write")
  /\ UNCHANGED <<member, used, ask, auth, found, stale>>

\* AddMember alone: the lookup fails and the request goes on.  In the
\* transaction of ProvisionWorkspaceUser, the failed statement ends it.
LookupFailed(r) ==
  /\ ask[r].op = "add"
  /\ Move(r, "target", "unchecked")
  /\ UNCHANGED <<member, used, ask, auth, found, stale>>

Create(r) ==
  /\ ask[r].op = "add"
  /\ Write(r)
  /\ \E i \in RowIds \ used :
       /\ member' = [member EXCEPT ![i] = [user |-> ask[r].target, role |-> ask[r].role]]
       /\ used' = used \cup {i}

-----------------------------------------------------------------------------
(* UpdateMember and RemoveMember.                                          *)

FindTarget(r) ==
  /\ ask[r].op \in {"update", "remove"}
  /\ \E i \in RowIds :
       /\ IsFirst(i, ask[r].target)
       /\ found' = [found EXCEPT ![r] = i]
       /\ Move(r, "target", IF member[i].role = "owner" THEN "owners" ELSE "write")
  /\ UNCHANGED <<member, used, ask, auth, stale>>

\* Mutant: the check forgets the role that the row is to have.
GuardRemovalOnly(r) ==
  /\ Move(r, "owners", "write")
  /\ ask[r].op = "remove" => \E i, j \in Owners : i # j
  /\ auth[r] = "owner"
  /\ UNCHANGED <<member, used, ask, auth, found, stale>>

\* The owners are counted: the last one neither goes nor gets another role.
GuardOwnerMutation(r) ==
  /\ Move(r, "owners", "write")
  /\ (ask[r].op = "remove" \/ ask[r].role # "owner") => \E i, j \in Owners : i # j
  /\ auth[r] = "owner"
  /\ UNCHANGED <<member, used, ask, auth, found, stale>>

\* The row that was read is saved as a whole, under its id.
Save(r) ==
  /\ ask[r].op = "update"
  /\ Write(r)
  /\ member' = [member EXCEPT ![found[r]] = [user |-> ask[r].target, role |-> ask[r].role]]
  /\ UNCHANGED used

\* All the rows of the user are deleted, not only the one that was checked.
Delete(r) ==
  /\ ask[r].op = "remove"
  /\ Write(r)
  /\ member' = [i \in RowIds |-> IF i \in RowsOf(ask[r].target) THEN NoRow ELSE member[i]]
  /\ UNCHANGED used

-----------------------------------------------------------------------------
Serve(r) ==
  \/ \E actor \in Users, a \in Asks : Authorize(r, actor, a)
  \/ CheckAbsent(r) \/ LookupFailed(r) \/ Create(r)
  \/ FindTarget(r) \/ GuardOwnerMutation(r) \/ Save(r) \/ Delete(r)
  \/ GiveUp(r)

Next == \E r \in Requests : Serve(r)

Spec == Init /\ [][Next]_vars

-----------------------------------------------------------------------------
TypeOK ==
  /\ member \in [RowIds -> Rows \cup {NoRow}]
  /\ used \subseteq RowIds
  /\ \A i \in RowIds : member[i] # NoRow => i \in used
  /\ pc \in [Requests -> Stages]
  /\ ask \in [Requests -> Asks \cup {NoAsk}]
  /\ auth \in [Requests -> Roles \cup {NoRole}]
  /\ found \in [Requests -> RowIds \cup {NoId}]
  /\ stale \subseteq Requests
  /\ \A r \in Requests : pc[r] # "idle" => ask[r] \in Asks /\ auth[r] \in Roles
  /\ \A r \in Requests : pc[r] \in {"owners", "write"} /\ ask[r].op # "add" => found[r] \in used
  /\ \A r \in Requests : pc[r] = "unchecked" => ask[r].op = "add"

\* The workspace has an owner among its members: the promise of the message
\* of guardOwnerMutation.  The code breaks it.
SomeOwner == Owners # {}

\* A user is a member once: the promise of AddMember's WORKSPACE_MEMBER_EXISTS.
\* The code breaks it.
OneRowPerUser ==
  \A i, j \in RowIds :
    member[i] # NoRow /\ member[j] # NoRow /\ member[i].user = member[j].user => i = j

\* A request that ends in this step, from a stage where it writes.
WritesFrom(stage, r) == pc[r] = stage /\ pc'[r] = "idle"

\* A write that comes too late: another request has written since its reads.
LateWrite == \E r \in stale : WritesFrom("write", r)

\* A new row of a request that did not see whether there was one.
UncheckedAdd == \E r \in Requests : WritesFrom("unchecked", r)

\* Where each user has one row, only a late write can take the last owner
\* away: guardOwnerMutation is right about the state it reads.
OwnerKept == [][OneRowPerUser /\ SomeOwner => SomeOwner' \/ LateWrite]_vars

\* A second row of a user has one of two causes: a late write, be it a new row
\* of AddMember or a deleted row that Save brings back; or an add whose lookup
\* failed.
OneRowKept == [][OneRowPerUser => OneRowPerUser' \/ LateWrite \/ UncheckedAdd]_vars

\* Where each user has one row, an owner loses the role only by the word of
\* an owner, or by a late write of a request that saw no owner there.
OwnersRespected ==
  [][OneRowPerUser /\ ~ Owners \subseteq Owners' =>
       \/ LateWrite
       \/ \E r \in Requests : WritesFrom("write", r) /\ auth[r] = "owner"]_vars
=============================================================================
