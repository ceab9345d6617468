----------------------- MODULE WorkspaceMembersProofs -----------------------
(***************************************************************************)
(* Theorems about WorkspaceMembers, for every set of users, of requests    *)
(* and of row ids.                                                         *)
(***************************************************************************)
EXTENDS WorkspaceMembers, TLAPS

\* What a request that no other has overtaken knows of the table.
Knows(r) ==
  /\ pc[r] = "write" /\ ask[r].op = "add" => RowsOf(ask[r].target) = {}
  /\ pc[r] = "owners" => ask[r].op \in {"update", "remove"}
  /\ pc[r] \in {"owners", "write"} /\ ask[r].op \in {"update", "remove"}
       => found[r] \in RowsOf(ask[r].target)
  /\ pc[r] = "write" /\ ask[r].op \in {"update", "remove"} /\ found[r] \in Owners
       => /\ auth[r] = "owner"
          /\ ask[r].op = "remove" \/ ask[r].role # "owner" => \E i, j \in Owners : i # j

IInv ==
  /\ TypeOK
  /\ \A r \in Requests : r \notin stale => Knows(r)

-----------------------------------------------------------------------------
(* Type correctness.                                                       *)

LEMMA InitType == Init => TypeOK
  BY WorkspaceMembersAssumption DEF Init, TypeOK, Rows, Roles, Stages

\* The end of a request is a matter of this request alone.
LEMMA EndType ==
  ASSUME NEW r \in Requests, TypeOK, End(r), stale' \subseteq Requests,
         used \subseteq used',
         member' \in [RowIds -> Rows \cup {NoRow}], used' \subseteq RowIds,
         \A i \in RowIds : member'[i] # NoRow => i \in used'
  PROVE  TypeOK'
<1>1. /\ pc' \in [Requests -> Stages]
      /\ ask' \in [Requests -> Asks \cup {NoAsk}]
      /\ auth' \in [Requests -> Roles \cup {NoRole}]
      /\ found' \in [Requests -> RowIds \cup {NoId}]
  BY DEF TypeOK, End, Stages
<1>2. ASSUME NEW q \in Requests
      PROVE  /\ pc'[q] # "idle" => ask'[q] \in Asks /\ auth'[q] \in Roles
             /\ pc'[q] \in {"owners", "write"} /\ ask'[q].op # "add" => found'[q] \in used'
             /\ pc'[q] = "unchecked" => ask'[q].op = "add"
  BY <1>2 DEF TypeOK, End
<1>3. QED
  BY <1>1, <1>2 DEF TypeOK

LEMMA NextType == TypeOK /\ [Next]_vars => TypeOK'
<1> SUFFICES ASSUME TypeOK, [Next]_vars
             PROVE  TypeOK'
  OBVIOUS
<1>1. ASSUME UNCHANGED vars PROVE TypeOK'
  BY <1>1 DEF TypeOK, vars, requestVars
<1>2. ASSUME NEW r \in Requests, NEW actor \in Users, NEW a \in Asks, Authorize(r, actor, a)
      PROVE  TypeOK'
  <2>1. PICK role \in Roles : auth' = [auth EXCEPT ![r] = role]
    BY <1>2 DEF Authorize
  <2>2. QED
    BY <1>2, <2>1 DEF TypeOK, Authorize, Move, Stages
<1>3. ASSUME NEW r \in Requests, CheckAbsent(r) \/ LookupFailed(r) \/ GuardOwnerMutation(r)
      PROVE  TypeOK'
  <2>1. CASE CheckAbsent(r) \/ LookupFailed(r)
    BY <2>1 DEF TypeOK, CheckAbsent, LookupFailed, Move, Stages
  <2>2. CASE GuardOwnerMutation(r)
    BY <2>2 DEF TypeOK, GuardOwnerMutation, Move, Stages
  <2>3. QED
    BY <1>3, <2>1, <2>2
<1>4. ASSUME NEW r \in Requests, FindTarget(r) PROVE TypeOK'
  <2>1. PICK i \in RowIds :
          /\ member[i] # NoRow
          /\ found' = [found EXCEPT ![r] = i]
          /\ Move(r, "target", IF member[i].role = "owner" THEN "owners" ELSE "write")
    BY <1>4 DEF FindTarget, IsFirst, RowsOf
  <2>2. QED
    BY <1>4, <2>1 DEF TypeOK, FindTarget, Move, Stages
<1>5. ASSUME NEW r \in Requests, Create(r) PROVE TypeOK'
  <2>1. PICK i \in RowIds \ used :
          /\ member' = [member EXCEPT ![i] = [user |-> ask[r].target, role |-> ask[r].role]]
          /\ used' = used \cup {i}
    BY <1>5 DEF Create
  <2>2. ask[r] \in Asks /\ ask[r].op = "add"
    BY <1>5 DEF Create, Write, TypeOK, Stages
  <2>3. [user |-> ask[r].target, role |-> ask[r].role] \in Rows
    BY <2>2 DEF Asks, Rows
  <2>4. End(r) /\ stale' \subseteq Requests
    BY <1>5 DEF Create, Write
  <2>5. /\ member' \in [RowIds -> Rows \cup {NoRow}]
        /\ used' \subseteq RowIds
        /\ \A j \in RowIds : member'[j] # NoRow => j \in used'
    BY <2>1, <2>3 DEF TypeOK
  <2>6. used \subseteq used'
    BY <2>1
  <2>7. QED
    BY <2>4, <2>5, <2>6, EndType
<1>6. ASSUME NEW r \in Requests, Save(r) PROVE TypeOK'
  <2>1. ask[r] \in Asks /\ ask[r].op = "update" /\ found[r] \in used
    BY <1>6 DEF Save, Write, TypeOK
  <2>2. [user |-> ask[r].target, role |-> ask[r].role] \in Rows
    BY <2>1 DEF Asks, Rows, Roles
  <2>3. /\ member' \in [RowIds -> Rows \cup {NoRow}]
        /\ used' \subseteq RowIds
        /\ \A j \in RowIds : member'[j] # NoRow => j \in used'
    BY <1>6, <2>1, <2>2 DEF Save, TypeOK
  <2>4. End(r) /\ stale' \subseteq Requests
    BY <1>6 DEF Save, Write
  <2>5. used \subseteq used'
    BY <1>6 DEF Save
  <2>6. QED
    BY <2>3, <2>4, <2>5, EndType
<1>7. ASSUME NEW r \in Requests, Delete(r) PROVE TypeOK'
  <2>1. /\ member' \in [RowIds -> Rows \cup {NoRow}]
        /\ used' \subseteq RowIds
        /\ \A i \in RowIds : member'[i] # NoRow => i \in used'
    BY <1>7 DEF Delete, TypeOK
  <2>2. End(r) /\ stale' \subseteq Requests
    BY <1>7 DEF Delete, Write
  <2>3. used \subseteq used'
    BY <1>7 DEF Delete
  <2>4. QED
    BY <2>1, <2>2, <2>3, EndType
<1>8. ASSUME NEW r \in Requests, GiveUp(r) PROVE TypeOK'
  BY <1>8, EndType DEF GiveUp, TypeOK
<1>9. QED
  BY <1>1, <1>2, <1>3, <1>4, <1>5, <1>6, <1>7, <1>8 DEF Next, Serve

-----------------------------------------------------------------------------
(* What a request knows stays true until another one writes.               *)

LEMMA InitKnows == Init => \A r \in Requests : Knows(r)
  BY DEF Init, Knows

\* A step that does not write leaves what the other requests know.
LEMMA OthersKnow ==
  ASSUME NEW r \in Requests, NEW q \in Requests, q # r, Knows(q), TypeOK,
         UNCHANGED member, pc'[q] = pc[q], ask'[q] = ask[q], auth'[q] = auth[q],
         found'[q] = found[q]
  PROVE  Knows(q)'
  BY DEF Knows, RowsOf, Owners

\* An idle request knows nothing.
LEMMA IdleKnows ==
  ASSUME NEW q \in Requests, pc'[q] = "idle"
  PROVE  Knows(q)'
  BY DEF Knows

\* A request that ends leaves it to the others to be overtaken.
LEMMA WriteKnows ==
  ASSUME TypeOK, NEW r \in Requests, Write(r)
  PROVE  \A q \in Requests : q \notin stale' => Knows(q)'
<1> SUFFICES ASSUME NEW q \in Requests, q \notin stale'
             PROVE  Knows(q)'
  OBVIOUS
<1>1. pc'[q] = "idle"
  BY DEF Write, End, TypeOK
<1>2. QED
  BY <1>1, IdleKnows

LEMMA NextKnows == IInv /\ [Next]_vars => \A r \in Requests : r \notin stale' => Knows(r)'
<1> SUFFICES ASSUME IInv, [Next]_vars
             PROVE  \A r \in Requests : r \notin stale' => Knows(r)'
  OBVIOUS
<1> TypeOK
  BY DEF IInv
<1>1. CASE UNCHANGED vars
  BY <1>1 DEF IInv, Knows, RowsOf, Owners, vars, requestVars
<1>2. ASSUME NEW r \in Requests, Create(r) \/ Save(r) \/ Delete(r)
      PROVE  \A q \in Requests : q \notin stale' => Knows(q)'
  BY <1>2, WriteKnows DEF Create, Save, Delete
<1>3. ASSUME NEW r \in Requests, NEW q \in Requests, q \notin stale',
             \/ \E actor \in Users, a \in Asks : Authorize(r, actor, a)
             \/ CheckAbsent(r) \/ LookupFailed(r)
             \/ FindTarget(r) \/ GuardOwnerMutation(r) \/ GiveUp(r)
      PROVE  Knows(q)'
  <2>1. CASE q # r
    <3>1. q \notin stale /\ UNCHANGED member
      BY <1>3, <2>1 DEF Authorize, CheckAbsent, LookupFailed, FindTarget,
                        GuardOwnerMutation, GiveUp
    <3>2. /\ pc'[q] = pc[q] /\ ask'[q] = ask[q] /\ auth'[q] = auth[q]
          /\ found'[q] = found[q]
      BY <1>3, <2>1 DEF TypeOK, Authorize, CheckAbsent, LookupFailed, FindTarget,
                        GuardOwnerMutation, GiveUp, Move, End
    <3>3. QED
      BY <2>1, <3>1, <3>2, OthersKnow DEF IInv
  <2>2. CASE q = r /\ GiveUp(r)
    <3>1. pc'[r] = "idle"
      BY <2>2 DEF GiveUp, End, TypeOK
    <3>2. QED
      BY <2>2, <3>1, IdleKnows
  <2>3. CASE q = r /\ \E actor \in Users, a \in Asks : Authorize(r, actor, a)
    <3>1. pc'[r] = "target"
      BY <2>3 DEF Authorize, Move, TypeOK
    <3>2. QED
      BY <2>3, <3>1 DEF Knows
  <2>4. CASE q = r /\ CheckAbsent(r)
    <3>1. /\ RowsOf(ask[r].target) = {} /\ ask[r].op = "add" /\ UNCHANGED <<member, ask>>
          /\ pc'[r] = "write"
      BY <2>4 DEF CheckAbsent, Move, TypeOK
    <3>2. QED
      BY <2>4, <3>1 DEF Knows, RowsOf
  <2>5. CASE q = r /\ FindTarget(r)
    <3>1. PICK i \in RowIds :
            /\ i \in RowsOf(ask[r].target)
            /\ found' = [found EXCEPT ![r] = i]
            /\ Move(r, "target", IF member[i].role = "owner" THEN "owners" ELSE "write")
      BY <2>5 DEF FindTarget, IsFirst
    <3>2. /\ found'[r] = i /\ pc'[r] = IF i \in Owners THEN "owners" ELSE "write"
          /\ ask[r].op \in {"update", "remove"} /\ UNCHANGED <<member, ask>>
      BY <2>5, <3>1 DEF FindTarget, Move, Owners, RowsOf, TypeOK
    <3>3. RowsOf(ask[r].target)' = RowsOf(ask[r].target) /\ Owners' = Owners
      BY <3>2 DEF RowsOf, Owners
    <3>4. ask'[r] = ask[r]
      BY <3>2
    <3>5. QED
      BY <2>5, <3>1, <3>2, <3>3, <3>4 DEF Knows
  <2>6. CASE q = r /\ GuardOwnerMutation(r)
    <3>1. Knows(r) /\ pc[r] = "owners" /\ pc'[r] = "write"
      BY <1>3, <2>6 DEF GuardOwnerMutation, Move, TypeOK, IInv
    <3>2. UNCHANGED <<member, ask, auth, found>>
      BY <2>6 DEF GuardOwnerMutation
    <3>3. Owners' = Owners /\ RowsOf(ask[r].target)' = RowsOf(ask[r].target)
      BY <3>2 DEF Owners, RowsOf
    <3>4. QED
      BY <2>6, <3>1, <3>2, <3>3 DEF Knows, GuardOwnerMutation
  <2>7. CASE q = r /\ LookupFailed(r)
    <3>1. pc'[r] = "unchecked"
      BY <2>7 DEF LookupFailed, Move, TypeOK
    <3>2. QED
      BY <2>7, <3>1 DEF Knows
  <2>8. QED
    BY <1>3, <2>1, <2>2, <2>3, <2>4, <2>5, <2>6, <2>7
<1>4. QED
  BY <1>1, <1>2, <1>3 DEF Next, Serve

LEMMA Inductive == Spec => []IInv
<1>1. Init => IInv
  BY InitType, InitKnows DEF IInv
<1>2. IInv /\ [Next]_vars => IInv'
  BY NextType, NextKnows DEF IInv
<1>3. QED
  BY <1>1, <1>2, PTL DEF Spec

\* The table, the ids and the requests keep their shape: every row in the
\* table has an id that was given out, and so has every row a request read.
THEOREM TypeCorrect == Spec => []TypeOK
<1>1. IInv => TypeOK
  BY DEF IInv
<1>2. QED
  BY <1>1, Inductive, PTL
-----------------------------------------------------------------------------
(* The three kinds of write, by a request that was not overtaken and did   *)
(* look before.                                                            *)

\* Every other step leaves the table alone.
LEMMA OnlyWritesWrite ==
  ASSUME [Next]_vars
  PROVE  \/ UNCHANGED member
         \/ \E r \in Requests : Create(r) \/ Save(r) \/ Delete(r)
  BY DEF Next, Serve, Authorize, CheckAbsent, LookupFailed, FindTarget,
         GuardOwnerMutation, GiveUp, vars

\* A write ends its request, from one of two stages; only an add gets to
\* write unchecked.
LEMMA WriteEnds ==
  ASSUME TypeOK, NEW r \in Requests, Create(r) \/ Save(r) \/ Delete(r)
  PROVE  /\ WritesFrom("write", r) \/ WritesFrom("unchecked", r)
         /\ Save(r) \/ Delete(r) => WritesFrom("write", r)
<1>1. Write(r) /\ pc'[r] = "idle"
  BY DEF Create, Save, Delete, Write, End, TypeOK
<1>2. pc[r] = "unchecked" => ask[r].op = "add"
  BY DEF TypeOK
<1>3. QED
  BY <1>1, <1>2 DEF Save, Delete, Write, WritesFrom

LEMMA CreateAdds ==
  ASSUME IInv, NEW r \in Requests, Create(r)
  PROVE  /\ r \notin stale /\ pc[r] = "write" /\ OneRowPerUser => OneRowPerUser'
         /\ Owners \subseteq Owners'
<1>1. PICK i \in RowIds \ used :
        member' = [member EXCEPT ![i] = [user |-> ask[r].target, role |-> ask[r].role]]
  BY DEF Create
<1>2. member[i] = NoRow /\ member \in [RowIds -> Rows \cup {NoRow}]
  BY <1>1 DEF IInv, TypeOK
<1>3. r \notin stale /\ pc[r] = "write" => RowsOf(ask[r].target) = {}
  BY DEF Create, IInv, Knows
<1>4. Owners \subseteq Owners'
  BY <1>1, <1>2 DEF Owners
<1>5. ASSUME OneRowPerUser, r \notin stale, pc[r] = "write",
             NEW j \in RowIds, NEW k \in RowIds, member'[j] # NoRow, member'[k] # NoRow,
             member'[j].user = member'[k].user
      PROVE  j = k
  <2>1. \A m \in RowIds : m # i => member'[m] = member[m]
    BY <1>1, <1>2
  <2>2. member'[i].user = ask[r].target
    BY <1>1, <1>2
  <2>3. CASE j # i /\ k # i
    BY <1>5, <2>1, <2>3 DEF OneRowPerUser
  <2>4. CASE j = i /\ k # i
    BY <1>3, <1>5, <2>1, <2>2, <2>4 DEF RowsOf
  <2>5. CASE j # i /\ k = i
    BY <1>3, <1>5, <2>1, <2>2, <2>5 DEF RowsOf
  <2>6. QED
    BY <2>3, <2>4, <2>5
<1>6. QED
  BY <1>4, <1>5 DEF OneRowPerUser

LEMMA SaveReplaces ==
  ASSUME IInv, NEW r \in Requests, r \notin stale, Save(r)
  PROVE  /\ OneRowPerUser => OneRowPerUser'
         /\ SomeOwner => SomeOwner'
         /\ Owners \subseteq Owners' \/ auth[r] = "owner"
<1>1. /\ pc[r] = "write" /\ ask[r].op = "update" /\ Knows(r)
      /\ member \in [RowIds -> Rows \cup {NoRow}]
  BY WriteEnds DEF Save, WritesFrom, IInv, TypeOK
<1>2. found[r] \in RowIds /\ member[found[r]] # NoRow /\ member[found[r]].user = ask[r].target
  BY <1>1 DEF Knows, RowsOf
<1>3. /\ member'[found[r]] = [user |-> ask[r].target, role |-> ask[r].role]
      /\ \A j \in RowIds : j # found[r] => member'[j] = member[j]
  BY <1>1, <1>2 DEF Save
<1>4. OneRowPerUser => OneRowPerUser'
  <2>1. \A j \in RowIds : member'[j] # NoRow =>
          member[j] # NoRow /\ member'[j].user = member[j].user
    BY <1>2, <1>3
  <2>2. QED
    BY <2>1 DEF OneRowPerUser
<1>5. ask[r].role = "owner" => Owners \subseteq Owners'
  <2>1. ask[r] \in Asks
    BY <1>1 DEF IInv, TypeOK
  <2>2. [user |-> ask[r].target, role |-> ask[r].role] \in Rows
    BY <1>1, <2>1 DEF Asks, Rows, Roles
  <2>3. member'[found[r]] # NoRow
    BY <1>3, <2>2, WorkspaceMembersAssumption
  <2>4. QED
    BY <1>3, <2>3 DEF Owners
<1>6. CASE found[r] \notin Owners
  <2>1. Owners \subseteq Owners'
    BY <1>3, <1>6 DEF Owners
  <2>2. QED
    BY <1>4, <2>1 DEF SomeOwner
<1>7. CASE found[r] \in Owners
  <2>1. auth[r] = "owner" /\ (ask[r].role # "owner" => \E i, j \in Owners : i # j)
    BY <1>1, <1>7 DEF Knows
  <2>2. ask[r].role # "owner" => SomeOwner'
    BY <1>3, <2>1 DEF Owners, SomeOwner
  <2>3. QED
    BY <1>4, <1>5, <2>1, <2>2 DEF SomeOwner
<1>8. QED
  BY <1>6, <1>7

LEMMA DeleteRemoves ==
  ASSUME IInv, NEW r \in Requests, r \notin stale, Delete(r)
  PROVE  /\ OneRowPerUser => OneRowPerUser'
         /\ OneRowPerUser /\ SomeOwner => SomeOwner'
         /\ OneRowPerUser => Owners \subseteq Owners' \/ auth[r] = "owner"
<1>1. pc[r] = "write" /\ ask[r].op = "remove" /\ Knows(r)
  BY WriteEnds DEF Delete, WritesFrom, IInv
<1>2. found[r] \in RowsOf(ask[r].target)
  BY <1>1 DEF Knows
<1>3. \A i \in RowIds : member'[i] = IF i \in RowsOf(ask[r].target) THEN NoRow ELSE member[i]
  BY DEF Delete
<1>4. OneRowPerUser => OneRowPerUser'
  BY <1>3 DEF OneRowPerUser
<1>5. ASSUME OneRowPerUser
      PROVE  /\ SomeOwner => SomeOwner'
             /\ Owners \subseteq Owners' \/ auth[r] = "owner"
  <2>1. RowsOf(ask[r].target) = {found[r]}
    BY <1>2, <1>5 DEF OneRowPerUser, RowsOf
  <2>2. \A i \in Owners : i # found[r] => i \in Owners'
    BY <1>3, <2>1 DEF Owners
  <2>3. CASE found[r] \notin Owners
    BY <2>2, <2>3 DEF SomeOwner
  <2>4. CASE found[r] \in Owners
    BY <1>1, <2>2, <2>4 DEF Knows, SomeOwner
  <2>5. QED
    BY <2>3, <2>4
<1>6. QED
  BY <1>4, <1>5

-----------------------------------------------------------------------------
(* A table that is not written stays as it is.                             *)
LEMMA TableRests ==
  ASSUME UNCHANGED member
  PROVE  (OneRowPerUser => OneRowPerUser') /\ Owners' = Owners
  BY DEF OneRowPerUser, Owners

\* What any step does to a table where each user has one row.
LEMMA StepSafe ==
  ASSUME IInv, [Next]_vars, OneRowPerUser, ~LateWrite
  PROVE  /\ OneRowPerUser' \/ UncheckedAdd
         /\ SomeOwner => SomeOwner'
         /\ \/ Owners \subseteq Owners'
            \/ \E r \in Requests : WritesFrom("write", r) /\ auth[r] = "owner"
<1>1. CASE UNCHANGED member
  BY <1>1, TableRests DEF SomeOwner
<1>2. ASSUME NEW r \in Requests, Create(r)
      PROVE  (OneRowPerUser' \/ UncheckedAdd) /\ Owners \subseteq Owners'
  <2>1. WritesFrom("write", r) \/ WritesFrom("unchecked", r)
    BY <1>2, WriteEnds DEF IInv
  <2>2. CASE WritesFrom("unchecked", r)
    BY <1>2, <2>2, CreateAdds DEF UncheckedAdd
  <2>3. CASE WritesFrom("write", r)
    BY <1>2, <2>3, CreateAdds DEF WritesFrom, LateWrite
  <2>4. QED
    BY <2>1, <2>2, <2>3
<1>3. ASSUME NEW r \in Requests, Save(r) \/ Delete(r)
      PROVE  /\ OneRowPerUser'
             /\ SomeOwner => SomeOwner'
             /\ Owners \subseteq Owners' \/ (WritesFrom("write", r) /\ auth[r] = "owner")
  <2>1. WritesFrom("write", r) /\ r \notin stale
    BY <1>3, WriteEnds DEF IInv, LateWrite
  <2>2. CASE Save(r)
    BY <2>1, <2>2, SaveReplaces
  <2>3. CASE Delete(r)
    BY <2>1, <2>3, DeleteRemoves
  <2>4. QED
    BY <1>3, <2>2, <2>3
<1>4. CASE \E r \in Requests : Create(r)
  BY <1>2, <1>4 DEF SomeOwner
<1>5. CASE \E r \in Requests : Save(r) \/ Delete(r)
  BY <1>3, <1>5
<1>6. QED
  BY <1>1, <1>4, <1>5, OnlyWritesWrite

\* The last owner stays unless a request writes that another has overtaken:
\* what guardOwnerMutation checks is enough for the state it has read.
THEOREM LastOwnerStays == Spec => OwnerKept
<1>1. ASSUME IInv, [Next]_vars
      PROVE  [OneRowPerUser /\ SomeOwner => SomeOwner' \/ LateWrite]_vars
  BY <1>1, StepSafe
<1>2. QED
  BY <1>1, Inductive, PTL DEF Spec, OwnerKept

\* A second row of a user is the work of a request that another has overtaken,
\* or of an add whose lookup of the row failed.
THEOREM SecondRowIsLateOrUnchecked == Spec => OneRowKept
<1>1. ASSUME IInv, [Next]_vars
      PROVE  [OneRowPerUser => OneRowPerUser' \/ LateWrite \/ UncheckedAdd]_vars
  BY <1>1, StepSafe
<1>2. QED
  BY <1>1, Inductive, PTL DEF Spec, OneRowKept

\* Only an owner takes the role of an owner away, save by an overtaken request.
THEOREM OwnersDecide == Spec => OwnersRespected
<1>1. ASSUME IInv, [Next]_vars
      PROVE  [OneRowPerUser /\ ~ Owners \subseteq Owners' =>
                \/ LateWrite
                \/ \E r \in Requests : WritesFrom("write", r) /\ auth[r] = "owner"]_vars
  BY <1>1, StepSafe
<1>2. QED
  BY <1>1, Inductive, PTL DEF Spec, OwnersRespected
=============================================================================
