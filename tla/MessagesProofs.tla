--------------------------- MODULE MessagesProofs ---------------------------
(***************************************************************************)
(* Theorems about Messages, for any number of requests, users, members,    *)
(* consumers and troubles and for every size of the window.                *)
(*                                                                         *)
(* The inductive invariant has three parts: the state is well formed       *)
(* (TypeOK, UserInv), what Create knows of the messages (CreateInv), and   *)
(* who is entitled to publish about a notification (PushInv).              *)
(***************************************************************************)
EXTENDS Messages, FiniteSetTheorems, TLAPS

UserInv == \A c \in Consumers : pc[c] \in {"insert", "publish"} => user[c] \in Users

Begun == {p \in Posts : began[p] > 0}

\* A request that has looked for its key and is going to store, or has stored.
Looked(q) == q \in stored \/ post[q] = "commit"

Between(p, q) == {m \in stored \ {q} : began[m] > began[p]}

AnswerInv ==
  \A p \in Posts :
    /\ post[p] # "ok" => answer[p] = p
    /\ post[p] \in {"new", "check", "commit"} => p \notin stored
    /\ post[p] = "check" => Key[p] # NoKey
    /\ post[p] = "new" <=> began[p] = 0
    /\ began[p] <= Cardinality(Begun)

\* Of two requests with one key that did not overlap the first is over.
OverInv ==
  \A p, q \in Posts :
    Same(p, q) /\ 0 < began[p] /\ began[p] < began[q] /\ {p, q} \notin overlap
      => post[p] \in {"ok", "failed"}

LookedInv ==
  \A p \in stored, q \in Posts : Looked(q) /\ Same(p, q) /\ began[p] < began[q] =>
    \/ {p, q} \in overlap
    \/ q \in unread
    \/ Cardinality(Between(p, q)) >= Window

CreateInv == AnswerInv /\ AnswerIsStored /\ OverInv /\ LookedInv

\* A consumer that is about to publish wrote the row, alone, and the event has so
\* far been published for the commands only that were sent again.
Entitled(c) ==
  /\ Notice(c) \in notices
  /\ pushed[Notice(c)] <= troubles
  /\ \A d \in Consumers : pc[d] = "publish" /\ Notice(d) = Notice(c) => d = c

PushInv ==
  /\ \A c \in Consumers : pc[c] = "publish" => Entitled(c)
  /\ \A n \in Notices : n \notin notices => pushed[n] = 0
  /\ PushesBounded

IInv == TypeOK /\ UserInv /\ CreateInv /\ PushInv

-----------------------------------------------------------------------------
LEMMA InitInv == Init => IInv
<1> SUFFICES ASSUME Init PROVE IInv
  OBVIOUS
<1> USE MessagesAssumption DEF Init
<1>1. TypeOK /\ UserInv
  BY DEF TypeOK, UserInv, Queue!Init, Notices
<1>2. Cardinality(Begun) = 0
  <2>1. Begun = {}
    BY DEF Begun
  <2> QED
    BY <2>1, FS_EmptySet
<1>3. CreateInv
  BY <1>2 DEF CreateInv, AnswerInv, AnswerIsStored, OverInv, LookedInv
<1>4. PushInv
  BY DEF PushInv, PushesBounded
<1> QED
  BY <1>1, <1>3, <1>4 DEF IInv

-----------------------------------------------------------------------------
\* The state stays well formed.
LEMMA TypeStep == TypeOK /\ UserInv /\ [Next]_vars => TypeOK' /\ UserInv'
<1> SUFFICES ASSUME TypeOK, UserInv, [Next]_vars PROVE TypeOK' /\ UserInv'
  OBVIOUS
<1> USE MessagesAssumption
        DEF TypeOK, UserInv, Notices, Trouble, postVars, queueVars, consumerVars, noticeVars
<1>1. ASSUME NEW p \in Posts, Post(p) PROVE TypeOK' /\ UserInv'
  <2>1. CASE PostStart(p)
    <3>1. Cardinality({q \in Posts : began[q] > 0}) \in Nat
      BY FS_Subset, FS_CardinalityType
    <3>2. {{p, q} : q \in {r \in UnderWay : Same(p, r)}} \subseteq SUBSET Posts
      BY DEF UnderWay
    <3>3. began' \in [Posts -> Nat]
      BY <2>1, <3>1 DEF PostStart
    <3>4. post' \in [Posts -> {"new", "check", "commit", "ok", "failed"}]
      BY <2>1 DEF PostStart
    <3>5. overlap' \subseteq SUBSET Posts
      BY <2>1, <3>2 DEF PostStart
    <3> QED
      BY <2>1, <3>3, <3>4, <3>5 DEF PostStart
  <2>2. CASE PostFound(p)
    BY <2>2 DEF PostFound, CheckVars, Twins, Recent
  <2>3. CASE PostNotFound(p)
    BY <2>3 DEF PostNotFound, CheckVars
  <2>4. CASE PostUnread(p)
    BY <2>4 DEF PostUnread, CheckVars
  <2>5. CASE PostCommit(p)
    BY <2>5 DEF PostCommit, CommitVars
  <2>6. CASE PostFault(p)
    BY <2>6 DEF PostFault, CommitVars
  <2> QED
    BY <1>1, <2>1, <2>2, <2>3, <2>4, <2>5, <2>6 DEF Post
<1>2. ASSUME NEW m \in Posts, Dispatch(m) \/ SendAgain(m) \/ Settle(m) PROVE TypeOK' /\ UserInv'
  BY <1>2 DEF Dispatch, SendAgain, Settle, QueueRest, Queue!Accept, Queue!Reopen, Queue!Close
<1>3. ASSUME NEW u \in Users, Leave(u) PROVE TypeOK' /\ UserInv'
  BY <1>3 DEF Leave
<1>4. ASSUME NEW c \in Consumers, Handle(c) PROVE TypeOK' /\ UserInv'
  <2> USE DEF HandlerRest
  <2>1. CASE ReadMembers(c)
    BY <2>1 DEF ReadMembers, Audience
  <2>2. CASE Insert(c)
    BY <2>2 DEF Insert, InsertVars, GoOn, Notice
  <2>3. CASE Publish(c)
    <3>1. Notice(c) \in Notices
      BY <2>3 DEF Publish, Notice
    <3> QED
      BY <2>3, <3>1 DEF Publish, PublishVars, GoOn
  <2>4. CASE Finish(c)
    BY <2>4 DEF Finish, GoIdle, Queue!Succeed
  <2>5. ASSUME NEW u \in Users, Found(c, u) PROVE TypeOK' /\ UserInv'
    BY <2>5 DEF Found
  <2>6. ASSUME NEW u \in Users, NotFound(c, u) PROVE TypeOK' /\ UserInv'
    BY <2>6 DEF NotFound
  <2> QED
    BY <1>4, <2>1, <2>2, <2>3, <2>4, <2>5, <2>6 DEF Handle
<1>5. ASSUME NEW c \in Consumers, Disturb(c) PROVE TypeOK' /\ UserInv'
  <2> USE DEF HandlerRest, GoIdle, Fails, Queue!Bury
  <2>1. CASE ReadMessageFault(c)
    BY <2>1 DEF ReadMessageFault
  <2>2. CASE PublishAgain(c)
    BY <2>2 DEF PublishAgain, PublishVars, Notice
  <2>3. CASE ListFault(c)
    BY <2>3 DEF ListFault
  <2>4. CASE InsertFault(c)
    BY <2>4 DEF InsertFault, Notice
  <2>5. CASE PublishFault(c)
    <3>1. pc[c] = "publish" /\ Notice(c) \in Notices
      BY <2>5 DEF PublishFault, Notice
    <3> QED
      BY <2>5, <3>1 DEF PublishFault
  <2>6. CASE Stop(c)
    BY <2>6 DEF Stop
  <2> QED
    BY <1>5, <2>1, <2>2, <2>3, <2>4, <2>5, <2>6 DEF Disturb
<1>6. ASSUME NEW c \in Consumers, NEW m \in Posts, Take(c, m) PROVE TypeOK' /\ UserInv'
  BY <1>6 DEF Take, HandlerRest
<1>7. CASE UNCHANGED vars
  BY <1>7 DEF vars
<1> QED
  BY <1>1, <1>2, <1>3, <1>4, <1>5, <1>6, <1>7 DEF Next

-----------------------------------------------------------------------------
\* More messages lie between two of them, never fewer.
LEMMA MoreBetween ==
  ASSUME TypeOK, NEW p, NEW q, NEW S \in SUBSET Posts, stored \subseteq S,
         NEW b \in [Posts -> Nat], \A m \in stored : b[m] = began[m], p \in stored,
         Cardinality(Between(p, q)) >= Window
  PROVE  Cardinality({m \in S \ {q} : b[m] > b[p]}) >= Window
<1> DEFINE Then == {m \in S \ {q} : b[m] > b[p]}
<1>1. Between(p, q) \subseteq Then
  BY DEF Between, TypeOK
<1>2. IsFiniteSet(Then)
  BY MessagesAssumption, FS_Subset
<1>3. IsFiniteSet(Between(p, q)) /\ Cardinality(Between(p, q)) <= Cardinality(Then)
  BY <1>1, <1>2, FS_Subset
<1> QED
  BY <1>2, <1>3, FS_CardinalityType, MessagesAssumption

\* What Create knows of the messages survives a step in which no request begins.
LEMMA LookedStep ==
  ASSUME TypeOK, LookedInv, TypeOK', UNCHANGED <<began, overlap>>,
         stored \subseteq stored', unread \subseteq unread',
         NEW r \in Posts,
         \A q \in Posts : q # r /\ Looked(q)' => Looked(q),
         \A p \in stored' : p \in stored \/ p = r,
         r \in stored' \ stored => \A q \in Posts :
            Looked(q) /\ Same(r, q) /\ began[r] < began[q] => {r, q} \in overlap,
         Looked(r)' /\ ~Looked(r) =>
            \A p \in stored : Same(p, r) /\ began[p] < began[r] =>
              {p, r} \in overlap \/ r \in unread' \/ Cardinality(Between(p, r)) >= Window
  PROVE  LookedInv'
<1> SUFFICES ASSUME NEW p \in stored', NEW q \in Posts, Looked(q)', Same(p, q),
                    began[p] < began[q], {p, q} \notin overlap, q \notin unread'
             PROVE  Cardinality(Between(p, q)') >= Window
  BY DEF LookedInv, Same
<1>1. p # q
  BY DEF Same
<1>2. p \in stored
  BY <1>1
<1>3. Cardinality(Between(p, q)) >= Window
  BY <1>2 DEF LookedInv
<1>4. /\ stored' \in SUBSET Posts /\ stored \subseteq stored'
      /\ began' \in [Posts -> Nat] /\ \A m \in stored : began'[m] = began[m]
  BY DEF TypeOK
<1>5. Cardinality({m \in stored' \ {q} : began'[m] > began'[p]}) >= Window
  BY ONLY TypeOK, <1>2, <1>3, <1>4, MoreBetween
<1> QED
  BY <1>5 DEF Between

LEMMA CreateStep == TypeOK /\ CreateInv /\ TypeOK' /\ [Next]_vars => CreateInv'
<1> SUFFICES ASSUME TypeOK, CreateInv, TypeOK', [Next]_vars PROVE CreateInv'
  OBVIOUS
<1> USE MessagesAssumption DEF postVars
<1>1. CASE UNCHANGED postVars
  <2>1. AnswerInv'
    BY <1>1 DEF CreateInv, AnswerInv, Begun
  <2>2. AnswerIsStored'
    BY <1>1 DEF CreateInv, AnswerIsStored, Same
  <2>3. OverInv'
    BY <1>1 DEF CreateInv, OverInv, Same
  <2>4. LookedInv'
    <3> SUFFICES ASSUME NEW p \in stored, NEW q \in Posts, Looked(q), Same(p, q),
                        began[p] < began[q], {p, q} \notin overlap, q \notin unread
                 PROVE  Cardinality(Between(p, q)') >= Window
      BY <1>1 DEF LookedInv, Looked, Same
    <3>1. Between(p, q)' = Between(p, q)
      BY <1>1 DEF Between
    <3> QED
      BY <3>1 DEF CreateInv, LookedInv
  <2> QED
    BY <2>1, <2>2, <2>3, <2>4 DEF CreateInv
<1>2. ASSUME NEW r \in Posts, PostStart(r) PROVE CreateInv'
  <2> DEFINE n == Cardinality(Begun)
  <2>1. IsFiniteSet(Begun) /\ n \in Nat
    BY FS_Subset, FS_CardinalityType DEF Begun
  <2>2. began' = [began EXCEPT ![r] = 1 + n]
    BY <1>2 DEF PostStart, Begun
  <2>3. post[r] = "new" /\ r \notin stored /\ began[r] = 0
    BY <1>2 DEF PostStart, CreateInv, AnswerInv
  <2>4. post' = [post EXCEPT ![r] = IF Key[r] = NoKey THEN "commit" ELSE "check"]
    BY <1>2 DEF PostStart
  <2>5. UNCHANGED <<answer, stored, unread>>
    BY <1>2 DEF PostStart
  <2>6. Begun' = Begun \cup {r} /\ r \notin Begun
    <3>1. \A q \in Posts : began'[q] = IF q = r THEN 1 + n ELSE began[q]
      BY <2>2 DEF TypeOK
    <3> QED
      BY <2>1, <2>3, <3>1 DEF Begun
  <2>7. Cardinality(Begun') = n + 1
    BY <2>1, <2>6, FS_AddElement
  <2>8. AnswerInv'
    BY <2>1, <2>2, <2>3, <2>4, <2>5, <2>7 DEF CreateInv, AnswerInv, TypeOK
  <2>9. AnswerIsStored'
    BY <2>4, <2>5 DEF CreateInv, AnswerIsStored, TypeOK, Same
  <2>10. OverInv'
    <3> SUFFICES ASSUME NEW p \in Posts, NEW q \in Posts, Same(p, q), 0 < began'[p],
                        began'[p] < began'[q], {p, q} \notin overlap'
                 PROVE  post'[p] \in {"ok", "failed"}
      BY DEF OverInv, Same
    <3>1. p # q
      BY DEF Same
    <3>2. overlap \subseteq overlap'
      BY <1>2 DEF PostStart
    <3>3. CASE p = r
      <4>1. began[q] <= n
        BY DEF CreateInv, AnswerInv
      <4> QED
        BY <2>1, <2>2, <3>1, <3>3, <4>1 DEF TypeOK
    <3>4. CASE q = r
      <4>1. p \notin UnderWay
        <5>1. SUFFICES ASSUME p \in UnderWay PROVE {p, q} \in overlap'
          OBVIOUS
        <5>2. Same(r, p)
          BY <3>4 DEF Same
        <5>3. {r, p} \in overlap'
          BY <1>2, <5>1, <5>2 DEF PostStart
        <5> QED
          BY <3>4, <5>3
      <4>2. post[p] # "new"
        BY <2>2, <3>1, <3>4 DEF CreateInv, AnswerInv, TypeOK
      <4> QED
        BY <2>4, <3>1, <3>4, <4>1, <4>2 DEF UnderWay, TypeOK
    <3>5. CASE p # r /\ q # r
      BY <2>2, <2>4, <3>2, <3>5 DEF CreateInv, OverInv, TypeOK
    <3> QED
      BY <3>3, <3>4, <3>5
  <2>11. LookedInv'
    <3> SUFFICES ASSUME NEW p \in stored', NEW q \in Posts, Looked(q)', Same(p, q),
                        began'[p] < began'[q], {p, q} \notin overlap', q \notin unread'
                 PROVE  Cardinality(Between(p, q)') >= Window
      BY DEF LookedInv, Same
    <3>1. q # r
      BY <2>3, <2>4, <2>5 DEF Looked, Same, TypeOK
    <3>2. p \in stored /\ p # r
      BY <2>3, <2>5
    <3>3. Looked(q)
      BY <2>4, <2>5, <3>1 DEF Looked, TypeOK
    <3>4. began'[p] = began[p] /\ began'[q] = began[q] /\ {p, q} \notin overlap /\ q \notin unread
      BY <1>2, <2>2, <2>5, <3>1, <3>2 DEF PostStart, TypeOK
    <3>5. Cardinality(Between(p, q)) >= Window
      BY <3>2, <3>3, <3>4 DEF CreateInv, LookedInv
    <3>6. \A m \in stored : began'[m] = began[m]
      BY <2>2, <2>3 DEF TypeOK
    <3>7. stored' \in SUBSET Posts /\ stored \subseteq stored' /\ began' \in [Posts -> Nat]
      BY <2>5 DEF TypeOK
    <3>8. Cardinality({m \in stored' \ {q} : began'[m] > began'[p]}) >= Window
      BY <3>2, <3>5, <3>6, <3>7, MoreBetween
    <3> QED
      BY <3>8 DEF Between
  <2> QED
    BY <2>8, <2>9, <2>10, <2>11 DEF CreateInv
<1>3. ASSUME NEW r \in Posts,
             PostFound(r) \/ PostNotFound(r) \/ PostUnread(r) \/ PostCommit(r) \/ PostFault(r)
      PROVE  CreateInv'
  <2> USE DEF CheckVars, CommitVars, Trouble
  <2>1. UNCHANGED <<began, overlap>> /\ stored \subseteq stored' /\ unread \subseteq unread'
    BY <1>3 DEF PostFound, PostNotFound, PostUnread, PostCommit, PostFault
  <2>2. Begun' = Begun
    BY <2>1 DEF Begun
  <2>3. AnswerInv'
    <3>1. CASE PostFound(r)
      BY <2>2, <3>1 DEF PostFound, CreateInv, AnswerInv, TypeOK
    <3>2. CASE PostNotFound(r) \/ PostUnread(r)
      BY <2>2, <3>2 DEF PostNotFound, PostUnread, CreateInv, AnswerInv, TypeOK
    <3>3. CASE PostCommit(r) \/ PostFault(r)
      BY <2>2, <3>3 DEF PostCommit, PostFault, CreateInv, AnswerInv, TypeOK
    <3> QED
      BY <1>3, <3>1, <3>2, <3>3
  <2>4. AnswerIsStored'
    <3>1. CASE PostFound(r)
      <4>1. PICK m \in Twins(r) : answer' = [answer EXCEPT ![r] = m]
        BY <3>1 DEF PostFound
      <4>2. post[r] = "check" /\ r \notin stored /\ Key[r] # NoKey
        BY <3>1 DEF PostFound, CreateInv, AnswerInv
      <4>3. m \in stored /\ Same(r, m)
        BY <4>2 DEF Twins, Recent, Same
      <4> QED
        BY <3>1, <4>1, <4>3 DEF PostFound, CreateInv, AnswerIsStored, TypeOK, Same
    <3>2. CASE PostNotFound(r) \/ PostUnread(r)
      BY <3>2 DEF PostNotFound, PostUnread, CreateInv, AnswerIsStored, TypeOK, Same
    <3>3. CASE PostCommit(r) \/ PostFault(r)
      BY <3>3 DEF PostCommit, PostFault, CreateInv, AnswerIsStored, AnswerInv, TypeOK, Same
    <3> QED
      BY <1>3, <3>1, <3>2, <3>3
  <2>5. OverInv'
    BY <1>3 DEF PostFound, PostNotFound, PostUnread, PostCommit, PostFault, CreateInv, OverInv,
                TypeOK, Same
  <2>6. \A q \in Posts : q # r /\ Looked(q)' => Looked(q)
    BY <1>3 DEF PostFound, PostNotFound, PostUnread, PostCommit, PostFault, Looked, TypeOK
  <2>7. \A p \in stored' : p \in stored \/ p = r
    BY <1>3 DEF PostFound, PostNotFound, PostUnread, PostCommit, PostFault
  <2>8. ASSUME r \in stored' \ stored, NEW q \in Posts, Same(r, q), began[r] < began[q]
        PROVE  {r, q} \in overlap
    <3>1. post[r] = "commit"
      BY <1>3, <2>8 DEF PostFound, PostNotFound, PostUnread, PostCommit, PostFault
    <3>2. 0 < began[r]
      BY <3>1 DEF CreateInv, AnswerInv, TypeOK
    <3> QED
      BY <2>8, <3>1, <3>2 DEF CreateInv, OverInv
  <2>9. ASSUME Looked(r)', ~Looked(r), NEW p \in stored, Same(p, r), began[p] < began[r]
        PROVE  r \in unread' \/ Cardinality(Between(p, r)) >= Window
    <3>1. CASE PostFound(r)
      BY <2>9, <3>1 DEF PostFound, Looked, TypeOK
    <3>2. CASE PostNotFound(r)
      <4>1. p \notin Recent
        BY <2>9, <3>2 DEF PostNotFound, Twins, Same
      <4>2. ~(Cardinality({m \in stored : began[m] > began[p]}) < Window)
        BY <4>1 DEF Recent
      <4>3. Between(p, r) = {m \in stored : began[m] > began[p]}
        BY <2>9 DEF Between, Looked
      <4>4. Cardinality(Between(p, r)) \in Nat
        BY FS_Subset, FS_CardinalityType DEF Between, TypeOK
      <4> QED
        BY <4>2, <4>3, <4>4
    <3>3. CASE PostUnread(r)
      BY <3>3 DEF PostUnread
    <3>4. CASE PostCommit(r) \/ PostFault(r)
      BY <2>9, <3>4 DEF PostCommit, PostFault, Looked
    <3> QED
      BY <1>3, <3>1, <3>2, <3>3, <3>4
  <2>10. LookedInv'
    BY <2>1, <2>6, <2>7, <2>8, <2>9, LookedStep DEF CreateInv
  <2> QED
    BY <2>3, <2>4, <2>5, <2>10 DEF CreateInv
<1>4. UNCHANGED postVars \/ \E r \in Posts : Post(r)
  <2>1. ASSUME NEW c \in Consumers, Handle(c) PROVE UNCHANGED postVars
    BY <2>1 DEF Handle, HandlerRest, ReadMembers, Insert, InsertVars, Publish, PublishVars, Finish,
                Found, NotFound
  <2>2. ASSUME NEW c \in Consumers, Disturb(c) PROVE UNCHANGED postVars
    BY <2>2 DEF Disturb, HandlerRest, ReadMessageFault, PublishAgain, PublishVars, ListFault,
                InsertFault, PublishFault, Stop
  <2>3. ASSUME NEW c \in Consumers, NEW m \in Posts, Take(c, m) PROVE UNCHANGED postVars
    BY <2>3 DEF Take, HandlerRest
  <2>4. ASSUME NEW m \in Posts, Dispatch(m) \/ SendAgain(m) \/ Settle(m)
        PROVE  UNCHANGED postVars
    BY <2>4 DEF Dispatch, SendAgain, Settle, QueueRest
  <2>5. ASSUME NEW u \in Users, Leave(u) PROVE UNCHANGED postVars
    BY <2>5 DEF Leave
  <2>6. CASE UNCHANGED vars
    BY <2>6 DEF vars
  <2> QED
    BY <2>1, <2>2, <2>3, <2>4, <2>5, <2>6 DEF Next
<1> QED
  BY <1>1, <1>2, <1>3, <1>4 DEF Post

-----------------------------------------------------------------------------
\* Who publishes, and how often, survives every step.
LEMMA PushStep == TypeOK /\ UserInv /\ PushInv /\ TypeOK' /\ [Next]_vars => PushInv'
<1> SUFFICES ASSUME TypeOK, UserInv, PushInv, TypeOK', [Next]_vars PROVE PushInv'
  OBVIOUS
<1> USE MessagesAssumption DEF Trouble
<1> DEFINE Stays(d) ==
      pc'[d] = "publish" => pc[d] = "publish" /\ job'[d] = job[d] /\ user'[d] = user[d]
<1>0. /\ \A c \in Consumers : pc[c] \in {"insert", "publish"} => Notice(c) \in Notices
      /\ pushed \in [Notices -> Nat] /\ pushed' \in [Notices -> Nat]
      /\ troubles \in Nat /\ troubles' \in Nat
  BY DEF UserInv, TypeOK, Notice, Notices
\* Steps that bring no consumer to publish, and publish what a trouble lets them.
<1>1. ASSUME notices \subseteq notices', troubles <= troubles',
             \A d \in Consumers : Stays(d),
             \A n \in Notices : pushed'[n] <= pushed[n] + (troubles' - troubles),
             \A n \in Notices : n \notin notices' => pushed'[n] = pushed[n]
      PROVE  PushInv'
  <2>1. \A d \in Consumers : pc'[d] = "publish" => pc[d] = "publish" /\ Notice(d)' = Notice(d)
    BY <1>1 DEF Notice
  <2>2. ASSUME NEW d \in Consumers, pc'[d] = "publish" PROVE Entitled(d)'
    <3>1. pc[d] = "publish" /\ Notice(d)' = Notice(d) /\ Notice(d) \in Notices
      BY <1>0, <2>1, <2>2
    <3>2. Entitled(d)
      BY <3>1 DEF PushInv
    <3>3. pushed'[Notice(d)] <= troubles'
      BY <1>0, <1>1, <3>1, <3>2 DEF Entitled
    <3> QED
      BY <1>1, <2>1, <3>1, <3>2, <3>3 DEF Entitled
  <2>3. \A n \in Notices : pushed'[n] <= 1 + troubles'
    BY <1>0, <1>1 DEF PushInv, PushesBounded
  <2>4. \A n \in Notices : n \notin notices' => pushed'[n] = 0
    BY <1>1 DEF PushInv
  <2> QED
    BY <2>2, <2>3, <2>4 DEF PushInv, PushesBounded
<1>2. ASSUME UNCHANGED <<consumerVars, noticeVars>>, troubles <= troubles' PROVE PushInv'
  BY <1>0, <1>1, <1>2 DEF consumerVars, noticeVars
<1>3. ASSUME NEW p \in Posts, Post(p) PROVE PushInv'
  <2>1. UNCHANGED <<consumerVars, noticeVars>> /\ troubles <= troubles'
    BY <1>3 DEF Post, PostStart, PostFound, PostNotFound, PostUnread, CheckVars, PostCommit,
                PostFault, CommitVars, TypeOK
  <2> QED
    BY <1>2, <2>1
<1>4. ASSUME NEW m \in Posts, Dispatch(m) \/ SendAgain(m) \/ Settle(m) PROVE PushInv'
  <2>1. UNCHANGED <<consumerVars, noticeVars>> /\ troubles <= troubles'
    BY <1>4 DEF Dispatch, SendAgain, Settle, QueueRest, TypeOK
  <2> QED
    BY <1>2, <2>1
<1>5. ASSUME NEW u \in Users, Leave(u) PROVE PushInv'
  <2>1. UNCHANGED <<consumerVars, noticeVars>> /\ troubles <= troubles'
    BY <1>5 DEF Leave, TypeOK
  <2> QED
    BY <1>2, <2>1
<1>6. ASSUME NEW c \in Consumers, Handle(c) PROVE PushInv'
  <2>1. CASE ReadMembers(c) \/ Finish(c) \/ \E u \in Users : Found(c, u) \/ NotFound(c, u)
    <3>1. UNCHANGED noticeVars /\ troubles <= troubles'
      <4>1. CASE ReadMembers(c) \/ Finish(c)
        BY <1>0, <4>1 DEF ReadMembers, Finish, noticeVars
      <4>2. ASSUME NEW u \in Users, Found(c, u) \/ NotFound(c, u)
            PROVE  UNCHANGED noticeVars /\ troubles <= troubles'
        BY <1>0, <4>2 DEF Found, NotFound, noticeVars
      <4> QED
        BY <2>1, <4>1, <4>2
    <3>2. \A d \in Consumers : Stays(d)
      <4>1. CASE ReadMembers(c) \/ Finish(c)
        BY <4>1 DEF ReadMembers, Finish, GoIdle, TypeOK
      <4>2. ASSUME NEW u \in Users, Found(c, u) \/ NotFound(c, u)
            PROVE  \A d \in Consumers : Stays(d)
        BY <4>2 DEF Found, NotFound, TypeOK
      <4> QED
        BY <2>1, <4>1, <4>2
    <3> QED
      BY <1>0, <1>1, <3>1, <3>2 DEF noticeVars
  <2>2. CASE Insert(c)
    <3>1. Notice(c) \in Notices
      BY <1>0, <2>2 DEF Insert
    <3>2. UNCHANGED <<job, pushed, troubles>> /\ notices' = notices \cup {Notice(c)}
      BY <2>2 DEF Insert, InsertVars
    <3>3. CASE Notice(c) \in notices
      <4>1. \A d \in Consumers : Stays(d)
        BY <2>2, <3>2, <3>3 DEF Insert, GoOn, TypeOK
      <4> QED
        BY <1>0, <1>1, <3>2, <4>1
    <3>4. CASE Notice(c) \notin notices
      <4>1. pc' = [pc EXCEPT ![c] = "publish"] /\ user' = user
        BY <2>2, <3>4 DEF Insert
      <4>2. pushed[Notice(c)] = 0
        BY <3>1, <3>4 DEF PushInv
      <4>3. \A d \in Consumers :
              /\ Notice(d)' = Notice(d)
              /\ d # c => pc'[d] = pc[d]
        BY <3>2, <4>1 DEF Notice, TypeOK
      <4>4. \A d \in Consumers : pc[d] = "publish" => Notice(d) \in notices /\ Entitled(d)
        BY DEF PushInv, Entitled
      <4>5. Entitled(c)'
        BY <1>0, <3>2, <3>4, <4>2, <4>3, <4>4 DEF Entitled
      <4>6. ASSUME NEW d \in Consumers, d # c, pc'[d] = "publish" PROVE Entitled(d)'
        BY <3>2, <3>4, <4>3, <4>4, <4>6 DEF Entitled
      <4> QED
        BY <3>2, <4>5, <4>6 DEF PushInv, PushesBounded
    <3> QED
      BY <3>3, <3>4
  <2>3. CASE Publish(c)
    <3>1. Notice(c) \in Notices /\ pc[c] = "publish"
      BY <1>0, <2>3 DEF Publish
    <3>2. UNCHANGED <<job, notices, troubles>>
          /\ pushed' = [pushed EXCEPT ![Notice(c)] = @ + 1]
      BY <2>3 DEF Publish, PublishVars
    <3>3. pushed[Notice(c)] <= troubles /\ Notice(c) \in notices
      BY <3>1 DEF PushInv, Entitled
    <3>4. \A n \in Notices : pushed'[n] = IF n = Notice(c) THEN pushed[n] + 1 ELSE pushed[n]
      BY <1>0, <3>2
    <3>5. \A d \in Consumers : pc'[d] = "publish" =>
            d # c /\ pc[d] = "publish" /\ Notice(d)' = Notice(d)
      BY <2>3, <3>2 DEF Publish, GoOn, Notice, TypeOK
    <3>6. ASSUME NEW d \in Consumers, pc'[d] = "publish" PROVE Entitled(d)'
      <4>1. Entitled(d) /\ Notice(d) \in Notices
        BY <1>0, <3>5, <3>6 DEF PushInv
      <4>2. Notice(d) # Notice(c)
        BY <3>1, <3>5, <3>6, <4>1 DEF Entitled
      <4> QED
        BY <3>2, <3>4, <3>5, <3>6, <4>1, <4>2 DEF Entitled
    <3> QED
      BY <1>0, <3>2, <3>3, <3>4, <3>6 DEF PushInv, PushesBounded
  <2> QED
    BY <1>6, <2>1, <2>2, <2>3 DEF Handle
<1>7. ASSUME NEW c \in Consumers, Disturb(c) PROVE PushInv'
  <2>1. notices \subseteq notices' /\ troubles' = troubles + 1
    BY <1>7 DEF Disturb, ReadMessageFault, PublishAgain, PublishVars, ListFault, InsertFault,
                PublishFault, Fails, Stop, noticeVars
  <2>2. \A d \in Consumers : Stays(d)
    BY <1>7 DEF Disturb, ReadMessageFault, PublishAgain, PublishVars, ListFault, InsertFault,
                PublishFault, Fails, Stop, GoIdle, TypeOK
  <2>3. CASE UNCHANGED pushed
    BY <1>0, <1>1, <2>1, <2>2, <2>3
  <2>4. CASE PublishAgain(c) \/ PublishFault(c)
    <3>1. Notice(c) \in notices
      BY <2>4 DEF PublishAgain, PublishFault, PushInv, Entitled
    <3>2. pushed' \in {pushed, [pushed EXCEPT ![Notice(c)] = @ + 1]}
      BY <2>4 DEF PublishAgain, PublishFault
    <3>3. \A n \in Notices :
            pushed'[n] <= pushed[n] + 1 /\ (n # Notice(c) => pushed'[n] = pushed[n])
      BY <1>0, <3>2
    <3> QED
      BY <1>0, <1>1, <2>1, <2>2, <3>1, <3>3
  <2> QED
    BY <1>7, <2>3, <2>4 DEF Disturb, ReadMessageFault, ListFault, InsertFault, Stop, noticeVars
<1>8. ASSUME NEW c \in Consumers, NEW m \in Posts, Take(c, m) PROVE PushInv'
  <2>1. UNCHANGED noticeVars /\ troubles <= troubles'
    BY <1>8 DEF Take, TypeOK
  <2>2. \A d \in Consumers : Stays(d)
    BY <1>8 DEF Take, TypeOK
  <2> QED
    BY <1>0, <1>1, <2>1, <2>2 DEF noticeVars
<1>9. CASE UNCHANGED vars
  <2>1. UNCHANGED <<consumerVars, noticeVars>> /\ troubles <= troubles'
    BY <1>0, <1>9 DEF vars
  <2> QED
    BY <1>2, <2>1
<1> QED
  BY <1>3, <1>4, <1>5, <1>6, <1>7, <1>8, <1>9 DEF Next

-----------------------------------------------------------------------------
\* The inductive invariant holds in every state that can be reached.
THEOREM Invariant == Spec => []IInv
<1>1. Init => IInv
  BY InitInv
<1>2. IInv /\ [Next]_vars => IInv'
  BY TypeStep, CreateStep, PushStep DEF IInv
<1> QED
  BY <1>1, <1>2, PTL DEF Spec

\* Requests, jobs, handlers and notifications keep their shape; a job is only
\* ever about a message that is in the table.
THEOREM TypeCorrect == Spec => []TypeOK
<1>1. IInv => TypeOK
  BY DEF IInv
<1> QED
  BY <1>1, Invariant, PTL

\* A request that succeeds has its message in the table, even when it returned the
\* message of an earlier request.
THEOREM AnswersAreStored == Spec => []AnswerIsStored
<1>1. IInv => AnswerIsStored
  BY DEF IInv, CreateInv
<1> QED
  BY <1>1, Invariant, PTL

\* The idempotency key of a request keeps a message from being stored twice, but
\* for the three cases that the code leaves open.
THEOREM RetriesFindTheFirst == Spec => []RetryFindsFirst
<1>1. IInv => RetryFindsFirst
  BY DEF IInv, CreateInv, LookedInv, RetryFindsFirst, Looked, Between, TypeOK
<1> QED
  BY <1>1, Invariant, PTL

\* The unique index lets one handler publish about a notification, however many
\* of them run for however many deliveries of the job.
THEOREM OnePushEach == Spec => []PushesBounded
<1>1. IInv => PushesBounded
  BY DEF IInv, PushInv
<1> QED
  BY <1>1, Invariant, PTL
=============================================================================
