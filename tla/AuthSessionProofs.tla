------------------------- MODULE AuthSessionProofs -------------------------
(***************************************************************************)
(* Theorems about AuthSession: its variables keep their shape, a revoked   *)
(* session comes back only by a refresh that overlapped the revocation,    *)
(* and one loss in one tab never ends in a session revoked for reuse.      *)
(*                                                                         *)
(* The second is about the commit of a refresh, which saves the session    *)
(* that belongs to the row it read, while what it has looked at is the     *)
(* session of the token it was sent with.  The invariant says that these   *)
(* are one session: replacements stay in the family (RowInv), so the row   *)
(* a transaction reads does (RequestInv), and a request that has looked at *)
(* a session since revoked has overlapped the revocation.                  *)
(***************************************************************************)
EXTENDS AuthSession, FiniteSetTheorems, TLAPS

\* What has been issued, and 0 for null.
Given == 0..issued
GivenPair == [access : Given, refresh : Given]
GivenLeave == [at : {"none", "sent"}, access : Given]
\* The browser holds only tokens that the server has issued.
ClientInv ==
    /\ ui \in [Tabs -> {"closed", "loading", "authenticated", "unauthenticated"}]
    /\ mem \in [Tabs -> GivenPair]
    /\ storage \in GivenPair
    /\ cookie \in Given
    /\ waiting \in [Tabs -> BOOLEAN]
    /\ leaving \in [Tabs -> GivenLeave]

RowTypes ==
    /\ tokens \in [Token -> TokenRow]
    /\ sessions \in [Session -> SessionRow]
    /\ stale \in 0..MaxTokens /\ issued \in 0..MaxTokens /\ opened \in 0..MaxSessions

\* A token that was issued belongs to a session that was opened, and so does its
\* replacement, to the same.
TokenRowInv(n) ==
    /\ n <= issued => SessionOf(n) \in 1..opened
    /\ tokens[n].replacedBy \in Given
    /\ tokens[n].replacedBy # 0 => SessionOf(tokens[n].replacedBy) = SessionOf(n)

RowInv ==
    /\ RowTypes
    /\ \A n \in Token : TokenRowInv(n)
    /\ \A s \in Session : s > opened => ~sessions[s].revoked /\ ~sessions[s].open

\* A request, given the rows of the server and the sessions revoked under it.
RequestFits(r, rows, opens, last, over) ==
    /\ r \in [at : {"none", "look", "read", "commit", "ok", "no"}, via : {"body", "cookie"},
             token : 0..last, row : 0..last, rowRevoked : BOOLEAN, next : 0..last]
    /\ r.at \in {"look", "read", "commit"} => r.token # 0
    /\ r.at = "commit" => r.row # 0 /\ rows[r.row].session = rows[r.token].session
    /\ r.at \in {"read", "commit"} /\ opens[rows[r.token].session].revoked =>
          rows[r.token].session \in over

RequestInv(r) == RequestFits(r, tokens, sessions, issued, overlapped)

RequestsInv ==
    /\ refresh = [q \in Tabs \X Slot |-> refresh[q]]
    /\ \A q \in Tabs \X Slot : RequestInv(refresh[q])

CountsFit == losses \in 0..MaxTroubles /\ lapses \in 0..MaxTroubles /\ late \in BOOLEAN

CountInv == CountsFit /\ overlapped \in SUBSET Session

IInv == ClientInv /\ RowInv /\ RequestsInv /\ CountInv

-----------------------------------------------------------------------------
(* What the helpers of the client make. *)

\* The slots of a tab, as indices.
LEMMA Slots ==
    ASSUME NEW t \in Tabs
    PROVE  <<t, "page">> \in Tabs \X Slot /\ <<t, "gone">> \in Tabs \X Slot
BY DEF Slot

\* No request, and a request just sent, are as the invariant wants them.
LEMMA NewRequests ==
    ASSUME IInv
    PROVE  /\ RequestInv(NoRequest) /\ RequestInv(ByCookie)
           /\ \A m, n \in Given : RequestInv(FirstTry(m, n))
<1>1. 0 \in Given /\ cookie \in Given
  BY DEF IInv, ClientInv, RowInv, RowTypes, Given
<1>2. RequestInv(NoRequest)
  BY <1>1 DEF RequestInv, RequestFits, NoRequest, Given
<1>3. ASSUME NEW via \in {"body", "cookie"}, NEW n \in Given \ {0}
      PROVE  RequestInv(Sent(via, n))
  BY <1>1, <1>3 DEF RequestInv, RequestFits, Sent, Given
<1>4. RequestInv(ByCookie)
  BY <1>1, <1>3 DEF RequestInv, RequestFits, ByCookie, Answered, Given
<1>5. ASSUME NEW m \in Given, NEW n \in Given PROVE RequestInv(FirstTry(m, n))
  BY <1>3, <1>4, <1>5 DEF FirstTry
<1> QED BY <1>2, <1>4, <1>5

-----------------------------------------------------------------------------
(* What a step of the server leaves of a request in flight. *)

\* Tokens keep their session, overlaps are remembered, and a session that is revoked
\* was so before, or is known to overlap whoever has looked at it.
RowsGrow ==
    /\ issued' \in Nat /\ issued <= issued'
    /\ \A n \in 1..issued : tokens'[n].session = tokens[n].session
    /\ overlapped \subseteq overlapped'
    /\ \A s \in Session : sessions'[s].revoked =>
          sessions[s].revoked \/ s \in overlapped' \/ \A q \in Tabs \X Slot : ~HasLooked(q, s)

\* A request that is not touched fits what the rows have become.
LEMMA RequestsKept ==
    ASSUME IInv, RowsGrow, NEW q \in Tabs \X Slot
    PROVE  RequestFits(refresh[q], tokens', sessions', issued', overlapped')
<1> DEFINE r == refresh[q]
<1>1. RequestFits(r, tokens, sessions, issued, overlapped) /\ issued \in Nat
  BY DEF IInv, RequestsInv, RequestInv, RowInv, RowTypes
<1>0. \A n \in 0..issued : n \in 0..issued'
  BY <1>1 DEF RowsGrow
<1>2. /\ r.token \in 0..issued /\ r.row \in 0..issued
      /\ r \in [at : {"none", "look", "read", "commit", "ok", "no"}, via : {"body", "cookie"},
               token : 0..issued', row : 0..issued', rowRevoked : BOOLEAN, next : 0..issued']
  BY <1>0, <1>1 DEF RequestFits
<1>3. ASSUME r.at \in {"read", "commit"}, sessions'[tokens'[r.token].session].revoked
      PROVE  tokens'[r.token].session \in overlapped'
  <2>0. r.token # 0
    BY <1>1, <1>3 DEF RequestFits
  <2>1. r.token \in 1..issued /\ r.token \in Token
    BY <1>1, <1>2, <2>0, BoundsAssumption DEF IInv, RowInv, RowTypes, Token
  <2> DEFINE s == tokens[r.token].session
  <2>2. s = tokens'[r.token].session /\ s \in Session /\ HasLooked(q, s)
    <3>1. s \in 1..opened /\ opened \in 0..MaxSessions
      BY <2>1 DEF IInv, RowInv, TokenRowInv, RowTypes, SessionOf
    <3>2. s = tokens'[r.token].session
      BY <2>1 DEF RowsGrow
    <3> QED BY <1>3, <3>1, <3>2, BoundsAssumption DEF HasLooked, SessionOf, Session
  <2>3. sessions[s].revoked \/ s \in overlapped'
    BY <1>3, <2>2 DEF RowsGrow
  <2> QED BY <1>1, <1>3, <2>2, <2>3 DEF RequestFits, RowsGrow
<1>4. ASSUME r.at = "commit"
      PROVE  r.row # 0 /\ tokens'[r.row].session = tokens'[r.token].session
  <2>1. r.row \in 1..issued /\ r.token \in 1..issued
    BY <1>1, <1>2, <1>4 DEF RequestFits
  <2> QED BY <1>1, <1>4, <2>1 DEF RequestFits, RowsGrow
<1> QED BY <1>1, <1>2, <1>3, <1>4 DEF RequestFits

\* What is given stays given.
LEMMA ClientKept ==
    ASSUME ClientInv, issued \in Nat, issued' \in Nat, issued <= issued'
    PROVE  /\ mem \in [Tabs -> GivenPair'] /\ storage \in GivenPair' /\ cookie \in Given'
           /\ leaving \in [Tabs -> GivenLeave']
<1>1. \A n \in Given : n \in Given'
  BY DEF Given
<1> QED BY <1>1 DEF ClientInv, GivenPair, GivenLeave
-----------------------------------------------------------------------------
(* Steps that leave the server's rows alone. *)

Rows == <<tokens, sessions, issued, opened, overlapped>>

\* Such a step is safe where its requests are, and what the browser holds is given.
LEMMA BrowserStep ==
    ASSUME IInv, UNCHANGED Rows, stale' \in 0..MaxTokens,
           refresh' = [q \in Tabs \X Slot |-> refresh'[q]],
           \A q \in Tabs \X Slot : RequestInv(refresh'[q])
    PROVE  RowInv' /\ RequestsInv' /\ Given' = Given
<1>1. RowInv'
  BY DEF IInv, RowInv, RowTypes, TokenRowInv, SessionOf, Given, Rows
<1>2. RequestsInv'
  BY DEF RequestsInv, RequestInv, Rows
<1> QED BY <1>1, <1>2 DEF Given, Rows

\* A page starts: its requests are those it had, and the one it sends.
LEMMA StartPageMakes ==
    ASSUME IInv, NEW t \in Tabs, NEW kept, StartPage(t, kept)
    PROVE  /\ ui' \in [Tabs -> {"closed", "loading", "authenticated", "unauthenticated"}]
           /\ mem' \in [Tabs -> GivenPair] /\ waiting' \in [Tabs -> BOOLEAN]
           /\ leaving' \in [Tabs -> GivenLeave]
           /\ refresh' = [q \in Tabs \X Slot |-> refresh'[q]]
           /\ \A q \in Tabs \X Slot :
                refresh'[q] \in {refresh[q], refresh[<<t, "page">>], FirstTry(0, kept)}
<1>1. NoPair \in GivenPair /\ NoLeave \in GivenLeave
  BY DEF NoPair, NoLeave, GivenPair, GivenLeave, Given, IInv, RowInv, RowTypes
<1>2. <<t, "page">> \in Tabs \X Slot /\ <<t, "gone">> \in Tabs \X Slot
  BY Slots
<1>3. /\ ui' \in [Tabs -> {"closed", "loading", "authenticated", "unauthenticated"}]
      /\ mem' \in [Tabs -> GivenPair] /\ waiting' \in [Tabs -> BOOLEAN]
      /\ leaving' \in [Tabs -> GivenLeave]
  BY <1>1 DEF StartPage, IInv, ClientInv
<1> QED BY <1>2, <1>3 DEF StartPage, IInv, RequestsInv

\* The answer to a request, good or bad.
LEMMA AnswerFits ==
    ASSUME NEW via \in {"body", "cookie"}, NEW outcome \in {"ok", "no"}, NEW n,
           NEW rows, NEW opens, NEW last \in Nat, NEW over, n \in 0..last
    PROVE  RequestFits(Answered(via, outcome, n), rows, opens, last, over)
<1> DEFINE a == Answered(via, outcome, n)
<1>1. a.at = outcome /\ outcome \notin {"look", "read", "commit"} /\ 0 \in 0..last
  BY DEF Answered
<1>2. a \in [at : {"none", "look", "read", "commit", "ok", "no"}, via : {"body", "cookie"},
             token : 0..last, row : 0..last, rowRevoked : BOOLEAN, next : 0..last]
  BY <1>1 DEF Answered
<1> QED BY <1>1, <1>2 DEF RequestFits

\* A refusal fits while nothing of the rows changes.
LEMMA RefusalFits ==
    ASSUME IInv, NEW q \in Tabs \X Slot
    PROVE  RequestInv(Answered(refresh[q].via, "no", 0))
<1>1. refresh[q].via \in {"body", "cookie"}
  BY DEF IInv, RequestsInv, RequestInv, RequestFits
<1>2. issued \in Nat /\ 0 \in 0..issued
  BY DEF IInv, RowInv, RowTypes
<1> QED BY <1>1, <1>2, AnswerFits DEF RequestInv

LEMMA LoadSafe == ASSUME IInv, NEW t \in Tabs, Load(t) PROVE IInv'
<1>1. StartPage(t, storage.refresh) /\ UNCHANGED <<storage, cookie, Rows, stale, late, lapses>>
  BY DEF Load, rowVars, history, Rows
<1>2. storage.refresh \in Given /\ 0 \in Given
  BY DEF IInv, ClientInv, GivenPair, Given, RowInv, RowTypes
<1>3. \A q \in Tabs \X Slot : RequestInv(refresh'[q])
  <2>1. RequestInv(FirstTry(0, storage.refresh)) /\ RequestInv(refresh[<<t, "page">>])
    BY <1>2, NewRequests, Slots DEF IInv, RequestsInv
  <2>2. ASSUME NEW q \in Tabs \X Slot PROVE RequestInv(refresh'[q])
    <3>1. RequestInv(refresh[q])
      BY DEF IInv, RequestsInv
    <3>2. refresh'[q] \in {refresh[q], refresh[<<t, "page">>], FirstTry(0, storage.refresh)}
      BY <1>1, StartPageMakes
    <3> QED BY <2>1, <3>1, <3>2
  <2> QED BY <2>2
<1>4. RowInv' /\ RequestsInv' /\ Given' = Given
  BY <1>1, <1>3, StartPageMakes, BrowserStep DEF IInv, RowInv, RowTypes
<1>5. ClientInv'
  BY <1>1, <1>4, StartPageMakes DEF IInv, ClientInv, GivenPair, GivenLeave
<1>6. CountInv'
  BY <1>1, BoundsAssumption DEF Load, Trouble, IInv, CountInv, CountsFit, Rows
<1> QED BY <1>4, <1>5, <1>6 DEF IInv

LEMMA TxReadSafe == ASSUME IInv, NEW q \in Tabs \X Slot, TxRead(q) PROVE IInv'
<1> DEFINE r == refresh[q]
           row == WorksOn(r.token)
<1>1. UNCHANGED <<tabVars, Rows, stale, counts, late>>
  BY DEF TxRead, rowVars, history, Rows
<1>2. r.at = "read" /\ r.token \in 1..issued /\ RequestInv(r)
  BY DEF TxRead, IInv, RequestsInv, RequestInv, RequestFits, RowInv, RowTypes
<1>3. ASSUME row # 0
      PROVE  RequestInv(ReadRow(r, row))
  <2>1. r.token \in Token /\ row \in 1..issued /\ SessionOf(row) = SessionOf(r.token)
    BY <1>2, <1>3, BoundsAssumption
       DEF WorksOn, Sibling, IInv, RowInv, RowTypes, TokenRowInv, Token, Given
  <2>2. tokens[row].revoked \in BOOLEAN
    BY <2>1, BoundsAssumption DEF IInv, RowInv, RowTypes, Token, TokenRow
  <2>3. r.via \in {"body", "cookie"}
    BY <1>2 DEF RequestInv, RequestFits
  <2>4. ReadRow(r, row)
          \in [at : {"none", "look", "read", "commit", "ok", "no"}, via : {"body", "cookie"},
               token : 0..issued, row : 0..issued, rowRevoked : BOOLEAN, next : 0..issued]
    BY <1>2, <2>1, <2>2, <2>3 DEF ReadRow, IInv, RowInv, RowTypes
  <2>5. sessions[SessionOf(r.token)].revoked => SessionOf(r.token) \in overlapped
    BY <1>2 DEF RequestInv, RequestFits, SessionOf
  <2>6. /\ ReadRow(r, row).at = "commit" /\ ReadRow(r, row).row = row
        /\ ReadRow(r, row).token = r.token
    BY DEF ReadRow
  <2> QED BY <1>2, <2>1, <2>4, <2>5, <2>6 DEF RequestInv, RequestFits, SessionOf
<1>4. RequestInv(Answered(r.via, "no", 0))
  BY RefusalFits
<1>5. \A p \in Tabs \X Slot : RequestInv(refresh'[p])
  BY <1>3, <1>4, NewRequests DEF TxRead, Answer, IInv, RequestsInv
<1>6. RowInv' /\ RequestsInv' /\ Given' = Given
  BY <1>1, <1>5, BrowserStep DEF TxRead, Answer, IInv, RequestsInv, RowInv, RowTypes
<1> QED BY <1>1, <1>6 DEF IInv, ClientInv, CountInv, CountsFit, tabVars, counts, Rows, GivenPair, GivenLeave

LEMMA CommitFailsSafe == ASSUME IInv, NEW q \in Tabs \X Slot, CommitFails(q) PROVE IInv'
<1>1. UNCHANGED <<tabVars, Rows, stale, lapses, late>>
  BY DEF CommitFails, rowVars, history, Rows
<1>2. RequestInv(Answered(refresh[q].via, "no", 0))
  BY RefusalFits
<1>3. \A p \in Tabs \X Slot : RequestInv(refresh'[p])
  BY <1>2, NewRequests DEF CommitFails, Answer, IInv, RequestsInv
<1>4. RowInv' /\ RequestsInv' /\ Given' = Given
  BY <1>1, <1>3, BrowserStep DEF CommitFails, Answer, IInv, RequestsInv, RowInv, RowTypes
<1>5. CountInv'
  BY <1>1, BoundsAssumption DEF CommitFails, Trouble, IInv, CountInv, CountsFit, Rows
<1> QED BY <1>1, <1>4, <1>5 DEF IInv, ClientInv, tabVars, GivenPair, GivenLeave
LEMMA RefreshedSafe == ASSUME IInv, NEW t \in Tabs, Refreshed(t) PROVE IInv'
<1>1. UNCHANGED <<leaving, Rows, stale, counts, late>>
  BY DEF Refreshed, rowVars, history, Rows
<1>2. refresh[<<t, "page">>].next \in Given
  BY Slots DEF IInv, RequestsInv, RequestInv, RequestFits, Given
<1>3. PairOf(refresh[<<t, "page">>].next) \in GivenPair
  BY <1>2 DEF PairOf, GivenPair
<1>4. \A q \in Tabs \X Slot : RequestInv(refresh'[q])
  BY NewRequests, Slots DEF Refreshed, IInv, RequestsInv
<1>5. RowInv' /\ RequestsInv' /\ Given' = Given
  BY <1>1, <1>4, BrowserStep DEF Refreshed, IInv, RequestsInv, RowInv, RowTypes
<1>6. ClientInv'
  <2>1. /\ mem' \in [Tabs -> GivenPair] /\ storage' \in GivenPair /\ cookie' \in Given
        /\ ui' \in [Tabs -> {"closed", "loading", "authenticated", "unauthenticated"}]
        /\ waiting' \in [Tabs -> BOOLEAN] /\ leaving' \in [Tabs -> GivenLeave]
    BY <1>1, <1>2, <1>3 DEF Refreshed, ShownAfter, IInv, ClientInv
  <2> QED BY <1>5, <2>1 DEF ClientInv, GivenPair, GivenLeave
<1> QED BY <1>1, <1>5, <1>6 DEF IInv, CountInv, CountsFit, counts, Rows

\* A try that fails: what is left of the requests is sound if it was before.
LEMMA FailedMakes ==
    ASSUME IInv, NEW t \in Tabs, NEW gone, Failed(t, gone),
           gone = [q \in Tabs \X Slot |-> gone[q]],
           \A q \in Tabs \X Slot : RequestInv(gone[q])
    PROVE  /\ mem' \in [Tabs -> GivenPair] /\ storage' \in GivenPair
           /\ ui' \in [Tabs -> {"closed", "loading", "authenticated", "unauthenticated"}]
           /\ waiting' \in [Tabs -> BOOLEAN]
           /\ refresh' = [q \in Tabs \X Slot |-> refresh'[q]]
           /\ \A q \in Tabs \X Slot : RequestInv(refresh'[q])
<1>0. 0 \in Given
  BY DEF Given, IInv, RowInv, RowTypes
<1>1. 0 \in Given /\ <<t, "page">> \in Tabs \X Slot
  BY <1>0, Slots
<1>2. RequestInv(NoRequest) /\ RequestInv(ByCookie)
  BY NewRequests
<1>3. CASE TryCookie(t, gone)
  BY <1>1, <1>2, <1>3 DEF TryCookie, IInv, ClientInv, GivenPair
<1>4. CASE GiveUp(t, gone)
  <2>1. Stored(t) \in Given
    BY DEF Stored, IInv, ClientInv, GivenPair
  <2>2. mem' \in [Tabs -> GivenPair] /\ storage' \in GivenPair
    BY <1>4, <2>1 DEF GiveUp, IInv, ClientInv, GivenPair
  <2> QED BY <1>1, <1>2, <1>4, <2>2 DEF GiveUp, ShownAfter, IInv, ClientInv
<1> QED BY <1>3, <1>4 DEF Failed

LEMMA RefusedSafe == ASSUME IInv, NEW t \in Tabs, Refused(t) PROVE IInv'
<1>1. UNCHANGED <<cookie, leaving, Rows, stale, counts, late>> /\ Failed(t, refresh)
  BY DEF Refused, rowVars, history, Rows
<1>2. RowInv' /\ RequestsInv' /\ Given' = Given
  BY <1>1, FailedMakes, BrowserStep DEF IInv, RequestsInv, RowInv, RowTypes
<1>3. ClientInv'
  <2>1. mem' \in [Tabs -> GivenPair] /\ storage' \in GivenPair
        /\ ui' \in [Tabs -> {"closed", "loading", "authenticated", "unauthenticated"}]
        /\ waiting' \in [Tabs -> BOOLEAN]
    BY <1>1, FailedMakes DEF IInv, RequestsInv
  <2> QED BY <1>1, <1>2, <2>1 DEF IInv, ClientInv, GivenPair, GivenLeave
<1> QED BY <1>1, <1>2, <1>3 DEF IInv, CountInv, CountsFit, counts, Rows

LEMMA RefreshLostSafe == ASSUME IInv, NEW t \in Tabs, RefreshLost(t) PROVE IInv'
<1> DEFINE kept == [refresh EXCEPT ![<<t, "gone">>] = refresh[<<t, "page">>]]
<1>1. UNCHANGED <<cookie, leaving, Rows, stale, lapses, late>>
  BY DEF RefreshLost, rowVars, history, Rows
<1>2. PICK gone \in {refresh, kept} : Failed(t, gone)
  BY DEF RefreshLost
<1>3. gone = [q \in Tabs \X Slot |-> gone[q]] /\ \A q \in Tabs \X Slot : RequestInv(gone[q])
  BY <1>2, Slots DEF IInv, RequestsInv
<1>4. RowInv' /\ RequestsInv' /\ Given' = Given
  BY <1>1, <1>2, <1>3, FailedMakes, BrowserStep DEF IInv, RowInv, RowTypes
<1>5. ClientInv'
  <2>1. mem' \in [Tabs -> GivenPair] /\ storage' \in GivenPair
        /\ ui' \in [Tabs -> {"closed", "loading", "authenticated", "unauthenticated"}]
        /\ waiting' \in [Tabs -> BOOLEAN]
    BY <1>2, <1>3, FailedMakes
  <2> QED BY <1>1, <1>4, <2>1 DEF IInv, ClientInv, GivenPair, GivenLeave
<1>6. CountInv'
  BY <1>1, BoundsAssumption DEF RefreshLost, Trouble, IInv, CountInv, CountsFit, Rows
<1> QED BY <1>4, <1>5, <1>6 DEF IInv

LEMMA Refused401Safe == ASSUME IInv, NEW t \in Tabs, Refused401(t) PROVE IInv'
<1>1. UNCHANGED <<ui, mem, storage, cookie, leaving, Rows, stale, counts, late>>
  BY DEF Refused401, rowVars, history, Rows
<1>2. RequestInv(Joined(t))
  <2>1. mem[t].refresh \in Given /\ storage.refresh \in Given
    BY DEF IInv, ClientInv, GivenPair
  <2> QED BY <2>1, NewRequests, Slots DEF Joined, IInv, RequestsInv
<1>3. \A q \in Tabs \X Slot : RequestInv(refresh'[q])
  BY <1>2, Slots DEF Refused401, IInv, RequestsInv
<1>4. RowInv' /\ RequestsInv' /\ Given' = Given
  BY <1>1, <1>3, BrowserStep DEF Refused401, IInv, RequestsInv, RowInv, RowTypes
<1>5. ClientInv'
  BY <1>1, <1>4 DEF Refused401, IInv, ClientInv, GivenPair, GivenLeave
<1> QED BY <1>1, <1>4, <1>5 DEF IInv, CountInv, CountsFit, counts, Rows

LEMMA LogoutSentSafe == ASSUME IInv, NEW t \in Tabs, LogoutSent(t) PROVE IInv'
<1>1. UNCHANGED <<ui, mem, storage, cookie, waiting, refresh, Rows, stale, counts, late>>
  BY DEF LogoutSent, rowVars, history, Rows
<1>2. RowInv' /\ RequestsInv' /\ Given' = Given
  BY <1>1, BrowserStep DEF IInv, RequestsInv, RowInv, RowTypes
<1>3. [at |-> "sent", access |-> Stored(t)] \in GivenLeave
  BY DEF Stored, GivenLeave, IInv, ClientInv, GivenPair
<1>4. ClientInv'
  BY <1>1, <1>2, <1>3 DEF LogoutSent, IInv, ClientInv, GivenPair, GivenLeave
<1> QED BY <1>1, <1>2, <1>4 DEF IInv, CountInv, CountsFit, counts, Rows

LEMMA AccessExpiresSafe == ASSUME IInv, AccessExpires PROVE IInv'
<1>1. UNCHANGED <<losses, tabVars, refresh, Rows, late>>
  BY DEF AccessExpires, rowVars, history, Rows
<1>2. RowInv' /\ RequestsInv' /\ Given' = Given
  BY <1>1, BrowserStep DEF AccessExpires, IInv, RequestsInv, RowInv, RowTypes
<1>3. CountInv'
  BY <1>1, BoundsAssumption DEF AccessExpires, Trouble, IInv, CountInv, CountsFit, Rows
<1> QED BY <1>1, <1>2, <1>3 DEF IInv, ClientInv, tabVars, GivenPair, GivenLeave
-----------------------------------------------------------------------------
(* Steps that end or revoke sessions. *)

\* A step that leaves the tokens' sessions, and revokes only what it may.
LEMMA SessionStep ==
    ASSUME IInv, RowsGrow, issued' = issued, opened' = opened, stale' = stale,
           sessions' \in [Session -> SessionRow],
           \A s \in Session : s > opened => ~sessions'[s].revoked /\ ~sessions'[s].open,
           tokens' \in [Token -> TokenRow],
           \A n \in Token : /\ tokens'[n].session = tokens[n].session
                            /\ tokens'[n].replacedBy = tokens[n].replacedBy
    PROVE  /\ RowInv' /\ Given' = Given
           /\ refresh' = refresh => RequestsInv'
<1>1. \A n \in Token : TokenRowInv(n)'
  <2>1. TAKE n \in Token
  <2>2. TokenRowInv(n) /\ issued \in 0..MaxTokens
    BY DEF IInv, RowInv, RowTypes
  <2>3. tokens[n].replacedBy # 0 => tokens[n].replacedBy \in Token
    BY <2>2, BoundsAssumption DEF TokenRowInv, Given, Token
  <2> QED BY <2>2, <2>3 DEF TokenRowInv, SessionOf, Given
<1>2. RowInv'
  BY <1>1 DEF IInv, RowInv, RowTypes
<1>3. ASSUME refresh' = refresh PROVE RequestsInv'
  BY <1>3, RequestsKept DEF RequestsInv, RequestInv, IInv
<1> QED BY <1>2, <1>3 DEF Given

\* A session is revoked, and whoever has looked at it overlaps that.
LEMMA RevokeMakes ==
    ASSUME IInv, NEW s \in Session, s <= opened,
           NEW why \in {"logout", "reuse", "elsewhere"}, Revoke(s, why)
    PROVE  /\ sessions' \in [Session -> SessionRow]
           /\ \A z \in Session : z > opened => ~sessions'[z].revoked /\ ~sessions'[z].open
           /\ overlapped \subseteq overlapped' /\ overlapped' \subseteq Session
           /\ \A z \in Session : sessions'[z].revoked =>
                sessions[z].revoked \/ z \in overlapped'
                  \/ \A q \in Tabs \X Slot : ~HasLooked(q, z)
<1>1. sessions[s] \in SessionRow /\ opened \in Nat /\ sessions \in [Session -> SessionRow]
  BY DEF IInv, RowInv, RowTypes
<1>2. Revoked(s, why) \in SessionRow
  BY <1>1 DEF Revoked, SessionRow
<1>3. sessions' \in [Session -> SessionRow]
      /\ \A z \in Session : z # s => sessions'[z] = sessions[z]
  BY <1>1, <1>2 DEF Revoke
<1>4. overlapped \subseteq overlapped' /\ overlapped' \subseteq Session
  BY DEF Revoke, IInv, CountInv, CountsFit
<1>5. \A q \in Tabs \X Slot : HasLooked(q, s) => s \in overlapped'
  BY DEF Revoke
<1>6. \A z \in Session : z > opened => z # s
  BY <1>1, BoundsAssumption DEF Session
<1> QED BY <1>3, <1>4, <1>5, <1>6 DEF IInv, RowInv

LEMMA SessionExpiresSafe == ASSUME IInv, NEW s \in Session, SessionExpires(s) PROVE IInv'
<1>1. UNCHANGED <<losses, tabVars, refresh, tokens, stale, issued, opened, overlapped, late>>
  BY DEF SessionExpires, history
<1>2. /\ sessions' \in [Session -> SessionRow]
      /\ \A z \in Session : /\ sessions'[z].revoked = sessions[z].revoked
                            /\ sessions'[z].open = sessions[z].open
  BY DEF SessionExpires, IInv, RowInv, RowTypes, SessionRow
<1>3. RowsGrow
  BY <1>1, <1>2 DEF RowsGrow, IInv, RowInv, RowTypes
<1>4. RowInv' /\ RequestsInv' /\ Given' = Given
  BY <1>1, <1>2, <1>3, SessionStep DEF IInv, RowInv, RowTypes
<1>5. CountInv'
  BY <1>1, BoundsAssumption DEF SessionExpires, Trouble, IInv, CountInv, CountsFit
<1> QED BY <1>1, <1>4, <1>5 DEF IInv, ClientInv, tabVars, GivenPair, GivenLeave

LEMMA RevokedElsewhereSafe == ASSUME IInv, NEW s \in Session, RevokedElsewhere(s) PROVE IInv'
<1>1. UNCHANGED <<losses, tabVars, refresh, tokens, stale, issued, opened, late>>
      /\ Revoke(s, "elsewhere")
  BY DEF RevokedElsewhere
<1>2. s <= opened
  BY BoundsAssumption DEF RevokedElsewhere, IInv, RowInv, RowTypes, Session
<1>3. RowsGrow
  BY <1>1, <1>2, RevokeMakes DEF RowsGrow, IInv, RowInv, RowTypes
<1>4. RowInv' /\ RequestsInv' /\ Given' = Given
  BY <1>1, <1>2, <1>3, RevokeMakes, SessionStep DEF IInv, RowInv, RowTypes
<1>5. CountInv'
  <2>1. overlapped' \subseteq Session
    BY <1>1, <1>2, RevokeMakes
  <2> QED BY <1>1, <2>1, BoundsAssumption DEF RevokedElsewhere, Trouble, IInv, CountInv, CountsFit
<1> QED BY <1>1, <1>4, <1>5 DEF IInv, ClientInv, tabVars, GivenPair, GivenLeave

\* EndSession: the session of the access token is revoked, or nothing is.
LEMMA EndSessionMakes ==
    ASSUME IInv, NEW t \in Tabs,
           EndSession(t) \/ UNCHANGED <<sessions, overlapped>>,
           UNCHANGED <<refresh, tokens, issued, opened, stale>>
    PROVE  RowInv' /\ RequestsInv' /\ Given' = Given /\ overlapped' \subseteq Session
<1> DEFINE n == leaving[t].access
           s == SessionOf(n)
<1>1. CASE UNCHANGED <<sessions, overlapped>>
  <2>1. RowsGrow
    BY <1>1 DEF RowsGrow, IInv, RowInv, RowTypes
  <2> QED BY <1>1, <2>1, SessionStep DEF IInv, RowInv, RowTypes, CountInv, CountsFit
<1>2. CASE Authenticates(n) /\ Revoke(s, "logout")
  <2>1. n \in Given /\ n # 0
    BY <1>2 DEF Authenticates, IInv, ClientInv, GivenLeave
  <2>2. n \in Token /\ n <= issued
    BY <2>1, BoundsAssumption DEF Given, Token, IInv, RowInv, RowTypes
  <2>3. s \in Session /\ s <= opened
    BY <2>2, BoundsAssumption DEF IInv, RowInv, RowTypes, TokenRowInv, Session
  <2>4. RowsGrow
    BY <1>2, <2>3, RevokeMakes DEF RowsGrow, IInv, RowInv, RowTypes
  <2> QED BY <1>2, <2>3, <2>4, RevokeMakes, SessionStep DEF IInv, RowInv, RowTypes
<1> QED BY <1>1, <1>2 DEF EndSession
LEMMA LoggedOutSafe == ASSUME IInv, NEW t \in Tabs, LoggedOut(t) PROVE IInv'
<1>1. /\ EndSession(t) /\ ClearTokens(t) /\ cookie' = 0
      /\ UNCHANGED <<waiting, refresh, tokens, issued, opened, stale, counts, late>>
  BY DEF LoggedOut
<1>2. RowInv' /\ RequestsInv' /\ Given' = Given /\ overlapped' \subseteq Session
  BY <1>1, EndSessionMakes
<1>3. NoPair \in GivenPair /\ NoLeave \in GivenLeave /\ 0 \in Given
  BY DEF NoPair, NoLeave, GivenPair, GivenLeave, Given, IInv, RowInv, RowTypes
<1>4. ClientInv'
  BY <1>1, <1>2, <1>3 DEF LoggedOut, ClearTokens, IInv, ClientInv, GivenPair, GivenLeave
<1> QED BY <1>1, <1>2, <1>4 DEF IInv, CountInv, CountsFit, counts

LEMMA LogoutLostSafe == ASSUME IInv, NEW t \in Tabs, LogoutLost(t) PROVE IInv'
<1>1. /\ EndSession(t) \/ UNCHANGED <<sessions, overlapped>>
      /\ ClearTokens(t)
      /\ UNCHANGED <<ui, cookie, waiting, refresh, tokens, issued, opened, stale, lapses, late>>
  BY DEF LogoutLost
<1>2. RowInv' /\ RequestsInv' /\ Given' = Given /\ overlapped' \subseteq Session
  BY <1>1, EndSessionMakes
<1>3. NoPair \in GivenPair /\ NoLeave \in GivenLeave
  BY DEF NoPair, NoLeave, GivenPair, GivenLeave, Given, IInv, RowInv, RowTypes
<1>4. ClientInv'
  BY <1>1, <1>2, <1>3 DEF ClearTokens, IInv, ClientInv, GivenPair, GivenLeave
<1>5. CountInv'
  BY <1>1, <1>2, BoundsAssumption DEF LogoutLost, Trouble, IInv, CountInv, CountsFit
<1> QED BY <1>2, <1>4, <1>5 DEF IInv

\* What a look is about: a token issued, and its session.
LEMMA LookKnows ==
    ASSUME IInv, NEW q \in Tabs \X Slot, refresh[q].at = "look"
    PROVE  LET n == refresh[q].token
           IN /\ RequestInv(refresh[q]) /\ n \in Token /\ n <= issued
              /\ SessionOf(n) \in Session /\ SessionOf(n) <= opened
<1> DEFINE n == refresh[q].token
<1>1. RequestInv(refresh[q])
  BY DEF IInv, RequestsInv
<1>2. n \in 0..issued /\ n # 0
  BY <1>1 DEF RequestInv, RequestFits
<1>3. n \in Token /\ n <= issued
  BY <1>2, BoundsAssumption DEF Token, IInv, RowInv, RowTypes
<1> QED BY <1>1, <1>3, BoundsAssumption DEF IInv, RowInv, RowTypes, TokenRowInv, Session

\* A look that revokes the family and refuses.
LEMMA FamilyRevokedSafe ==
    ASSUME IInv, NEW q \in Tabs \X Slot, refresh[q].at = "look",
           RevokeFamily(SessionOf(refresh[q].token)), refresh' = Answer(q, "no", 0),
           UNCHANGED <<tabVars, stale, issued, opened>>, CountsFit'
    PROVE  IInv'
<1> DEFINE r == refresh[q]
           n == r.token
           s == SessionOf(n)
<1>2. RequestInv(r) /\ n \in Token /\ n <= issued /\ s \in Session /\ s <= opened
  BY LookKnows
<1>3. /\ Revoke(s, "reuse")
      /\ tokens' = [m \in Token |-> IF SessionOf(m) = s THEN [tokens[m] EXCEPT !.revoked = TRUE]
                                     ELSE tokens[m]]
  BY DEF RevokeFamily
<1>4. /\ tokens' \in [Token -> TokenRow]
      /\ \A m \in Token : /\ tokens'[m].session = tokens[m].session
                           /\ tokens'[m].replacedBy = tokens[m].replacedBy
  BY <1>3 DEF IInv, RowInv, RowTypes, TokenRow
<1>5. RowsGrow
  <2>1. \A m \in 1..issued : m \in Token
    BY BoundsAssumption DEF Token, IInv, RowInv, RowTypes
  <2> QED BY <1>2, <1>3, <1>4, <2>1, RevokeMakes DEF RowsGrow, IInv, RowInv, RowTypes
<1>6. RowInv' /\ Given' = Given /\ overlapped' \subseteq Session
  BY <1>2, <1>3, <1>4, <1>5, RevokeMakes, SessionStep
<1>7. RequestsInv'
  <2>1. ASSUME NEW p \in Tabs \X Slot
        PROVE  RequestFits(refresh'[p], tokens', sessions', issued', overlapped')
    <3>1. RequestFits(refresh[p], tokens', sessions', issued', overlapped')
      BY <1>5, RequestsKept
    <3>2. r.via \in {"body", "cookie"} /\ issued' \in Nat /\ 0 \in 0..issued'
      BY <1>2, <1>5 DEF RequestInv, RequestFits, RowsGrow
    <3>3. RequestFits(Answered(r.via, "no", 0), tokens', sessions', issued', overlapped')
      BY <3>2, AnswerFits
    <3>4. RequestFits(NoRequest, tokens', sessions', issued', overlapped')
      BY <3>2 DEF RequestFits, NoRequest
    <3> QED BY <3>1, <3>3, <3>4 DEF Answer, IInv, RequestsInv
  <2> QED BY <2>1 DEF RequestsInv, RequestInv, Answer, IInv
<1> QED BY <1>6, <1>7 DEF IInv, CountInv, CountsFit, ClientInv, tabVars, GivenPair, GivenLeave

\* A look that changes no row: the refresh is refused, or goes on.
LEMMA LookOnlySafe ==
    ASSUME IInv, NEW q \in Tabs \X Slot, refresh[q].at = "look", UNCHANGED Rows,
           \/ refresh' = Answer(q, "no", 0)
           \/ /\ ~Over(SessionOf(refresh[q].token))
              /\ refresh' = [refresh EXCEPT ![q].at = "read"],
           UNCHANGED <<tabVars, stale>>, CountsFit'
    PROVE  IInv'
<1> DEFINE r == refresh[q]
           s == SessionOf(r.token)
<1>1. ASSUME ~Over(s) PROVE RequestInv([r EXCEPT !.at = "read"])
  <2>1. ~sessions[s].revoked
    BY <1>1 DEF Over
  <2> QED BY <2>1, LookKnows DEF RequestInv, RequestFits, SessionOf
<1>2. \A p \in Tabs \X Slot : RequestInv(refresh'[p])
  BY <1>1, RefusalFits, NewRequests DEF Answer, IInv, RequestsInv
<1>3. RowInv' /\ RequestsInv' /\ Given' = Given
  <2>1. refresh' = [p \in Tabs \X Slot |-> refresh'[p]]
    BY DEF Answer, IInv, RequestsInv
  <2> QED BY <1>2, <2>1, BrowserStep DEF IInv, RowInv, RowTypes, Rows
<1> QED BY <1>3 DEF IInv, CountInv, CountsFit, ClientInv, tabVars, Rows, GivenPair, GivenLeave

LEMMA LookSafe == ASSUME IInv, NEW q \in Tabs \X Slot, Look(q) PROVE IInv'
<1>1. UNCHANGED <<tabVars, stale, issued, opened, counts>> /\ refresh[q].at = "look"
  BY DEF Look
<1>2. CountsFit'
  <2>1. late \in BOOLEAN /\ late' = (late \/ q[2] = "gone")
    BY DEF Look, IInv, CountInv, CountsFit
  <2>2. late' \in BOOLEAN
    BY <2>1
  <2> QED BY <1>1, <2>2 DEF IInv, CountInv, CountsFit, counts
<1>3. CASE WorksOn(refresh[q].token) = 0
  BY <1>1, <1>2, <1>3, FamilyRevokedSafe DEF Look
<1>4. CASE WorksOn(refresh[q].token) # 0
  BY <1>1, <1>2, <1>4, LookOnlySafe DEF Look, Rows
<1> QED BY <1>3, <1>4

LEMMA LookFailsSafe == ASSUME IInv, NEW q \in Tabs \X Slot, LookFails(q) PROVE IInv'
<1>1. UNCHANGED <<tabVars, stale, issued, opened>> /\ refresh[q].at = "look"
      /\ refresh' = Answer(q, "no", 0)
  BY DEF LookFails
<1>2. CountsFit'
  <2>1. late \in BOOLEAN /\ late' = (late \/ q[2] = "gone")
    BY DEF LookFails, IInv, CountInv, CountsFit
  <2>2. late' \in BOOLEAN
    BY <2>1
  <2>3. losses' \in 0..MaxTroubles /\ lapses' \in 0..MaxTroubles
    BY BoundsAssumption DEF LookFails, Trouble, IInv, CountInv, CountsFit
  <2> QED BY <2>2, <2>3 DEF CountsFit
<1>3. CASE UNCHANGED <<tokens, sessions, overlapped>>
  BY <1>1, <1>2, <1>3, LookOnlySafe DEF Rows
<1>4. CASE RevokeFamily(SessionOf(refresh[q].token))
  BY <1>1, <1>2, <1>4, FamilyRevokedSafe
<1> QED BY <1>3, <1>4 DEF LookFails
-----------------------------------------------------------------------------
(* Steps that issue a token. *)

\* What the commit of a refresh is about: one session, known to both its tokens.
LEMMA CommitKnows ==
    ASSUME IInv, NEW q \in Tabs \X Slot, refresh[q].at = "commit"
    PROVE  LET row == refresh[q].row
               s == SessionOf(row)
           IN /\ row \in Token /\ row <= issued /\ s \in Session /\ s <= opened
              /\ HasLooked(q, s) /\ (sessions[s].revoked => s \in overlapped)
<1> DEFINE r == refresh[q]
<1>1. RequestFits(r, tokens, sessions, issued, overlapped)
  BY DEF IInv, RequestsInv, RequestInv
<1>2. /\ r.row \in 1..issued /\ tokens[r.row].session = tokens[r.token].session
      /\ sessions[tokens[r.token].session].revoked => tokens[r.token].session \in overlapped
  BY <1>1 DEF RequestFits
<1>3. r.row \in Token /\ r.row <= issued
  BY <1>2, BoundsAssumption DEF Token, IInv, RowInv, RowTypes
<1>4. SessionOf(r.row) \in Session /\ SessionOf(r.row) <= opened
  BY <1>3, BoundsAssumption DEF IInv, RowInv, RowTypes, TokenRowInv, Session
<1> QED BY <1>2, <1>3, <1>4 DEF HasLooked, SessionOf

LEMMA CommitSafe == ASSUME IInv, NEW q \in Tabs \X Slot, Commit(q) PROVE IInv'
<1> DEFINE r == refresh[q]
           row == r.row
           s == SessionOf(row)
<1>1. /\ r.at = "commit" /\ issued < MaxTokens /\ issued' = issued + 1
      /\ tokens' = [tokens EXCEPT ![row] = Spent(r, issued'), ![issued'] = FreshToken(s)]
      /\ sessions' = [sessions EXCEPT ![s] = Saved(@)]
      /\ refresh' = Answer(q, "ok", issued')
      /\ UNCHANGED <<tabVars, stale, opened, counts, overlapped, late>>
  BY DEF Commit
<1>2. row \in Token /\ row <= issued /\ s \in Session /\ s <= opened
  BY <1>1, CommitKnows
<1>3. issued \in Nat /\ issued' \in Token /\ row # issued' /\ issued' \in 0..MaxTokens
  BY <1>1, <1>2, BoundsAssumption DEF Token, IInv, RowInv, RowTypes
<1>4. /\ tokens' \in [Token -> TokenRow]
      /\ tokens'[row] = Spent(r, issued') /\ tokens'[issued'] = FreshToken(s)
      /\ \A n \in Token \ {row, issued'} : tokens'[n] = tokens[n]
  <2>1. tokens \in [Token -> TokenRow] /\ r.rowRevoked \in BOOLEAN
    BY DEF IInv, RowInv, RowTypes, RequestsInv, RequestInv, RequestFits
  <2>2. Spent(r, issued') \in TokenRow /\ FreshToken(s) \in TokenRow
    BY <1>2, <1>3, <2>1 DEF Spent, FreshToken, TokenRow, OrNull
  <2> QED BY <1>1, <1>2, <1>3, <2>1, <2>2
<1>5. /\ sessions' \in [Session -> SessionRow]
      /\ \A z \in Session : /\ sessions'[z].revoked => sessions[z].revoked
                            /\ sessions'[z].open = sessions[z].open
  <2>1. sessions \in [Session -> SessionRow] /\ sessions[s] \in SessionRow
    BY <1>2 DEF IInv, RowInv, RowTypes
  <2>2. Saved(sessions[s]) \in SessionRow /\ ~Saved(sessions[s]).revoked
        /\ Saved(sessions[s]).open = sessions[s].open
    BY <2>1 DEF Saved, SessionRow
  <2> QED BY <1>1, <2>1, <2>2
<1>6. \A n \in Token : n <= issued => tokens'[n].session = tokens[n].session
  <2>1. tokens'[row].session = tokens[row].session
    BY <1>4 DEF Spent, SessionOf
  <2>2. ASSUME NEW n \in Token, n <= issued PROVE n # issued'
    BY <1>1, <1>3, <2>2 DEF Token
  <2> QED BY <1>4, <2>1, <2>2
<1>7. RowsGrow
  <2>1. \A n \in 1..issued : n \in Token /\ n <= issued
    BY <1>1, <1>3, BoundsAssumption DEF Token
  <2>2. issued' \in Nat /\ issued <= issued'
    BY <1>1, <1>3
  <2>3. \A n \in 1..issued : tokens'[n].session = tokens[n].session
    BY <1>6, <2>1
  <2>4. overlapped \subseteq overlapped'
    BY <1>1
  <2> QED BY <1>5, <2>2, <2>3, <2>4 DEF RowsGrow
<1>8. \A n \in Token : TokenRowInv(n)'
  <2>1. SUFFICES ASSUME NEW n \in Token PROVE TokenRowInv(n)'
    OBVIOUS
  <2>2. CASE n = row
    BY <1>1, <1>2, <1>3, <1>4, <2>2
       DEF TokenRowInv, SessionOf, Spent, FreshToken, Given, IInv, RowInv, RowTypes
  <2>3. CASE n = issued'
    BY <1>1, <1>2, <1>3, <1>4, <2>3, BoundsAssumption
       DEF TokenRowInv, SessionOf, FreshToken, Given, Session
  <2>4. CASE n \notin {row, issued'}
    <3>1. TokenRowInv(n) /\ tokens'[n] = tokens[n]
      BY <1>4, <2>4 DEF IInv, RowInv
    <3>2. n <= issued' => n <= issued
      BY <1>1, <1>3, <2>4 DEF Token
    <3>3. tokens[n].replacedBy # 0 =>
            tokens'[tokens[n].replacedBy].session = tokens[tokens[n].replacedBy].session
      <4>1. tokens[n].replacedBy # 0 =>
              tokens[n].replacedBy \in Token /\ tokens[n].replacedBy <= issued
        BY <1>1, <1>3, <3>1, BoundsAssumption DEF TokenRowInv, Given, Token
      <4> QED BY <1>6, <4>1
    <3> QED BY <1>1, <1>3, <3>1, <3>2, <3>3 DEF TokenRowInv, SessionOf, Given
  <2> QED BY <2>2, <2>3, <2>4
<1>9. RowInv'
  <2>1. ASSUME NEW z \in Session, z > opened'
        PROVE  ~sessions'[z].revoked /\ ~sessions'[z].open
    <3>1. ~sessions[z].revoked /\ ~sessions[z].open
      <4>1. z > opened
        BY <1>1, <2>1
      <4> QED BY <4>1 DEF IInv, RowInv
    <3> QED BY <1>5, <3>1
  <2>2. RowTypes'
    BY <1>1, <1>3, <1>4, <1>5 DEF IInv, RowInv, RowTypes
  <2> QED BY <1>8, <2>1, <2>2 DEF RowInv
<1>10. RequestsInv'
  <2>1. r.via \in {"body", "cookie"} /\ issued' \in Nat /\ 0 \in 0..issued' /\ issued' \in 0..issued'
    BY <1>3, <1>7 DEF IInv, RequestsInv, RequestInv, RequestFits, RowsGrow
  <2>2. RequestFits(Answered(r.via, "ok", issued'), tokens', sessions', issued', overlapped')
    BY <2>1, AnswerFits
  <2>3. RequestFits(NoRequest, tokens', sessions', issued', overlapped')
    BY <2>1 DEF RequestFits, NoRequest
  <2>4. ASSUME NEW p \in Tabs \X Slot
        PROVE  RequestFits(refresh'[p], tokens', sessions', issued', overlapped')
    <3>1. RequestFits(refresh[p], tokens', sessions', issued', overlapped')
      BY <1>7, RequestsKept
    <3> QED BY <1>1, <2>2, <2>3, <3>1 DEF Answer, IInv, RequestsInv
  <2> QED BY <1>1, <2>4 DEF RequestsInv, RequestInv, Answer, IInv
<1>11. ClientInv'
  BY <1>1, <1>3, ClientKept DEF IInv, ClientInv, tabVars
<1> QED BY <1>1, <1>9, <1>10, <1>11 DEF IInv, CountInv, CountsFit, counts

LEMMA LoginSafe == ASSUME IInv, NEW t \in Tabs, Login(t) PROVE IInv'
<1>1. /\ opened < MaxSessions /\ issued < MaxTokens
      /\ opened' = opened + 1 /\ issued' = issued + 1
      /\ sessions' = [sessions EXCEPT ![opened'] = [NoSession EXCEPT !.open = TRUE]]
      /\ tokens' = [tokens EXCEPT ![issued'] = FreshToken(opened')]
      /\ storage' = PairOf(issued') /\ cookie' = issued'
      /\ StartPage(t, issued')
      /\ UNCHANGED <<stale, counts, overlapped, late>>
  BY DEF Login, history
<1>2. /\ issued \in Nat /\ issued' \in Token /\ issued' \in 0..MaxTokens
      /\ opened \in Nat /\ opened' \in Session /\ opened' \in 0..MaxSessions
  BY <1>1, BoundsAssumption DEF Token, Session, IInv, RowInv, RowTypes
<1>3. /\ tokens' \in [Token -> TokenRow] /\ tokens'[issued'] = FreshToken(opened')
      /\ \A n \in Token \ {issued'} : tokens'[n] = tokens[n]
  <2>1. FreshToken(opened') \in TokenRow
    BY <1>2 DEF FreshToken, TokenRow, OrNull
  <2> QED BY <1>1, <1>2, <2>1 DEF IInv, RowInv, RowTypes
<1>4. /\ sessions' \in [Session -> SessionRow] /\ ~sessions'[opened'].revoked
      /\ \A z \in Session \ {opened'} : sessions'[z] = sessions[z]
  <2>1. [NoSession EXCEPT !.open = TRUE] \in SessionRow
        /\ ~[NoSession EXCEPT !.open = TRUE].revoked
    BY DEF NoSession, SessionRow
  <2> QED BY <1>1, <1>2, <2>1 DEF IInv, RowInv, RowTypes
<1>5. RowsGrow
  <2>1. \A n \in 1..issued : n \in Token \ {issued'}
    BY <1>1, <1>2, BoundsAssumption DEF Token
  <2> QED BY <1>1, <1>2, <1>3, <1>4, <2>1 DEF RowsGrow
<1>6. \A n \in Token : TokenRowInv(n)'
  <2>1. SUFFICES ASSUME NEW n \in Token PROVE TokenRowInv(n)'
    OBVIOUS
  <2>2. CASE n = issued'
    BY <1>1, <1>2, <1>3, <2>2 DEF TokenRowInv, SessionOf, FreshToken, Given
  <2>3. CASE n # issued'
    <3>1. TokenRowInv(n) /\ tokens'[n] = tokens[n]
      BY <1>3, <2>3 DEF IInv, RowInv
    <3>2. n <= issued' => n <= issued
      BY <1>1, <1>2, <2>3 DEF Token
    <3>3. tokens[n].replacedBy # 0 => tokens[n].replacedBy \in Token \ {issued'}
      BY <1>1, <1>2, <3>1, BoundsAssumption DEF TokenRowInv, Given, Token
    <3> QED BY <1>1, <1>2, <1>3, <3>1, <3>2, <3>3 DEF TokenRowInv, SessionOf, Given
  <2> QED BY <2>2, <2>3
<1>7. RowInv'
  <2>1. \A z \in Session : z > opened' => z # opened' /\ z > opened
    BY <1>1, <1>2, BoundsAssumption DEF Session
  <2> QED BY <1>1, <1>2, <1>3, <1>4, <1>6, <2>1 DEF IInv, RowInv, RowTypes
<1>8. RequestsInv'
  <2>1. FirstTry(0, issued') = Sent("body", issued') /\ issued' # 0
    BY <1>1, <1>2 DEF FirstTry
  <2>2. RequestFits(Sent("body", issued'), tokens', sessions', issued', overlapped')
    BY <1>1, <1>2 DEF RequestFits, Sent
  <2>3. ASSUME NEW q \in Tabs \X Slot
        PROVE  RequestFits(refresh'[q], tokens', sessions', issued', overlapped')
    <3>1. refresh'[q] \in {refresh[q], refresh[<<t, "page">>], FirstTry(0, issued')}
      BY <1>1, StartPageMakes
    <3>2. /\ RequestFits(refresh[q], tokens', sessions', issued', overlapped')
          /\ RequestFits(refresh[<<t, "page">>], tokens', sessions', issued', overlapped')
      BY <1>5, RequestsKept, Slots
    <3> QED BY <2>1, <2>2, <3>1, <3>2
  <2>4. refresh' = [q \in Tabs \X Slot |-> refresh'[q]]
    BY <1>1, StartPageMakes
  <2> QED BY <2>3, <2>4 DEF RequestsInv, RequestInv
<1>9. ClientInv'
  <2>1. /\ ui' \in [Tabs -> {"closed", "loading", "authenticated", "unauthenticated"}]
        /\ mem' \in [Tabs -> GivenPair] /\ waiting' \in [Tabs -> BOOLEAN]
        /\ leaving' \in [Tabs -> GivenLeave]
    BY <1>1, StartPageMakes
  <2>2. \A n \in Given : n \in Given'
    BY <1>1, <1>2 DEF Given
  <2>3. mem' \in [Tabs -> GivenPair'] /\ leaving' \in [Tabs -> GivenLeave']
    BY <2>1, <2>2 DEF GivenPair, GivenLeave
  <2>4. storage' \in GivenPair' /\ cookie' \in Given'
    BY <1>1, <1>2 DEF PairOf, GivenPair, Given
  <2> QED BY <2>1, <2>3, <2>4 DEF ClientInv
<1> QED BY <1>1, <1>7, <1>8, <1>9 DEF IInv, CountInv, CountsFit, counts
-----------------------------------------------------------------------------
(* The theorems. *)

LEMMA Initially == ASSUME Init PROVE IInv
<1>1. 0 \in Given /\ NoPair \in GivenPair /\ NoLeave \in GivenLeave
  BY DEF Init, Given, GivenPair, GivenLeave, NoPair, NoLeave
<1>2. ClientInv
  BY <1>1 DEF Init, ClientInv
<1>3. RowInv
  <2>1. NoToken \in TokenRow /\ NoSession \in SessionRow
    BY DEF NoToken, TokenRow, OrNull, NoSession, SessionRow
  <2>2. RowTypes
    BY <2>1, BoundsAssumption DEF Init, RowTypes
  <2>3. \A n \in Token : n > issued
    BY BoundsAssumption DEF Init, Token
  <2>4. \A n \in Token : TokenRowInv(n)
    BY <1>1, <2>3 DEF Init, TokenRowInv, NoToken, Token
  <2> QED BY <2>2, <2>4 DEF Init, RowInv, NoSession
<1>4. RequestsInv
  BY DEF Init, RequestsInv, RequestInv, RequestFits, NoRequest
<1>5. CountInv
  <2>1. losses = 0 /\ lapses = 0 /\ overlapped = {} /\ late = FALSE
    BY DEF Init
  <2>2. 0 \in 0..MaxTroubles
    BY BoundsAssumption
  <2> QED BY <2>1, <2>2 DEF CountInv, CountsFit
<1> QED BY <1>2, <1>3, <1>4, <1>5 DEF IInv

LEMMA Inductive == ASSUME IInv, [Next]_vars PROVE IInv'
<1>1. ASSUME NEW q \in Tabs \X Slot, ServerStep(q) PROVE IInv'
  BY <1>1, LookSafe, LookFailsSafe, TxReadSafe, CommitSafe, CommitFailsSafe DEF ServerStep
<1>2. ASSUME NEW t \in Tabs, AnswerStep(t) PROVE IInv'
  BY <1>2, RefreshedSafe, RefusedSafe DEF AnswerStep
<1>3. ASSUME NEW t \in Tabs, TabStep(t) PROVE IInv'
  BY <1>3, LoadSafe, LoginSafe, RefreshLostSafe, Refused401Safe, LogoutSentSafe,
     LoggedOutSafe, LogoutLostSafe DEF TabStep
<1>4. ASSUME WorldStep PROVE IInv'
  BY <1>4, AccessExpiresSafe, SessionExpiresSafe, RevokedElsewhereSafe DEF WorldStep
<1>5. CASE UNCHANGED vars
  BY <1>5 DEF vars, IInv, ClientInv, RowInv, RowTypes, TokenRowInv, SessionOf, RequestsInv,
              RequestInv, CountInv, CountsFit, Given, GivenPair, GivenLeave
<1> QED BY <1>1, <1>2, <1>3, <1>4, <1>5 DEF Next

LEMMA Invariant == Spec => []IInv
BY Initially, Inductive, PTL DEF Spec

\* In every reachable state the tabs, the storage and the rows hold what they are
\* declared to hold, for any number of tabs, tokens and sessions.
THEOREM TypeCorrect == Spec => []TypeOK
<1>1. ASSUME IInv PROVE TypeOK
  <2>1. \A n \in Given : n \in OrNull(Token)
    BY <1>1, BoundsAssumption DEF Given, OrNull, Token, IInv, RowInv, RowTypes
  <2>2. /\ mem \in [Tabs -> Pair] /\ storage \in Pair /\ cookie \in OrNull(Token)
        /\ leaving \in [Tabs -> LeaveState]
    BY <1>1, <2>1 DEF IInv, ClientInv, GivenPair, GivenLeave, Pair, LeaveState
  <2>3. refresh \in [Tabs \X Slot -> Request]
    <3>1. ASSUME NEW q \in Tabs \X Slot PROVE refresh[q] \in Request
      BY <1>1, <2>1 DEF IInv, RequestsInv, RequestInv, RequestFits, Request, Given
    <3> QED BY <1>1, <3>1 DEF IInv, RequestsInv
  <2>4. \A q \in Tabs \X Slot :
          refresh[q].at \in {"look", "read", "commit"} => refresh[q].token # 0
    BY <1>1 DEF IInv, RequestsInv, RequestInv, RequestFits
  <2> QED BY <1>1, <2>2, <2>3, <2>4 DEF TypeOK, IInv, ClientInv, RowInv, RowTypes, CountInv, CountsFit
<1> QED BY <1>1, Invariant, PTL

\* A session once revoked stays revoked unless a refresh had looked at it before: no
\* number of tabs, reloads and lost answers opens another way back
\* (auth_service.go:231-358).
THEOREM RevivalNeedsOverlap == Spec => RevivedOnlyByOverlap
<1> DEFINE Stays(s) == sessions[s].revoked /\ ~sessions'[s].revoked => s \in overlapped
<1>1. ASSUME IInv, [Next]_vars, NEW s \in Session PROVE Stays(s)
  <2>1. ASSUME NEW z, NEW why, Revoke(z, why) PROVE Stays(s)
    BY <1>1, <2>1 DEF Revoke, Revoked, IInv, RowInv, RowTypes, SessionRow
  <2>2. ASSUME NEW q \in Tabs \X Slot, ServerStep(q) PROVE Stays(s)
    <3>1. CASE Look(q) \/ LookFails(q)
      BY <2>1, <3>1 DEF Look, LookFails, RevokeFamily
    <3>2. CASE TxRead(q) \/ CommitFails(q)
      BY <3>2 DEF TxRead, CommitFails, rowVars
    <3>3. CASE Commit(q)
      <4>1. refresh[q].at = "commit"
            /\ sessions' = [sessions EXCEPT ![SessionOf(refresh[q].row)] = Saved(@)]
        BY <3>3 DEF Commit
      <4>2. CASE s = SessionOf(refresh[q].row)
        BY <1>1, <4>1, <4>2, CommitKnows
      <4>3. CASE s # SessionOf(refresh[q].row)
        BY <1>1, <4>1, <4>3 DEF IInv, RowInv, RowTypes
      <4> QED BY <4>2, <4>3
    <3> QED BY <2>2, <3>1, <3>2, <3>3 DEF ServerStep
  <2>3. ASSUME NEW t \in Tabs, AnswerStep(t) PROVE Stays(s)
    BY <2>3 DEF AnswerStep, Refreshed, Refused, rowVars
  <2>4. ASSUME NEW t \in Tabs, TabStep(t) PROVE Stays(s)
    <3>1. CASE Load(t) \/ RefreshLost(t) \/ Refused401(t) \/ LogoutSent(t)
      BY <3>1 DEF Load, RefreshLost, Refused401, LogoutSent, rowVars
    <3>2. CASE Login(t)
      <4>1. opened' = opened + 1
            /\ sessions' = [sessions EXCEPT ![opened'] = [NoSession EXCEPT !.open = TRUE]]
        BY <3>2 DEF Login
      <4>2. CASE s = opened'
        BY <1>1, <4>1, <4>2 DEF IInv, RowInv, RowTypes
      <4>3. CASE s # opened'
        BY <1>1, <4>1, <4>3 DEF IInv, RowInv, RowTypes
      <4> QED BY <4>2, <4>3
    <3>3. CASE LoggedOut(t) \/ LogoutLost(t)
      BY <2>1, <3>3 DEF LoggedOut, LogoutLost, EndSession
    <3> QED BY <2>4, <3>1, <3>2, <3>3 DEF TabStep
  <2>5. ASSUME WorldStep PROVE Stays(s)
    <3>1. CASE AccessExpires
      BY <3>1 DEF AccessExpires, rowVars
    <3>2. ASSUME NEW z \in Session, SessionExpires(z) PROVE Stays(s)
      BY <1>1, <3>2 DEF SessionExpires, IInv, RowInv, RowTypes, SessionRow
    <3>3. ASSUME NEW z \in Session, RevokedElsewhere(z) PROVE Stays(s)
      BY <2>1, <3>3 DEF RevokedElsewhere
    <3> QED BY <2>5, <3>1, <3>2, <3>3 DEF WorldStep
  <2>6. CASE UNCHANGED vars
    BY <2>6 DEF vars
  <2> QED BY <1>1, <2>2, <2>3, <2>4, <2>5, <2>6 DEF Next
<1>2. ASSUME IInv, [Next]_vars
      PROVE  [\A s \in Session : sessions[s].revoked /\ ~sessions'[s].revoked
                => s \in overlapped]_vars
  BY <1>1, <1>2
<1> QED BY <1>2, Invariant, PTL DEF Spec, RevivedOnlyByOverlap

-----------------------------------------------------------------------------
(***************************************************************************)
(* One loss is forgiven.  With one tab open the invariant follows the      *)
(* tokens that the tab may still present (Live) and those it would fall    *)
(* back on (Held).  While nothing is lost they are unused and no refresh   *)
(* of a page gone can rotate in their family; a loss may cost one          *)
(* rotation, after which each is unused or has an unused replacement.  So  *)
(* the look of a refresh finds no token to work on only where the session  *)
(* has expired (TheftMeansExpired).                                        *)
(***************************************************************************)

IsOpen(t) == ui[t] # "closed"
Alone == \A t, u \in Tabs : IsOpen(t) /\ IsOpen(u) => t = u
Forgiving == losses <= 1 /\ ~late /\ Alone

\* A tab that was never opened has asked for nothing, and a browser with no tab
\* open holds no token.
ClosedInv ==
    /\ \A t \in Tabs : ~IsOpen(t) =>
          /\ refresh[<<t, "page">>].at = "none" /\ refresh[<<t, "gone">>].at = "none"
          /\ leaving[t].at = "none"
    /\ (\A t \in Tabs : ~IsOpen(t)) => storage.refresh = 0 /\ cookie = 0

\* Rows not issued yet are blank; a refresh that went well has a token to hand over.
FutureInv == \A n \in Token : n > issued => tokens[n] = NoToken
OkInv == \A t \in Tabs : refresh[<<t, "page">>].at = "ok" => refresh[<<t, "page">>].next # 0

Shape == ClosedInv /\ FutureInv /\ OkInv

\* What is revoked, or taken for stolen, belongs to a session that has expired.
RevokedInv ==
    /\ \A n \in Token : tokens[n].revoked => sessions[SessionOf(n)].expired
    /\ \A q \in Tabs \X Slot : refresh[q].at = "commit" /\ refresh[q].rowRevoked =>
          sessions[SessionOf(refresh[q].row)].expired
    /\ \A s \in Session : sessions[s].reason = "reuse" => sessions[s].expired

\* The tokens a tab may present next, and the tokens its refresh leaves it with.
Held(t) == {mem[t].refresh, storage.refresh, cookie} \ {0}
Live(t) ==
    IF refresh[<<t, "page">>].at = "ok" THEN {refresh[<<t, "page">>].next}
    ELSE Held(t) \cup (IF Busy(t) THEN {refresh[<<t, "page">>].token} ELSE {})

\* A token that works: it is unused, or its replacement is.
Good(x) == tokens[x].used => tokens[x].replacedBy # 0 /\ ~tokens[tokens[x].replacedBy].used
\* No refresh of a page gone is about to rotate in the token's family.
Clear(t, x) == ~HasLooked(<<t, "gone">>, SessionOf(x))
Strict(t, x) == ~tokens[x].used /\ Clear(t, x)
Soft(t, x) == Good(x) /\ Clear(t, x)
Weak(t, x) == Good(x) /\ (tokens[x].used => Clear(t, x))

\* One loss costs a tab one rotation: before it every token of the tab is unused,
\* but for those an answer under way replaces; after it every token still works.
TabInv(t) ==
    /\ \A x \in Live(t) : Weak(t, x)
    /\ losses = 0 => (\A x \in Live(t) : Strict(t, x)) /\ (\A x \in Held(t) : Soft(t, x))

LossInv ==
    /\ IInv /\ Shape
    /\ Forgiving => RevokedInv /\ \A t \in Tabs : IsOpen(t) => TabInv(t)

-----------------------------------------------------------------------------
LEMMA PageNotGone == \A t, u \in Tabs : <<t, "page">> # <<u, "gone">>
OBVIOUS

\* What a tab holds has been issued.
LEMMA TokensOfTab ==
    ASSUME IInv, OkInv, NEW t \in Tabs, NEW x \in Live(t) \cup Held(t)
    PROVE  x \in Token /\ x <= issued /\ SessionOf(x) \in Session
<1> DEFINE r == refresh[<<t, "page">>]
<1>1. issued \in 0..MaxTokens /\ opened \in 0..MaxSessions
  BY DEF IInv, RowInv, RowTypes
<1>2. /\ mem[t].refresh \in 0..issued /\ storage.refresh \in 0..issued /\ cookie \in 0..issued
  BY DEF IInv, ClientInv, GivenPair, Given
<1>3. /\ r.token \in 0..issued /\ r.next \in 0..issued
      /\ r.at \in {"look", "read", "commit"} => r.token # 0
  BY Slots DEF IInv, RequestsInv, RequestInv, RequestFits
<1>4. x \in 0..issued /\ x # 0
  BY <1>2, <1>3 DEF Live, Held, Busy, OkInv
<1>5. x \in Token /\ x <= issued
  BY <1>1, <1>4, BoundsAssumption DEF Token
<1>6. SessionOf(x) \in 1..opened
  BY <1>5 DEF IInv, RowInv, TokenRowInv
<1> QED BY <1>1, <1>5, <1>6, BoundsAssumption DEF Session

\* The rows keep their chains of replacement.
ChainsKept ==
    \A n \in Token : /\ tokens'[n].session = tokens[n].session
                     /\ tokens'[n].used = tokens[n].used
                     /\ tokens'[n].replacedBy = tokens[n].replacedBy

LEMMA ReplacementIsToken ==
    ASSUME IInv, NEW x \in Token, tokens[x].replacedBy # 0
    PROVE  tokens[x].replacedBy \in Token /\ tokens[x].replacedBy <= issued
<1>1. tokens[x].replacedBy \in 0..issued /\ issued \in 0..MaxTokens
  BY DEF IInv, RowInv, RowTypes, TokenRowInv, Given
<1> QED BY <1>1, BoundsAssumption DEF Token

LEMMA GoodKept ==
    ASSUME IInv, ChainsKept, NEW x \in Token, Good(x)
    PROVE  Good(x)'
BY ReplacementIsToken DEF ChainsKept, Good

\* A request of a page gone that stays where it was, or is over, or goes on with
\* the token it had.
GoneKept(t) ==
    \A s \in Session : HasLooked(<<t, "gone">>, s)' => HasLooked(<<t, "gone">>, s)

LEMMA ClearKept ==
    ASSUME ChainsKept, NEW t \in Tabs, GoneKept(t), NEW x \in Token, SessionOf(x) \in Session,
           Clear(t, x)
    PROVE  Clear(t, x)'
BY DEF ChainsKept, GoneKept, Clear, SessionOf

\* A step that takes no token up leaves the tab as safe as it was.
LEMMA TabKept ==
    ASSUME IInv, OkInv, ChainsKept, NEW t \in Tabs, GoneKept(t), TabInv(t),
           losses \in Nat, losses' \in Nat, losses <= losses',
           Live(t)' \subseteq Live(t), Held(t)' \subseteq Held(t) \cup Live(t)
    PROVE  TabInv(t)'
<1>1. ASSUME NEW x \in Live(t) \cup Held(t)
      PROVE  /\ x \in Token /\ tokens'[x].used = tokens[x].used
             /\ Good(x) => Good(x)'
             /\ Clear(t, x) => Clear(t, x)'
  BY TokensOfTab, GoodKept, ClearKept DEF ChainsKept
<1>2. ASSUME NEW x \in Live(t)' PROVE Weak(t, x)'
  BY <1>1 DEF TabInv, Weak
<1>3. ASSUME losses' = 0, NEW x \in Live(t)' PROVE Strict(t, x)'
  BY <1>1, <1>3 DEF TabInv, Strict
<1>4. ASSUME losses' = 0, NEW x \in Held(t)' PROVE Soft(t, x)'
  <2>1. losses = 0
    BY <1>4
  <2>2. CASE x \in Held(t)
    BY <1>1, <2>1, <2>2 DEF TabInv, Soft
  <2>3. CASE x \in Live(t)
    BY <1>1, <2>1, <2>3 DEF TabInv, Soft, Strict, Weak
  <2> QED BY <2>2, <2>3
<1> QED BY <1>2, <1>3, <1>4 DEF TabInv

\* The first loss: whatever the tab tries next is one of the tokens it held.
LEMMA FirstLoss ==
    ASSUME IInv, OkInv, UNCHANGED tokens, NEW t \in Tabs, TabInv(t),
           losses = 0, losses' = 1, Live(t)' \subseteq Held(t),
           GoneKept(t) \/ refresh[<<t, "page">>].at # "ok"
    PROVE  TabInv(t)'
<1>0. ChainsKept
  BY DEF ChainsKept
<1>1. ASSUME NEW x \in Live(t)' PROVE Weak(t, x)'
  <2>0. x \in Held(t) /\ Soft(t, x)
    BY DEF TabInv
  <2>1. x \in Token /\ SessionOf(x) \in Session /\ Good(x)'
    BY <1>0, <2>0, TokensOfTab, GoodKept DEF Soft
  <2>2. CASE GoneKept(t)
    BY <1>0, <2>0, <2>1, <2>2, ClearKept DEF Soft, Weak
  <2>3. CASE refresh[<<t, "page">>].at # "ok"
    <3>1. x \in Live(t)
      BY <2>0, <2>3 DEF Live
    <3> QED BY <2>1, <3>1 DEF TabInv, Strict, Weak
  <2> QED BY <2>2, <2>3
<1> QED BY <1>1 DEF TabInv

-----------------------------------------------------------------------------
(* A step of one tab. *)

\* The other tabs are as they were, and this one is open.
OneTab(t) ==
    /\ IsOpen(t)'
    /\ \A u \in Tabs \ {t} :
          /\ ui'[u] = ui[u] /\ leaving'[u] = leaving[u]
          /\ \A k \in Slot : refresh'[<<u, k>>] = refresh[<<u, k>>]
    /\ refresh'[<<t, "page">>].at = "ok" => refresh'[<<t, "page">>].next # 0

LEMMA AskerIsOpen ==
    ASSUME ClosedInv, NEW t \in Tabs, NEW k \in Slot, refresh[<<t, k>>].at # "none"
    PROVE  IsOpen(t)
BY DEF ClosedInv, Slot

LEMMA OneTabKeepsShape ==
    ASSUME Shape, NEW t \in Tabs, OneTab(t), FutureInv'
    PROVE  Shape'
<1>1. ClosedInv'
  <2>1. ASSUME NEW u \in Tabs, ~IsOpen(u)'
        PROVE  refresh'[<<u, "page">>].at = "none" /\ refresh'[<<u, "gone">>].at = "none"
               /\ leaving'[u].at = "none"
    BY <2>1 DEF OneTab, IsOpen, Shape, ClosedInv, Slot
  <2> QED BY <2>1 DEF ClosedInv, OneTab
<1>2. OkInv'
  BY DEF OneTab, Shape, OkInv, Slot
<1> QED BY <1>1, <1>2 DEF Shape

\* The premise of the promise, once gone, does not come back.
LEMMA ForgivingBefore ==
    ASSUME Forgiving', losses \in Nat, losses' \in Nat, losses <= losses', late => late',
           \A u \in Tabs : IsOpen(u) => IsOpen(u)'
    PROVE  Forgiving
BY DEF Forgiving, Alone

LEMMA StepOfOneTab ==
    ASSUME LossInv, IInv', NEW t \in Tabs, OneTab(t), FutureInv',
           losses <= losses', late => late',
           Forgiving /\ Forgiving' => RevokedInv' /\ TabInv(t)'
    PROVE  LossInv'
<1>1. Shape'
  BY OneTabKeepsShape DEF LossInv
<1>2. ASSUME Forgiving' PROVE Forgiving
  <2>1. losses \in Nat /\ losses' \in Nat
    BY BoundsAssumption DEF LossInv, IInv, CountInv, CountsFit
  <2>2. \A u \in Tabs : IsOpen(u) => IsOpen(u)'
    BY DEF OneTab, IsOpen
  <2> QED BY <1>2, <2>1, <2>2, ForgivingBefore
<1>3. ASSUME Forgiving', NEW u \in Tabs, IsOpen(u)' PROVE u = t
  BY <1>3 DEF Forgiving, Alone, OneTab
<1> QED BY <1>1, <1>2, <1>3 DEF LossInv

\* A request that is sent carries a token the browser holds.
LEMMA Tries ==
    /\ ByCookie.at \in {"look", "no"} /\ (ByCookie.at = "look" => ByCookie.token \in {cookie} \ {0})
    /\ \A m, n : /\ FirstTry(m, n).at \in {"look", "no"}
                 /\ FirstTry(m, n).at = "look" => FirstTry(m, n).token \in {m, n, cookie} \ {0}
BY DEF ByCookie, FirstTry, Sent, Answered

\* What was revoked stays so of sessions that have expired, while no token is revoked.
LEMMA RevokedKept ==
    ASSUME LossInv, RevokedInv, UNCHANGED tokens,
           \A s \in Session : /\ sessions[s].expired => sessions'[s].expired
                              /\ sessions'[s].reason = "reuse" => sessions[s].reason = "reuse",
           \A q \in Tabs \X Slot : refresh'[q].at = "commit" =>
                \/ \E p \in Tabs \X Slot : refresh'[q] = refresh[p]
                \/ /\ SessionOf(refresh'[q].row) \in Session
                   /\ refresh'[q].rowRevoked => sessions[SessionOf(refresh'[q].row)].expired
    PROVE  RevokedInv'
<1>1. ASSUME NEW n \in Token, tokens'[n].revoked PROVE sessions'[SessionOf(n)'].expired
  <2>1. tokens[n].revoked /\ SessionOf(n)' = SessionOf(n)
    BY <1>1 DEF SessionOf
  <2>2. n <= issued
    BY <2>1, BoundsAssumption DEF LossInv, Shape, FutureInv, NoToken, Token, IInv, RowInv, RowTypes
  <2>3. SessionOf(n) \in Session
    BY <2>2, BoundsAssumption DEF LossInv, IInv, RowInv, RowTypes, TokenRowInv, Session
  <2> QED BY <2>1, <2>3 DEF RevokedInv
<1>2. ASSUME NEW q \in Tabs \X Slot, refresh'[q].at = "commit", refresh'[q].rowRevoked
      PROVE  sessions'[tokens'[refresh'[q].row].session].expired
  <2>0. tokens'[refresh'[q].row].session = SessionOf(refresh'[q].row)
    BY DEF SessionOf
  <2>1. CASE \E p \in Tabs \X Slot : refresh'[q] = refresh[p]
    <3>1. PICK p \in Tabs \X Slot : refresh'[q] = refresh[p]
      BY <2>1
    <3>2. SessionOf(refresh[p].row) \in Session
      BY <1>2, <3>1, CommitKnows DEF LossInv
    <3> QED BY <1>2, <2>0, <3>1, <3>2 DEF RevokedInv
  <2> QED BY <1>2, <2>0, <2>1
<1>3. ASSUME NEW s \in Session, sessions'[s].reason = "reuse" PROVE sessions'[s].expired
  BY <1>3 DEF RevokedInv
<1> QED BY <1>1, <1>2, <1>3 DEF RevokedInv, SessionOf

\* Rows not issued stay blank while none is issued.
LEMMA FutureKept == ASSUME Shape, UNCHANGED <<tokens, issued>> PROVE FutureInv'
BY DEF Shape, FutureInv

-----------------------------------------------------------------------------
(* The steps of a page. *)

\* Requests after a page has started.
LEMMA StartPageRequests ==
    ASSUME IInv, NEW t \in Tabs, NEW kept, StartPage(t, kept)
    PROVE  /\ OneTab(t)
           /\ refresh'[<<t, "page">>] = FirstTry(0, kept)
           /\ refresh'[<<t, "gone">>] = IF Busy(t) THEN refresh[<<t, "page">>]
                                        ELSE refresh[<<t, "gone">>]
           /\ mem'[t].refresh = 0
           /\ \A q \in Tabs \X Slot : refresh'[q].at = "commit" =>
                \E p \in Tabs \X Slot : refresh'[q] = refresh[p]
<1>1. /\ refresh \in [Tabs \X Slot -> {refresh[q] : q \in Tabs \X Slot}]
      /\ ui \in [Tabs -> {"closed", "loading", "authenticated", "unauthenticated"}]
      /\ mem \in [Tabs -> GivenPair] /\ leaving \in [Tabs -> GivenLeave]
  BY DEF IInv, RequestsInv, ClientInv
<1>2. refresh'[<<t, "page">>] = FirstTry(0, kept)
  BY <1>1, Slots DEF StartPage
<1>3. refresh'[<<t, "gone">>] = IF Busy(t) THEN refresh[<<t, "page">>] ELSE refresh[<<t, "gone">>]
  BY <1>1, Slots DEF StartPage
<1>4. ASSUME NEW q \in Tabs \X Slot, q # <<t, "page">>, q # <<t, "gone">>
      PROVE  refresh'[q] = refresh[q]
  BY <1>1, <1>4 DEF StartPage
<1>5. OneTab(t)
  <2>1. IsOpen(t)' /\ \A u \in Tabs \ {t} : ui'[u] = ui[u] /\ leaving'[u] = leaving[u]
    BY <1>1 DEF StartPage, IsOpen
  <2>2. ASSUME NEW u \in Tabs \ {t}, NEW k \in Slot
        PROVE  refresh'[<<u, k>>] = refresh[<<u, k>>]
    <3>1. <<u, k>> \in Tabs \X Slot /\ <<u, k>> # <<t, "page">> /\ <<u, k>> # <<t, "gone">>
      OBVIOUS
    <3> QED BY <1>4, <3>1
  <2>3. refresh'[<<t, "page">>].at # "ok"
    BY <1>2, Tries
  <2> QED BY <2>1, <2>2, <2>3 DEF OneTab
<1>6. mem'[t].refresh = 0
  BY <1>1 DEF StartPage, NoPair
<1>7. ASSUME NEW q \in Tabs \X Slot, refresh'[q].at = "commit"
      PROVE  \E p \in Tabs \X Slot : refresh'[q] = refresh[p]
  <2>1. q # <<t, "page">>
    BY <1>2, <1>7, Tries
  <2> QED BY <1>3, <1>4, <2>1, Slots
<1> QED BY <1>2, <1>3, <1>5, <1>6, <1>7

LEMMA LoadForgiven == ASSUME LossInv, IInv', NEW t \in Tabs, Load(t) PROVE LossInv'
<1>1. /\ StartPage(t, storage.refresh)
      /\ UNCHANGED <<storage, cookie, tokens, sessions, issued, late>>
      /\ IF ui[t] = "closed" THEN UNCHANGED losses ELSE losses' = losses + 1
  BY DEF Load, rowVars, history
<1>2. /\ OneTab(t) /\ refresh'[<<t, "page">>] = FirstTry(0, storage.refresh)
      /\ refresh'[<<t, "gone">>] = IF Busy(t) THEN refresh[<<t, "page">>]
                                   ELSE refresh[<<t, "gone">>]
      /\ mem'[t].refresh = 0
      /\ \A q \in Tabs \X Slot : refresh'[q].at = "commit" =>
           \E p \in Tabs \X Slot : refresh'[q] = refresh[p]
  BY <1>1, StartPageRequests DEF LossInv
<1>3. losses \in Nat /\ losses <= losses'
  BY <1>1, BoundsAssumption DEF LossInv, IInv, CountInv, CountsFit
<1>4. FutureInv'
  BY <1>1, FutureKept DEF LossInv
<1>5. ASSUME Forgiving, Forgiving' PROVE RevokedInv'
  BY <1>1, <1>2, <1>5, RevokedKept DEF LossInv
<1>6. Held(t)' \subseteq {storage.refresh, cookie} \ {0}
  BY <1>1, <1>2 DEF Held
<1>7. Live(t)' \subseteq {storage.refresh, cookie} \ {0}
  BY <1>2, <1>6, Tries DEF Live, Busy
<1>8. ASSUME Forgiving, Forgiving' PROVE TabInv(t)'
  <2>1. CASE ui[t] = "closed"
    <3>1. \A u \in Tabs : ~IsOpen(u)
      <4>1. ASSUME NEW u \in Tabs, IsOpen(u) PROVE FALSE
        <5>1. u # t /\ IsOpen(u)' /\ IsOpen(t)'
          BY <1>2, <2>1, <4>1 DEF OneTab, IsOpen
        <5> QED BY <1>8, <5>1 DEF Forgiving, Alone
      <4> QED BY <4>1
    <3>2. storage.refresh = 0 /\ cookie = 0
      BY <3>1 DEF LossInv, Shape, ClosedInv
    <3> QED BY <1>6, <1>7, <3>2 DEF TabInv
  <2>2. CASE ui[t] # "closed"
    <3>1. losses = 0 /\ losses' = 1
      BY <1>1, <1>3, <1>8, <2>2 DEF Forgiving
    <3>2. TabInv(t) /\ IInv /\ OkInv
      BY <1>8, <2>2 DEF LossInv, Shape, IsOpen
    <3>3. Live(t)' \subseteq Held(t)
      BY <1>7 DEF Held
    <3>4. GoneKept(t) \/ refresh[<<t, "page">>].at # "ok"
      <4>1. CASE Busy(t)
        BY <4>1 DEF Busy
      <4>2. CASE ~Busy(t)
        BY <1>1, <1>2, <4>2 DEF GoneKept, HasLooked, SessionOf
      <4> QED BY <4>1, <4>2
    <3> QED BY <1>1, <3>1, <3>2, <3>3, <3>4, FirstLoss
  <2> QED BY <2>1, <2>2
<1> QED BY <1>1, <1>2, <1>3, <1>4, <1>5, <1>8, StepOfOneTab

LEMMA LoginForgiven == ASSUME LossInv, IInv', NEW t \in Tabs, Login(t) PROVE LossInv'
<1>1. /\ opened < MaxSessions /\ issued < MaxTokens
      /\ opened' = opened + 1 /\ issued' = issued + 1
      /\ sessions' = [sessions EXCEPT ![opened'] = [NoSession EXCEPT !.open = TRUE]]
      /\ tokens' = [tokens EXCEPT ![issued'] = FreshToken(opened')]
      /\ storage' = PairOf(issued') /\ cookie' = issued'
      /\ StartPage(t, issued')
      /\ UNCHANGED <<losses, late>>
  BY DEF Login, history, counts
<1>2. /\ OneTab(t) /\ refresh'[<<t, "page">>] = FirstTry(0, issued')
      /\ refresh'[<<t, "gone">>] = IF Busy(t) THEN refresh[<<t, "page">>]
                                   ELSE refresh[<<t, "gone">>]
      /\ mem'[t].refresh = 0
      /\ \A q \in Tabs \X Slot : refresh'[q].at = "commit" =>
           \E p \in Tabs \X Slot : refresh'[q] = refresh[p]
  BY <1>1, StartPageRequests DEF LossInv
<1>3. /\ issued \in Nat /\ issued' \in Token /\ issued' # 0
      /\ opened \in Nat /\ opened' \in Session
  BY <1>1, BoundsAssumption DEF Token, Session, LossInv, IInv, RowInv, RowTypes
<1>4. /\ tokens'[issued'] = FreshToken(opened')
      /\ \A n \in Token \ {issued'} : tokens'[n] = tokens[n]
  BY <1>1, <1>3 DEF LossInv, IInv, RowInv, RowTypes
<1>5. /\ sessions'[opened'] = [NoSession EXCEPT !.open = TRUE]
      /\ \A z \in Session \ {opened'} : sessions'[z] = sessions[z]
  BY <1>1, <1>3 DEF LossInv, IInv, RowInv, RowTypes
<1>6. ASSUME NEW n \in Token, n <= issued
      PROVE  tokens'[n] = tokens[n] /\ SessionOf(n) \in Session \ {opened'}
  <2>1. n # issued' /\ SessionOf(n) \in 1..opened /\ opened \in 0..MaxSessions
    BY <1>1, <1>3, <1>6 DEF LossInv, IInv, RowInv, RowTypes, TokenRowInv
  <2> QED BY <1>1, <1>3, <1>4, <2>1, BoundsAssumption DEF Session
<1>7. FutureInv'
  BY <1>1, <1>3, <1>4 DEF FutureInv, LossInv, Shape, Token
<1>8. ASSUME Forgiving, Forgiving' PROVE RevokedInv'
  <2>0. RevokedInv
    BY <1>8 DEF LossInv
  <2>1. ASSUME NEW n \in Token, tokens'[n].revoked PROVE sessions'[tokens'[n].session].expired
    <3>1. n # issued' /\ tokens[n].revoked
      BY <1>4, <2>1 DEF FreshToken
    <3>2. n <= issued
      BY <3>1, <1>3 DEF LossInv, Shape, FutureInv, NoToken, Token
    <3> QED BY <1>5, <1>6, <2>0, <3>1, <3>2 DEF RevokedInv, SessionOf
  <2>2. ASSUME NEW q \in Tabs \X Slot, refresh'[q].at = "commit", refresh'[q].rowRevoked
        PROVE  sessions'[tokens'[refresh'[q].row].session].expired
    <3>1. PICK p \in Tabs \X Slot : refresh'[q] = refresh[p]
      BY <1>2, <2>2
    <3>2. refresh[p].row \in Token /\ refresh[p].row <= issued
      BY <2>2, <3>1, CommitKnows DEF LossInv
    <3> QED BY <1>5, <1>6, <2>0, <2>2, <3>1, <3>2 DEF RevokedInv, SessionOf
  <2>3. ASSUME NEW s \in Session, sessions'[s].reason = "reuse" PROVE sessions'[s].expired
    BY <1>5, <2>0, <2>3 DEF RevokedInv, NoSession
  <2> QED BY <2>1, <2>2, <2>3 DEF RevokedInv, SessionOf
<1>9. ASSUME Forgiving, Forgiving' PROVE TabInv(t)'
  <2>1. Held(t)' \subseteq {issued'} /\ Live(t)' \subseteq {issued'}
    <3>1. Held(t)' \subseteq {issued'}
      BY <1>1, <1>2 DEF Held, PairOf
    <3>2. FirstTry(0, issued') = Sent("body", issued')
      BY <1>3 DEF FirstTry
    <3> QED BY <1>2, <3>1, <3>2 DEF Live, Busy, Sent
  <2>2. ~tokens'[issued'].used /\ tokens'[issued'].session = opened'
    BY <1>4 DEF FreshToken
  <2>3. ASSUME NEW x, x = issued' PROVE Clear(t, x)'
    <3>1. ASSUME HasLooked(<<t, "gone">>, SessionOf(x))' PROVE FALSE
      <4> DEFINE g == refresh'[<<t, "gone">>]
      <4>1. PICK k \in Slot : g = refresh[<<t, k>>]
        BY <1>2, Slots DEF Slot
      <4>2. g.at \in {"read", "commit"} /\ tokens'[g.token].session = opened'
        BY <2>2, <2>3, <3>1 DEF HasLooked, SessionOf
      <4>3. g.token \in Token /\ g.token <= issued
        <5>1. g.token \in 0..issued /\ g.token # 0 /\ issued \in 0..MaxTokens
          BY <4>1, <4>2 DEF LossInv, IInv, RequestsInv, RequestInv, RequestFits, RowInv, RowTypes
        <5> QED BY <5>1, BoundsAssumption DEF Token
      <4> QED BY <1>6, <4>2, <4>3 DEF SessionOf
    <3> QED BY <2>2, <2>3, <3>1 DEF Clear, SessionOf
  <2> QED BY <2>1, <2>2, <2>3 DEF TabInv, Weak, Strict, Soft, Good
<1> QED BY <1>1, <1>2, <1>3, <1>7, <1>8, <1>9, StepOfOneTab DEF LossInv, IInv, CountInv, CountsFit

-----------------------------------------------------------------------------
(* The steps of the server that rotate nothing. *)

\* A step of the server on one request: what the browser holds stays.
ServedOnly(t, k) ==
    /\ UNCHANGED tabVars
    /\ refresh[<<t, k>>].at \in {"look", "read", "commit"}
    /\ \A p \in Tabs \X Slot : p # <<t, k>> => refresh'[p] = refresh[p]

LEMMA ServedIsOneTab ==
    ASSUME LossInv, NEW t \in Tabs, NEW k \in Slot, ServedOnly(t, k),
           refresh'[<<t, "page">>].at = "ok" => refresh'[<<t, "page">>].next # 0
    PROVE  OneTab(t) /\ IsOpen(t) /\ Held(t)' = Held(t)
<1>1. IsOpen(t) /\ IsOpen(t)'
  <2>1. refresh[<<t, k>>].at # "none"
    BY DEF ServedOnly
  <2>2. IsOpen(t)
    BY <2>1, AskerIsOpen DEF LossInv, Shape
  <2> QED BY <2>2 DEF ServedOnly, tabVars, IsOpen
<1>2. ASSUME NEW u \in Tabs \ {t}, NEW j \in Slot PROVE refresh'[<<u, j>>] = refresh[<<u, j>>]
  <2>1. <<u, j>> \in Tabs \X Slot /\ <<u, j>> # <<t, k>>
    OBVIOUS
  <2> QED BY <2>1 DEF ServedOnly
<1> QED BY <1>1, <1>2 DEF OneTab, ServedOnly, tabVars, Held

\* The request is over, or goes on with its token.
LEMMA ServedKeepsTab ==
    ASSUME LossInv, UNCHANGED Rows, NEW t \in Tabs, NEW k \in Slot, ServedOnly(t, k),
           TabInv(t), losses' \in Nat, losses <= losses',
           LET r == refresh'[<<t, k>>]
           IN \/ r.at \in {"none", "no"}
              \/ /\ r.at \in {"read", "commit"} /\ r.token = refresh[<<t, k>>].token
                 /\ k = "page" \/ refresh[<<t, k>>].at # "look"
    PROVE  TabInv(t)'
<1>1. refresh'[<<t, "page">>].at # "ok" \/ refresh'[<<t, "page">>] = refresh[<<t, "page">>]
  <2>1. CASE k = "page"
    BY <2>1
  <2>2. CASE k = "gone"
    BY <2>2, Slots DEF ServedOnly
  <2> QED BY <2>1, <2>2 DEF Slot
<1>2. OneTab(t) /\ Held(t)' = Held(t)
  BY <1>1, Slots, ServedIsOneTab DEF LossInv, Shape, OkInv
<1>3. Live(t)' \subseteq Live(t)
  <2>1. CASE k = "page"
    BY <1>2, <2>1 DEF Live, Busy, ServedOnly
  <2>2. CASE k = "gone"
    <3>1. refresh'[<<t, "page">>] = refresh[<<t, "page">>]
      BY <2>2, Slots DEF ServedOnly
    <3> QED BY <1>2, <3>1 DEF Live, Busy
  <2> QED BY <2>1, <2>2 DEF Slot
<1>4. GoneKept(t)
  <2>1. CASE k = "page"
    BY <2>1, Slots DEF ServedOnly, GoneKept, HasLooked, SessionOf, Rows
  <2>2. CASE k = "gone"
    BY <2>2 DEF ServedOnly, GoneKept, HasLooked, SessionOf, Rows
  <2> QED BY <2>1, <2>2 DEF Slot
<1>5. ChainsKept /\ losses \in Nat /\ IInv /\ OkInv
  BY BoundsAssumption DEF ChainsKept, Rows, LossInv, IInv, CountInv, CountsFit, Shape
<1> QED BY <1>2, <1>3, <1>4, <1>5, TabKept

\* A request that is answered.
LEMMA AnswerMakes ==
    ASSUME IInv, NEW t \in Tabs, NEW k \in Slot, NEW outcome, NEW n,
           refresh' = Answer(<<t, k>>, outcome, n)
    PROVE  /\ \A p \in Tabs \X Slot : p # <<t, k>> => refresh'[p] = refresh[p]
           /\ k = "page" => refresh'[<<t, k>>].at = outcome /\ refresh'[<<t, k>>].next = n
           /\ k = "gone" => refresh'[<<t, k>>].at = "none"
<1>1. refresh = [q \in Tabs \X Slot |-> refresh[q]] /\ <<t, k>> \in Tabs \X Slot
  BY DEF IInv, RequestsInv
<1>2. /\ \A p \in Tabs \X Slot : p # <<t, k>> => refresh'[p] = refresh[p]
      /\ refresh'[<<t, k>>] = IF k = "gone" THEN NoRequest
                              ELSE Answered(refresh[<<t, k>>].via, outcome, n)
  BY <1>1 DEF Answer
<1> QED BY <1>2 DEF Answered, NoRequest

LEMMA WorkInFamily ==
    ASSUME IInv, NEW n \in Token, n <= issued, WorksOn(n) # 0
    PROVE  /\ WorksOn(n) \in Token /\ WorksOn(n) <= issued
           /\ SessionOf(WorksOn(n)) = SessionOf(n) /\ SessionOf(n) \in Session
<1>1. TokenRowInv(n) /\ opened \in 0..MaxSessions
  BY DEF IInv, RowInv, RowTypes
<1>2. SessionOf(n) \in Session
  BY <1>1, BoundsAssumption DEF TokenRowInv, Session
<1>3. CASE tokens[n].used
  BY <1>1, <1>2, <1>3, ReplacementIsToken DEF WorksOn, Sibling, TokenRowInv
<1>4. CASE ~tokens[n].used
  BY <1>2, <1>4 DEF WorksOn
<1> QED BY <1>3, <1>4

\* The token of a request at the server.
LEMMA TokenAtServer ==
    ASSUME IInv, NEW q \in Tabs \X Slot, refresh[q].at \in {"look", "read", "commit"}
    PROVE  refresh[q].token \in Token /\ refresh[q].token <= issued
<1>1. refresh[q].token \in 0..issued /\ refresh[q].token # 0 /\ issued \in 0..MaxTokens
  BY DEF IInv, RequestsInv, RequestInv, RequestFits, RowInv, RowTypes
<1> QED BY <1>1, BoundsAssumption DEF Token

LEMMA TxReadForgiven ==
    ASSUME LossInv, IInv', NEW t \in Tabs, NEW k \in Slot, TxRead(<<t, k>>) PROVE LossInv'
<1> DEFINE q == <<t, k>>
           r == refresh[q]
           row == WorksOn(r.token)
<1>1. /\ UNCHANGED <<tabVars, Rows, tokens, sessions, issued, losses, late>>
      /\ r.at = "read" /\ q \in Tabs \X Slot
  BY DEF TxRead, rowVars, history, counts, Rows
<1>2. CASE row = 0
  <2>1. refresh' = Answer(<<t, k>>, "no", 0)
    BY <1>2 DEF TxRead
  <2>2. ServedOnly(t, k) /\ refresh'[q].at \in {"none", "no"}
    <3>1. (\A p \in Tabs \X Slot : p # <<t, k>> => refresh'[p] = refresh[p])
          /\ (k = "page" => refresh'[<<t, k>>].at = "no") /\ (k = "gone" => refresh'[<<t, k>>].at = "none")
      BY <2>1, AnswerMakes DEF LossInv
    <3>2. k = "page" \/ k = "gone"
      BY DEF Slot
    <3> QED BY <1>1, <3>1, <3>2 DEF ServedOnly
  <2>3. \A p \in Tabs \X Slot : refresh'[p].at = "commit" => refresh'[p] = refresh[p]
    BY <2>2 DEF ServedOnly
  <2>4. refresh'[<<t, "page">>].at = "ok" => refresh'[<<t, "page">>].next # 0
    BY <2>2, Slots DEF ServedOnly, LossInv, Shape, OkInv
  <2>5. OneTab(t) /\ IsOpen(t) /\ FutureInv'
    BY <1>1, <2>2, <2>4, ServedIsOneTab, FutureKept DEF LossInv
  <2>6. losses \in Nat /\ losses' \in Nat /\ losses <= losses'
    BY <1>1, BoundsAssumption DEF LossInv, IInv, CountInv, CountsFit
  <2>7. ASSUME Forgiving PROVE RevokedInv' /\ TabInv(t)'
    <3>1. RevokedInv /\ TabInv(t)
      BY <2>5, <2>7 DEF LossInv
    <3>2. RevokedInv'
      BY <1>1, <2>3, <3>1, RevokedKept
    <3>3. TabInv(t)'
      BY <1>1, <2>2, <2>6, <3>1, ServedKeepsTab
    <3> QED BY <3>2, <3>3
  <2> QED BY <1>1, <2>5, <2>6, <2>7, StepOfOneTab
<1>3. CASE row # 0
  <2>1. refresh' = [refresh EXCEPT ![q] = ReadRow(r, row)]
    BY <1>3 DEF TxRead
  <2>2. /\ ServedOnly(t, k) /\ refresh'[q] = ReadRow(r, row)
        /\ refresh'[q].at = "commit" /\ refresh'[q].token = r.token
        /\ refresh'[q].row = row /\ refresh'[q].rowRevoked = tokens[row].revoked
    BY <1>1, <2>1 DEF ServedOnly, ReadRow, LossInv, IInv, RequestsInv
  <2>4. refresh'[<<t, "page">>].at = "ok" => refresh'[<<t, "page">>].next # 0
    BY <2>2, Slots DEF ServedOnly, LossInv, Shape, OkInv
  <2>5. OneTab(t) /\ IsOpen(t) /\ FutureInv'
    BY <1>1, <2>2, <2>4, ServedIsOneTab, FutureKept DEF LossInv
  <2>6. losses \in Nat /\ losses' \in Nat /\ losses <= losses'
    BY <1>1, BoundsAssumption DEF LossInv, IInv, CountInv, CountsFit
  <2>7. ASSUME Forgiving PROVE RevokedInv' /\ TabInv(t)'
    <3>1. RevokedInv /\ TabInv(t)
      BY <2>5, <2>7 DEF LossInv
    <3>2. RevokedInv'
      <4>1. row \in Token /\ SessionOf(row) \in Session
        BY <1>1, <1>3, WorkInFamily, TokenAtServer DEF LossInv
      <4>2. \A p \in Tabs \X Slot : refresh'[p].at = "commit" =>
                \/ \E o \in Tabs \X Slot : refresh'[p] = refresh[o]
                \/ /\ SessionOf(refresh'[p].row) \in Session
                   /\ refresh'[p].rowRevoked => sessions[SessionOf(refresh'[p].row)].expired
        BY <2>2, <3>1, <4>1 DEF ServedOnly, RevokedInv
      <4> QED BY <1>1, <3>1, <4>2, RevokedKept
    <3>3. TabInv(t)'
      BY <1>1, <2>2, <2>6, <3>1, ServedKeepsTab
    <3> QED BY <3>2, <3>3
  <2> QED BY <1>1, <2>5, <2>6, <2>7, StepOfOneTab
<1> QED BY <1>2, <1>3

LEMMA CommitFailsForgiven ==
    ASSUME LossInv, IInv', NEW t \in Tabs, NEW k \in Slot, CommitFails(<<t, k>>) PROVE LossInv'
<1> DEFINE q == <<t, k>>
<1>1. /\ UNCHANGED <<tabVars, Rows, tokens, sessions, issued, late>>
      /\ refresh[q].at = "commit" /\ q \in Tabs \X Slot
      /\ refresh' = Answer(<<t, k>>, "no", 0)
  BY DEF CommitFails, rowVars, history, Rows
<1>2. ServedOnly(t, k) /\ refresh'[q].at \in {"none", "no"}
  <2>1. (\A p \in Tabs \X Slot : p # <<t, k>> => refresh'[p] = refresh[p])
        /\ (k = "page" => refresh'[<<t, k>>].at = "no") /\ (k = "gone" => refresh'[<<t, k>>].at = "none")
    BY <1>1, AnswerMakes DEF LossInv
  <2>2. k = "page" \/ k = "gone"
    BY DEF Slot
  <2> QED BY <1>1, <2>1, <2>2 DEF ServedOnly
<1>3. \A p \in Tabs \X Slot : refresh'[p].at = "commit" => refresh'[p] = refresh[p]
  BY <1>2 DEF ServedOnly
<1>4. refresh'[<<t, "page">>].at = "ok" => refresh'[<<t, "page">>].next # 0
  BY <1>2, Slots DEF ServedOnly, LossInv, Shape, OkInv
<1>5. OneTab(t) /\ IsOpen(t) /\ FutureInv'
  BY <1>1, <1>2, <1>4, ServedIsOneTab, FutureKept DEF LossInv
<1>6. losses \in Nat /\ losses' \in Nat /\ losses <= losses'
  BY BoundsAssumption DEF CommitFails, LossInv, IInv, CountInv, CountsFit
<1>7. ASSUME Forgiving PROVE RevokedInv' /\ TabInv(t)'
  <2>1. RevokedInv /\ TabInv(t)
    BY <1>5, <1>7 DEF LossInv
  <2>2. RevokedInv'
    BY <1>1, <1>3, <2>1, RevokedKept
  <2>3. TabInv(t)'
    BY <1>1, <1>2, <1>6, <2>1, ServedKeepsTab
  <2> QED BY <2>2, <2>3
<1> QED BY <1>1, <1>5, <1>6, <1>7, StepOfOneTab

-----------------------------------------------------------------------------
(* The steps of the client. *)

\* No session expires back, and none is taken for stolen.
SessionsKept ==
    \A s \in Session : /\ sessions[s].expired => sessions'[s].expired
                       /\ sessions'[s].reason = "reuse" => sessions[s].reason = "reuse"

\* Every request at its commit was there before.
NoNewCommit ==
    \A q \in Tabs \X Slot : refresh'[q].at = "commit" =>
        \E p \in Tabs \X Slot : refresh'[q] = refresh[p]

\* A step of one tab, open already, that takes up no token it did not hold, or
\* that is its first loss.
LEMMA ClientStep ==
    ASSUME LossInv, IInv', NEW t \in Tabs, IsOpen(t), OneTab(t), UNCHANGED <<tokens, issued, late>>,
           SessionsKept, NoNewCommit,
           \/ /\ losses' = losses \/ losses' = losses + 1
              /\ GoneKept(t) /\ Live(t)' \subseteq Live(t) /\ Held(t)' \subseteq Held(t) \cup Live(t)
           \/ /\ losses' = losses + 1
              /\ GoneKept(t) \/ refresh[<<t, "page">>].at # "ok"
              /\ Live(t)' \subseteq Held(t)
    PROVE  LossInv'
<1>1. losses \in Nat /\ losses' \in Nat /\ losses <= losses'
  BY BoundsAssumption DEF LossInv, IInv, CountInv, CountsFit
<1>2. FutureInv'
  BY FutureKept DEF LossInv
<1>3. IInv /\ OkInv /\ ChainsKept
  BY DEF LossInv, Shape, ChainsKept
<1>4. ASSUME Forgiving, Forgiving' PROVE RevokedInv' /\ TabInv(t)'
  <2>1. RevokedInv /\ TabInv(t)
    BY <1>4 DEF LossInv
  <2>2. RevokedInv'
    BY <2>1, RevokedKept DEF SessionsKept, NoNewCommit
  <2>3. CASE /\ GoneKept(t) /\ Live(t)' \subseteq Live(t)
             /\ Held(t)' \subseteq Held(t) \cup Live(t)
    BY <1>1, <1>3, <2>1, <2>2, <2>3, TabKept
  <2>4. CASE /\ losses' = losses + 1
             /\ GoneKept(t) \/ refresh[<<t, "page">>].at # "ok"
             /\ Live(t)' \subseteq Held(t)
    <3>1. losses = 0 /\ losses' = 1
      BY <1>1, <1>4, <2>4 DEF Forgiving
    <3> QED BY <1>3, <2>1, <2>2, <2>4, <3>1, FirstLoss
  <2> QED BY <2>2, <2>3, <2>4
<1> QED BY <1>1, <1>2, <1>4, StepOfOneTab

\* Where the tab's own requests go; the others stay.
LEMMA OwnRequests ==
    ASSUME NEW t \in Tabs,
           \A u \in Tabs \ {t} : \A k \in Slot : refresh'[<<u, k>>] = refresh[<<u, k>>],
           \A k \in Slot : refresh'[<<t, k>>].at = "commit" =>
                \E p \in Tabs \X Slot : refresh'[<<t, k>>] = refresh[p]
    PROVE  NoNewCommit
<1>1. ASSUME NEW u \in Tabs, NEW k \in Slot, refresh'[<<u, k>>].at = "commit"
      PROVE  \E p \in Tabs \X Slot : refresh'[<<u, k>>] = refresh[p]
  <2>1. CASE u = t
    BY <1>1, <2>1
  <2>2. CASE u # t
    <3>1. refresh'[<<u, k>>] = refresh[<<u, k>>] /\ <<u, k>> \in Tabs \X Slot
      BY <2>2
    <3> QED BY <3>1
  <2> QED BY <2>1, <2>2
<1> QED BY <1>1 DEF NoNewCommit

LEMMA RefreshedForgiven ==
    ASSUME LossInv, IInv', NEW t \in Tabs, Refreshed(t) PROVE LossInv'
<1> DEFINE r == refresh[<<t, "page">>]
<1>1. /\ r.at = "ok" /\ storage' = PairOf(r.next) /\ cookie' = r.next
      /\ mem'[t] = PairOf(r.next)
      /\ refresh'[<<t, "page">>] = NoRequest /\ refresh'[<<t, "gone">>] = refresh[<<t, "gone">>]
      /\ \A u \in Tabs \ {t} : ui'[u] = ui[u] /\ leaving'[u] = leaving[u]
      /\ \A u \in Tabs \ {t} : \A k \in Slot : refresh'[<<u, k>>] = refresh[<<u, k>>]
      /\ UNCHANGED <<tokens, sessions, issued, losses, late>>
  BY Slots DEF Refreshed, LossInv, IInv, ClientInv, RequestsInv, rowVars, history, counts
<1>2. IsOpen(t) /\ IsOpen(t)'
  <2>1. IsOpen(t)
    BY <1>1, AskerIsOpen DEF LossInv, Shape, Slot
  <2> QED BY <2>1 DEF Refreshed, ShownAfter, IsOpen, LossInv, IInv, ClientInv
<1>3. OneTab(t)
  BY <1>1, <1>2 DEF OneTab, NoRequest
<1>4. r.next # 0
  BY <1>1 DEF LossInv, Shape, OkInv
<1>5. Held(t)' = {r.next} /\ Live(t)' = {r.next} /\ Live(t) = {r.next}
  BY <1>1, <1>4 DEF Held, Live, Busy, NoRequest, PairOf
<1>6. GoneKept(t)
  BY <1>1 DEF GoneKept, HasLooked, SessionOf
<1>7. NoNewCommit
  BY <1>1, Slots, OwnRequests DEF NoRequest, Slot
<1>8. SessionsKept
  BY <1>1 DEF SessionsKept
<1> QED BY <1>1, <1>2, <1>3, <1>5, <1>6, <1>7, <1>8, ClientStep

\* A try that fails: the tab tries the cookie, or keeps what it has and gives up.
LEMMA FailedTry ==
    ASSUME IInv, NEW t \in Tabs, IsOpen(t), NEW gone \in [Tabs \X Slot -> {refresh[q] : q \in Tabs \X Slot}],
           Failed(t, gone), UNCHANGED <<cookie, leaving>>,
           \A u \in Tabs \ {t} : \A k \in Slot : gone[<<u, k>>] = refresh[<<u, k>>]
    PROVE  /\ OneTab(t) /\ NoNewCommit
           /\ refresh'[<<t, "gone">>] = gone[<<t, "gone">>]
           /\ Held(t)' \subseteq Held(t) /\ Live(t)' \subseteq Held(t)
<1>1. /\ refresh'[<<t, "page">>] \in {ByCookie, NoRequest}
      /\ \A q \in Tabs \X Slot : q # <<t, "page">> => refresh'[q] = gone[q]
  BY Slots DEF Failed, TryCookie, GiveUp
<1>2. refresh'[<<t, "page">>].at \in {"look", "no", "none"}
      /\ (refresh'[<<t, "page">>].at = "look" => refresh'[<<t, "page">>].token \in {cookie} \ {0})
  BY <1>1, Tries DEF NoRequest
<1>3. refresh'[<<t, "gone">>] = gone[<<t, "gone">>]
  BY <1>1, Slots, PageNotGone
<1>4. ASSUME NEW u \in Tabs \ {t}, NEW k \in Slot PROVE refresh'[<<u, k>>] = refresh[<<u, k>>]
  <2>1. <<u, k>> \in Tabs \X Slot /\ <<u, k>> # <<t, "page">>
    OBVIOUS
  <2> QED BY <1>1, <2>1
<1>5. IsOpen(t)' /\ \A u \in Tabs \ {t} : ui'[u] = ui[u] /\ leaving'[u] = leaving[u]
  BY DEF Failed, TryCookie, GiveUp, ShownAfter, IsOpen, IInv, ClientInv
<1>6. Held(t)' \subseteq Held(t)
  BY DEF Failed, TryCookie, GiveUp, Held, IInv, ClientInv, GivenPair
<1>7. Live(t)' \subseteq Held(t)
  BY <1>2, <1>6 DEF Live, Busy, Held
<1>8. OneTab(t)
  BY <1>2, <1>4, <1>5 DEF OneTab
<1>9. ASSUME NEW k \in Slot, refresh'[<<t, k>>].at = "commit"
      PROVE  \E p \in Tabs \X Slot : refresh'[<<t, k>>] = refresh[p]
  <2>1. k = "gone"
    BY <1>2, <1>9 DEF Slot
  <2>2. gone[<<t, "gone">>] \in {refresh[q] : q \in Tabs \X Slot}
    BY Slots
  <2> QED BY <1>3, <2>1, <2>2
<1>10. NoNewCommit
  BY <1>4, <1>9, OwnRequests
<1> QED BY <1>3, <1>6, <1>7, <1>8, <1>10

LEMMA RefusedForgiven ==
    ASSUME LossInv, IInv', NEW t \in Tabs, Refused(t) PROVE LossInv'
<1>1. /\ refresh[<<t, "page">>].at = "no" /\ Failed(t, refresh)
      /\ UNCHANGED <<cookie, leaving, tokens, sessions, issued, losses, late>>
  BY DEF Refused, rowVars, history, counts
<1>2. IsOpen(t)
  BY <1>1, AskerIsOpen DEF LossInv, Shape, Slot
<1>3. refresh \in [Tabs \X Slot -> {refresh[q] : q \in Tabs \X Slot}]
  BY DEF LossInv, IInv, RequestsInv
<1>4. /\ OneTab(t) /\ NoNewCommit /\ refresh'[<<t, "gone">>] = refresh[<<t, "gone">>]
      /\ Held(t)' \subseteq Held(t) /\ Live(t)' \subseteq Held(t)
  BY <1>1, <1>2, <1>3, FailedTry DEF LossInv
<1>5. Held(t) \subseteq Live(t)
  BY <1>1 DEF Live
<1>6. GoneKept(t) /\ SessionsKept
  BY <1>1, <1>4 DEF GoneKept, HasLooked, SessionOf, SessionsKept
<1>7. Live(t)' \subseteq Live(t) /\ Held(t)' \subseteq Held(t) \cup Live(t)
  BY <1>4, <1>5
<1> QED BY <1>1, <1>2, <1>4, <1>6, <1>7, ClientStep

LEMMA RefreshLostForgiven ==
    ASSUME LossInv, IInv', NEW t \in Tabs, RefreshLost(t) PROVE LossInv'
<1> DEFINE r == refresh[<<t, "page">>]
           kept == [refresh EXCEPT ![<<t, "gone">>] = r]
<1>1. /\ losses' = losses + 1
      /\ UNCHANGED <<cookie, leaving, tokens, sessions, issued, late>>
      /\ r.at # "none"
      /\ \/ Failed(t, refresh)
         \/ Failed(t, kept) /\ r.at # "ok"
  BY DEF RefreshLost, rowVars, history
<1>2. IsOpen(t) /\ SessionsKept
  BY <1>1, AskerIsOpen DEF LossInv, Shape, Slot, SessionsKept
<1>3. refresh \in [Tabs \X Slot -> {refresh[q] : q \in Tabs \X Slot}]
  BY DEF LossInv, IInv, RequestsInv
<1>4. CASE Failed(t, refresh)
  <2>1. /\ OneTab(t) /\ NoNewCommit /\ refresh'[<<t, "gone">>] = refresh[<<t, "gone">>]
        /\ Live(t)' \subseteq Held(t)
    BY <1>1, <1>2, <1>3, <1>4, FailedTry DEF LossInv
  <2>2. GoneKept(t)
    BY <1>1, <2>1 DEF GoneKept, HasLooked, SessionOf
  <2> QED BY <1>1, <1>2, <2>1, <2>2, ClientStep
<1>5. CASE Failed(t, kept) /\ r.at # "ok"
  <2>1. kept \in [Tabs \X Slot -> {refresh[q] : q \in Tabs \X Slot}]
    BY <1>3, Slots
  <2>2. ASSUME NEW u \in Tabs \ {t}, NEW k \in Slot PROVE kept[<<u, k>>] = refresh[<<u, k>>]
    <3>1. <<u, k>> \in Tabs \X Slot /\ <<u, k>> # <<t, "gone">>
      OBVIOUS
    <3> QED BY <1>3, <3>1
  <2>3. OneTab(t) /\ NoNewCommit /\ Live(t)' \subseteq Held(t)
    <3> HIDE DEF kept
    <3> QED BY <1>1, <1>2, <1>5, <2>1, <2>2, FailedTry DEF LossInv
  <2> QED BY <1>1, <1>2, <1>5, <2>3, ClientStep
<1> QED BY <1>1, <1>4, <1>5

LEMMA Refused401Forgiven ==
    ASSUME LossInv, IInv', NEW t \in Tabs, Refused401(t) PROVE LossInv'
<1> DEFINE r == refresh[<<t, "page">>]
<1>1. /\ ui[t] = "authenticated"
      /\ refresh' = [refresh EXCEPT ![<<t, "page">>] = Joined(t)]
      /\ UNCHANGED <<ui, mem, storage, cookie, leaving, tokens, sessions, issued, losses, late>>
  BY DEF Refused401, rowVars, history, counts
<1>2. /\ refresh'[<<t, "page">>] = Joined(t)
      /\ \A q \in Tabs \X Slot : q # <<t, "page">> => refresh'[q] = refresh[q]
  BY <1>1, Slots DEF LossInv, IInv, RequestsInv
<1>3. refresh'[<<t, "gone">>] = refresh[<<t, "gone">>]
  BY <1>2, Slots, PageNotGone
<1>4. ASSUME NEW u \in Tabs \ {t}, NEW k \in Slot PROVE refresh'[<<u, k>>] = refresh[<<u, k>>]
  <2>1. <<u, k>> \in Tabs \X Slot /\ <<u, k>> # <<t, "page">>
    OBVIOUS
  <2> QED BY <1>2, <2>1
<1>5. \/ r.at # "none" /\ refresh'[<<t, "page">>] = r
      \/ /\ r.at = "none" /\ refresh'[<<t, "page">>].at \in {"look", "no"}
         /\ refresh'[<<t, "page">>].at = "look" => refresh'[<<t, "page">>].token \in Held(t)
  <2>1. CASE r.at # "none"
    BY <1>2, <2>1 DEF Joined
  <2>2. CASE r.at = "none"
    <3>1. refresh'[<<t, "page">>] = FirstTry(mem[t].refresh, storage.refresh)
      BY <1>2, <2>2 DEF Joined
    <3> QED BY <2>2, <3>1, Tries DEF Held
  <2> QED BY <2>1, <2>2
<1>6. Held(t)' = Held(t)
  BY <1>1 DEF Held
<1>7. Live(t)' \subseteq Live(t)
  BY <1>5, <1>6 DEF Live, Busy
<1>8. OneTab(t) /\ IsOpen(t)
  BY <1>1, <1>4, <1>5 DEF OneTab, IsOpen, LossInv, Shape, OkInv
<1>9. NoNewCommit
  <2>1. ASSUME NEW k \in Slot, refresh'[<<t, k>>].at = "commit"
        PROVE  \E p \in Tabs \X Slot : refresh'[<<t, k>>] = refresh[p]
    BY <1>3, <1>5, <2>1, Slots DEF Slot
  <2> QED BY <1>4, <2>1, OwnRequests
<1>10. GoneKept(t) /\ SessionsKept
  BY <1>1, <1>3 DEF GoneKept, HasLooked, SessionOf, SessionsKept
<1> QED BY <1>1, <1>6, <1>7, <1>8, <1>9, <1>10, ClientStep

\* A step of logout: no request moves, and the tab may drop what it holds.
LEMMA LogoutStep ==
    ASSUME LossInv, IInv', NEW t \in Tabs, IsOpen(t), IsOpen(t)',
           \A u \in Tabs \ {t} : ui'[u] = ui[u] /\ leaving'[u] = leaving[u],
           UNCHANGED <<refresh, tokens, issued, late>>, SessionsKept,
           losses' = losses \/ losses' = losses + 1, Held(t)' \subseteq Held(t)
    PROVE  LossInv'
<1>1. OneTab(t) /\ NoNewCommit /\ GoneKept(t)
  BY DEF OneTab, NoNewCommit, GoneKept, HasLooked, SessionOf, LossInv, Shape, OkInv
<1>2. Live(t)' \subseteq Live(t)
  BY DEF Live, Busy
<1> QED BY <1>1, <1>2, ClientStep

LEMMA LogoutSentForgiven ==
    ASSUME LossInv, IInv', NEW t \in Tabs, LogoutSent(t) PROVE LossInv'
<1>1. /\ ui[t] = "authenticated" /\ UNCHANGED <<ui, mem, storage, cookie, refresh>>
      /\ UNCHANGED <<tokens, sessions, issued, losses, late>>
      /\ \A u \in Tabs \ {t} : leaving'[u] = leaving[u]
  BY DEF LogoutSent, rowVars, history, counts, LossInv, IInv, ClientInv
<1>2. SessionsKept /\ IsOpen(t) /\ IsOpen(t)' /\ Held(t)' = Held(t)
  BY <1>1 DEF SessionsKept, IsOpen, Held
<1> QED BY <1>1, <1>2, LogoutStep

\* A revocation for another reason than reuse.
LEMMA RevocationKeeps ==
    ASSUME IInv, NEW s, NEW why \in {"logout", "elsewhere"}, Revoke(s, why)
    PROVE  SessionsKept
BY DEF Revoke, Revoked, SessionsKept, IInv, RowInv, RowTypes, SessionRow

LEMMA LeaverIsOpen ==
    ASSUME LossInv, NEW t \in Tabs, leaving[t].at = "sent" PROVE IsOpen(t)
BY DEF LossInv, Shape, ClosedInv

LEMMA ClearedTokens ==
    ASSUME IInv, NEW t \in Tabs, ClearTokens(t), cookie' \in {0, cookie}
    PROVE  /\ Held(t)' \subseteq Held(t)
           /\ \A u \in Tabs \ {t} : leaving'[u] = leaving[u]
BY DEF ClearTokens, Held, NoPair, IInv, ClientInv, GivenPair

LEMMA LoggedOutForgiven ==
    ASSUME LossInv, IInv', NEW t \in Tabs, LoggedOut(t) PROVE LossInv'
<1>1. /\ leaving[t].at = "sent" /\ EndSession(t) /\ ClearTokens(t) /\ cookie' = 0
      /\ ui' = [ui EXCEPT ![t] = "unauthenticated"]
      /\ UNCHANGED <<refresh, tokens, issued, losses, late>>
  BY DEF LoggedOut, counts
<1>2. SessionsKept
  BY <1>1, RevocationKeeps DEF EndSession, LossInv, SessionsKept
<1>3. IsOpen(t) /\ IsOpen(t)' /\ \A u \in Tabs \ {t} : ui'[u] = ui[u]
  BY <1>1, LeaverIsOpen DEF IsOpen, LossInv, IInv, ClientInv
<1> QED BY <1>1, <1>2, <1>3, ClearedTokens, LogoutStep DEF LossInv

LEMMA LogoutLostForgiven ==
    ASSUME LossInv, IInv', NEW t \in Tabs, LogoutLost(t) PROVE LossInv'
<1>1. /\ leaving[t].at = "sent" /\ ClearTokens(t)
      /\ EndSession(t) \/ UNCHANGED sessions
      /\ UNCHANGED <<ui, cookie, refresh, tokens, issued, late>> /\ losses' = losses + 1
  BY DEF LogoutLost
<1>2. SessionsKept
  BY <1>1, RevocationKeeps DEF EndSession, LossInv, SessionsKept
<1>3. IsOpen(t) /\ IsOpen(t)' /\ \A u \in Tabs \ {t} : ui'[u] = ui[u]
  BY <1>1, LeaverIsOpen DEF IsOpen
<1> QED BY <1>1, <1>2, <1>3, ClearedTokens, LogoutStep DEF LossInv

-----------------------------------------------------------------------------
(* The steps of the world. *)

LEMMA WorldForgiven == ASSUME LossInv, IInv', WorldStep PROVE LossInv'
<1>1. /\ UNCHANGED <<ui, mem, storage, cookie, leaving, refresh, tokens, issued, losses, late>>
      /\ SessionsKept
  <2>1. CASE AccessExpires
    BY <2>1 DEF AccessExpires, tabVars, rowVars, history, SessionsKept
  <2>2. ASSUME NEW s \in Session, SessionExpires(s) PROVE <1>1!1 /\ SessionsKept
    BY <2>2 DEF SessionExpires, tabVars, history, SessionsKept, LossInv, IInv, RowInv, RowTypes,
                SessionRow
  <2>3. ASSUME NEW s \in Session, RevokedElsewhere(s) PROVE <1>1!1 /\ SessionsKept
    BY <2>3, RevocationKeeps DEF RevokedElsewhere, tabVars, LossInv
  <2> QED BY <2>1, <2>2, <2>3 DEF WorldStep
<1>2. Shape'
  BY <1>1 DEF LossInv, Shape, ClosedInv, FutureInv, OkInv, IsOpen
<1>3. Forgiving' => Forgiving
  BY <1>1 DEF Forgiving, Alone, IsOpen
<1>4. RevokedInv => RevokedInv'
  BY <1>1, RevokedKept DEF SessionsKept
<1>5. \A t \in Tabs : IsOpen(t)' = IsOpen(t) /\ (TabInv(t) => TabInv(t)')
  BY <1>1 DEF IsOpen, TabInv, Live, Held, Busy, Weak, Strict, Soft, Good, Clear, HasLooked, SessionOf
<1> QED BY <1>2, <1>3, <1>4, <1>5 DEF LossInv

-----------------------------------------------------------------------------
(* The look of a refresh. *)

\* A token of the tab that no longer works belongs to a session that has expired.
LEMMA TheftMeansExpired ==
    ASSUME IInv, RevokedInv, NEW n \in Token, n <= issued, Good(n), WorksOn(n) = 0
    PROVE  sessions[SessionOf(n)].expired
<1> DEFINE rep == tokens[n].replacedBy
<1>1. tokens[n].used /\ rep # 0 /\ ~tokens[rep].used
  BY BoundsAssumption DEF WorksOn, Good, Token
<1>2. rep \in Token /\ SessionOf(rep) = SessionOf(n)
  BY <1>1, ReplacementIsToken DEF IInv, RowInv, TokenRowInv
<1>3. ~Usable(rep)
  BY <1>1, <1>2, BoundsAssumption DEF WorksOn, Sibling, Token
<1> QED BY <1>1, <1>2, <1>3 DEF Usable, RevokedInv

\* The rows of a session are marked as revoked, in a row that is not of the future.
LEMMA FamilyRevoked ==
    ASSUME LossInv, NEW s \in Session, RevokeFamily(s), UNCHANGED issued
    PROVE  /\ sessions' = [sessions EXCEPT ![s] = Revoked(s, "reuse")]
           /\ ChainsKept
           /\ \A m \in Token : tokens'[m].revoked => tokens[m].revoked \/ SessionOf(m) = s
           /\ FutureInv'
<1>1. /\ sessions' = [sessions EXCEPT ![s] = Revoked(s, "reuse")]
      /\ tokens' = [m \in Token |-> IF SessionOf(m) = s THEN [tokens[m] EXCEPT !.revoked = TRUE]
                                     ELSE tokens[m]]
  BY DEF RevokeFamily, Revoke
<1>2. /\ ChainsKept
      /\ \A m \in Token : tokens'[m].revoked => tokens[m].revoked \/ SessionOf(m) = s
      /\ \A m \in Token : SessionOf(m) # s => tokens'[m] = tokens[m]
  BY <1>1 DEF ChainsKept, LossInv, IInv, RowInv, RowTypes, TokenRow
<1>3. ASSUME NEW m \in Token, m > issued PROVE tokens'[m] = NoToken
  <2>1. tokens[m] = NoToken
    BY <1>3 DEF LossInv, Shape, FutureInv
  <2>2. SessionOf(m) # s
    BY <2>1, BoundsAssumption DEF SessionOf, NoToken, Session
  <2> QED BY <1>2, <2>1, <2>2
<1> QED BY <1>1, <1>2, <1>3 DEF FutureInv

LEMMA LookForgiven ==
    ASSUME LossInv, IInv', NEW t \in Tabs, NEW k \in Slot, Look(<<t, k>>) PROVE LossInv'
<1> DEFINE q == <<t, k>>
           r == refresh[q]
           n == r.token
           s == SessionOf(n)
<1>1. /\ UNCHANGED tabVars /\ UNCHANGED <<issued, opened, losses>>
      /\ r.at = "look" /\ q \in Tabs \X Slot
      /\ late' = (late \/ k = "gone")
  BY DEF Look, counts
<1>2. n \in Token /\ n <= issued /\ s \in Session
  <2>1. n \in Token /\ n <= issued
    BY <1>1, TokenAtServer DEF LossInv
  <2> QED BY <2>1, BoundsAssumption DEF LossInv, IInv, RowInv, RowTypes, TokenRowInv, Session
<1>3. losses \in Nat /\ losses' \in Nat /\ losses <= losses' /\ (late => late')
  BY <1>1, BoundsAssumption DEF LossInv, IInv, CountInv, CountsFit
<1>4. Forgiving' => k = "page"
  BY <1>1 DEF Forgiving, Slot
<1>5. /\ ServedOnly(t, k)
      /\ \/ refresh'[q].at \in {"none", "no"}
         \/ refresh'[q].at = "read" /\ refresh'[q].token = n
  <2>1. CASE refresh' = Answer(<<t, k>>, "no", 0)
    <3>1. (\A p \in Tabs \X Slot : p # <<t, k>> => refresh'[p] = refresh[p])
          /\ (k = "page" => refresh'[<<t, k>>].at = "no")
          /\ (k = "gone" => refresh'[<<t, k>>].at = "none")
      BY <2>1, AnswerMakes DEF LossInv
    <3>2. k = "page" \/ k = "gone"
      BY DEF Slot
    <3> QED BY <1>1, <3>1, <3>2 DEF ServedOnly
  <2>2. CASE refresh' = [refresh EXCEPT ![q].at = "read"]
    <3>1. /\ \A p \in Tabs \X Slot : p # <<t, k>> => refresh'[p] = refresh[p]
          /\ refresh'[q] = [refresh[q] EXCEPT !.at = "read"]
      BY <1>1, <2>2 DEF LossInv, IInv, RequestsInv
    <3>2. refresh'[q].at = "read" /\ refresh'[q].token = n
      BY <3>1 DEF LossInv, IInv, RequestsInv, RequestInv, RequestFits
    <3> QED BY <1>1, <3>1, <3>2 DEF ServedOnly
  <2> QED BY <2>1, <2>2 DEF Look
<1>6. refresh'[<<t, "page">>].at = "ok" => refresh'[<<t, "page">>].next # 0
  BY <1>5, Slots DEF ServedOnly, LossInv, Shape, OkInv
<1>7. OneTab(t) /\ IsOpen(t) /\ Held(t)' = Held(t)
  BY <1>5, <1>6, ServedIsOneTab
<1>8. NoNewCommit
  BY <1>5 DEF ServedOnly, NoNewCommit
<1>9. CASE WorksOn(n) # 0
  <2>1. UNCHANGED <<tokens, sessions, overlapped>>
    BY <1>9 DEF Look
  <2>2. FutureInv'
    BY <1>1, <2>1, FutureKept DEF LossInv
  <2>3. ASSUME Forgiving, Forgiving' PROVE RevokedInv' /\ TabInv(t)'
    <3>1. RevokedInv /\ TabInv(t)
      BY <1>7, <2>3 DEF LossInv
    <3>2. RevokedInv'
      BY <1>8, <2>1, <3>1, RevokedKept DEF NoNewCommit
    <3>3. TabInv(t)'
      BY <1>1, <1>3, <1>4, <1>5, <2>1, <2>3, <3>1, ServedKeepsTab DEF Rows
    <3> QED BY <3>2, <3>3
  <2> QED BY <1>3, <1>7, <2>2, <2>3, StepOfOneTab
<1>10. CASE WorksOn(n) = 0
  <2>1. /\ RevokeFamily(s)
        /\ refresh'[q].at \in {"none", "no"}
    <3>1. refresh' = Answer(<<t, k>>, "no", 0)
      BY <1>10 DEF Look
    <3>2. k = "page" \/ k = "gone"
      BY DEF Slot
    <3> QED BY <1>10, <3>1, <3>2, AnswerMakes DEF Look, LossInv
  <2>2. /\ sessions' = [sessions EXCEPT ![s] = Revoked(s, "reuse")]
        /\ ChainsKept
        /\ \A m \in Token : tokens'[m].revoked => tokens[m].revoked \/ SessionOf(m) = s
        /\ FutureInv'
    BY <1>1, <1>2, <2>1, FamilyRevoked
  <2>4. ASSUME Forgiving, Forgiving' PROVE RevokedInv' /\ TabInv(t)'
    <3>1. RevokedInv /\ TabInv(t) /\ IInv /\ OkInv
      BY <1>7, <2>4 DEF LossInv, Shape
    <3>2. k = "page" /\ n \in Live(t)
      BY <1>1, <1>4, <2>4 DEF Live, Busy
    <3>3. sessions[s].expired
      BY <1>2, <1>10, <3>1, <3>2, TheftMeansExpired DEF TabInv, Weak
    <3>4. \A z \in Session : /\ sessions'[z].expired = sessions[z].expired
                             /\ z # s => sessions'[z] = sessions[z]
      BY <1>2, <2>2 DEF Revoked, LossInv, IInv, RowInv, RowTypes, SessionRow
    <3>5. ASSUME NEW m \in Token, tokens'[m].revoked PROVE sessions'[tokens'[m].session].expired
      <4>1. tokens'[m].session = SessionOf(m)
        BY <2>2 DEF ChainsKept, SessionOf
      <4>2. CASE SessionOf(m) = s
        BY <1>2, <3>3, <3>4, <4>1, <4>2
      <4>3. CASE SessionOf(m) # s
        <5>1. tokens[m].revoked
          BY <2>2, <3>5, <4>3
        <5>2. m <= issued
          BY <1>3, <5>1, BoundsAssumption
             DEF LossInv, Shape, FutureInv, NoToken, Token, IInv, RowInv, RowTypes
        <5>3. SessionOf(m) \in Session
          BY <5>2, BoundsAssumption DEF LossInv, IInv, RowInv, RowTypes, TokenRowInv, Session
        <5> QED BY <3>1, <3>4, <4>1, <5>1, <5>3 DEF RevokedInv
      <4> QED BY <4>2, <4>3
    <3>6. ASSUME NEW p \in Tabs \X Slot, refresh'[p].at = "commit", refresh'[p].rowRevoked
          PROVE  sessions'[tokens'[refresh'[p].row].session].expired
      <4>1. refresh'[p] = refresh[p]
        BY <2>1, <1>5, <3>6 DEF ServedOnly
      <4>2. refresh[p].row \in Token /\ SessionOf(refresh[p].row) \in Session
        BY <3>1, <3>6, <4>1, CommitKnows
      <4> QED BY <2>2, <3>1, <3>4, <3>6, <4>1, <4>2 DEF RevokedInv, ChainsKept, SessionOf
    <3>7. ASSUME NEW z \in Session, sessions'[z].reason = "reuse" PROVE sessions'[z].expired
      BY <3>1, <3>3, <3>4, <3>7 DEF RevokedInv
    <3>8. RevokedInv'
      BY <3>5, <3>6, <3>7 DEF RevokedInv, SessionOf
    <3>9. TabInv(t)'
      <4>1. Live(t)' \subseteq Live(t)
        BY <1>7, <2>1, <3>2, <1>1 DEF Live, Busy
      <4>2. GoneKept(t)
        BY <1>5, <2>2, <3>2, Slots, TokenAtServer, <3>1
           DEF GoneKept, HasLooked, ServedOnly, ChainsKept, SessionOf
      <4> QED BY <1>3, <1>7, <2>2, <3>1, <4>1, <4>2, TabKept
    <3> QED BY <3>8, <3>9
  <2> QED BY <1>3, <1>7, <2>2, <2>4, StepOfOneTab
<1> QED BY <1>9, <1>10

\* A look whose reads fail costs the one loss there is, and before it the tab
\* presents no token that has been used.
LEMMA LookFailsForgiven ==
    ASSUME LossInv, IInv', NEW t \in Tabs, NEW k \in Slot, LookFails(<<t, k>>) PROVE LossInv'
<1> DEFINE q == <<t, k>>
           n == refresh[q].token
           s == SessionOf(n)
<1>1. /\ UNCHANGED tabVars /\ UNCHANGED <<issued, opened>>
      /\ refresh[q].at = "look" /\ q \in Tabs \X Slot
      /\ late' = (late \/ k = "gone")
      /\ refresh' = Answer(<<t, k>>, "no", 0)
      /\ losses' = losses + 1
  BY DEF LookFails
<1>2. n \in Token /\ n <= issued /\ s \in Session
  BY <1>1, LookKnows DEF LossInv
<1>3. losses \in Nat /\ losses' \in Nat /\ losses <= losses' /\ (late => late')
  BY <1>1, BoundsAssumption DEF LossInv, IInv, CountInv, CountsFit
<1>4. Forgiving' => k = "page" /\ losses = 0
  <2>1. Forgiving' => k # "gone"
    BY <1>1 DEF Forgiving
  <2>2. Forgiving' => losses' <= 1
    BY DEF Forgiving
  <2>3. losses' <= 1 => losses = 0
    BY <1>1, <1>3
  <2> QED BY <2>1, <2>2, <2>3 DEF Slot
<1>5. ServedOnly(t, k) /\ refresh'[q].at \in {"none", "no"}
  <2>1. (\A p \in Tabs \X Slot : p # <<t, k>> => refresh'[p] = refresh[p])
        /\ (k = "page" => refresh'[<<t, k>>].at = "no") /\ (k = "gone" => refresh'[<<t, k>>].at = "none")
    BY <1>1, AnswerMakes DEF LossInv
  <2>2. k = "page" \/ k = "gone"
    BY DEF Slot
  <2> QED BY <1>1, <2>1, <2>2 DEF ServedOnly
<1>6. refresh'[<<t, "page">>].at = "ok" => refresh'[<<t, "page">>].next # 0
  BY <1>5, Slots DEF ServedOnly, LossInv, Shape, OkInv
<1>7. OneTab(t) /\ IsOpen(t)
  BY <1>5, <1>6, ServedIsOneTab
<1>8. \A p \in Tabs \X Slot : refresh'[p].at = "commit" => refresh'[p] = refresh[p]
  BY <1>5 DEF ServedOnly
<1>9. CASE UNCHANGED <<tokens, sessions, overlapped>>
  <2>1. FutureInv'
    BY <1>1, <1>9, FutureKept DEF LossInv
  <2>2. ASSUME Forgiving PROVE RevokedInv' /\ TabInv(t)'
    <3>1. RevokedInv /\ TabInv(t)
      BY <1>7, <2>2 DEF LossInv
    <3>2. RevokedInv'
      BY <1>8, <1>9, <3>1, RevokedKept
    <3>3. TabInv(t)'
      BY <1>1, <1>3, <1>5, <1>9, <3>1, ServedKeepsTab DEF Rows
    <3> QED BY <3>2, <3>3
  <2> QED BY <1>3, <1>7, <2>1, <2>2, StepOfOneTab
<1>10. CASE tokens[n].used /\ RevokeFamily(s)
  <2>1. FutureInv'
    BY <1>1, <1>2, <1>10, FamilyRevoked
  <2>2. ASSUME Forgiving, Forgiving' PROVE FALSE
    <3>1. TabInv(t) /\ k = "page" /\ losses = 0
      BY <1>4, <1>7, <2>2 DEF LossInv
    <3>2. n \in Live(t)
      BY <1>1, <3>1 DEF Live, Busy
    <3> QED BY <1>10, <3>1, <3>2 DEF TabInv, Strict
  <2> QED BY <1>3, <1>7, <2>1, <2>2, StepOfOneTab
<1> QED BY <1>9, <1>10 DEF LookFails

-----------------------------------------------------------------------------
(* The commit of a refresh. *)

\* The rows after the row of session s has been spent for a new one.
SpentFor(row, s, n) ==
    /\ row \in Token /\ row <= issued /\ s = SessionOf(row) /\ s \in Session
    /\ n \in Token /\ n > issued /\ issued' = n
    /\ tokens'[row].session = s /\ tokens'[row].used /\ tokens'[row].replacedBy = n
    /\ tokens'[n] = FreshToken(s)
    /\ \A m \in Token \ {row, n} : tokens'[m] = tokens[m]

LEMMA CommitSpends ==
    ASSUME IInv, NEW q \in Tabs \X Slot, Commit(q)
    PROVE  /\ SpentFor(refresh[q].row, SessionOf(refresh[q].row), issued + 1)
           /\ tokens'[refresh[q].row].revoked = refresh[q].rowRevoked
<1> DEFINE r == refresh[q]
           row == r.row
           s == SessionOf(row)
<1>1. /\ r.at = "commit" /\ issued < MaxTokens /\ issued' = issued + 1
      /\ tokens' = [tokens EXCEPT ![row] = Spent(r, issued'), ![issued'] = FreshToken(s)]
  BY DEF Commit
<1>2. row \in Token /\ row <= issued /\ s \in Session
  BY <1>1, CommitKnows
<1>3. issued \in Nat /\ issued' \in Token /\ row # issued' /\ issued' > issued
  BY <1>1, <1>2, BoundsAssumption DEF Token, IInv, RowInv, RowTypes
<1>4. /\ tokens'[row] = Spent(r, issued') /\ tokens'[issued'] = FreshToken(s)
      /\ \A m \in Token \ {row, issued'} : tokens'[m] = tokens[m]
  BY <1>1, <1>2, <1>3 DEF IInv, RowInv, RowTypes
<1>5. /\ tokens'[row].session = s /\ tokens'[row].used /\ tokens'[row].replacedBy = issued'
      /\ tokens'[row].revoked = r.rowRevoked
  BY <1>4 DEF Spent
<1> HIDE DEF r, row, s
<1>6. SpentFor(row, s, issued')
  BY <1>2, <1>3, <1>4, <1>5 DEF SpentFor, s
<1> QED BY <1>1, <1>5, <1>6 DEF r, row, s

\* What spending a row does to a token that works.
LEMMA GoodAfterSpending ==
    ASSUME IInv, NEW row, NEW s, NEW n, SpentFor(row, s, n),
           NEW x \in Token, x <= issued, Good(x), tokens[x].used => SessionOf(x) # s
    PROVE  Good(x)'
<1>1. CASE x = row
  BY <1>1, BoundsAssumption DEF SpentFor, Good, FreshToken, Token
<1>2. CASE x # row
  <2>1. x # n /\ tokens'[x] = tokens[x]
    BY <1>2, BoundsAssumption DEF SpentFor, Token, IInv, RowInv, RowTypes
  <2>2. ASSUME tokens[x].used
        PROVE  tokens[x].replacedBy # 0 /\ ~tokens'[tokens[x].replacedBy].used
    <3> DEFINE rep == tokens[x].replacedBy
    <3>1. rep # 0 /\ ~tokens[rep].used /\ SessionOf(x) # s
      BY <2>2 DEF Good
    <3>2. rep \in Token /\ rep <= issued /\ SessionOf(rep) = SessionOf(x)
      BY <3>1, ReplacementIsToken DEF IInv, RowInv, TokenRowInv
    <3>3. rep # row /\ rep # n
      BY <3>1, <3>2, BoundsAssumption DEF SpentFor, Token, IInv, RowInv, RowTypes
    <3> QED BY <3>1, <3>2, <3>3 DEF SpentFor
  <2> QED BY <2>1, <2>2 DEF Good
<1> QED BY <1>1, <1>2

\* The commit of a page gone: the tab's tokens were clear of it, or unused.
LEMMA CommitOfGone ==
    ASSUME IInv, OkInv, NEW t \in Tabs, NEW row, NEW s, NEW n, SpentFor(row, s, n), TabInv(t),
           HasLooked(<<t, "gone">>, s), refresh'[<<t, "gone">>].at = "none",
           losses' = losses, Live(t)' = Live(t), Held(t)' = Held(t)
    PROVE  TabInv(t)'
<1>1. \A x \in Live(t) \cup Held(t) : x \in Token /\ x <= issued
  BY TokensOfTab
<1>2. \A x : Clear(t, x)'
  BY DEF Clear, HasLooked
<1>3. \A x : Clear(t, x) => SessionOf(x) # s
  BY DEF Clear
<1>4. ASSUME NEW x \in Live(t) PROVE Weak(t, x)'
  <2>1. Weak(t, x)
    BY DEF TabInv
  <2>2. Good(x)'
    BY <1>1, <1>3, <2>1, GoodAfterSpending DEF Weak
  <2> QED BY <1>2, <2>2 DEF Weak
<1>5. ASSUME losses = 0, NEW x \in Live(t) PROVE Strict(t, x)'
  <2>1. ~tokens[x].used /\ x # row
    BY <1>3, <1>5 DEF TabInv, Strict, SpentFor
  <2>2. x # n
    BY <1>1, BoundsAssumption DEF SpentFor, Token, IInv, RowInv, RowTypes
  <2> QED BY <1>1, <1>2, <2>1, <2>2 DEF SpentFor, Strict
<1>6. ASSUME losses = 0, NEW x \in Held(t) PROVE Soft(t, x)'
  <2>1. Soft(t, x)
    BY <1>6 DEF TabInv
  <2>2. Good(x)'
    BY <1>1, <1>3, <2>1, GoodAfterSpending DEF Soft
  <2> QED BY <1>2, <2>2 DEF Soft
<1> QED BY <1>4, <1>5, <1>6 DEF TabInv

\* The commit of the page: its answer carries a token that is new.
LEMMA CommitOfPage ==
    ASSUME IInv, OkInv, NEW t \in Tabs, NEW row, NEW s, NEW n, SpentFor(row, s, n), TabInv(t),
           refresh[<<t, "page">>].at = "commit", SessionOf(refresh[<<t, "page">>].token) = s,
           refresh'[<<t, "page">>].at = "ok", refresh'[<<t, "page">>].next = n,
           refresh'[<<t, "gone">>] = refresh[<<t, "gone">>],
           losses' = losses, Held(t)' = Held(t)
    PROVE  TabInv(t)'
<1> DEFINE old == refresh[<<t, "page">>].token
<1>1. \A x \in Live(t) \cup Held(t) : x \in Token /\ x <= issued
  BY TokensOfTab
<1>2. Live(t)' = {n} /\ old \in Live(t) /\ Held(t) \subseteq Live(t)
  BY DEF Live, Busy
<1>3. n \in Token /\ ~tokens'[n].used /\ tokens'[n].session = s
  BY DEF SpentFor, FreshToken
<1>4. ASSUME NEW x \in Token, x <= issued PROVE tokens'[x].session = tokens[x].session
  <2>1. x # n
    BY <1>4, BoundsAssumption DEF SpentFor, Token, IInv, RowInv, RowTypes
  <2> QED BY <2>1 DEF SpentFor, SessionOf
<1>5. ASSUME NEW z, HasLooked(<<t, "gone">>, z)' PROVE HasLooked(<<t, "gone">>, z)
  <2>1. refresh[<<t, "gone">>].at \in {"read", "commit"}
    BY <1>5 DEF HasLooked
  <2>2. refresh[<<t, "gone">>].token \in Token /\ refresh[<<t, "gone">>].token <= issued
    BY <2>1, Slots, TokenAtServer
  <2> QED BY <1>4, <1>5, <2>1, <2>2 DEF HasLooked, SessionOf
<1>6. ASSUME losses = 0, NEW x \in Held(t) PROVE Soft(t, x)'
  <2>1. Strict(t, x)
    BY <1>2, <1>6 DEF TabInv
  <2>2. Good(x) /\ ~tokens[x].used
    BY <2>1 DEF Strict, Good
  <2>3. Good(x)'
    BY <1>1, <2>2, GoodAfterSpending
  <2>4. Clear(t, x)'
    BY <1>1, <1>4, <1>5, <2>1 DEF Strict, Clear, SessionOf
  <2> QED BY <2>3, <2>4 DEF Soft
<1>7. ASSUME losses = 0, NEW x, x = n PROVE Strict(t, x)'
  <2>1. Clear(t, old)
    BY <1>2, <1>7 DEF TabInv, Strict
  <2>2. Clear(t, x)'
    BY <1>3, <1>5, <1>7, <2>1 DEF Clear, SessionOf
  <2> QED BY <1>3, <1>7, <2>2 DEF Strict
<1>8. ASSUME NEW x, x = n PROVE Weak(t, x)'
  BY <1>3, <1>8 DEF Weak, Good
<1> QED BY <1>2, <1>6, <1>7, <1>8 DEF TabInv

LEMMA CommitForgiven ==
    ASSUME LossInv, IInv', NEW t \in Tabs, NEW k \in Slot, Commit(<<t, k>>) PROVE LossInv'
<1> DEFINE q == <<t, k>>
           r == refresh[q]
           row == r.row
           s == SessionOf(row)
           n == issued + 1
<1>1. /\ UNCHANGED tabVars /\ UNCHANGED <<losses, late>>
      /\ r.at = "commit" /\ q \in Tabs \X Slot /\ issued' = n
      /\ sessions' = [sessions EXCEPT ![s] = Saved(@)]
      /\ refresh' = Answer(<<t, k>>, "ok", n)
  BY DEF Commit, counts
<1>2. SpentFor(row, s, n) /\ tokens'[row].revoked = r.rowRevoked
  BY <1>1, CommitSpends DEF LossInv
<1>3. /\ ServedOnly(t, k)
      /\ k = "page" => refresh'[q].at = "ok" /\ refresh'[q].next = n
      /\ k = "gone" => refresh'[q].at = "none"
  <2>1. (\A p \in Tabs \X Slot : p # <<t, k>> => refresh'[p] = refresh[p])
        /\ (k = "page" => refresh'[<<t, k>>].at = "ok" /\ refresh'[<<t, k>>].next = n)
        /\ (k = "gone" => refresh'[<<t, k>>].at = "none")
    BY <1>1, AnswerMakes DEF LossInv
  <2> QED BY <1>1, <2>1 DEF ServedOnly
<1>4. n # 0 /\ losses <= losses'
  BY <1>1, BoundsAssumption DEF LossInv, IInv, CountInv, CountsFit, RowInv, RowTypes
<1>5. k = "page" \/ k = "gone"
  BY DEF Slot
<1>6. refresh'[<<t, "page">>].at = "ok" => refresh'[<<t, "page">>].next # 0
  BY <1>3, <1>4, <1>5, Slots DEF ServedOnly, LossInv, Shape, OkInv
<1>7. OneTab(t) /\ IsOpen(t) /\ Held(t)' = Held(t)
  BY <1>3, <1>6, ServedIsOneTab
<1>8. FutureInv'
  <2>1. ASSUME NEW m \in Token, m > issued' PROVE tokens'[m] = NoToken
    <3>1. m > issued /\ m # n /\ m # row
      BY <1>2, <2>1, BoundsAssumption DEF SpentFor, Token, LossInv, IInv, RowInv, RowTypes
    <3> QED BY <1>2, <3>1 DEF SpentFor, FutureInv, LossInv, Shape
  <2> QED BY <2>1 DEF FutureInv
<1>9. \A z \in Session : /\ sessions'[z].expired = sessions[z].expired
                         /\ sessions'[z].reason = "reuse" => sessions[z].reason = "reuse"
  BY <1>1, <1>2 DEF SpentFor, Saved, LossInv, IInv, RowInv, RowTypes, SessionRow
<1>10. ASSUME RevokedInv PROVE RevokedInv'
  <2>1. ASSUME NEW m \in Token, tokens'[m].revoked PROVE sessions'[tokens'[m].session].expired
    <3>1. CASE m = row
      BY <1>1, <1>2, <1>9, <1>10, <2>1, <3>1 DEF SpentFor, RevokedInv
    <3>2. CASE m = n
      BY <1>2, <2>1, <3>2 DEF SpentFor, FreshToken
    <3>3. CASE m # row /\ m # n
      <4>1. tokens'[m] = tokens[m]
        BY <1>2, <3>3 DEF SpentFor
      <4>2. m <= issued
        BY <2>1, <4>1, BoundsAssumption
           DEF LossInv, Shape, FutureInv, NoToken, Token, IInv, RowInv, RowTypes
      <4>3. SessionOf(m) \in Session
        BY <4>2, BoundsAssumption DEF LossInv, IInv, RowInv, RowTypes, TokenRowInv, Session
      <4> QED BY <1>9, <1>10, <2>1, <4>1, <4>3 DEF RevokedInv, SessionOf
    <3> QED BY <3>1, <3>2, <3>3
  <2>2. ASSUME NEW p \in Tabs \X Slot, refresh'[p].at = "commit", refresh'[p].rowRevoked
        PROVE  sessions'[tokens'[refresh'[p].row].session].expired
    <3>1. refresh'[p] = refresh[p]
      BY <1>3, <1>5, <2>2 DEF ServedOnly
    <3>2. /\ refresh[p].row \in Token /\ refresh[p].row <= issued
          /\ SessionOf(refresh[p].row) \in Session
      BY <2>2, <3>1, CommitKnows DEF LossInv
    <3>3. tokens'[refresh[p].row].session = SessionOf(refresh[p].row)
      <4> DEFINE m == refresh[p].row
      <4>1. m # n
        BY <3>2, BoundsAssumption DEF Token, LossInv, IInv, RowInv, RowTypes
      <4>2. m = row \/ tokens'[m] = tokens[m]
        BY <1>2, <3>2, <4>1 DEF SpentFor
      <4> QED BY <1>2, <4>2 DEF SpentFor, SessionOf
    <3> QED BY <1>9, <1>10, <2>2, <3>1, <3>2, <3>3 DEF RevokedInv
  <2>3. ASSUME NEW z \in Session, sessions'[z].reason = "reuse" PROVE sessions'[z].expired
    BY <1>9, <1>10, <2>3 DEF RevokedInv
  <2> QED BY <2>1, <2>2, <2>3 DEF RevokedInv, SessionOf
<1>11. ASSUME TabInv(t) PROVE TabInv(t)'
  <2>0. SessionOf(r.token) = s /\ IInv /\ OkInv
    BY <1>1, CommitKnows DEF LossInv, Shape, HasLooked
  <2>1. CASE k = "page"
    <3>1. refresh'[<<t, "gone">>] = refresh[<<t, "gone">>]
      BY <1>3, <2>1, Slots, PageNotGone DEF ServedOnly
    <3> QED BY <1>1, <1>2, <1>3, <1>7, <1>11, <2>0, <2>1, <3>1, CommitOfPage
  <2>2. CASE k = "gone"
    <3>1. refresh'[<<t, "page">>] = refresh[<<t, "page">>]
      BY <1>3, <2>2, Slots, PageNotGone DEF ServedOnly
    <3>2. Live(t)' = Live(t)
      BY <1>7, <3>1 DEF Live, Busy
    <3>3. HasLooked(<<t, "gone">>, s)
      BY <1>1, <2>0, <2>2 DEF HasLooked
    <3> QED BY <1>1, <1>2, <1>3, <1>7, <1>11, <2>0, <2>2, <3>2, <3>3, CommitOfGone
  <2> QED BY <1>5, <2>1, <2>2
<1>12. ASSUME Forgiving, Forgiving' PROVE RevokedInv' /\ TabInv(t)'
  BY <1>7, <1>10, <1>11, <1>12 DEF LossInv
<1> QED BY <1>1, <1>4, <1>7, <1>8, <1>12, StepOfOneTab

-----------------------------------------------------------------------------

LEMMA LossInductive == ASSUME LossInv, [Next]_vars PROVE LossInv'
<1>0. IInv'
  BY Inductive DEF LossInv
<1>1. ASSUME NEW q \in Tabs \X Slot, ServerStep(q) PROVE LossInv'
  <2>1. PICK t \in Tabs, k \in Slot : q = <<t, k>>
    OBVIOUS
  <2> QED BY <1>0, <1>1, <2>1, LookForgiven, LookFailsForgiven, TxReadForgiven, CommitForgiven,
         CommitFailsForgiven DEF ServerStep
<1>2. ASSUME NEW t \in Tabs, AnswerStep(t) PROVE LossInv'
  BY <1>0, <1>2, RefreshedForgiven, RefusedForgiven DEF AnswerStep
<1>3. ASSUME NEW t \in Tabs, TabStep(t) PROVE LossInv'
  BY <1>0, <1>3, LoadForgiven, LoginForgiven, RefreshLostForgiven, Refused401Forgiven,
     LogoutSentForgiven, LoggedOutForgiven, LogoutLostForgiven DEF TabStep
<1>4. ASSUME WorldStep PROVE LossInv'
  BY <1>0, <1>4, WorldForgiven
<1>5. CASE UNCHANGED vars
  BY <1>0, <1>5 DEF vars, LossInv, Shape, ClosedInv, FutureInv, OkInv, Forgiving, Alone, IsOpen,
     RevokedInv, TabInv, Live, Held, Busy, Weak, Strict, Soft, Good, Clear, HasLooked, SessionOf
<1> QED BY <1>1, <1>2, <1>3, <1>4, <1>5 DEF Next

LEMMA LossInitially == ASSUME Init PROVE LossInv
<1>1. IInv
  BY Initially
<1>2. ClosedInv
  BY DEF Init, ClosedInv, NoPair, NoRequest, NoLeave, Slot
<1>3. FutureInv /\ OkInv
  BY Slots DEF Init, FutureInv, OkInv, NoRequest
<1>4. RevokedInv
  BY DEF Init, RevokedInv, NoToken, NoRequest, NoSession
<1>5. \A t \in Tabs : ~IsOpen(t)
  BY DEF Init, IsOpen
<1> QED BY <1>1, <1>2, <1>3, <1>4, <1>5 DEF LossInv, Shape

\* Tabs are opened one at a time, so those open can be counted.
OpenTabs == {t \in Tabs : IsOpen(t)}

LEMMA OpenTabsFinite == ASSUME IInv, IsFiniteSet(OpenTabs), [Next]_vars PROVE IsFiniteSet(OpenTabs)'
<1>1. PICK t : OpenTabs' \subseteq OpenTabs \cup {t}
  <2>1. ASSUME ui' = ui PROVE OpenTabs' \subseteq OpenTabs
    BY <2>1 DEF OpenTabs, IsOpen
  <2>2. ASSUME NEW u \in Tabs, NEW x, ui' = [ui EXCEPT ![u] = x]
        PROVE  OpenTabs' \subseteq OpenTabs \cup {u}
    BY <2>2 DEF OpenTabs, IsOpen, IInv, ClientInv
  <2>3. ASSUME NEW u \in Tabs, AnswerStep(u) \/ TabStep(u)
        PROVE  OpenTabs' \subseteq OpenTabs \cup {u}
    <3>1. ui' = ui \/ \E x : ui' = [ui EXCEPT ![u] = x]
      BY <2>3 DEF AnswerStep, TabStep, Refreshed, Refused, Failed, TryCookie, GiveUp, Load, Login,
                  StartPage, RefreshLost, Refused401, LogoutSent, LoggedOut, LogoutLost
    <3> QED BY <2>1, <2>2, <3>1
  <2>4. ASSUME NEW q \in Tabs \X Slot, ServerStep(q) PROVE ui' = ui
    BY <2>4 DEF ServerStep, Look, LookFails, TxRead, Commit, CommitFails, tabVars
  <2>5. ASSUME WorldStep PROVE ui' = ui
    BY <2>5 DEF WorldStep, AccessExpires, SessionExpires, RevokedElsewhere, tabVars
  <2>6. CASE UNCHANGED vars
    BY <2>1, <2>6 DEF vars
  <2> QED BY <2>1, <2>3, <2>4, <2>5, <2>6 DEF Next
<1>2. IsFiniteSet(OpenTabs \cup {t})
  BY FS_AddElement
<1> QED BY <1>1, <1>2, FS_Subset

LEMMA OneIsAlone == ASSUME IsFiniteSet(OpenTabs), Cardinality(OpenTabs) <= 1 PROVE Alone
<1>1. ASSUME NEW t \in Tabs, NEW u \in Tabs, IsOpen(t), IsOpen(u), t # u PROVE FALSE
  <2>1. {t, u} \subseteq OpenTabs
    BY <1>1 DEF OpenTabs
  <2>2. IsFiniteSet({t, u}) /\ Cardinality({t, u}) <= Cardinality(OpenTabs)
    BY <2>1, FS_Subset
  <2>3. IsFiniteSet({t}) /\ Cardinality({t}) = 1
    BY FS_Singleton
  <2>4. {t, u} = {t} \cup {u} /\ u \notin {t}
    BY <1>1
  <2>5. Cardinality({t, u}) = 2
    <3>1. Cardinality({t} \cup {u}) = Cardinality({t}) + 1
      BY <2>3, <2>4, FS_AddElement
    <3> QED BY <2>3, <2>4, <3>1
  <2>6. Cardinality(OpenTabs) \in Nat
    BY FS_CardinalityType
  <2> QED BY <2>2, <2>5, <2>6
<1> QED BY <1>1 DEF Alone

\* With one tab, one lost answer, failed commit or reload never makes the server take
\* the tab for a thief, whatever expires, is revoked elsewhere or is signed out in
\* between (auth_service.go:245-264).
THEOREM OneLossIsForgiven == Spec => []OneLossForgiven
<1>1. Init => LossInv /\ IsFiniteSet(OpenTabs)
  <2>1. ASSUME Init PROVE OpenTabs = {}
    BY <2>1 DEF Init, OpenTabs, IsOpen
  <2> QED BY <2>1, LossInitially, FS_EmptySet
<1>2. LossInv /\ IsFiniteSet(OpenTabs) /\ [Next]_vars => LossInv' /\ IsFiniteSet(OpenTabs)'
  BY LossInductive, OpenTabsFinite DEF LossInv
<1>3. LossInv /\ IsFiniteSet(OpenTabs) => OneLossForgiven
  <2>1. OpenTabs = {t \in Tabs : ui[t] # "closed"}
    BY DEF OpenTabs, IsOpen
  <2> QED BY <2>1, OneIsAlone DEF OneLossForgiven, LossInv, Forgiving, RevokedInv
<1> QED BY <1>1, <1>2, <1>3, PTL DEF Spec
=============================================================================
