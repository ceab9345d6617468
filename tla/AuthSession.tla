---------------------------- MODULE AuthSession ----------------------------
(***************************************************************************)
(* A signed-in browser: the authentication client of every tab             *)
(* (apps/lib/api/auth.ts, apps/lib/api/client.ts,                          *)
(* apps/context/AuthContext.tsx), the localStorage and the refresh cookie  *)
(* its tabs share, and the server side of refresh, login and logout        *)
(* (services/auth_service.go, services/auth.go, routes/auth.go).           *)
(*                                                                         *)
(* Each tab keeps its own copy of the tokens in memory and refreshes once  *)
(* at a time; nothing coordinates two tabs.  The server rotates a refresh  *)
(* token in steps: a look at the token and its session before the          *)
(* transaction, a second read of the token inside it, and the commit that  *)
(* saves whole rows as they were read.                                     *)
(*                                                                         *)
(* An access token and a refresh token are always issued together, so one  *)
(* number stands for the pair; 0 is `null`.                                *)
(***************************************************************************)
EXTENDS Naturals, FiniteSets

CONSTANTS
    Tabs,          \* the tabs of the browser
    MaxTokens,     \* bound: refresh tokens ever issued
    MaxSessions,   \* bound: sign-ins
    MaxTroubles    \* bound: losses (lost answers, failed reads and commits,
                   \* reloads) and lapses (expiries, revocations on another device)

ASSUME BoundsAssumption ==
    /\ MaxTokens \in Nat \ {0}
    /\ MaxSessions \in Nat \ {0}
    /\ MaxTroubles \in Nat

VARIABLES
    ui,         \* AuthContext's status in each tab
    mem,        \* accessToken and refreshToken of each tab's module
    storage,    \* the tokens in localStorage
    cookie,     \* the refresh token in the cookie jar
    waiting,    \* the tab has a request refused with 401 that waits for a refresh
    leaving,    \* the /auth/logout request of each tab
    refresh,    \* /auth/refresh requests: of the page, and of a page gone
    tokens,     \* rows of auth_refresh_tokens
    sessions,   \* rows of auth_sessions
    stale,      \* access tokens up to this one have expired
    issued,     \* tokens issued so far
    opened,     \* sessions opened so far
    losses,     \* losses so far
    lapses,     \* lapses so far
    overlapped, \* history: sessions revoked while a refresh had looked
    late        \* history: the server has looked at a refresh of a page gone

tabVars == <<ui, mem, storage, cookie, waiting, leaving>>
rowVars == <<tokens, sessions, issued, opened>>
history == <<overlapped, late>>
counts == <<losses, lapses>>
vars == <<ui, mem, storage, cookie, waiting, leaving, refresh, tokens, sessions,
          stale, issued, opened, losses, lapses, overlapped, late>>

Token == 1..MaxTokens
Session == 1..MaxSessions
OrNull(S) == S \cup {0}
Slot == {"page", "gone"}

Pair == [access : OrNull(Token), refresh : OrNull(Token)]
NoPair == [access |-> 0, refresh |-> 0]
PairOf(n) == [access |-> n, refresh |-> n]

TokenRow == [session : OrNull(Session), used : BOOLEAN,
             replacedBy : OrNull(Token), revoked : BOOLEAN]
NoToken == [session |-> 0, used |-> FALSE, replacedBy |-> 0, revoked |-> FALSE]
FreshToken(s) == [session |-> s, used |-> FALSE, replacedBy |-> 0, revoked |-> FALSE]

SessionRow == [open : BOOLEAN, revoked : BOOLEAN, expired : BOOLEAN,
               reason : {"none", "logout", "reuse", "elsewhere"}]
NoSession == [open |-> FALSE, revoked |-> FALSE, expired |-> FALSE,
              reason |-> "none"]

\* A refresh request: where it is, how it carries its token, the row the
\* transaction read and whether that row was revoked, the token it issued.
Request == [at : {"none", "look", "read", "commit", "ok", "no"},
            via : {"body", "cookie"}, token : OrNull(Token),
            row : OrNull(Token), rowRevoked : BOOLEAN, next : OrNull(Token)]
NoRequest == [at |-> "none", via |-> "body", token |-> 0, row |-> 0,
              rowRevoked |-> FALSE, next |-> 0]
Sent(via, n) == [at |-> "look", via |-> via, token |-> n, row |-> 0,
                 rowRevoked |-> FALSE, next |-> 0]
Answered(via, outcome, n) == [at |-> outcome, via |-> via, token |-> 0, row |-> 0,
                              rowRevoked |-> FALSE, next |-> n]

\* A logout carries the access token it was sent with.
LeaveState == [at : {"none", "sent"}, access : OrNull(Token)]
NoLeave == [at |-> "none", access |-> 0]

TypeOK ==
    /\ ui \in [Tabs -> {"closed", "loading", "authenticated", "unauthenticated"}]
    /\ mem \in [Tabs -> Pair]
    /\ storage \in Pair
    /\ cookie \in OrNull(Token)
    /\ waiting \in [Tabs -> BOOLEAN]
    /\ leaving \in [Tabs -> LeaveState]
    /\ refresh \in [Tabs \X Slot -> Request]
    /\ \A q \in Tabs \X Slot :
          refresh[q].at \in {"look", "read", "commit"} => refresh[q].token # 0
    /\ tokens \in [Token -> TokenRow]
    /\ sessions \in [Session -> SessionRow]
    /\ stale \in 0..MaxTokens
    /\ issued \in 0..MaxTokens
    /\ opened \in 0..MaxSessions
    /\ losses \in 0..MaxTroubles
    /\ lapses \in 0..MaxTroubles
    /\ overlapped \in SUBSET Session
    /\ late \in BOOLEAN

Init ==
    /\ ui = [t \in Tabs |-> "closed"]
    /\ mem = [t \in Tabs |-> NoPair]
    /\ storage = NoPair
    /\ cookie = 0
    /\ waiting = [t \in Tabs |-> FALSE]
    /\ leaving = [t \in Tabs |-> NoLeave]
    /\ refresh = [q \in Tabs \X Slot |-> NoRequest]
    /\ tokens = [n \in Token |-> NoToken]
    /\ sessions = [s \in Session |-> NoSession]
    /\ stale = 0
    /\ issued = 0
    /\ opened = 0
    /\ losses = 0
    /\ lapses = 0
    /\ overlapped = {}
    /\ late = FALSE

-----------------------------------------------------------------------------
Trouble == losses + lapses < MaxTroubles

(* What the server knows of a token.                                       *)

SessionOf(n) == tokens[n].session
\* Mutant: only the expiry of the session is checked.
OverByTimeOnly(s) == sessions[s].expired

Over(s) == sessions[s].revoked \/ sessions[s].expired

\* JWTIdentityProvider.Authenticate.
Authenticates(n) == n # 0 /\ n > stale /\ ~Over(SessionOf(n))

Usable(n) == ~tokens[n].revoked /\ ~sessions[SessionOf(n)].expired /\ ~tokens[n].used

\* Mutant: no sibling is looked for, as before multi-tab use was thought of.
SiblingIgnored(n) == 0

\* The token a refresh works on: the one presented or, when that was rotated
\* already, its replacement ("sibling") if still usable; 0 when there is none.
Sibling(n) == IF tokens[n].replacedBy # 0 /\ Usable(tokens[n].replacedBy)
              THEN tokens[n].replacedBy ELSE 0
WorksOn(n) == IF tokens[n].used THEN Sibling(n) ELSE n

\* A refresh that has looked at session s and not yet saved it.
HasLooked(q, s) ==
    /\ refresh[q].at \in {"read", "commit"}
    /\ SessionOf(refresh[q].token) = s

Revoked(s, why) ==
    IF sessions[s].revoked THEN sessions[s]
    ELSE [sessions[s] EXCEPT !.revoked = TRUE, !.reason = why]

\* AuthSessions().Revoke and RevokeFamily; a family is a session here.
Revoke(s, why) ==
    /\ sessions' = [sessions EXCEPT ![s] = Revoked(s, why)]
    /\ overlapped' =
        IF \E q \in Tabs \X Slot : HasLooked(q, s)
        THEN overlapped \cup {s} ELSE overlapped

-----------------------------------------------------------------------------
(* The client: sending refreshes.                                          *)

Stored(t) == IF mem[t].access # 0 THEN mem[t].access ELSE storage.access

\* doRefresh's second try: no body, whatever the cookie jar holds.
\* With no cookie the handler refuses at once.
ByCookie == IF cookie = 0 THEN Answered("cookie", "no", 0) ELSE Sent("cookie", cookie)

\* doRefresh: `refreshToken ?? readStorageRefreshToken()`, else the cookie.
FirstTry(memory, stored) ==
    LET n == IF memory # 0 THEN memory ELSE stored
    IN IF n # 0 THEN Sent("body", n) ELSE ByCookie

\* refreshAccessToken: one refresh per tab, shared by all who ask.
Joined(t) ==
    IF refresh[<<t, "page">>].at # "none" THEN refresh[<<t, "page">>]
    ELSE FirstTry(mem[t].refresh, storage.refresh)

\* The page's refresh is still with the server.
Busy(t) == refresh[<<t, "page">>].at \in {"look", "read", "commit"}

\* A page starts with empty memory and bootstraps: its first effect refreshes.
\* What the old page had asked for goes on at the server, unanswered.
StartPage(t, kept) ==
    /\ Busy(t) => refresh[<<t, "gone">>].at = "none"
    /\ ui' = [ui EXCEPT ![t] = "loading"]
    /\ mem' = [mem EXCEPT ![t] = NoPair]
    /\ waiting' = [waiting EXCEPT ![t] = FALSE]
    /\ leaving' = [leaving EXCEPT ![t] = NoLeave]
    /\ refresh' = [refresh EXCEPT
            ![<<t, "gone">>] = IF Busy(t) THEN refresh[<<t, "page">>] ELSE @,
            ![<<t, "page">>] = FirstTry(0, kept)]

\* A tab is opened, or reloaded at any moment.
Load(t) ==
    /\ IF ui[t] = "closed" THEN UNCHANGED losses
       ELSE Trouble /\ losses' = losses + 1
    /\ StartPage(t, storage.refresh)
    /\ UNCHANGED <<storage, cookie, rowVars, stale, lapses, history>>

\* AuthContext.login: the server opens a session, the answer is applied to
\* memory and storage, and the page moves to the platform by a full load.
Login(t) ==
    /\ ui[t] = "unauthenticated"
    /\ opened < MaxSessions /\ issued < MaxTokens
    /\ opened' = opened + 1
    /\ issued' = issued + 1
    /\ sessions' = [sessions EXCEPT ![opened'] = [NoSession EXCEPT !.open = TRUE]]
    /\ tokens' = [tokens EXCEPT ![issued'] = FreshToken(opened')]
    /\ storage' = PairOf(issued')
    /\ cookie' = issued'
    /\ StartPage(t, issued')
    /\ UNCHANGED <<stale, counts, history>>

-----------------------------------------------------------------------------
(* The server: AuthService.Refresh.                                        *)

\* A refresh ends: the page will hear of it, a page that is gone will not.
Answer(q, outcome, n) ==
    [refresh EXCEPT ![q] =
        IF q[2] = "gone" THEN NoRequest ELSE Answered(refresh[q].via, outcome, n)]

RevokeFamily(s) ==
    /\ Revoke(s, "reuse")
    /\ tokens' = [m \in Token |->
            IF SessionOf(m) = s THEN [tokens[m] EXCEPT !.revoked = TRUE] ELSE tokens[m]]

\* The look before the transaction.  A token used twice over revokes the
\* whole family.
Look(q) ==
    /\ refresh[q].at = "look"
    /\ LET n == refresh[q].token
           work == WorksOn(n)
           s == SessionOf(n)
       IN \/ /\ work = 0
             /\ RevokeFamily(s)
             /\ refresh' = Answer(q, "no", 0)
          \/ /\ work # 0
             /\ refresh' = IF tokens[work].revoked \/ Over(s) THEN Answer(q, "no", 0)
                           ELSE [refresh EXCEPT ![q].at = "read"]
             /\ UNCHANGED <<tokens, sessions, overlapped>>
    /\ late' = (late \/ q[2] = "gone")
    /\ UNCHANGED <<tabVars, stale, issued, opened, counts>>

\* A read of the look fails, and the refresh with it; if it was the replacement's,
\* that one counts as unusable, and the family is revoked.
LookFails(q) ==
    /\ refresh[q].at = "look"
    /\ Trouble
    /\ losses' = losses + 1
    /\ LET n == refresh[q].token
       IN \/ UNCHANGED <<tokens, sessions, overlapped>>
          \/ tokens[n].used /\ RevokeFamily(SessionOf(n))
    /\ refresh' = Answer(q, "no", 0)
    /\ late' = (late \/ q[2] = "gone")
    /\ UNCHANGED <<tabVars, stale, issued, opened, lapses>>

ReadRow(r, row) == [at |-> "commit", via |-> r.via, token |-> r.token, row |-> row,
                    rowRevoked |-> tokens[row].revoked, next |-> 0]

\* Inside the transaction the token is read again; a family revoked here is
\* rolled back with the transaction that fails.
TxRead(q) ==
    /\ refresh[q].at = "read"
    /\ LET row == WorksOn(refresh[q].token)
       IN refresh' = IF row = 0 THEN Answer(q, "no", 0)
                     ELSE [refresh EXCEPT ![q] = ReadRow(@, row)]
    /\ UNCHANGED <<tabVars, rowVars, stale, counts, history>>

\* The rotated token, saved as it was read but for its use and replacement.
Spent(r, n) == [session |-> SessionOf(r.row), used |-> TRUE, replacedBy |-> n,
                revoked |-> r.rowRevoked]

\* The session as a refresh saves it: the look found it neither revoked nor expired.
Saved(row) == [row EXCEPT !.revoked = FALSE, !.reason = "none"]

\* The commit saves the token, its replacement and the session, each row whole
\* as it was read: the session as the look found it, not revoked.
Commit(q) ==
    /\ refresh[q].at = "commit"
    /\ issued < MaxTokens
    /\ LET row == refresh[q].row
           s == SessionOf(row)
       IN /\ issued' = issued + 1
          /\ tokens' = [tokens EXCEPT
                ![row] = Spent(refresh[q], issued'), ![issued'] = FreshToken(s)]
          /\ sessions' = [sessions EXCEPT ![s] = Saved(@)]
          /\ refresh' = Answer(q, "ok", issued')
    /\ UNCHANGED <<tabVars, stale, opened, counts, overlapped, late>>

\* The transaction fails; nothing of it stays.  (Also where the bound on tokens
\* stops the model: no rotation is left hanging.)
CommitFails(q) ==
    /\ refresh[q].at = "commit"
    /\ IF issued = MaxTokens THEN UNCHANGED losses
       ELSE Trouble /\ losses' = losses + 1
    /\ refresh' = Answer(q, "no", 0)
    /\ UNCHANGED <<tabVars, rowVars, stale, lapses, history>>

-----------------------------------------------------------------------------
(* The client: answers.                                                    *)

\* `bootstrap` and then AuthContext: a page that is loading takes the stored
\* token as its own and shows whether it has one.
ShownAfter(t, access) ==
    IF ui[t] # "loading" THEN ui[t]
    ELSE IF access # 0 THEN "authenticated" ELSE "unauthenticated"

\* applyRefreshResult, and every caller that shared the refresh goes on:
\* bootstrap is done, a refused request is sent again.
Refreshed(t) ==
    LET r == refresh[<<t, "page">>]
    IN /\ r.at = "ok"
       /\ mem' = [mem EXCEPT ![t] = PairOf(r.next)]
       /\ storage' = PairOf(r.next)
       /\ cookie' = r.next
       /\ ui' = [ui EXCEPT ![t] = ShownAfter(t, r.next)]
       /\ waiting' = [waiting EXCEPT ![t] = FALSE]
       /\ refresh' = [refresh EXCEPT ![<<t, "page">>] = NoRequest]
       /\ UNCHANGED <<leaving, rowVars, stale, counts, history>>

\* The first try failed, for whatever reason: the refresh token is dropped
\* from this tab's memory and from the storage of all, and the cookie is tried.
TryCookie(t, gone) ==
    /\ mem' = [mem EXCEPT ![t].refresh = 0]
    /\ storage' = [storage EXCEPT !.refresh = 0]
    /\ refresh' = [gone EXCEPT ![<<t, "page">>] = ByCookie]
    /\ UNCHANGED <<ui, waiting>>

\* Mutant: only a refresh that succeeds releases the requests that share it.
GiveUpWithoutThem(t, gone) ==
    /\ ui' = [ui EXCEPT ![t] = ShownAfter(t, Stored(t))]
    /\ mem' = [mem EXCEPT ![t].access = IF ui[t] = "loading" THEN Stored(t) ELSE @]
    /\ refresh' = [gone EXCEPT ![<<t, "page">>] = NoRequest]
    /\ UNCHANGED <<storage, waiting>>

\* The second try failed: null for all who asked.  The tokens are kept; a page
\* that is loading falls back to them, a refused request fails.
GiveUp(t, gone) ==
    /\ ui' = [ui EXCEPT ![t] = ShownAfter(t, Stored(t))]
    /\ mem' = [mem EXCEPT ![t].access = IF ui[t] = "loading" THEN Stored(t) ELSE @]
    /\ waiting' = [waiting EXCEPT ![t] = FALSE]
    /\ refresh' = [gone EXCEPT ![<<t, "page">>] = NoRequest]
    /\ UNCHANGED storage

Failed(t, gone) ==
    \/ refresh[<<t, "page">>].via = "body" /\ TryCookie(t, gone)
    \/ refresh[<<t, "page">>].via = "cookie" /\ GiveUp(t, gone)

Refused(t) ==
    /\ refresh[<<t, "page">>].at = "no"
    /\ Failed(t, refresh)
    /\ UNCHANGED <<cookie, leaving, rowVars, stale, counts, history>>

\* The network fails under a refresh: to the client that is a refusal, while
\* the server may go on with it.
RefreshLost(t) ==
    /\ Trouble
    /\ losses' = losses + 1
    /\ \/ /\ refresh[<<t, "page">>].at \in {"look", "ok"}
          /\ Failed(t, refresh)
       \/ /\ refresh[<<t, "page">>].at \in {"look", "read", "commit"}
          /\ refresh[<<t, "gone">>].at = "none"
          /\ Failed(t, [refresh EXCEPT ![<<t, "gone">>] = refresh[<<t, "page">>]])
    /\ UNCHANGED <<cookie, leaving, rowVars, stale, lapses, history>>

-----------------------------------------------------------------------------
(* The client: protected requests and logout.                              *)

\* fetchWithAuth: a protected request is refused with 401, and starts or joins
\* a refresh.  (A request that is served changes nothing here; sent again after
\* the refresh it ends, for a second 401 is an error.)
Refused401(t) ==
    /\ ui[t] = "authenticated" /\ ~waiting[t] /\ leaving[t].at = "none"
    /\ ~Authenticates(Stored(t))
    /\ waiting' = [waiting EXCEPT ![t] = TRUE]
    /\ refresh' = [refresh EXCEPT ![<<t, "page">>] = Joined(t)]
    /\ UNCHANGED <<ui, mem, storage, cookie, leaving, rowVars, stale, counts, history>>

LogoutSent(t) ==
    /\ ui[t] = "authenticated" /\ leaving[t].at = "none"
    /\ leaving' = [leaving EXCEPT ![t] = [at |-> "sent", access |-> Stored(t)]]
    /\ UNCHANGED <<ui, mem, storage, cookie, waiting, refresh, rowVars, stale,
                   counts, history>>

\* routes/auth.go logout: the session is revoked only if the access token
\* still authenticates.
EndSession(t) ==
    IF Authenticates(leaving[t].access)
    THEN Revoke(SessionOf(leaving[t].access), "logout")
    ELSE UNCHANGED <<sessions, overlapped>>

\* clearStoredTokens: this tab's memory, and the storage of all.
ClearTokens(t) ==
    /\ leaving' = [leaving EXCEPT ![t] = NoLeave]
    /\ mem' = [mem EXCEPT ![t] = NoPair]
    /\ storage' = NoPair

\* The logout is served and answered, and AuthContext shows the tab signed out.
LoggedOut(t) ==
    /\ leaving[t].at = "sent"
    /\ EndSession(t)
    /\ ClearTokens(t)
    /\ cookie' = 0
    /\ ui' = [ui EXCEPT ![t] = "unauthenticated"]
    /\ UNCHANGED <<waiting, refresh, tokens, issued, opened, stale, counts, late>>

\* The logout or its answer is lost: `finally` clears the tokens all the same,
\* and the error leaves AuthContext as it was.
LogoutLost(t) ==
    /\ leaving[t].at = "sent"
    /\ Trouble
    /\ losses' = losses + 1
    /\ EndSession(t) \/ UNCHANGED <<sessions, overlapped>>
    /\ ClearTokens(t)
    /\ UNCHANGED <<ui, cookie, waiting, refresh, tokens, issued, opened, stale, lapses, late>>

-----------------------------------------------------------------------------
(* Time, and the user's other devices.                                     *)

\* The access tokens issued so far expire.
AccessExpires ==
    /\ Trouble /\ stale < issued
    /\ lapses' = lapses + 1
    /\ stale' = issued
    /\ UNCHANGED <<losses, tabVars, refresh, rowVars, history>>

\* JWTRefreshTTL ends a session.
SessionExpires(s) ==
    /\ Trouble /\ sessions[s].open /\ ~sessions[s].expired
    /\ lapses' = lapses + 1
    /\ sessions' = [sessions EXCEPT ![s].expired = TRUE]
    /\ UNCHANGED <<losses, tabVars, refresh, tokens, stale, issued, opened, history>>

\* LogoutAll or RevokeSession asked for on another device.
RevokedElsewhere(s) ==
    /\ Trouble /\ sessions[s].open /\ ~sessions[s].revoked
    /\ lapses' = lapses + 1
    /\ Revoke(s, "elsewhere")
    /\ UNCHANGED <<losses, tabVars, refresh, tokens, stale, issued, opened, late>>

-----------------------------------------------------------------------------
ServerStep(q) == Look(q) \/ LookFails(q) \/ TxRead(q) \/ Commit(q) \/ CommitFails(q)
AnswerStep(t) == Refreshed(t) \/ Refused(t)
TabStep(t) ==
    \/ Load(t) \/ Login(t) \/ RefreshLost(t) \/ Refused401(t)
    \/ LogoutSent(t) \/ LoggedOut(t) \/ LogoutLost(t)
WorldStep ==
    \/ AccessExpires
    \/ \E s \in Session : SessionExpires(s) \/ RevokedElsewhere(s)

Next ==
    \/ \E q \in Tabs \X Slot : ServerStep(q)
    \/ \E t \in Tabs : AnswerStep(t) \/ TabStep(t)
    \/ WorldStep

Spec == Init /\ [][Next]_vars

\* A request that was sent is handled and answered (a lost answer is an error
\* to the client, so it is an answer too).  Users and time owe nothing.
Fairness ==
    \A t \in Tabs : WF_vars(\/ \E k \in Slot : ServerStep(<<t, k>>)
                            \/ AnswerStep(t))

FairSpec == Spec /\ Fairness

-----------------------------------------------------------------------------
(* Properties. *)

\* With one tab, one lost answer, failed read or commit, or reload never signs the
\* user out: the retry presents a token already rotated, and its unused replacement
\* is found (auth_service.go:245-264).  Only a request that outlives its page
\* and reaches the server after its successors can.
OneLossForgiven ==
    Cardinality({t \in Tabs : ui[t] # "closed"}) <= 1 /\ losses <= 1 /\ ~late =>
        \A s \in Session : sessions[s].reason = "reuse" => sessions[s].expired

\* A revoked session is brought back only by a refresh that had looked at it
\* before it was revoked: the commit saves the whole row (auth_service.go:337).
RevivedOnlyByOverlap ==
    [][\A s \in Session : sessions[s].revoked /\ ~sessions'[s].revoked
            => s \in overlapped]_vars

\* A page that is loading gets to know whether it is signed in, and a request
\* refused with 401 is sent again or fails: neither waits for ever on a refresh
\* with its two tries, shared with others (AuthContext.tsx:54-72,
\* client.ts:161-166, auth.ts:262-303).
Waiting(t) == ui[t] = "loading" \/ waiting[t]
WaitingEnds == \A t \in Tabs : Waiting(t) ~> ~Waiting(t)

\* auth_service.go:246-249 says of a rotated token: "always try to find the
\* sibling (replacement) token first. This handles multi-tab scenarios
\* regardless of timing."  Then no timing of two tabs, with no answer lost and no
\* page left, makes the server take a tab for a thief and end a session that has not expired.
RotationForgives ==
    losses = 0 => \A s \in Session : sessions[s].reason = "reuse" => sessions[s].expired

=============================================================================
