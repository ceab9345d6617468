----------------------------- MODULE MobileApp -----------------------------
(***************************************************************************)
(* The mobile application: who is signed in                                *)
(* (components/mobile/mobile-auth-provider.tsx, mobile/login.tsx,          *)
(* mobile/_layout.tsx) and what its screens load (lib/mobile/meet-data.ts) *)
(* on top of the token store that it shares with the web                   *)
(* (lib/api/auth.ts, lib/api/client.ts).                                   *)
(*                                                                         *)
(* Three things name a user and are written apart: the session of the      *)
(* provider, the tokens of the store, and the key of the cached workspace  *)
(* context.  Signing out does not wait for its request, so a sign-in may   *)
(* come between the request and the tokens' removal; and a request for the *)
(* context goes on when another user's context takes its place.            *)
(***************************************************************************)
EXTENDS Naturals

CONSTANTS
    User,          \* accounts used on the device
    Former,        \* the account of the run before
    MaxSignIns,    \* bound: sign-ins
    MaxLapses      \* bound: expiries, revocations and failed requests

VARIABLES
    hydrating,  \* the provider has not yet restored the session
    session,    \* the user the provider holds, 0 for null
    tokenOf,    \* the user whose access token is stored, 0 for none
    renewable,  \* the user whose refresh token is stored, 0 for none
    jar,        \* the user of the refresh cookie, 0 for none
    signingIn,  \* Form to the user of the request in flight, 0 for none
    leaving,    \* /auth/logout requests in flight; late: a sign-in came after
    refresh,    \* refreshPromise, shared by all: what is sent, and whose it is
    alive,      \* the server: users whose session of this device is good
    context,    \* workspaceContextPromise and its key
    strays,     \* requests for a context that another has replaced
    view,       \* the load of the screen that is shown
    data,       \* what the screen shows, also while it loads again
    signIns,    \* sign-ins so far
    lapses,     \* lapses so far
    bereft,     \* history: a request from before the sign-in, or a refused one for the
                \* context, took the session's tokens
    revived,    \* history: a refresh stored tokens after the sign-out was over
    mixed       \* history: another user's tokens, or another user's screen, were
                \* taken for the session's, or for those of a cached context

mobileVars == <<hydrating, session, tokenOf, renewable, jar, signingIn, leaving, refresh,
                alive, context, strays, view, data, signIns, lapses,
                bereft, revived, mixed>>
authVars == <<hydrating, session, signingIn, leaving>>
tokenVars == <<tokenOf, renewable, jar>>
screenVars == <<context, strays, view, data>>
mobileHistory == <<bereft, revived, mixed>>

UserOrNone == User \cup {0}
Form == {"login", "register"}   \* the two screens that sign in
NoView == [at |-> "no", ws |-> 0, of |-> 0]
NoData == [ws |-> 0, of |-> 0]
NoContext == [key |-> 0, at |-> "no", of |-> 0]
NoRefresh == [at |-> "no", of |-> 0]

Contexts == [key : UserOrNone, at : {"no", "sent", "renewing", "resent", "ready"},
             of : UserOrNone]
Views == [at : {"no", "context", "data", "renewing", "resent", "shown", "error"},
          ws : UserOrNone, of : UserOrNone]

MobileTypeOK ==
    /\ hydrating \in BOOLEAN
    /\ {session, tokenOf, renewable, jar} \subseteq UserOrNone
    /\ signingIn \in [Form -> UserOrNone]
    /\ leaving \subseteq [of : UserOrNone, at : {"sent", "handled"}, late : BOOLEAN]
    /\ refresh \in [at : {"no", "token", "cookie"}, of : UserOrNone]
    /\ alive \subseteq User
    /\ context \in Contexts
    /\ strays \subseteq [at : {"sent", "renewing", "resent"}, of : UserOrNone]
    /\ view \in Views
    /\ data \in [ws : UserOrNone, of : UserOrNone]
    /\ signIns \in 0..MaxSignIns /\ lapses \in 0..MaxLapses
    /\ {bereft, revived, mixed} \subseteq BOOLEAN

\* The application starts with the tokens of the run before, if there were any.
MobileInit ==
    /\ hydrating = TRUE /\ session = 0
    /\ tokenOf \in {0, Former} /\ jar = tokenOf /\ renewable \in {0, tokenOf}
    /\ alive \in SUBSET (User \cap {tokenOf})
    /\ signingIn = [f \in Form |-> 0] /\ leaving = {} /\ refresh = NoRefresh
    /\ context = NoContext /\ strays = {} /\ view = NoView /\ data = NoData
    /\ signIns = 0 /\ lapses = 0
    /\ bereft = FALSE /\ revived = FALSE /\ mixed = FALSE

-----------------------------------------------------------------------------
(* The screens. *)

\* Mutant: the cached context has no key.
ContextOfAny(u) == [context EXCEPT !.key = u]

\* getMobileWorkspaceContext: a key other than the cached one drops the promise.
ContextOf(u) == IF context.key = u THEN context ELSE [NoContext EXCEPT !.key = u]

InFlight(c) == c.at \in {"sent", "renewing", "resent"}

\* useMobileResource runs a screen's loader for user u: it takes the context that is
\* cached, waits for the one in flight, or asks for it with tokens of t.  A request
\* for a context that is dropped goes on.
OpenScreen(u, t) ==
    /\ strays' = IF context.key # u /\ InFlight(context)
                 THEN strays \cup {[at |-> context.at, of |-> context.of]} ELSE strays
    /\ LET c == ContextOf(u)
       IN IF c.at = "ready"
          THEN view' = [at |-> "data", ws |-> c.of, of |-> t] /\ context' = c
          ELSE /\ view' = [NoView EXCEPT !.at = "context"]
               /\ context' = IF InFlight(c) THEN c ELSE [c EXCEPT !.at = "sent", !.of = t]

\* The screen is opened again: another tab, or pulled down to refresh.
Reopen ==
    /\ view.at \in {"shown", "error"}
    /\ OpenScreen(session, tokenOf)
    /\ UNCHANGED <<authVars, tokenVars, refresh, alive, data, signIns, lapses, mobileHistory>>

\* fetchWorkspaceContext is answered, and the screen that waits for it asks for its
\* data with the token that is stored now.
ContextAnswered ==
    /\ context.at \in {"sent", "resent"} /\ context.of \in alive
    /\ context' = [context EXCEPT !.at = "ready"]
    /\ view' = IF view.at = "context" THEN [at |-> "data", ws |-> context.of, of |-> tokenOf]
               ELSE view
    /\ UNCHANGED <<authVars, tokenVars, refresh, alive, strays, data, signIns, lapses,
                   mobileHistory>>

StrayAnswered(s) ==
    /\ s.at # "renewing" /\ s.of \in alive
    /\ strays' = strays \ {s}
    /\ UNCHANGED <<authVars, tokenVars, refresh, alive, context, view, data, signIns,
                   lapses, mobileHistory>>

DataAnswered ==
    /\ view.at \in {"data", "resent"} /\ view.of \in alive
    /\ view' = [view EXCEPT !.at = "shown"]
    /\ data' = [ws |-> view.ws, of |-> view.of]
    /\ UNCHANGED <<authVars, tokenVars, refresh, alive, context, strays, signIns, lapses,
                   mobileHistory>>

\* A request fails: by itself where the server does not know user u, and by a lapse
\* otherwise, an access token that has run out, a timeout or the network.
Fails(u) ==
    \/ u \notin alive /\ UNCHANGED lapses
    \/ lapses < MaxLapses /\ lapses' = lapses + 1

\* refreshAccessToken: all wait for the one refresh, with the refresh token that is
\* stored or else with the cookie.
StartRefresh ==
    refresh' = IF refresh.at # "no" THEN refresh
               ELSE IF renewable # 0 THEN [at |-> "token", of |-> renewable]
               ELSE [at |-> "cookie", of |-> jar]

\* clearStoredTokens, which leaves the session: it tells the listeners, but the
\* provider's throws (it reads `biometricsEnabled`, a name nothing defines) and the
\* store ignores that.
Clear == tokenOf' = 0 /\ renewable' = 0

\* A first 401 is worth a refresh.
ContextUnauthorized ==
    /\ context.at = "sent" /\ Fails(context.of)
    /\ context' = [context EXCEPT !.at = "renewing"]
    /\ StartRefresh
    /\ UNCHANGED <<authVars, tokenVars, alive, strays, view, data, signIns, mobileHistory>>

StrayUnauthorized(s) ==
    /\ s.at = "sent" /\ Fails(s.of)
    /\ strays' = (strays \ {s}) \cup {[s EXCEPT !.at = "renewing"]}
    /\ StartRefresh
    /\ UNCHANGED <<authVars, tokenVars, alive, context, view, data, signIns, mobileHistory>>

DataUnauthorized ==
    /\ view.at = "data" /\ Fails(view.of)
    /\ view' = [view EXCEPT !.at = "renewing"]
    /\ StartRefresh
    /\ UNCHANGED <<authVars, tokenVars, alive, context, strays, data, signIns, mobileHistory>>

\* The screen that waits for the context shows an error with it.
ViewWithoutContext == IF view.at = "context" THEN [NoView EXCEPT !.at = "error"] ELSE view

\* A second 401 is final: for a context, formatMobileApiError clears the store, also
\* when the next user's tokens are in it.  A context that failed is not cached.
ContextRefused ==
    /\ context.at = "resent" /\ Fails(context.of)
    /\ Clear
    /\ context' = [context EXCEPT !.at = "no"]
    /\ view' = ViewWithoutContext
    /\ bereft' = (bereft \/ session # 0)
    /\ UNCHANGED <<authVars, jar, refresh, alive, strays, data, signIns,
                   revived, mixed>>

StrayRefused(s) ==
    /\ s.at = "resent" /\ Fails(s.of)
    /\ Clear
    /\ strays' = strays \ {s}
    /\ context' = IF context.at = "ready" THEN [context EXCEPT !.at = "no"] ELSE context
    /\ bereft' = (bereft \/ session # 0)
    /\ UNCHANGED <<authVars, jar, refresh, alive, view, data, signIns,
                   revived, mixed>>

\* A request fails for another reason, or the data for the second time: the screen
\* shows an error, and the data it had.
ScreenFails ==
    /\ view.at \in {"context", "data", "resent"} /\ lapses < MaxLapses
    /\ view.at = "context" => context.at # "renewing"
    /\ lapses' = lapses + 1
    /\ view' = [NoView EXCEPT !.at = "error"]
    /\ context' = IF view.at = "context" THEN [context EXCEPT !.at = "no"] ELSE context
    /\ UNCHANGED <<authVars, tokenVars, refresh, alive, strays, data, signIns, mobileHistory>>

DataRefused ==
    /\ view.at = "resent" /\ view.of \notin alive
    /\ view' = [NoView EXCEPT !.at = "error"]
    /\ UNCHANGED <<authVars, tokenVars, refresh, alive, context, strays, data, signIns,
                   lapses, mobileHistory>>

-----------------------------------------------------------------------------
(* The refresh. *)

\* The access token has expired under another request, which renews it.
RefreshSent ==
    /\ ~hydrating /\ tokenOf # 0 /\ refresh.at = "no" /\ lapses < MaxLapses
    /\ lapses' = lapses + 1
    /\ StartRefresh
    /\ UNCHANGED <<authVars, tokenVars, alive, screenVars, signIns, mobileHistory>>

\* applyRefreshResult: the answer is stored, whatever is stored by then, and whoever
\* waits sends its request again.
RefreshAnswered ==
    /\ refresh.at # "no" /\ refresh.of \in alive
    /\ refresh' = NoRefresh
    /\ LET t == refresh.of
       IN /\ tokenOf' = t /\ renewable' = t /\ jar' = t
          /\ context' = IF context.at = "renewing" THEN [context EXCEPT !.at = "resent", !.of = t]
                        ELSE context
          /\ strays' = {IF s.at = "renewing" THEN [at |-> "resent", of |-> t] ELSE s : s \in strays}
          /\ view' = IF view.at = "renewing" THEN [view EXCEPT !.at = "resent", !.of = t] ELSE view
          /\ mixed' = \/ mixed
                      \/ session \notin {0, t}
                      \/ context.at = "renewing" /\ context.key # t
    /\ revived' = (revived \/ (session = 0 /\ leaving = {}))
    /\ UNCHANGED <<authVars, alive, data, signIns, lapses, bereft>>

\* doRefresh: whatever fails with the refresh token, the token is deleted, and the
\* cookie is tried.
RefreshFallsBack ==
    /\ refresh.at = "token" /\ Fails(refresh.of)
    /\ renewable' = 0
    /\ refresh' = [at |-> "cookie", of |-> jar]
    /\ UNCHANGED <<authVars, tokenOf, jar, alive, screenVars, signIns, mobileHistory>>

\* Whatever fails with the cookie, there is no token: who waits is refused.
RefreshFails ==
    /\ refresh.at = "cookie" /\ Fails(refresh.of)
    /\ refresh' = NoRefresh
    /\ LET lost == context.at = "renewing"
           stray == \E s \in strays : s.at = "renewing"
       IN /\ IF lost \/ stray THEN Clear ELSE UNCHANGED <<tokenOf, renewable>>
          /\ context' = IF lost \/ (stray /\ context.at = "ready")
                        THEN [context EXCEPT !.at = "no"] ELSE context
          /\ strays' = {s \in strays : s.at # "renewing"}
          /\ view' = IF lost THEN ViewWithoutContext
                     ELSE IF view.at = "renewing" THEN [NoView EXCEPT !.at = "error"] ELSE view
          /\ bereft' = (bereft \/ ((lost \/ stray) /\ session # 0))
    /\ UNCHANGED <<authVars, jar, alive, data, signIns, revived, mixed>>

-----------------------------------------------------------------------------
(* The session. *)

\* Who a refresh makes of the stored tokens: their user, that of the cookie, or none.
Renewed == {u \in {renewable, jar} : u \in alive}

\* hydrateSession: bootstrap renews the tokens; where that fails the stored user is
\* taken, and without one the store is cleared.  No screen is open and nobody can
\* sign in before that.
Hydrated ==
    /\ hydrating /\ hydrating' = FALSE
    /\ \/ \E t \in Renewed :
            /\ tokenOf' = t /\ renewable' = t /\ jar' = t /\ UNCHANGED lapses
       \/ /\ \/ Renewed = {} /\ UNCHANGED lapses
             \/ lapses < MaxLapses /\ lapses' = lapses + 1
          /\ renewable' = 0 /\ UNCHANGED <<tokenOf, jar>>
    /\ session' = tokenOf'
    /\ IF tokenOf' = 0 THEN UNCHANGED <<context, strays, view>>
       ELSE OpenScreen(tokenOf', tokenOf')
    /\ UNCHANGED <<signingIn, leaving, refresh, alive, data, signIns, mobileHistory>>

\* handleLogin and handleSubmit: one request of each form at a time, on the screens
\* that only those who are not signed in are shown.  Who has an account cannot
\* register.
SignIn(f, u) ==
    /\ ~hydrating /\ session = 0 /\ signingIn[f] = 0 /\ signIns < MaxSignIns
    /\ f = "register" => u # Former
    /\ signIns' = signIns + 1 /\ signingIn' = [signingIn EXCEPT ![f] = u]
    /\ UNCHANGED <<hydrating, session, leaving, refresh, tokenVars, alive,
                   screenVars, lapses, mobileHistory>>

\* The tokens are stored, then signIn sets the session, and a screen is opened for
\* another user than before.  The answer of the other form may find a user signed
\* in, whose screen shows what it has until the load is answered.
SignedIn(f) ==
    LET u == signingIn[f]
    IN /\ u # 0 /\ signingIn' = [signingIn EXCEPT ![f] = 0]
       /\ tokenOf' = u /\ renewable' = u /\ jar' = u /\ session' = u
       /\ alive' = alive \cup {u}
       /\ IF session = u THEN UNCHANGED <<context, strays, view>> ELSE OpenScreen(u, u)
       /\ leaving' = {[l EXCEPT !.late = TRUE] : l \in leaving}
       /\ bereft' = FALSE /\ revived' = FALSE
       /\ mixed' = (session \notin {0, u} \/ (mixed /\ context.key = u))
       /\ UNCHANGED <<hydrating, refresh, data, signIns, lapses>>

SignInFails(f) ==
    /\ signingIn[f] # 0 /\ lapses < MaxLapses
    /\ signingIn' = [signingIn EXCEPT ![f] = 0] /\ lapses' = lapses + 1
    /\ UNCHANGED <<hydrating, session, leaving, refresh, tokenVars, alive,
                   screenVars, signIns, mobileHistory>>

Logout == [of |-> tokenOf, at |-> "sent", late |-> FALSE]

\* Mutant: the session is left to the listener.
SignOutByListener ==
    /\ session # 0
    /\ leaving' = leaving \cup {Logout}
    /\ UNCHANGED <<hydrating, session, signingIn, refresh, tokenVars, alive,
                   screenVars, signIns, lapses, mobileHistory>>

\* signOut: the request is sent and not waited for; the session is null at once, and
\* the layout leaves the screens.  The cached context stays.
SignOut ==
    /\ session # 0
    /\ leaving' = leaving \cup {Logout}
    /\ session' = 0 /\ view' = NoView /\ data' = NoData
    /\ bereft' = FALSE
    /\ UNCHANGED <<hydrating, signingIn, refresh, tokenVars, alive, context, strays,
                   signIns, lapses, revived, mixed>>

LogoutHandled(l) ==
    /\ l.at = "sent"
    /\ alive' = alive \ {l.of}
    /\ leaving' = (leaving \ {l}) \cup {[l EXCEPT !.at = "handled"]}
    /\ UNCHANGED <<hydrating, session, signingIn, refresh, tokenVars, screenVars,
                   signIns, lapses, mobileHistory>>

\* The answer of a logout, or its failure, clears the store, whoever's tokens it
\* holds by then; a good answer clears the cookie as well.
LogoutEnds(l) ==
    /\ leaving' = leaving \ {l}
    /\ Clear
    /\ \/ l.at = "handled" /\ jar' = 0 /\ UNCHANGED lapses
       \/ lapses < MaxLapses /\ lapses' = lapses + 1 /\ UNCHANGED jar
    /\ bereft' = (bereft \/ (session # 0 /\ l.late))
    /\ UNCHANGED <<hydrating, session, signingIn, refresh, alive, screenVars, signIns,
                   revived, mixed>>

\* The session is revoked on another device, or has ended.
Revoked(u) ==
    /\ u \in alive /\ lapses < MaxLapses
    /\ alive' = alive \ {u} /\ lapses' = lapses + 1
    /\ UNCHANGED <<authVars, tokenVars, refresh, screenVars, signIns, mobileHistory>>

MobileNext ==
    \/ Hydrated \/ SignOut \/ Reopen
    \/ ContextAnswered \/ ContextUnauthorized \/ ContextRefused
    \/ DataAnswered \/ DataUnauthorized \/ DataRefused \/ ScreenFails
    \/ RefreshSent \/ RefreshAnswered \/ RefreshFallsBack \/ RefreshFails
    \/ \E s \in strays : StrayAnswered(s) \/ StrayUnauthorized(s) \/ StrayRefused(s)
    \/ \E f \in Form : SignedIn(f) \/ SignInFails(f)
    \/ \E f \in Form, u \in User : SignIn(f, u)
    \/ \E u \in User : Revoked(u)
    \/ \E l \in leaving : LogoutHandled(l) \/ LogoutEnds(l)

-----------------------------------------------------------------------------
(* Properties. *)

\* A screen shows the signed-in user's data in the signed-in user's workspace, unless
\* a refresh stored the tokens of one user under the session or the context of
\* another, or one signed in over another.  So neither the context that stays cached
\* over a sign-out nor an answer that comes after it is ever shown to another user.
OwnDataOnly ==
    data # NoData /\ ~mixed => data.of = session /\ data.ws = session

\* The provider's session and the store's tokens agree on whether anybody is signed
\* in.  Who is signed in without tokens, and so sees errors and no way to sign in,
\* lost them to a refused context, or to a request from before the sign-in: a
\* logout, or a context.  And once no logout is under way, tokens are left after a
\* sign-out only where a refresh was answered after it.
SessionHasTokens ==
    /\ session # 0 /\ tokenOf = 0 => bereft
    /\ ~hydrating /\ session = 0 /\ tokenOf # 0 => leaving # {} \/ revived
=============================================================================
