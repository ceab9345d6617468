---------------------------- MODULE ClientsProofs ----------------------------
(***************************************************************************)
(* Machine-checked proofs about the clients' screens: the room of a call   *)
(* (CallRoom) and the pages, the edits and the mobile application, which   *)
(* Clients puts side by side, for any participants, workspaces, users,     *)
(* pages and keys and any bounds.  Each has its own inductive invariant,   *)
(* which the steps of the others leave alone.                              *)
(***************************************************************************)
EXTENDS Clients, CallRoom, TLAPS

-----------------------------------------------------------------------------
(* The mobile application. *)

\* Nothing but a revocation happens before the session is restored; a screen is open
\* and has data only while somebody is signed in, and the cached context is that
\* user's.
ScreensInv ==
    /\ hydrating => /\ session = 0 /\ leaving = {} /\ strays = {} /\ refresh = NoRefresh
                    /\ context = NoContext /\ ~mixed
                    /\ \A f \in Form : signingIn[f] = 0
    /\ context.at # "no" => context.key # 0
    /\ session = 0 => view = NoView /\ data = NoData
    /\ session # 0 => context.key = session

\* A sign-out that is on its way while somebody is signed in is older than that
\* sign-in.
LeavingInv == session # 0 => \A l \in leaving : l.late

\* As long as no tokens were mixed, the tokens, the context, the load and what is on
\* the screen are the signed-in user's: 0 is the request that carried no token.
OwnTokensInv == ~mixed =>
    /\ session # 0 => tokenOf \in {0, session}
    /\ InFlight(context) => context.of \in {0, context.key}
    /\ context.at = "ready" => context.of = context.key
    /\ view.at \in {"data", "renewing", "resent", "shown"} =>
          view.ws = session /\ view.of \in {0, session}
    /\ data # NoData => data.of = session /\ data.ws = session

MobileInv ==
    /\ MobileTypeOK /\ ScreensInv /\ LeavingInv /\ OwnTokensInv
    /\ SessionHasTokens

\* A screen that is opened for u is on the context of u: the cached one, the one that
\* is in flight, or one that is asked for now.
LEMMA ScreenOpened ==
  ASSUME MobileTypeOK, NEW u \in User, NEW t \in UserOrNone, OpenScreen(u, t)
  PROVE  /\ view' \in Views /\ context' \in Contexts
         /\ strays' \subseteq [at : {"sent", "renewing", "resent"}, of : UserOrNone]
         /\ context'.key = u
         /\ \/ /\ context.key = u /\ context.at = "ready" /\ context' = context
               /\ view'.at = "data" /\ view'.ws = context.of /\ view'.of = t
            \/ /\ context.key = u /\ InFlight(context) /\ context' = context
               /\ view'.at = "context"
            \/ /\ context'.at = "sent" /\ context'.of = t /\ view'.at = "context"
<1>1. strays' \subseteq [at : {"sent", "renewing", "resent"}, of : UserOrNone]
  BY DEF OpenScreen, MobileTypeOK, InFlight, Contexts
<1>2. CASE context.key = u
  <2>1. ContextOf(u) = context /\ context \in Contexts
    BY <1>2 DEF ContextOf, MobileTypeOK
  <2>2. CASE context.at = "ready"
    BY <1>1, <1>2, <2>1, <2>2 DEF OpenScreen, Views, Contexts
  <2>3. CASE InFlight(context)
    BY <1>1, <1>2, <2>1, <2>3 DEF OpenScreen, InFlight, Views, NoView, UserOrNone
  <2>4. CASE context.at = "no"
    <3>1. /\ view' = [NoView EXCEPT !.at = "context"]
          /\ context' = [context EXCEPT !.at = "sent", !.of = t]
      BY <1>2, <2>1, <2>4 DEF OpenScreen, InFlight
    <3> QED BY <1>1, <1>2, <2>1, <3>1 DEF NoView, UserOrNone, Contexts, Views
  <2> QED BY <2>1, <2>2, <2>3, <2>4 DEF InFlight, Contexts
<1>3. CASE context.key # u
  <2>1. ContextOf(u) = [NoContext EXCEPT !.key = u]
    BY <1>3 DEF ContextOf
  <2>2. ContextOf(u) = [key |-> u, at |-> "no", of |-> 0]
    BY <2>1 DEF NoContext
  <2>3. ContextOf(u).at = "no" /\ ~InFlight(ContextOf(u))
    BY <2>2 DEF InFlight
  <2>4. view' = [NoView EXCEPT !.at = "context"]
        /\ context' = [ContextOf(u) EXCEPT !.at = "sent", !.of = t]
    BY <2>3 DEF OpenScreen
  <2>5. context' = [[key |-> u, at |-> "no", of |-> 0] EXCEPT !.at = "sent", !.of = t]
    BY <2>2, <2>4
  <2>6. context' = [key |-> u, at |-> "sent", of |-> t]
    BY <2>5
  <2>7. view' = [at |-> "context", ws |-> 0, of |-> 0]
    BY <2>4 DEF NoView
  <2> QED BY <1>1, <2>6, <2>7 DEF UserOrNone, Contexts, Views
<1> QED BY <1>2, <1>3

\* A logout that a sign-in overtakes is a logout.
LEMMA LateLogouts ==
  ASSUME MobileTypeOK, NEW l \in leaving
  PROVE  [l EXCEPT !.late = TRUE] \in [of : UserOrNone, at : {"sent", "handled"}, late : BOOLEAN]
<1>1. l \in [of : UserOrNone, at : {"sent", "handled"}, late : BOOLEAN]
  BY DEF MobileTypeOK
<1> QED BY <1>1

LEMMA MobileStep ==
  ASSUME MobileInv, MobileNext \/ UNCHANGED mobileVars
  PROVE  MobileInv'
<1> USE ClientsAssumption DEF MobileInv, ScreensInv, LeavingInv, OwnTokensInv, SessionHasTokens,
     MobileTypeOK, UserOrNone, NoView, NoData, NoContext, NoRefresh, InFlight, authVars,
     tokenVars, screenVars, mobileHistory, Clear, Fails, Views, Contexts
<1>1. ASSUME Hydrated PROVE MobileInv'
  <2>1. tokenOf' = session' /\ session' \in UserOrNone /\ session = 0
    BY <1>1 DEF Hydrated, Renewed
  <2>2. CASE session' = 0
    <3>1. MobileTypeOK'
      <4>1. {session, tokenOf, renewable, jar}' \subseteq UserOrNone
        BY <1>1, <2>1, <2>2 DEF Hydrated, Renewed
      <4>2. signingIn' \in [Form -> UserOrNone]
        BY <1>1, <2>1, <2>2 DEF Hydrated, Renewed
      <4>3. leaving' \subseteq [of : UserOrNone, at : {"sent", "handled"}, late : BOOLEAN]
        BY <1>1, <2>1, <2>2 DEF Hydrated, Renewed
      <4>4. refresh' \in [at : {"no", "token", "cookie"}, of : UserOrNone] /\ alive' \subseteq User
        BY <1>1, <2>1, <2>2 DEF Hydrated, Renewed
      <4>5. strays' \subseteq [at : {"sent", "renewing", "resent"}, of : UserOrNone]
        BY <1>1, <2>1, <2>2 DEF Hydrated, Renewed
      <4>6. context' \in Contexts /\ view' \in Views /\ data' \in [ws : UserOrNone, of : UserOrNone]
        BY <1>1, <2>1, <2>2 DEF Hydrated, Renewed
      <4>7. hydrating' \in BOOLEAN /\ {bereft, revived, mixed}' \subseteq BOOLEAN
        BY <1>1, <2>1, <2>2 DEF Hydrated, Renewed
      <4>8. signIns' \in 0..MaxSignIns /\ lapses' \in 0..MaxLapses
        BY <1>1, <2>1, <2>2 DEF Hydrated, Renewed
      <4> QED BY <4>1, <4>2, <4>3, <4>4, <4>5, <4>6, <4>7, <4>8
    <3>2. ScreensInv'
      BY <1>1, <2>1, <2>2 DEF Hydrated, Renewed
    <3>3. LeavingInv'
      BY <1>1, <2>1, <2>2 DEF Hydrated, Renewed
    <3>4. OwnTokensInv'
      BY <1>1, <2>1, <2>2 DEF Hydrated, Renewed
    <3>5. SessionHasTokens'
      BY <1>1, <2>1, <2>2 DEF Hydrated, Renewed
    <3> QED BY <3>1, <3>2, <3>3, <3>4, <3>5
  <2>3. CASE session' # 0
    <3>1. OpenScreen(session', session') /\ session' \in User
      BY <1>1, <2>1, <2>3 DEF Hydrated
    <3>2. MobileTypeOK'
      <4>1. {session, tokenOf, renewable, jar}' \subseteq UserOrNone
        BY <1>1, <2>1, <2>3, <3>1, ScreenOpened DEF Hydrated, Renewed
      <4>2. signingIn' \in [Form -> UserOrNone]
        BY <1>1, <2>1, <2>3, <3>1, ScreenOpened DEF Hydrated, Renewed
      <4>3. leaving' \subseteq [of : UserOrNone, at : {"sent", "handled"}, late : BOOLEAN]
        BY <1>1, <2>1, <2>3, <3>1, ScreenOpened DEF Hydrated, Renewed
      <4>4. refresh' \in [at : {"no", "token", "cookie"}, of : UserOrNone] /\ alive' \subseteq User
        BY <1>1, <2>1, <2>3, <3>1, ScreenOpened DEF Hydrated, Renewed
      <4>5. strays' \subseteq [at : {"sent", "renewing", "resent"}, of : UserOrNone]
        BY <1>1, <2>1, <2>3, <3>1, ScreenOpened DEF Hydrated, Renewed
      <4>6. context' \in Contexts /\ view' \in Views /\ data' \in [ws : UserOrNone, of : UserOrNone]
        BY <1>1, <2>1, <2>3, <3>1, ScreenOpened DEF Hydrated, Renewed
      <4>7. hydrating' \in BOOLEAN /\ {bereft, revived, mixed}' \subseteq BOOLEAN
        BY <1>1, <2>1, <2>3, <3>1, ScreenOpened DEF Hydrated, Renewed
      <4>8. signIns' \in 0..MaxSignIns /\ lapses' \in 0..MaxLapses
        BY <1>1, <2>1, <2>3, <3>1, ScreenOpened DEF Hydrated, Renewed
      <4> QED BY <4>1, <4>2, <4>3, <4>4, <4>5, <4>6, <4>7, <4>8
    <3>3. ScreensInv'
      BY <1>1, <2>1, <2>3, <3>1, ScreenOpened DEF Hydrated, Renewed
    <3>4. LeavingInv'
      BY <1>1, <2>1, <2>3, <3>1, ScreenOpened DEF Hydrated, Renewed
    <3>5. OwnTokensInv'
      BY <1>1, <2>1, <2>3, <3>1, ScreenOpened DEF Hydrated, Renewed
    <3>6. SessionHasTokens'
      BY <1>1, <2>1, <2>3, <3>1, ScreenOpened DEF Hydrated, Renewed
    <3> QED BY <3>2, <3>3, <3>4, <3>5, <3>6
  <2> QED BY <2>2, <2>3
<1>2. ASSUME SignOut PROVE MobileInv'
  <2>1. MobileTypeOK'
    <3>1. {session, tokenOf, renewable, jar}' \subseteq UserOrNone
      BY <1>2 DEF SignOut, Logout
    <3>2. signingIn' \in [Form -> UserOrNone]
      BY <1>2 DEF SignOut, Logout
    <3>3. leaving' \subseteq [of : UserOrNone, at : {"sent", "handled"}, late : BOOLEAN]
      <4>1. Logout \in [of : UserOrNone, at : {"sent", "handled"}, late : BOOLEAN]
        BY DEF Logout
      <4> QED BY <1>2, <4>1 DEF SignOut
    <3>4. refresh' \in [at : {"no", "token", "cookie"}, of : UserOrNone] /\ alive' \subseteq User
      BY <1>2 DEF SignOut, Logout
    <3>5. strays' \subseteq [at : {"sent", "renewing", "resent"}, of : UserOrNone]
      BY <1>2 DEF SignOut, Logout
    <3>6. context' \in Contexts /\ view' \in Views /\ data' \in [ws : UserOrNone, of : UserOrNone]
      BY <1>2 DEF SignOut, Logout
    <3>7. hydrating' \in BOOLEAN /\ {bereft, revived, mixed}' \subseteq BOOLEAN
      BY <1>2 DEF SignOut, Logout
    <3>8. signIns' \in 0..MaxSignIns /\ lapses' \in 0..MaxLapses
      BY <1>2 DEF SignOut, Logout
    <3> QED BY <3>1, <3>2, <3>3, <3>4, <3>5, <3>6, <3>7, <3>8
  <2>2. ScreensInv'
    BY <1>2 DEF SignOut, Logout
  <2>3. LeavingInv'
    BY <1>2 DEF SignOut, Logout
  <2>4. OwnTokensInv'
    BY <1>2 DEF SignOut, Logout
  <2>5. SessionHasTokens'
    BY <1>2 DEF SignOut, Logout
  <2> QED BY <2>1, <2>2, <2>3, <2>4, <2>5
<1>3. ASSUME Reopen PROVE MobileInv'
  <2>1. OpenScreen(session, tokenOf) /\ session \in User
    BY <1>3 DEF Reopen
  <2>2. MobileTypeOK'
    BY <1>3, <2>1, ScreenOpened DEF Reopen
  <2>3. ScreensInv'
    BY <1>3, <2>1, ScreenOpened DEF Reopen
  <2>4. LeavingInv'
    BY <1>3, <2>1, ScreenOpened DEF Reopen
  <2>5. OwnTokensInv'
    BY <1>3, <2>1, ScreenOpened DEF Reopen
  <2>6. SessionHasTokens'
    BY <1>3, <2>1, ScreenOpened DEF Reopen
  <2> QED BY <2>2, <2>3, <2>4, <2>5, <2>6
<1>4. ASSUME ContextAnswered PROVE MobileInv'
  <2>1. MobileTypeOK'
    BY <1>4 DEF ContextAnswered
  <2>2. ScreensInv'
    BY <1>4 DEF ContextAnswered
  <2>3. LeavingInv'
    BY <1>4 DEF ContextAnswered
  <2>4. OwnTokensInv'
    BY <1>4 DEF ContextAnswered
  <2>5. SessionHasTokens'
    BY <1>4 DEF ContextAnswered
  <2> QED BY <2>1, <2>2, <2>3, <2>4, <2>5
<1>5. ASSUME ContextUnauthorized PROVE MobileInv'
  <2>1. MobileTypeOK'
    BY <1>5 DEF ContextUnauthorized, StartRefresh
  <2>2. ScreensInv'
    BY <1>5 DEF ContextUnauthorized, StartRefresh
  <2>3. LeavingInv'
    BY <1>5 DEF ContextUnauthorized, StartRefresh
  <2>4. OwnTokensInv'
    BY <1>5 DEF ContextUnauthorized, StartRefresh
  <2>5. SessionHasTokens'
    BY <1>5 DEF ContextUnauthorized, StartRefresh
  <2> QED BY <2>1, <2>2, <2>3, <2>4, <2>5
<1>6. ASSUME ContextRefused PROVE MobileInv'
  <2>1. MobileTypeOK'
    BY <1>6 DEF ContextRefused, ViewWithoutContext
  <2>2. ScreensInv'
    BY <1>6 DEF ContextRefused, ViewWithoutContext
  <2>3. LeavingInv'
    BY <1>6 DEF ContextRefused, ViewWithoutContext
  <2>4. OwnTokensInv'
    BY <1>6 DEF ContextRefused, ViewWithoutContext
  <2>5. SessionHasTokens'
    BY <1>6 DEF ContextRefused, ViewWithoutContext
  <2> QED BY <2>1, <2>2, <2>3, <2>4, <2>5
<1>7. ASSUME DataAnswered PROVE MobileInv'
  <2>1. MobileTypeOK'
    BY <1>7 DEF DataAnswered
  <2>2. ScreensInv'
    BY <1>7 DEF DataAnswered
  <2>3. LeavingInv'
    BY <1>7 DEF DataAnswered
  <2>4. OwnTokensInv'
    BY <1>7 DEF DataAnswered
  <2>5. SessionHasTokens'
    BY <1>7 DEF DataAnswered
  <2> QED BY <2>1, <2>2, <2>3, <2>4, <2>5
<1>8. ASSUME DataUnauthorized PROVE MobileInv'
  <2>1. MobileTypeOK'
    BY <1>8 DEF DataUnauthorized, StartRefresh
  <2>2. ScreensInv'
    BY <1>8 DEF DataUnauthorized, StartRefresh
  <2>3. LeavingInv'
    BY <1>8 DEF DataUnauthorized, StartRefresh
  <2>4. OwnTokensInv'
    BY <1>8 DEF DataUnauthorized, StartRefresh
  <2>5. SessionHasTokens'
    BY <1>8 DEF DataUnauthorized, StartRefresh
  <2> QED BY <2>1, <2>2, <2>3, <2>4, <2>5
<1>9. ASSUME DataRefused PROVE MobileInv'
  <2>1. MobileTypeOK'
    BY <1>9 DEF DataRefused
  <2>2. ScreensInv'
    BY <1>9 DEF DataRefused
  <2>3. LeavingInv'
    BY <1>9 DEF DataRefused
  <2>4. OwnTokensInv'
    BY <1>9 DEF DataRefused
  <2>5. SessionHasTokens'
    BY <1>9 DEF DataRefused
  <2> QED BY <2>1, <2>2, <2>3, <2>4, <2>5
<1>10. ASSUME ScreenFails PROVE MobileInv'
  <2>1. MobileTypeOK'
    BY <1>10 DEF ScreenFails
  <2>2. ScreensInv'
    BY <1>10 DEF ScreenFails
  <2>3. LeavingInv'
    BY <1>10 DEF ScreenFails
  <2>4. OwnTokensInv'
    BY <1>10 DEF ScreenFails
  <2>5. SessionHasTokens'
    BY <1>10 DEF ScreenFails
  <2> QED BY <2>1, <2>2, <2>3, <2>4, <2>5
<1>11. ASSUME RefreshSent PROVE MobileInv'
  <2>1. MobileTypeOK'
    BY <1>11 DEF RefreshSent, StartRefresh
  <2>2. ScreensInv'
    BY <1>11 DEF RefreshSent, StartRefresh
  <2>3. LeavingInv'
    BY <1>11 DEF RefreshSent, StartRefresh
  <2>4. OwnTokensInv'
    BY <1>11 DEF RefreshSent, StartRefresh
  <2>5. SessionHasTokens'
    BY <1>11 DEF RefreshSent, StartRefresh
  <2> QED BY <2>1, <2>2, <2>3, <2>4, <2>5
<1>12. ASSUME RefreshAnswered PROVE MobileInv'
  <2>1. MobileTypeOK'
    <3>1. {session, tokenOf, renewable, jar}' \subseteq UserOrNone
      BY <1>12 DEF RefreshAnswered
    <3>2. signingIn' \in [Form -> UserOrNone]
      BY <1>12 DEF RefreshAnswered
    <3>3. leaving' \subseteq [of : UserOrNone, at : {"sent", "handled"}, late : BOOLEAN]
      BY <1>12 DEF RefreshAnswered
    <3>4. refresh' \in [at : {"no", "token", "cookie"}, of : UserOrNone] /\ alive' \subseteq User
      BY <1>12 DEF RefreshAnswered
    <3>5. strays' \subseteq [at : {"sent", "renewing", "resent"}, of : UserOrNone]
      BY <1>12 DEF RefreshAnswered
    <3>6. context' \in Contexts /\ view' \in Views /\ data' \in [ws : UserOrNone, of : UserOrNone]
      BY <1>12 DEF RefreshAnswered
    <3>7. hydrating' \in BOOLEAN /\ {bereft, revived, mixed}' \subseteq BOOLEAN
      BY <1>12 DEF RefreshAnswered
    <3>8. signIns' \in 0..MaxSignIns /\ lapses' \in 0..MaxLapses
      BY <1>12 DEF RefreshAnswered
    <3> QED BY <3>1, <3>2, <3>3, <3>4, <3>5, <3>6, <3>7, <3>8
  <2>2. ScreensInv'
    BY <1>12 DEF RefreshAnswered
  <2>3. LeavingInv'
    BY <1>12 DEF RefreshAnswered
  <2>4. OwnTokensInv'
    BY <1>12 DEF RefreshAnswered
  <2>5. SessionHasTokens'
    BY <1>12 DEF RefreshAnswered
  <2> QED BY <2>1, <2>2, <2>3, <2>4, <2>5
<1>13. ASSUME RefreshFallsBack PROVE MobileInv'
  <2>1. MobileTypeOK'
    BY <1>13 DEF RefreshFallsBack
  <2>2. ScreensInv'
    BY <1>13 DEF RefreshFallsBack
  <2>3. LeavingInv'
    BY <1>13 DEF RefreshFallsBack
  <2>4. OwnTokensInv'
    BY <1>13 DEF RefreshFallsBack
  <2>5. SessionHasTokens'
    BY <1>13 DEF RefreshFallsBack
  <2> QED BY <2>1, <2>2, <2>3, <2>4, <2>5
<1>14. ASSUME RefreshFails PROVE MobileInv'
  <2>1. MobileTypeOK'
    BY <1>14 DEF RefreshFails, ViewWithoutContext
  <2>2. ScreensInv'
    BY <1>14 DEF RefreshFails, ViewWithoutContext
  <2>3. LeavingInv'
    BY <1>14 DEF RefreshFails, ViewWithoutContext
  <2>4. OwnTokensInv'
    BY <1>14 DEF RefreshFails, ViewWithoutContext
  <2>5. SessionHasTokens'
    BY <1>14 DEF RefreshFails, ViewWithoutContext
  <2> QED BY <2>1, <2>2, <2>3, <2>4, <2>5
<1>15. ASSUME NEW s \in strays, StrayAnswered(s) PROVE MobileInv'
  <2>1. MobileTypeOK'
    BY <1>15 DEF StrayAnswered
  <2>2. ScreensInv'
    BY <1>15 DEF StrayAnswered
  <2>3. LeavingInv'
    BY <1>15 DEF StrayAnswered
  <2>4. OwnTokensInv'
    BY <1>15 DEF StrayAnswered
  <2>5. SessionHasTokens'
    BY <1>15 DEF StrayAnswered
  <2> QED BY <2>1, <2>2, <2>3, <2>4, <2>5
<1>16. ASSUME NEW s \in strays, StrayUnauthorized(s) PROVE MobileInv'
  <2>1. MobileTypeOK'
    BY <1>16 DEF StrayUnauthorized, StartRefresh
  <2>2. ScreensInv'
    BY <1>16 DEF StrayUnauthorized, StartRefresh
  <2>3. LeavingInv'
    BY <1>16 DEF StrayUnauthorized, StartRefresh
  <2>4. OwnTokensInv'
    BY <1>16 DEF StrayUnauthorized, StartRefresh
  <2>5. SessionHasTokens'
    BY <1>16 DEF StrayUnauthorized, StartRefresh
  <2> QED BY <2>1, <2>2, <2>3, <2>4, <2>5
<1>17. ASSUME NEW s \in strays, StrayRefused(s) PROVE MobileInv'
  <2>1. MobileTypeOK'
    BY <1>17 DEF StrayRefused
  <2>2. ScreensInv'
    BY <1>17 DEF StrayRefused
  <2>3. LeavingInv'
    BY <1>17 DEF StrayRefused
  <2>4. OwnTokensInv'
    BY <1>17 DEF StrayRefused
  <2>5. SessionHasTokens'
    BY <1>17 DEF StrayRefused
  <2> QED BY <2>1, <2>2, <2>3, <2>4, <2>5
<1>18. ASSUME NEW f \in Form, SignedIn(f) PROVE MobileInv'
  <2> DEFINE u == signingIn[f]
  <2>1. u \in User /\ ~hydrating
    BY <1>18 DEF SignedIn
  <2>2. CASE session = u
    <3>1. MobileTypeOK'
      <4>1. {session, tokenOf, renewable, jar}' \subseteq UserOrNone
        BY <1>18, <2>1, <2>2 DEF SignedIn
      <4>2. signingIn' \in [Form -> UserOrNone]
        BY <1>18, <2>1, <2>2 DEF SignedIn
      <4>3. leaving' \subseteq [of : UserOrNone, at : {"sent", "handled"}, late : BOOLEAN]
        <5>1. \A l \in leaving : [l EXCEPT !.late = TRUE] \in
                [of : UserOrNone, at : {"sent", "handled"}, late : BOOLEAN]
          BY LateLogouts
        <5>2. leaving' = {[l EXCEPT !.late = TRUE] : l \in leaving}
          BY <1>18, <2>1, <2>2 DEF SignedIn
        <5> QED BY <5>1, <5>2
      <4>4. refresh' \in [at : {"no", "token", "cookie"}, of : UserOrNone] /\ alive' \subseteq User
        BY <1>18, <2>1, <2>2 DEF SignedIn
      <4>5. strays' \subseteq [at : {"sent", "renewing", "resent"}, of : UserOrNone]
        BY <1>18, <2>1, <2>2 DEF SignedIn
      <4>6. context' \in Contexts /\ view' \in Views /\ data' \in [ws : UserOrNone, of : UserOrNone]
        BY <1>18, <2>1, <2>2 DEF SignedIn
      <4>7. hydrating' \in BOOLEAN /\ {bereft, revived, mixed}' \subseteq BOOLEAN
        BY <1>18, <2>1, <2>2 DEF SignedIn
      <4>8. signIns' \in 0..MaxSignIns /\ lapses' \in 0..MaxLapses
        BY <1>18, <2>1, <2>2 DEF SignedIn
      <4> QED BY <4>1, <4>2, <4>3, <4>4, <4>5, <4>6, <4>7, <4>8
    <3>2. ScreensInv'
      BY <1>18, <2>1, <2>2 DEF SignedIn
    <3>3. LeavingInv'
      BY <1>18, <2>1, <2>2 DEF SignedIn
    <3>4. OwnTokensInv'
      BY <1>18, <2>1, <2>2 DEF SignedIn
    <3>5. SessionHasTokens'
      BY <1>18, <2>1, <2>2 DEF SignedIn
    <3> QED BY <3>1, <3>2, <3>3, <3>4, <3>5
  <2>3. CASE session # u
    <3>1. OpenScreen(u, u)
      BY <1>18, <2>3 DEF SignedIn
    <3>2. MobileTypeOK'
      <4>1. {session, tokenOf, renewable, jar}' \subseteq UserOrNone
        BY <1>18, <2>1, <2>3, <3>1, ScreenOpened DEF SignedIn
      <4>2. signingIn' \in [Form -> UserOrNone]
        BY <1>18, <2>1, <2>3, <3>1, ScreenOpened DEF SignedIn
      <4>3. leaving' \subseteq [of : UserOrNone, at : {"sent", "handled"}, late : BOOLEAN]
        <5>1. \A l \in leaving : [l EXCEPT !.late = TRUE] \in
                [of : UserOrNone, at : {"sent", "handled"}, late : BOOLEAN]
          BY LateLogouts
        <5>2. leaving' = {[l EXCEPT !.late = TRUE] : l \in leaving}
          BY <1>18, <2>1, <2>3, <3>1, ScreenOpened DEF SignedIn
        <5> QED BY <5>1, <5>2
      <4>4. refresh' \in [at : {"no", "token", "cookie"}, of : UserOrNone] /\ alive' \subseteq User
        BY <1>18, <2>1, <2>3, <3>1, ScreenOpened DEF SignedIn
      <4>5. strays' \subseteq [at : {"sent", "renewing", "resent"}, of : UserOrNone]
        BY <1>18, <2>1, <2>3, <3>1, ScreenOpened DEF SignedIn
      <4>6. context' \in Contexts /\ view' \in Views /\ data' \in [ws : UserOrNone, of : UserOrNone]
        BY <1>18, <2>1, <2>3, <3>1, ScreenOpened DEF SignedIn
      <4>7. hydrating' \in BOOLEAN /\ {bereft, revived, mixed}' \subseteq BOOLEAN
        BY <1>18, <2>1, <2>3, <3>1, ScreenOpened DEF SignedIn
      <4>8. signIns' \in 0..MaxSignIns /\ lapses' \in 0..MaxLapses
        BY <1>18, <2>1, <2>3, <3>1, ScreenOpened DEF SignedIn
      <4> QED BY <4>1, <4>2, <4>3, <4>4, <4>5, <4>6, <4>7, <4>8
    <3>3. ScreensInv'
      BY <1>18, <2>1, <2>3, <3>1, ScreenOpened DEF SignedIn
    <3>4. LeavingInv'
      BY <1>18, <2>1, <2>3, <3>1, ScreenOpened DEF SignedIn
    <3>5. OwnTokensInv'
      <4>1. /\ mixed' = (session \notin {0, u} \/ (mixed /\ context.key = u))
            /\ session' = u /\ tokenOf' = u /\ data' = data
        BY <1>18, <2>1 DEF SignedIn
      <4>2. SUFFICES ASSUME ~mixed' PROVE OwnTokensInv'
        OBVIOUS
      <4>3. session = 0 /\ data = NoData /\ (mixed => context.key # u)
        BY <2>3, <4>1, <4>2
      <4>4. CASE mixed
        <5>1. context'.at = "sent" /\ context'.of = u /\ context'.key = u /\ view'.at = "context"
          BY <2>1, <3>1, <4>3, <4>4, ScreenOpened
        <5> QED BY <4>1, <4>3, <5>1
      <4>5. CASE ~mixed
        <5>1. (InFlight(context) => context.of \in {0, context.key})
              /\ (context.at = "ready" => context.of = context.key)
          BY <4>5
        <5>2. /\ InFlight(context)' => context'.of \in {0, u}
              /\ context'.at = "ready" => context'.of = u
              /\ context'.key = u
          BY <2>1, <3>1, <5>1, ScreenOpened
        <5>3. view'.at \in {"data", "renewing", "resent", "shown"} => view'.ws = u /\ view'.of = u
          BY <2>1, <3>1, <5>1, ScreenOpened
        <5> QED BY <4>1, <4>3, <5>2, <5>3
      <4> QED BY <4>4, <4>5
    <3>6. SessionHasTokens'
      BY <1>18, <2>1, <2>3, <3>1, ScreenOpened DEF SignedIn
    <3> QED BY <3>2, <3>3, <3>4, <3>5, <3>6
  <2> QED BY <2>2, <2>3
<1>19. ASSUME NEW f \in Form, SignInFails(f) PROVE MobileInv'
  <2>1. MobileTypeOK'
    BY <1>19 DEF SignInFails
  <2>2. ScreensInv'
    BY <1>19 DEF SignInFails
  <2>3. LeavingInv'
    BY <1>19 DEF SignInFails
  <2>4. OwnTokensInv'
    BY <1>19 DEF SignInFails
  <2>5. SessionHasTokens'
    BY <1>19 DEF SignInFails
  <2> QED BY <2>1, <2>2, <2>3, <2>4, <2>5
<1>20. ASSUME NEW f \in Form, NEW u \in User, SignIn(f, u) PROVE MobileInv'
  <2>1. MobileTypeOK'
    BY <1>20 DEF SignIn
  <2>2. ScreensInv'
    BY <1>20 DEF SignIn
  <2>3. LeavingInv'
    BY <1>20 DEF SignIn
  <2>4. OwnTokensInv'
    BY <1>20 DEF SignIn
  <2>5. SessionHasTokens'
    BY <1>20 DEF SignIn
  <2> QED BY <2>1, <2>2, <2>3, <2>4, <2>5
<1>21. ASSUME NEW u \in User, Revoked(u) PROVE MobileInv'
  <2>1. MobileTypeOK'
    BY <1>21 DEF Revoked
  <2>2. ScreensInv'
    BY <1>21 DEF Revoked
  <2>3. LeavingInv'
    BY <1>21 DEF Revoked
  <2>4. OwnTokensInv'
    BY <1>21 DEF Revoked
  <2>5. SessionHasTokens'
    BY <1>21 DEF Revoked
  <2> QED BY <2>1, <2>2, <2>3, <2>4, <2>5
<1>22. ASSUME NEW l \in leaving, LogoutHandled(l) PROVE MobileInv'
  <2>1. MobileTypeOK'
    BY <1>22 DEF LogoutHandled
  <2>2. ScreensInv'
    BY <1>22 DEF LogoutHandled
  <2>3. LeavingInv'
    BY <1>22 DEF LogoutHandled
  <2>4. OwnTokensInv'
    BY <1>22 DEF LogoutHandled
  <2>5. SessionHasTokens'
    BY <1>22 DEF LogoutHandled
  <2> QED BY <2>1, <2>2, <2>3, <2>4, <2>5
<1>23. ASSUME NEW l \in leaving, LogoutEnds(l) PROVE MobileInv'
  <2>1. MobileTypeOK'
    BY <1>23 DEF LogoutEnds
  <2>2. ScreensInv'
    BY <1>23 DEF LogoutEnds
  <2>3. LeavingInv'
    BY <1>23 DEF LogoutEnds
  <2>4. OwnTokensInv'
    BY <1>23 DEF LogoutEnds
  <2>5. SessionHasTokens'
    BY <1>23 DEF LogoutEnds
  <2> QED BY <2>1, <2>2, <2>3, <2>4, <2>5
<1>24. ASSUME UNCHANGED mobileVars PROVE MobileInv'
  BY <1>24 DEF mobileVars
<1> QED
  BY <1>1, <1>2, <1>3, <1>4, <1>5, <1>6, <1>7, <1>8, <1>9, <1>10, <1>11, <1>12, <1>13,
     <1>14, <1>15, <1>16, <1>17, <1>18, <1>19, <1>20, <1>21, <1>22, <1>23, <1>24
     DEF MobileNext

LEMMA MobileInitially == Init => MobileInv
<1> SUFFICES ASSUME Init PROVE MobileInv
  OBVIOUS
<1>1. MobileInit
  BY DEF Init, ClosedMobile
<1>2. MobileTypeOK
  <2>1. {session, tokenOf, renewable, jar} \subseteq UserOrNone /\ leaving = {} /\ strays = {}
    BY <1>1, ClientsAssumption DEF MobileInit, UserOrNone
  <2>2. alive \subseteq User /\ signingIn \in [Form -> UserOrNone]
    BY <1>1 DEF MobileInit, UserOrNone
  <2>3. signIns \in 0..MaxSignIns /\ lapses \in 0..MaxLapses
    BY <1>1, ClientsAssumption DEF MobileInit
  <2> QED BY <1>1, <2>1, <2>2, <2>3 DEF MobileInit, MobileTypeOK, UserOrNone, NoContext, NoView,
                                        NoData, NoRefresh, Contexts, Views
<1>3. ScreensInv /\ LeavingInv /\ OwnTokensInv /\ SessionHasTokens
  BY <1>1 DEF MobileInit, ScreensInv, LeavingInv, OwnTokensInv, SessionHasTokens,
              NoContext, NoView, NoData, InFlight
<1> QED BY <1>2, <1>3 DEF MobileInv

LEMMA MobileInvariant == Spec => []MobileInv
<1>1. MobileInv /\ [Next]_clientVars => MobileInv'
  BY MobileStep DEF Next, clientVars, mobileVars
<1> QED BY <1>1, MobileInitially, PTL DEF Spec

\* The mobile application's state is well-formed, whatever its users do.
THEOREM MobileTyped == Spec => []MobileTypeOK
BY MobileInvariant, PTL DEF MobileInv

\* No screen shows the data or the workspace of another user than the one who is
\* signed in, unless tokens of two users were mixed.
THEOREM ScreensShowOwnData == Spec => []OwnDataOnly
<1>1. MobileInv => OwnDataOnly
  BY DEF MobileInv, OwnTokensInv, OwnDataOnly
<1> QED BY <1>1, MobileInvariant, PTL

\* A session is without tokens only where a refused context or a request from before
\* the sign-in took them, and tokens are without a session only while a logout is
\* under way or where a refresh was answered after it.
THEOREM SessionsHaveTokens == Spec => []SessionHasTokens
BY MobileInvariant, PTL DEF MobileInv

-----------------------------------------------------------------------------
(* The room of a call. *)

\* A connection that lives is the one the hook holds, and the hook of a page that was
\* left holds none; before the module has come there is no room; a page that shows it
\* is disconnected was; connect() waits for a device in the room, unless it was
\* surprised; and who is not in the room knows nobody there, unless the timer
\* connected it again.
HookInv == \A p \in Page :
    /\ Live(p) => held[p]
    /\ held[p] \/ step[p] # "no" => Mounted(p)
    /\ ~loaded[p] => ~held[p]
    /\ step[p] = "import" => ~loaded[p] /\ ~isDisconnected[p]
    /\ isDisconnected[p] => conn[p] = "left"
    /\ step[p] \in {"mic", "camera"} /\ ~surprised[p] => InRoom(p)
    /\ ~held[p] \/ (conn[p] = "joining" /\ ~again[p]) => remote[p] = {}

\* Only a page that was left while it waited for the module leaves a connect().
GhostsInv == \A g \in ghosts : slipped[g.page]

RoomInv == RoomTypeOK /\ HookInv /\ GhostsInv /\ ShowsWhatIs /\ NoPhantoms

\* Nobody becomes a phantom where those who go are forgotten by all who stay.
LEMMA GoneForgotten ==
  ASSUME NoPhantoms, NEW STATE gone,
         \A q \in Page : Told(q)' /\ ~again'[q] =>
            \/ remote'[q] = {}
            \/ Told(q) /\ ~again[q] /\ remote'[q] \subseteq remote[q] \ gone,
         \A q \in Page : InRoom(q) /\ as[q] \notin gone => InRoom(q)' /\ as'[q] = as[q],
         \A g \in ghosts : g.at = "joined" /\ g.as \notin gone => g \in ghosts'
  PROVE  NoPhantoms'
<1>1. ASSUME NEW q \in Page, Told(q)', ~again'[q], NEW i \in remote'[q]
      PROVE  Present(i, q)'
  <2>1. Told(q) /\ ~again[q] /\ i \in remote[q] /\ i \notin gone
    BY <1>1
  <2>2. Present(i, q)
    BY <2>1 DEF NoPhantoms
  <2>3. CASE \E r \in Page \ {q} : InRoom(r) /\ as[r] = i
    <3>1. PICK r \in Page \ {q} : InRoom(r) /\ as[r] = i
      BY <2>3
    <3>2. InRoom(r)' /\ as'[r] = i
      BY <2>1, <3>1
    <3> QED BY <3>2 DEF Present
  <2>4. CASE \E g \in ghosts : g.at = "joined" /\ g.as = i
    BY <2>1, <2>4 DEF Present
  <2> QED BY <2>2, <2>3, <2>4 DEF Present
<1> QED BY <1>1 DEF NoPhantoms

LEMMA NobodyGone ==
  ASSUME NoPhantoms,
         \A q \in Page : Told(q)' /\ ~again'[q] =>
            \/ remote'[q] = {}
            \/ Told(q) /\ ~again[q] /\ remote'[q] = remote[q],
         \A q \in Page : InRoom(q) => InRoom(q)' /\ as'[q] = as[q],
         \A g \in ghosts : g.at = "joined" => g \in ghosts'
  PROVE  NoPhantoms'
<1> DEFINE gone == {}
<1>1. \A q \in Page : Told(q)' /\ ~again'[q] =>
         \/ remote'[q] = {}
         \/ Told(q) /\ ~again[q] /\ remote'[q] \subseteq remote[q] \ gone
  OBVIOUS
<1>2. \A q \in Page : InRoom(q) /\ as[q] \notin gone => InRoom(q)' /\ as'[q] = as[q]
  OBVIOUS
<1>3. \A g \in ghosts : g.at = "joined" /\ g.as \notin gone => g \in ghosts'
  OBVIOUS
<1> HIDE DEF gone
<1> QED BY <1>1, <1>2, <1>3, GoneForgotten

\* Nobody becomes a phantom where one who joins takes the place of those of its name.
LEMMA JoinerKnown ==
  ASSUME NoPhantoms, NEW i, as' = as /\ again' = again,
         \A q \in Page : Told(q)' /\ ~again[q] =>
            \/ remote'[q] = {}
            \/ Told(q) /\ Present(i, q)' /\ remote'[q] \subseteq remote[q] \cup {i},
         \A q \in Page : InRoom(q) /\ as[q] # i => InRoom(q)',
         \A g \in ghosts : g.at = "joined" /\ g.as # i => g \in ghosts'
  PROVE  NoPhantoms'
<1>1. ASSUME NEW q \in Page, Told(q)', ~again'[q], NEW j \in remote'[q]
      PROVE  Present(j, q)'
  <2>1. Told(q) /\ Present(i, q)' /\ j \in remote[q] \cup {i} /\ ~again[q]
    BY <1>1
  <2>2. CASE j = i
    BY <2>1, <2>2
  <2>3. CASE j # i
    <3>1. Present(j, q)
      BY <2>1, <2>3 DEF NoPhantoms
    <3>2. CASE \E r \in Page \ {q} : InRoom(r) /\ as[r] = j
      <4>1. PICK r \in Page \ {q} : InRoom(r) /\ as[r] = j
        BY <3>2
      <4>2. InRoom(r)' /\ as'[r] = j
        BY <2>3, <4>1
      <4> QED BY <4>2 DEF Present
    <3>3. CASE \E g \in ghosts : g.at = "joined" /\ g.as = j
      BY <2>3, <3>3 DEF Present
    <3> QED BY <3>1, <3>2, <3>3 DEF Present
  <2> QED BY <2>2, <2>3
<1> QED BY <1>1 DEF NoPhantoms

\* Those who are told forget those who go, and only them.
LEMMA RemoteParted ==
  ASSUME RoomTypeOK, NEW STATE gone
  PROVE  /\ RemoteAfter({}, gone) \in [Page -> SUBSET Identity]
         /\ \A q \in Page : RemoteAfter({}, gone)[q] =
                               IF Told(q) THEN remote[q] \ gone ELSE remote[q]
<1>1. \A q \in Page : (remote[q] \ gone) \cup ({} \ {as[q]}) = remote[q] \ gone
  OBVIOUS
<1>2. RemoteAfter({}, gone) = [q \in Page |-> IF Told(q) THEN remote[q] \ gone ELSE remote[q]]
  BY <1>1 DEF RemoteAfter
<1>3. remote \in [Page -> SUBSET Identity]
  BY DEF RoomTypeOK
<1> QED BY <1>2, <1>3

\* Who joins is one identity more.
LEMMA RemoteJoined ==
  ASSUME RoomTypeOK, NEW i \in Identity
  PROVE  /\ RemoteAfter({i}, {}) \in [Page -> SUBSET Identity]
         /\ \A q \in Page : RemoteAfter({i}, {})[q] \subseteq remote[q] \cup {i}
         /\ \A q \in Page : ~Told(q) => RemoteAfter({i}, {})[q] = remote[q]
<1>1. \A q \in Page : /\ remote[q] \subseteq Identity
                      /\ (remote[q] \ {}) \cup ({i} \ {as[q]}) \subseteq remote[q] \cup {i}
  BY DEF RoomTypeOK
<1>2. RemoteAfter({i}, {}) = [q \in Page |-> IF Told(q) THEN (remote[q] \ {}) \cup ({i} \ {as[q]})
                                             ELSE remote[q]]
  BY DEF RemoteAfter
<1>3. \A q \in Page : (remote[q] \ {}) \cup ({i} \ {as[q]}) \in SUBSET Identity
  BY <1>1
<1> QED BY <1>1, <1>2, <1>3

\* A connection that joins keeps the state well-formed, and the hook's.
LEMMA PlaceTaken ==
  ASSUME RoomInv, NEW i \in Identity, NEW new \in SUBSET Page, TakesPlace(i, new),
         \A q \in new : conn[q] = "joining"
  PROVE  /\ conn' \in [Page -> {"none", "joining", "joined", "shaky", "left"}]
         /\ isConnecting' \in [Page -> BOOLEAN] /\ isConnected' \in [Page -> BOOLEAN]
         /\ isDisconnected' \in [Page -> BOOLEAN]
         /\ remote' \in [Page -> SUBSET Identity] /\ surprised' \in [Page -> BOOLEAN]
         /\ \A q \in Page \ new : ~(InRoom(q) /\ as[q] = i) =>
               /\ conn'[q] = conn[q] /\ surprised'[q] = surprised[q]
               /\ isConnected'[q] = isConnected[q]
               /\ isDisconnected'[q] = isDisconnected[q]
         /\ \A q \in Page \ new : InRoom(q) /\ as[q] = i =>
               /\ conn'[q] = "left" /\ ~isConnected'[q] /\ (surprised[q] => surprised'[q])
               /\ (step[q] # "no" => surprised'[q])
         /\ \A q \in new : /\ conn'[q] = "joined" /\ isConnected'[q] /\ remote'[q] = remote[q]
                           /\ surprised'[q] = surprised[q] /\ ~isDisconnected'[q]
         /\ \A q \in Page : ~Told(q) => remote'[q] = remote[q]
         /\ \A q \in Page : remote'[q] \subseteq remote[q] \cup {i}
<1> DEFINE out == {q \in Page \ new : InRoom(q) /\ as[q] = i}
           seen == {q \in out : Mounted(q)}
<1>1. /\ conn' = [q \in Page |-> IF q \in new THEN "joined"
                                 ELSE IF q \in out THEN "left" ELSE conn[q]]
      /\ surprised' = [q \in Page |-> surprised[q] \/ (q \in out /\ step[q] # "no")]
      /\ isConnected' = [q \in Page |-> q \in new \/ (isConnected[q] /\ q \notin seen)]
      /\ isDisconnected' = [q \in Page |-> isDisconnected[q] \/ q \in seen]
      /\ isConnecting' = [q \in Page |-> isConnecting[q] /\ q \notin new /\ q \notin seen]
      /\ remote' = RemoteAfter({i}, {})
  BY DEF TakesPlace
<1>2. remote' \in [Page -> SUBSET Identity]
      /\ (\A q \in Page : ~Told(q) => remote'[q] = remote[q])
      /\ (\A q \in Page : remote'[q] \subseteq remote[q] \cup {i})
  BY <1>1, RemoteJoined DEF RoomInv
<1>3. seen = out
  BY DEF RoomInv, HookInv, Live, InRoom
<1>4. conn' \in [Page -> {"none", "joining", "joined", "shaky", "left"}]
  BY <1>1 DEF RoomInv, RoomTypeOK
<1>5. isConnecting' \in [Page -> BOOLEAN] /\ isConnected' \in [Page -> BOOLEAN]
      /\ isDisconnected' \in [Page -> BOOLEAN] /\ surprised' \in [Page -> BOOLEAN]
  BY <1>1
<1>6. \A q \in Page \ new : ~(InRoom(q) /\ as[q] = i) =>
               /\ conn'[q] = conn[q] /\ surprised'[q] = surprised[q]
               /\ isConnected'[q] = isConnected[q]
               /\ isDisconnected'[q] = isDisconnected[q]
  BY <1>1, <1>3 DEF RoomInv, RoomTypeOK
<1>7. \A q \in Page \ new : InRoom(q) /\ as[q] = i =>
               /\ conn'[q] = "left" /\ ~isConnected'[q] /\ (surprised[q] => surprised'[q])
               /\ (step[q] # "no" => surprised'[q])
  BY <1>1, <1>3 DEF RoomInv, RoomTypeOK
<1>8. ASSUME NEW q \in new
      PROVE  /\ conn'[q] = "joined" /\ isConnected'[q] /\ remote'[q] = remote[q]
             /\ surprised'[q] = surprised[q] /\ ~isDisconnected'[q]
  <2>1. conn[q] = "joining" /\ q \in Page /\ ~Told(q) /\ ~isDisconnected[q] /\ q \notin out
    BY DEF RoomInv, HookInv, Told
  <2> QED BY <1>1, <1>2, <1>3, <2>1 DEF RoomInv, RoomTypeOK
<1> QED BY <1>2, <1>4, <1>5, <1>6, <1>7, <1>8

\* A page joins.
LEMMA JoinSafe == ASSUME RoomInv, NEW p \in Page, Join(p) PROVE RoomInv'
<1> DEFINE new == {p}
<1>0. PICK i \in Identity : i = as[p]
  BY DEF RoomInv, RoomTypeOK
<1>1. new \in SUBSET Page /\ TakesPlace(i, new)
      /\ (\A q \in new : conn[q] = "joining") /\ step[p] = "join"
  BY <1>0 DEF Join
<1>2. /\ UNCHANGED <<at, credentials, as, held, late, visits, roomTroubles, again, loaded, slipped>>
      /\ ghosts' = ghosts \ Displaced(i)
      /\ step' = [step EXCEPT ![p] = IF p \in Video THEN "mic" ELSE "no"]
  BY <1>0 DEF Join, visitVars, bounds
<1> HIDE DEF new
<1>3. /\ conn' \in [Page -> {"none", "joining", "joined", "shaky", "left"}]
      /\ isConnecting' \in [Page -> BOOLEAN] /\ isConnected' \in [Page -> BOOLEAN]
      /\ isDisconnected' \in [Page -> BOOLEAN]
      /\ remote' \in [Page -> SUBSET Identity] /\ surprised' \in [Page -> BOOLEAN]
  BY <1>1, PlaceTaken
<1>4. /\ \A q \in Page \ new : ~(InRoom(q) /\ as[q] = i) =>
             /\ conn'[q] = conn[q] /\ surprised'[q] = surprised[q]
             /\ isConnected'[q] = isConnected[q]
             /\ isDisconnected'[q] = isDisconnected[q]
      /\ \A q \in Page \ new : InRoom(q) /\ as[q] = i =>
             /\ conn'[q] = "left" /\ ~isConnected'[q] /\ (surprised[q] => surprised'[q])
             /\ (step[q] # "no" => surprised'[q])
      /\ \A q \in new : /\ conn'[q] = "joined" /\ isConnected'[q] /\ remote'[q] = remote[q]
                        /\ surprised'[q] = surprised[q] /\ ~isDisconnected'[q]
      /\ \A q \in Page : ~Told(q) => remote'[q] = remote[q]
      /\ \A q \in Page : remote'[q] \subseteq remote[q] \cup {i}
  BY <1>1, PlaceTaken
<1>5. RoomTypeOK'
  BY <1>2, <1>3 DEF RoomInv, RoomTypeOK
<1>6. HookInv'
  <2>1. ASSUME NEW q \in Page, q # p
        PROVE  /\ Live(q)' => held'[q]
               /\ held'[q] \/ step'[q] # "no" => Mounted(q)'
               /\ ~loaded'[q] => ~held'[q]
               /\ step'[q] = "import" => ~loaded'[q] /\ ~isDisconnected'[q]
               /\ isDisconnected'[q] => conn'[q] = "left"
               /\ step'[q] \in {"mic", "camera"} /\ ~surprised'[q] => InRoom(q)'
    <3>1. /\ at'[q] = at[q] /\ held'[q] = held[q] /\ loaded'[q] = loaded[q]
          /\ step'[q] = step[q] /\ q \in Page \ new
      BY <1>2, <2>1 DEF RoomInv, RoomTypeOK, new
    <3>2. CASE InRoom(q) /\ as[q] = i
      BY <1>4, <3>1, <3>2 DEF RoomInv, HookInv, Live, InRoom, Mounted
    <3>3. CASE ~(InRoom(q) /\ as[q] = i)
      <4>1. /\ conn'[q] = conn[q] /\ surprised'[q] = surprised[q]
            /\ isDisconnected'[q] = isDisconnected[q]
        BY <1>4, <3>1, <3>3
      <4> QED BY <3>1, <4>1 DEF RoomInv, HookInv, Live, InRoom, Mounted
    <3> QED BY <3>2, <3>3
  <2>3. ASSUME NEW q \in Page, q # p, ~held'[q] \/ (conn'[q] = "joining" /\ ~again'[q])
        PROVE  remote'[q] = {}
    <3>1. ~Told(q) /\ (~held[q] \/ (conn[q] = "joining" /\ ~again[q]))
      BY <1>2, <1>4, <2>3 DEF RoomInv, HookInv, Live, Told, InRoom, new
    <3>2. remote'[q] = remote[q] /\ remote[q] = {}
      BY <1>4, <3>1 DEF RoomInv, HookInv
    <3> QED BY <3>2
  <2>2. /\ Live(p)' => held'[p]
        /\ held'[p] \/ step'[p] # "no" => Mounted(p)'
        /\ ~loaded'[p] => ~held'[p]
        /\ step'[p] = "import" => ~loaded'[p] /\ ~isDisconnected'[p]
        /\ isDisconnected'[p] => conn'[p] = "left"
        /\ step'[p] \in {"mic", "camera"} /\ ~surprised'[p] => InRoom(p)'
        /\ ~held'[p] \/ (conn'[p] = "joining" /\ ~again'[p]) => remote'[p] = {}
    BY <1>1, <1>2, <1>4 DEF RoomInv, HookInv, RoomTypeOK, Live, InRoom, Told, Mounted, new
  <2> QED BY <2>1, <2>2, <2>3 DEF HookInv
<1>7. GhostsInv'
  BY <1>2 DEF RoomInv, GhostsInv
<1>8. ShowsWhatIs'
  <2>1. ASSUME NEW q \in Page, q # p PROVE Mounted(q)' /\ ~surprised'[q] => (isConnected'[q] <=> InRoom(q)')
    BY <1>2, <1>4, <2>1 DEF RoomInv, ShowsWhatIs, InRoom, Mounted, new
  <2>2. isConnected'[p] /\ InRoom(p)'
    BY <1>4 DEF InRoom, new
  <2> QED BY <2>1, <2>2 DEF ShowsWhatIs
<1>9. NoPhantoms'
  <2>1. ASSUME NEW q \in Page, q # p
        PROVE  Present(i, q)' /\ (Told(q)' => Told(q)) /\ (InRoom(q) /\ as[q] # i => InRoom(q)')
    BY <1>0, <1>2, <1>4, <2>1 DEF Present, Told, InRoom, new
  <2>2. InRoom(p)' /\ (~again[p] => remote'[p] = {})
    BY <1>1, <1>4 DEF RoomInv, HookInv, InRoom, new
  <2>3. \A g \in ghosts : g.at = "joined" /\ g.as # i => g \in ghosts'
    BY <1>2 DEF Displaced
  <2>4. \A q \in Page : Told(q)' /\ ~again[q] =>
            \/ remote'[q] = {}
            \/ Told(q) /\ Present(i, q)' /\ remote'[q] \subseteq remote[q] \cup {i}
    BY <1>4, <2>1, <2>2
  <2>5. \A q \in Page : InRoom(q) /\ as[q] # i => InRoom(q)'
    BY <2>1, <2>2
  <2> QED BY <1>2, <2>3, <2>4, <2>5, JoinerKnown DEF RoomInv
<1> QED BY <1>5, <1>6, <1>7, <1>8, <1>9 DEF RoomInv

\* A connect() whose page has gone joins.
LEMMA GhostJoinSafe == ASSUME RoomInv, NEW g \in ghosts, GhostJoins(g) PROVE RoomInv'
<1> DEFINE h == [g EXCEPT !.at = "joined"]
           new == {}
<1>0. PICK i \in Identity : i = g.as
  BY DEF RoomInv, RoomTypeOK, Ghosts
<1>1. /\ g \in Ghosts /\ h \in Ghosts /\ h.as = i /\ h.at = "joined" /\ h.page = g.page
  BY <1>0 DEF RoomInv, RoomTypeOK, Ghosts
<1>3. new \in SUBSET Page /\ TakesPlace(i, new) /\ \A q \in new : conn[q] = "joining"
  BY <1>0 DEF GhostJoins
<1>2. /\ UNCHANGED <<at, credentials, as, held, step, late, visits, roomTroubles, again, loaded, slipped>>
      /\ ghosts' = (ghosts \ (Displaced(i) \cup {g})) \cup {h} /\ g.at = "joining"
  BY <1>0 DEF GhostJoins, visitVars, hookVars, bounds
<1> HIDE DEF h, new
<1>10. /\ conn' \in [Page -> {"none", "joining", "joined", "shaky", "left"}]
       /\ isConnecting' \in [Page -> BOOLEAN] /\ isConnected' \in [Page -> BOOLEAN]
       /\ isDisconnected' \in [Page -> BOOLEAN]
       /\ remote' \in [Page -> SUBSET Identity] /\ surprised' \in [Page -> BOOLEAN]
  BY <1>3, PlaceTaken
<1>4. /\ \A q \in Page \ new : ~(InRoom(q) /\ as[q] = i) =>
             /\ conn'[q] = conn[q] /\ surprised'[q] = surprised[q]
             /\ isConnected'[q] = isConnected[q]
             /\ isDisconnected'[q] = isDisconnected[q]
      /\ \A q \in Page \ new : InRoom(q) /\ as[q] = i =>
             /\ conn'[q] = "left" /\ ~isConnected'[q] /\ (surprised[q] => surprised'[q])
             /\ (step[q] # "no" => surprised'[q])
      /\ \A q \in Page : ~Told(q) => remote'[q] = remote[q]
      /\ \A q \in Page : remote'[q] \subseteq remote[q] \cup {i}
  <2>1. \A q \in Page \ new : ~(InRoom(q) /\ as[q] = i) =>
           /\ conn'[q] = conn[q] /\ surprised'[q] = surprised[q]
           /\ isConnected'[q] = isConnected[q]
           /\ isDisconnected'[q] = isDisconnected[q]
    BY <1>3, PlaceTaken
  <2>2. \A q \in Page \ new : InRoom(q) /\ as[q] = i =>
           /\ conn'[q] = "left" /\ ~isConnected'[q] /\ (surprised[q] => surprised'[q])
           /\ (step[q] # "no" => surprised'[q])
    BY <1>3, PlaceTaken
  <2>3. \A q \in Page : ~Told(q) => remote'[q] = remote[q]
    BY <1>3, PlaceTaken
  <2>4. \A q \in Page : remote'[q] \subseteq remote[q] \cup {i}
    <3>1. remote' = RemoteAfter({i}, {})
      BY <1>3 DEF TakesPlace
    <3> QED BY <3>1, RemoteJoined DEF RoomInv
  <2> QED BY <2>1, <2>2, <2>3, <2>4
<1>5. RoomTypeOK'
  <2>1. ghosts' \subseteq Ghosts
    BY <1>1, <1>2 DEF RoomInv, RoomTypeOK
  <2> QED BY <1>2, <1>10, <2>1 DEF RoomInv, RoomTypeOK
<1>6. HookInv'
  <2>1. ASSUME NEW q \in Page
        PROVE  /\ Live(q)' => held'[q]
               /\ held'[q] \/ step'[q] # "no" => Mounted(q)'
               /\ ~loaded'[q] => ~held'[q]
               /\ step'[q] = "import" => ~loaded'[q] /\ ~isDisconnected'[q]
               /\ isDisconnected'[q] => conn'[q] = "left"
               /\ step'[q] \in {"mic", "camera"} /\ ~surprised'[q] => InRoom(q)'
    BY <1>2, <1>4 DEF RoomInv, HookInv, RoomTypeOK, Live, InRoom, Mounted, new
  <2>2. ASSUME NEW q \in Page, ~held'[q] \/ (conn'[q] = "joining" /\ ~again'[q])
        PROVE  remote'[q] = {}
    <3>1. ~Told(q) /\ (~held[q] \/ (conn[q] = "joining" /\ ~again[q]))
      BY <1>2, <1>4, <2>2 DEF RoomInv, HookInv, Live, Told, InRoom, new
    <3>2. remote'[q] = remote[q] /\ remote[q] = {}
      BY <1>4, <3>1 DEF RoomInv, HookInv
    <3> QED BY <3>2
  <2> QED BY <2>1, <2>2 DEF HookInv
<1>7. GhostsInv'
  BY <1>1, <1>2 DEF RoomInv, GhostsInv
<1>8. ShowsWhatIs'
  BY <1>2, <1>4 DEF RoomInv, ShowsWhatIs, InRoom, Mounted, new
<1>9. NoPhantoms'
  <2>1. \A q \in Page : /\ Told(q)' => Told(q)
                        /\ InRoom(q) /\ as[q] # i => InRoom(q)'
    BY <1>4 DEF Told, InRoom, new
  <2>2. \A q \in Page : Present(i, q)'
    BY <1>1, <1>2 DEF Present
  <2>3. \A f \in ghosts : f.at = "joined" /\ f.as # i => f \in ghosts'
    BY <1>2 DEF Displaced
  <2> QED BY <1>2, <1>4, <2>1, <2>2, <2>3, JoinerKnown DEF RoomInv
<1> QED BY <1>5, <1>6, <1>7, <1>8, <1>9 DEF RoomInv

LEMMA RoomStep ==
  ASSUME RoomInv, RoomNext \/ UNCHANGED roomVars
  PROVE  RoomInv'
<1> USE DEF RoomInv, HookInv, GhostsInv, ShowsWhatIs, Mounted, Live, InRoom, Told, visitVars,
            hookVars, flagVars, bounds, roomHistory, ghostVars
<1>1. ASSUME NEW p \in Page, Enter(p) PROVE RoomInv'
  <2>1. RoomTypeOK'
    <3>1. at' \in [Page -> {"chat", "room", "leaving"}] /\ credentials' \in [Page -> BOOLEAN]
      <4>1. PICK c \in BOOLEAN : credentials' = [credentials EXCEPT ![p] = c]
        BY <1>1 DEF Enter
      <4> QED BY <1>1, <4>1 DEF Enter, RoomTypeOK
    <3>2. as' \in [Page -> Identity]
      <4>1. PICK i \in Identity : as' = [as EXCEPT ![p] = i]
        BY <1>1 DEF Enter
      <4> QED BY <4>1 DEF RoomTypeOK
    <3>3. held' \in [Page -> BOOLEAN] /\ late' \in [Page -> BOOLEAN]
      BY <1>1, RoomBounds DEF Enter, RoomTypeOK
    <3>4. conn' \in [Page -> {"none", "joining", "joined", "shaky", "left"}]
      BY <1>1, RoomBounds DEF Enter, RoomTypeOK
    <3>5. step' \in [Page -> {"no", "import", "join", "mic", "camera"}]
      BY <1>1, RoomBounds DEF Enter, RoomTypeOK
    <3>6. loaded' \in [Page -> BOOLEAN] /\ slipped' \in [Page -> BOOLEAN]
      BY <1>1, RoomBounds DEF Enter, RoomTypeOK
    <3>7. ghosts' \subseteq Ghosts
      BY <1>1, RoomBounds DEF Enter, RoomTypeOK
    <3>8. isConnecting' \in [Page -> BOOLEAN] /\ isConnected' \in [Page -> BOOLEAN]
      BY <1>1, RoomBounds DEF Enter, RoomTypeOK
    <3>9. isDisconnected' \in [Page -> BOOLEAN]
      BY <1>1, RoomBounds DEF Enter, RoomTypeOK
    <3>10. remote' \in [Page -> SUBSET Identity]
      BY <1>1, RoomBounds DEF Enter, RoomTypeOK
    <3>11. visits' \in [Page -> Nat] /\ roomTroubles' \in 0..MaxRoomTroubles
      BY <1>1, RoomBounds DEF Enter, RoomTypeOK
    <3>12. again' \in [Page -> BOOLEAN] /\ surprised' \in [Page -> BOOLEAN]
      BY <1>1, RoomBounds DEF Enter, RoomTypeOK
    <3> QED BY <3>1, <3>2, <3>3, <3>4, <3>5, <3>6, <3>7, <3>8, <3>9, <3>10, <3>11, <3>12 DEF RoomTypeOK
  <2>2. HookInv'
    BY <1>1 DEF Enter, RoomTypeOK
  <2>3. GhostsInv'
    BY <1>1 DEF Enter, RoomTypeOK
  <2>4. ShowsWhatIs'
    BY <1>1 DEF Enter, RoomTypeOK
  <2>5. NoPhantoms'
    <3>1. \A q \in Page : Told(q)' => Told(q) /\ remote'[q] = remote[q] /\ again'[q] = again[q]
      BY <1>1 DEF Enter, RoomTypeOK
    <3>2. \A q \in Page : InRoom(q) => InRoom(q)' /\ as'[q] = as[q]
      BY <1>1 DEF Enter, RoomTypeOK
    <3>3. \A g \in ghosts : g.at = "joined" => g \in ghosts'
      BY <1>1 DEF Enter, Waiting
    <3> QED BY <3>1, <3>2, <3>3, NobodyGone
  <2> QED BY <2>1, <2>2, <2>3, <2>4, <2>5
<1>2. ASSUME NEW p \in Page, Initialize(p) PROVE RoomInv'
  <2>1. RoomTypeOK'
    <3>1. at' \in [Page -> {"chat", "room", "leaving"}] /\ credentials' \in [Page -> BOOLEAN]
      BY <1>2, RoomBounds DEF Initialize, RoomTypeOK
    <3>2. as' \in [Page -> Identity]
      BY <1>2, RoomBounds DEF Initialize, RoomTypeOK
    <3>3. held' \in [Page -> BOOLEAN] /\ late' \in [Page -> BOOLEAN]
      BY <1>2, RoomBounds DEF Initialize, RoomTypeOK
    <3>4. conn' \in [Page -> {"none", "joining", "joined", "shaky", "left"}]
      BY <1>2, RoomBounds DEF Initialize, RoomTypeOK
    <3>5. step' \in [Page -> {"no", "import", "join", "mic", "camera"}]
      BY <1>2, RoomBounds DEF Initialize, RoomTypeOK
    <3>6. loaded' \in [Page -> BOOLEAN] /\ slipped' \in [Page -> BOOLEAN]
      BY <1>2, RoomBounds DEF Initialize, RoomTypeOK
    <3>7. ghosts' \subseteq Ghosts
      BY <1>2, RoomBounds DEF Initialize, RoomTypeOK
    <3>8. isConnecting' \in [Page -> BOOLEAN] /\ isConnected' \in [Page -> BOOLEAN]
      BY <1>2, RoomBounds DEF Initialize, RoomTypeOK
    <3>9. isDisconnected' \in [Page -> BOOLEAN]
      BY <1>2, RoomBounds DEF Initialize, RoomTypeOK
    <3>10. remote' \in [Page -> SUBSET Identity]
      BY <1>2, RoomBounds DEF Initialize, RoomTypeOK
    <3>11. visits' \in [Page -> Nat] /\ roomTroubles' \in 0..MaxRoomTroubles
      BY <1>2, RoomBounds DEF Initialize, RoomTypeOK
    <3>12. again' \in [Page -> BOOLEAN] /\ surprised' \in [Page -> BOOLEAN]
      BY <1>2, RoomBounds DEF Initialize, RoomTypeOK
    <3> QED BY <3>1, <3>2, <3>3, <3>4, <3>5, <3>6, <3>7, <3>8, <3>9, <3>10, <3>11, <3>12 DEF RoomTypeOK
  <2>2. HookInv'
    BY <1>2 DEF Initialize, RoomTypeOK
  <2>3. GhostsInv'
    BY <1>2 DEF Initialize, RoomTypeOK
  <2>4. ShowsWhatIs'
    BY <1>2 DEF Initialize, RoomTypeOK
  <2>5. NoPhantoms'
    <3>1. UNCHANGED <<conn, as, remote, again, ghosts>>
      BY <1>2 DEF Initialize
    <3> QED BY <3>1, NobodyGone
  <2> QED BY <2>1, <2>2, <2>3, <2>4, <2>5
<1>3. ASSUME NEW p \in Page, Unmount(p) PROVE RoomInv'
  <2> DEFINE gone == IF InRoom(p) /\ held[p] THEN {as[p]} ELSE {}
  <2>0. /\ remote' \in [Page -> SUBSET Identity] /\ remote'[p] = {}
        /\ \A q \in Page \ {p} : /\ remote'[q] \subseteq remote[q]
                                 /\ Told(q) => remote'[q] \subseteq remote[q] \ gone
    <3> DEFINE kept == RemoteAfter({}, gone)
    <3>1. remote' = [kept EXCEPT ![p] = {}]
      BY <1>3 DEF Unmount
    <3> HIDE DEF gone
    <3>2. kept \in [Page -> SUBSET Identity]
          /\ \A q \in Page : kept[q] = IF Told(q) THEN remote[q] \ gone ELSE remote[q]
      BY RemoteParted DEF RoomInv
    <3> HIDE DEF kept
    <3>3. remote \in [Page -> SUBSET Identity]
      BY DEF RoomTypeOK
    <3> QED BY <3>1, <3>2, <3>3
  <2>6. /\ conn'[p] = "none" /\ \A q \in Page \ {p} : conn'[q] = conn[q]
        /\ \A q \in Page \ {p} : as'[q] = as[q] /\ again'[q] = again[q]
    BY <1>3 DEF Unmount, Unmounted, RoomTypeOK
  <2>1. RoomTypeOK'
    <3>1. at' \in [Page -> {"chat", "room", "leaving"}] /\ credentials' \in [Page -> BOOLEAN]
      BY <1>3, <2>0, <2>6, RoomBounds DEF Unmount, Unmounted, RoomTypeOK
    <3>2. as' \in [Page -> Identity]
      <4>1. NoAccount \in Identity
        BY RoomBounds DEF NoAccount
      <4> QED BY <1>3, <4>1 DEF Unmount, RoomTypeOK
    <3>3. held' \in [Page -> BOOLEAN] /\ late' \in [Page -> BOOLEAN]
      BY <1>3, <2>0, <2>6, RoomBounds DEF Unmount, Unmounted, RoomTypeOK
    <3>4. conn' \in [Page -> {"none", "joining", "joined", "shaky", "left"}]
      BY <1>3, <2>0, <2>6, RoomBounds DEF Unmount, Unmounted, RoomTypeOK
    <3>5. step' \in [Page -> {"no", "import", "join", "mic", "camera"}]
      BY <1>3, <2>0, <2>6, RoomBounds DEF Unmount, Unmounted, RoomTypeOK
    <3>6. loaded' \in [Page -> BOOLEAN] /\ slipped' \in [Page -> BOOLEAN]
      BY <1>3, <2>0, <2>6, RoomBounds DEF Unmount, Unmounted, RoomTypeOK
    <3>7. ghosts' \subseteq Ghosts
      <4>1. [page |-> p, visit |-> visits[p], as |-> as[p], at |-> "import"] \in Ghosts
        BY DEF Ghosts, RoomTypeOK
      <4> QED BY <1>3, <4>1 DEF Unmount, RoomTypeOK
    <3>8. isConnecting' \in [Page -> BOOLEAN] /\ isConnected' \in [Page -> BOOLEAN]
      BY <1>3, <2>0, <2>6, RoomBounds DEF Unmount, Unmounted, RoomTypeOK
    <3>9. isDisconnected' \in [Page -> BOOLEAN]
      BY <1>3, <2>0, <2>6, RoomBounds DEF Unmount, Unmounted, RoomTypeOK
    <3>10. remote' \in [Page -> SUBSET Identity]
      BY <1>3, <2>0, <2>6, RoomBounds DEF Unmount, Unmounted, RoomTypeOK
    <3>11. visits' \in [Page -> Nat] /\ roomTroubles' \in 0..MaxRoomTroubles
      BY <1>3, <2>0, <2>6, RoomBounds DEF Unmount, Unmounted, RoomTypeOK
    <3>12. again' \in [Page -> BOOLEAN] /\ surprised' \in [Page -> BOOLEAN]
      BY <1>3, <2>0, <2>6, RoomBounds DEF Unmount, Unmounted, RoomTypeOK
    <3> QED BY <3>1, <3>2, <3>3, <3>4, <3>5, <3>6, <3>7, <3>8, <3>9, <3>10, <3>11, <3>12 DEF RoomTypeOK
  <2>2. HookInv'
    <3>1. ASSUME NEW q \in Page, ~held'[q] \/ (conn'[q] = "joining" /\ ~again'[q])
          PROVE  remote'[q] = {}
      <4>1. q = p => remote'[q] = {}
        BY <1>3, <2>0, <2>6, <3>1 DEF Unmount, Unmounted, RoomTypeOK
      <4>2. q # p => remote[q] = {}
        BY <1>3, <2>0, <2>6, <3>1 DEF Unmount, Unmounted, RoomTypeOK
      <4>3. q # p => remote'[q] \subseteq remote[q]
        BY <2>0
      <4> QED BY <4>1, <4>2, <4>3
    <3>2. ASSUME NEW q \in Page
          PROVE  /\ Live(q)' => held'[q]
                 /\ held'[q] \/ step'[q] # "no" => Mounted(q)'
                 /\ ~loaded'[q] => ~held'[q]
                 /\ step'[q] = "import" => ~loaded'[q] /\ ~isDisconnected'[q]
                 /\ isDisconnected'[q] => conn'[q] = "left"
                 /\ step'[q] \in {"mic", "camera"} /\ ~surprised'[q] => InRoom(q)'
      BY <1>3, <2>0, <2>6 DEF Unmount, Unmounted, RoomTypeOK
    <3> QED BY <3>1, <3>2
  <2>3. GhostsInv'
    <3> DEFINE new == [page |-> p, visit |-> visits[p], as |-> as[p], at |-> "import"]
    <3>1. \A g \in ghosts' : g \in ghosts \/ (g = new /\ step[p] = "import")
      BY <1>3 DEF Unmount
    <3>2. new.page = p
      OBVIOUS
    <3> HIDE DEF new
    <3>3. slipped' = [slipped EXCEPT ![p] = slipped[p] \/ step[p] = "import"]
      BY <1>3 DEF Unmount
    <3>4. \A q \in Page : slipped'[q] = (slipped[q] \/ (q = p /\ step[p] = "import"))
      BY <3>3 DEF RoomTypeOK
    <3>5. \A g \in ghosts : g.page \in Page
      BY DEF RoomTypeOK, Ghosts
    <3> QED BY <3>1, <3>2, <3>4, <3>5
  <2>4. ShowsWhatIs'
    BY <1>3, <2>0, <2>6 DEF Unmount, Unmounted, RoomTypeOK
  <2>5. NoPhantoms'
    <3>1. \A q \in Page : Told(q)' /\ ~again'[q] =>
             \/ remote'[q] = {}
             \/ Told(q) /\ ~again[q] /\ remote'[q] \subseteq remote[q] \ gone
      BY <2>0, <2>6
    <3>2. \A q \in Page : InRoom(q) /\ as[q] \notin gone => InRoom(q)' /\ as'[q] = as[q]
      BY <2>6
    <3>3. \A g \in ghosts : g \in ghosts'
      BY <1>3 DEF Unmount, Unmounted
    <3> HIDE DEF gone
    <3> QED BY <3>1, <3>2, <3>3, GoneForgotten
  <2> QED BY <2>1, <2>2, <2>3, <2>4, <2>5
<1>4. ASSUME NEW p \in Page, AutoConnect(p) PROVE RoomInv'
  <2>1. RoomTypeOK'
    <3>1. at' \in [Page -> {"chat", "room", "leaving"}] /\ credentials' \in [Page -> BOOLEAN]
      BY <1>4, RoomBounds DEF AutoConnect, Connect, NewRoom, RoomTypeOK
    <3>2. as' \in [Page -> Identity]
      BY <1>4, RoomBounds DEF AutoConnect, Connect, NewRoom, RoomTypeOK
    <3>3. held' \in [Page -> BOOLEAN] /\ late' \in [Page -> BOOLEAN]
      <4>1. late' = [late EXCEPT ![p] = late[p] \/ step[p] # "no"]
        BY <1>4 DEF AutoConnect, Connect
      <4>2. late' \in [Page -> BOOLEAN]
        BY <4>1 DEF RoomTypeOK
      <4>3. held' = held \/ held' = [held EXCEPT ![p] = TRUE]
        BY <1>4 DEF AutoConnect, Connect, NewRoom
      <4> QED BY <4>2, <4>3 DEF RoomTypeOK
    <3>4. conn' \in [Page -> {"none", "joining", "joined", "shaky", "left"}]
      BY <1>4, RoomBounds DEF AutoConnect, Connect, NewRoom, RoomTypeOK
    <3>5. step' \in [Page -> {"no", "import", "join", "mic", "camera"}]
      BY <1>4, RoomBounds DEF AutoConnect, Connect, NewRoom, RoomTypeOK
    <3>6. loaded' \in [Page -> BOOLEAN] /\ slipped' \in [Page -> BOOLEAN]
      BY <1>4, RoomBounds DEF AutoConnect, Connect, NewRoom, RoomTypeOK
    <3>7. ghosts' \subseteq Ghosts
      BY <1>4, RoomBounds DEF AutoConnect, Connect, NewRoom, RoomTypeOK
    <3>8. isConnecting' \in [Page -> BOOLEAN] /\ isConnected' \in [Page -> BOOLEAN]
      BY <1>4, RoomBounds DEF AutoConnect, Connect, NewRoom, RoomTypeOK
    <3>9. isDisconnected' \in [Page -> BOOLEAN]
      BY <1>4, RoomBounds DEF AutoConnect, Connect, NewRoom, RoomTypeOK
    <3>10. remote' \in [Page -> SUBSET Identity]
      BY <1>4, RoomBounds DEF AutoConnect, Connect, NewRoom, RoomTypeOK
    <3>11. visits' \in [Page -> Nat] /\ roomTroubles' \in 0..MaxRoomTroubles
      BY <1>4, RoomBounds DEF AutoConnect, Connect, NewRoom, RoomTypeOK
    <3>12. again' \in [Page -> BOOLEAN] /\ surprised' \in [Page -> BOOLEAN]
      BY <1>4, RoomBounds DEF AutoConnect, Connect, NewRoom, RoomTypeOK
    <3> QED BY <3>1, <3>2, <3>3, <3>4, <3>5, <3>6, <3>7, <3>8, <3>9, <3>10, <3>11, <3>12 DEF RoomTypeOK
  <2>2. HookInv'
    BY <1>4 DEF AutoConnect, Connect, NewRoom, RoomTypeOK
  <2>3. GhostsInv'
    BY <1>4 DEF AutoConnect, Connect, NewRoom, RoomTypeOK
  <2>4. ShowsWhatIs'
    BY <1>4 DEF AutoConnect, Connect, NewRoom, RoomTypeOK
  <2>5. NoPhantoms'
    <3>1. \A q \in Page : Told(q)' => Told(q) /\ remote'[q] = remote[q] /\ again'[q] = again[q]
      BY <1>4 DEF AutoConnect, Connect, NewRoom, RoomTypeOK
    <3>2. \A q \in Page : InRoom(q) => InRoom(q)' /\ as'[q] = as[q]
      BY <1>4 DEF AutoConnect, Connect, NewRoom, RoomTypeOK
    <3>3. \A g \in ghosts : g.at = "joined" => g \in ghosts'
      BY <1>4 DEF AutoConnect, Connect, NewRoom, Waiting
    <3> QED BY <3>1, <3>2, <3>3, NobodyGone
  <2> QED BY <2>1, <2>2, <2>3, <2>4, <2>5
<1>5. ASSUME NEW p \in Page, TimerEnds(p) PROVE RoomInv'
  <2>1. RoomTypeOK'
    <3>1. at' \in [Page -> {"chat", "room", "leaving"}] /\ credentials' \in [Page -> BOOLEAN]
      BY <1>5, RoomBounds DEF TimerEnds, Connect, NewRoom, RoomTypeOK
    <3>2. as' \in [Page -> Identity]
      BY <1>5, RoomBounds DEF TimerEnds, Connect, NewRoom, RoomTypeOK
    <3>3. held' \in [Page -> BOOLEAN] /\ late' \in [Page -> BOOLEAN]
      <4>1. late' = [late EXCEPT ![p] = late[p] \/ step[p] # "no"]
        BY <1>5 DEF TimerEnds, Connect
      <4>2. late' \in [Page -> BOOLEAN]
        BY <4>1 DEF RoomTypeOK
      <4>3. held' = held \/ held' = [held EXCEPT ![p] = TRUE]
        BY <1>5 DEF TimerEnds, Connect, NewRoom
      <4> QED BY <4>2, <4>3 DEF RoomTypeOK
    <3>4. conn' \in [Page -> {"none", "joining", "joined", "shaky", "left"}]
      BY <1>5, RoomBounds DEF TimerEnds, Connect, NewRoom, RoomTypeOK
    <3>5. step' \in [Page -> {"no", "import", "join", "mic", "camera"}]
      BY <1>5, RoomBounds DEF TimerEnds, Connect, NewRoom, RoomTypeOK
    <3>6. loaded' \in [Page -> BOOLEAN] /\ slipped' \in [Page -> BOOLEAN]
      BY <1>5, RoomBounds DEF TimerEnds, Connect, NewRoom, RoomTypeOK
    <3>7. ghosts' \subseteq Ghosts
      BY <1>5, RoomBounds DEF TimerEnds, Connect, NewRoom, RoomTypeOK
    <3>8. isConnecting' \in [Page -> BOOLEAN] /\ isConnected' \in [Page -> BOOLEAN]
      BY <1>5, RoomBounds DEF TimerEnds, Connect, NewRoom, RoomTypeOK
    <3>9. isDisconnected' \in [Page -> BOOLEAN]
      BY <1>5, RoomBounds DEF TimerEnds, Connect, NewRoom, RoomTypeOK
    <3>10. remote' \in [Page -> SUBSET Identity]
      BY <1>5, RoomBounds DEF TimerEnds, Connect, NewRoom, RoomTypeOK
    <3>11. visits' \in [Page -> Nat] /\ roomTroubles' \in 0..MaxRoomTroubles
      BY <1>5, RoomBounds DEF TimerEnds, Connect, NewRoom, RoomTypeOK
    <3>12. again' \in [Page -> BOOLEAN] /\ surprised' \in [Page -> BOOLEAN]
      BY <1>5, RoomBounds DEF TimerEnds, Connect, NewRoom, RoomTypeOK
    <3> QED BY <3>1, <3>2, <3>3, <3>4, <3>5, <3>6, <3>7, <3>8, <3>9, <3>10, <3>11, <3>12 DEF RoomTypeOK
  <2>2. HookInv'
    BY <1>5 DEF TimerEnds, Connect, NewRoom, RoomTypeOK
  <2>3. GhostsInv'
    BY <1>5 DEF TimerEnds, Connect, NewRoom, RoomTypeOK
  <2>4. ShowsWhatIs'
    BY <1>5 DEF TimerEnds, Connect, NewRoom, RoomTypeOK
  <2>5. NoPhantoms'
    <3>1. \A q \in Page : q # p => conn'[q] = conn[q] /\ again'[q] = again[q]
      BY <1>5 DEF TimerEnds, Connect, NewRoom, RoomTypeOK
    <3>2. conn[p] = "left" /\ (conn'[p] = conn[p] \/ conn'[p] = "joining")
          /\ UNCHANGED <<as, remote, ghosts>>
      BY <1>5 DEF TimerEnds, Connect, NewRoom, RoomTypeOK
    <3> QED BY <3>1, <3>2, NobodyGone
  <2> QED BY <2>1, <2>2, <2>3, <2>4, <2>5
<1>6. ASSUME NEW p \in Page, Imported(p) PROVE RoomInv'
  <2>0. \A g \in ghosts' : \E h \in ghosts : g.page = h.page
    <3>1. \A g \in ghosts : [g EXCEPT !.at = "joining"].page = g.page
      BY DEF RoomTypeOK, Ghosts
    <3>2. ghosts' = (ghosts \ Waiting(p)) \cup {[g EXCEPT !.at = "joining"] : g \in Waiting(p)}
      BY <1>6 DEF Imported
    <3>3. Waiting(p) \subseteq ghosts
      BY DEF Waiting
    <3>4. ASSUME NEW g \in ghosts' PROVE \E h \in ghosts : g.page = h.page
      <4>1. CASE g \in ghosts
        BY <4>1
      <4>2. CASE g \notin ghosts
        <5>1. PICK h \in Waiting(p) : g = [h EXCEPT !.at = "joining"]
          BY <3>2, <4>2
        <5>2. h \in ghosts /\ g.page = h.page
          BY <3>1, <3>3, <5>1
        <5> QED BY <5>2
      <4> QED BY <4>1, <4>2
    <3> QED BY <3>4
  <2>1. RoomTypeOK'
    <3>1. at' \in [Page -> {"chat", "room", "leaving"}] /\ credentials' \in [Page -> BOOLEAN]
      BY <1>6, <2>0, RoomBounds DEF Imported, NewRoom, RoomTypeOK
    <3>2. as' \in [Page -> Identity]
      BY <1>6, <2>0, RoomBounds DEF Imported, NewRoom, RoomTypeOK
    <3>3. held' \in [Page -> BOOLEAN] /\ late' \in [Page -> BOOLEAN]
      <4>1. late' = late /\ (held' = held \/ held' = [held EXCEPT ![p] = TRUE])
        BY <1>6 DEF Imported, NewRoom
      <4> QED BY <4>1 DEF RoomTypeOK
    <3>4. conn' \in [Page -> {"none", "joining", "joined", "shaky", "left"}]
      BY <1>6, <2>0, RoomBounds DEF Imported, NewRoom, RoomTypeOK
    <3>5. step' \in [Page -> {"no", "import", "join", "mic", "camera"}]
      BY <1>6, <2>0, RoomBounds DEF Imported, NewRoom, RoomTypeOK
    <3>6. loaded' \in [Page -> BOOLEAN] /\ slipped' \in [Page -> BOOLEAN]
      BY <1>6, <2>0, RoomBounds DEF Imported, NewRoom, RoomTypeOK
    <3>7. ghosts' \subseteq Ghosts
      <4>1. \A g \in ghosts : g \in Ghosts
        BY DEF RoomTypeOK
      <4>2. \A g \in Ghosts : [g EXCEPT !.at = "joining"] \in Ghosts
        BY DEF Ghosts
      <4> QED BY <1>6, <4>1, <4>2 DEF Imported, Waiting
    <3>8. isConnecting' \in [Page -> BOOLEAN] /\ isConnected' \in [Page -> BOOLEAN]
      BY <1>6, <2>0, RoomBounds DEF Imported, NewRoom, RoomTypeOK
    <3>9. isDisconnected' \in [Page -> BOOLEAN]
      BY <1>6, <2>0, RoomBounds DEF Imported, NewRoom, RoomTypeOK
    <3>10. remote' \in [Page -> SUBSET Identity]
      BY <1>6, <2>0, RoomBounds DEF Imported, NewRoom, RoomTypeOK
    <3>11. visits' \in [Page -> Nat] /\ roomTroubles' \in 0..MaxRoomTroubles
      BY <1>6, <2>0, RoomBounds DEF Imported, NewRoom, RoomTypeOK
    <3>12. again' \in [Page -> BOOLEAN] /\ surprised' \in [Page -> BOOLEAN]
      BY <1>6, <2>0, RoomBounds DEF Imported, NewRoom, RoomTypeOK
    <3> QED BY <3>1, <3>2, <3>3, <3>4, <3>5, <3>6, <3>7, <3>8, <3>9, <3>10, <3>11, <3>12 DEF RoomTypeOK
  <2>2. HookInv'
    BY <1>6, <2>0 DEF Imported, NewRoom, RoomTypeOK
  <2>3. GhostsInv'
    BY <1>6, <2>0 DEF Imported, NewRoom, RoomTypeOK
  <2>4. ShowsWhatIs'
    BY <1>6, <2>0 DEF Imported, NewRoom, RoomTypeOK
  <2>5. NoPhantoms'
    <3>1. \A q \in Page : Told(q)' => Told(q) /\ remote'[q] = remote[q] /\ again'[q] = again[q]
      BY <1>6 DEF Imported, NewRoom, RoomTypeOK
    <3>2. \A q \in Page : InRoom(q) => InRoom(q)' /\ as'[q] = as[q]
      BY <1>6 DEF Imported, NewRoom, RoomTypeOK
    <3>3. \A g \in ghosts : g.at = "joined" => g \in ghosts'
      BY <1>6 DEF Imported, NewRoom, Waiting
    <3> QED BY <3>1, <3>2, <3>3, NobodyGone
  <2> QED BY <2>1, <2>2, <2>3, <2>4, <2>5
<1>7. ASSUME NEW p \in Page, ImportFails(p) PROVE RoomInv'
  <2>1. RoomTypeOK'
    <3>1. at' \in [Page -> {"chat", "room", "leaving"}] /\ credentials' \in [Page -> BOOLEAN]
      BY <1>7, RoomBounds DEF ImportFails, RoomTrouble, RoomTypeOK
    <3>2. as' \in [Page -> Identity]
      BY <1>7, RoomBounds DEF ImportFails, RoomTrouble, RoomTypeOK
    <3>3. held' \in [Page -> BOOLEAN] /\ late' \in [Page -> BOOLEAN]
      BY <1>7, RoomBounds DEF ImportFails, RoomTrouble, RoomTypeOK
    <3>4. conn' \in [Page -> {"none", "joining", "joined", "shaky", "left"}]
      BY <1>7, RoomBounds DEF ImportFails, RoomTrouble, RoomTypeOK
    <3>5. step' \in [Page -> {"no", "import", "join", "mic", "camera"}]
      BY <1>7, RoomBounds DEF ImportFails, RoomTrouble, RoomTypeOK
    <3>6. loaded' \in [Page -> BOOLEAN] /\ slipped' \in [Page -> BOOLEAN]
      BY <1>7, RoomBounds DEF ImportFails, RoomTrouble, RoomTypeOK
    <3>7. ghosts' \subseteq Ghosts
      BY <1>7, RoomBounds DEF ImportFails, RoomTrouble, RoomTypeOK
    <3>8. isConnecting' \in [Page -> BOOLEAN] /\ isConnected' \in [Page -> BOOLEAN]
      BY <1>7, RoomBounds DEF ImportFails, RoomTrouble, RoomTypeOK
    <3>9. isDisconnected' \in [Page -> BOOLEAN]
      BY <1>7, RoomBounds DEF ImportFails, RoomTrouble, RoomTypeOK
    <3>10. remote' \in [Page -> SUBSET Identity]
      BY <1>7, RoomBounds DEF ImportFails, RoomTrouble, RoomTypeOK
    <3>11. visits' \in [Page -> Nat] /\ roomTroubles' \in 0..MaxRoomTroubles
      BY <1>7, RoomBounds DEF ImportFails, RoomTrouble, RoomTypeOK
    <3>12. again' \in [Page -> BOOLEAN] /\ surprised' \in [Page -> BOOLEAN]
      BY <1>7, RoomBounds DEF ImportFails, RoomTrouble, RoomTypeOK
    <3> QED BY <3>1, <3>2, <3>3, <3>4, <3>5, <3>6, <3>7, <3>8, <3>9, <3>10, <3>11, <3>12 DEF RoomTypeOK
  <2>2. HookInv'
    BY <1>7 DEF ImportFails, RoomTrouble, RoomTypeOK
  <2>3. GhostsInv'
    BY <1>7 DEF ImportFails, RoomTrouble, RoomTypeOK
  <2>4. ShowsWhatIs'
    BY <1>7 DEF ImportFails, RoomTrouble, RoomTypeOK
  <2>5. NoPhantoms'
    <3>1. \A q \in Page : Told(q)' => Told(q) /\ remote'[q] = remote[q] /\ again'[q] = again[q]
      BY <1>7 DEF ImportFails, RoomTrouble, RoomTypeOK
    <3>2. \A q \in Page : InRoom(q) => InRoom(q)' /\ as'[q] = as[q]
      BY <1>7 DEF ImportFails, RoomTrouble, RoomTypeOK
    <3>3. \A g \in ghosts : g.at = "joined" => g \in ghosts'
      BY <1>7 DEF ImportFails, RoomTrouble, Waiting
    <3> QED BY <3>1, <3>2, <3>3, NobodyGone
  <2> QED BY <2>1, <2>2, <2>3, <2>4, <2>5
<1>8. ASSUME NEW p \in Page, Join(p) PROVE RoomInv'
  BY <1>8, JoinSafe
<1>9. ASSUME NEW p \in Page, JoinFails(p) PROVE RoomInv'
  <2>1. RoomTypeOK'
    <3>1. at' \in [Page -> {"chat", "room", "leaving"}] /\ credentials' \in [Page -> BOOLEAN]
      BY <1>9, RoomBounds DEF JoinFails, RoomTrouble, ShowDisconnected, RoomTypeOK
    <3>2. as' \in [Page -> Identity]
      BY <1>9, RoomBounds DEF JoinFails, RoomTrouble, ShowDisconnected, RoomTypeOK
    <3>3. held' \in [Page -> BOOLEAN] /\ late' \in [Page -> BOOLEAN]
      BY <1>9, RoomBounds DEF JoinFails, RoomTrouble, ShowDisconnected, RoomTypeOK
    <3>4. conn' \in [Page -> {"none", "joining", "joined", "shaky", "left"}]
      BY <1>9, RoomBounds DEF JoinFails, RoomTrouble, ShowDisconnected, RoomTypeOK
    <3>5. step' \in [Page -> {"no", "import", "join", "mic", "camera"}]
      BY <1>9, RoomBounds DEF JoinFails, RoomTrouble, ShowDisconnected, RoomTypeOK
    <3>6. loaded' \in [Page -> BOOLEAN] /\ slipped' \in [Page -> BOOLEAN]
      BY <1>9, RoomBounds DEF JoinFails, RoomTrouble, ShowDisconnected, RoomTypeOK
    <3>7. ghosts' \subseteq Ghosts
      BY <1>9, RoomBounds DEF JoinFails, RoomTrouble, ShowDisconnected, RoomTypeOK
    <3>8. isConnecting' \in [Page -> BOOLEAN] /\ isConnected' \in [Page -> BOOLEAN]
      BY <1>9, RoomBounds DEF JoinFails, RoomTrouble, ShowDisconnected, RoomTypeOK
    <3>9. isDisconnected' \in [Page -> BOOLEAN]
      BY <1>9, RoomBounds DEF JoinFails, RoomTrouble, ShowDisconnected, RoomTypeOK
    <3>10. remote' \in [Page -> SUBSET Identity]
      BY <1>9, RoomBounds DEF JoinFails, RoomTrouble, ShowDisconnected, RoomTypeOK
    <3>11. visits' \in [Page -> Nat] /\ roomTroubles' \in 0..MaxRoomTroubles
      BY <1>9, RoomBounds DEF JoinFails, RoomTrouble, ShowDisconnected, RoomTypeOK
    <3>12. again' \in [Page -> BOOLEAN] /\ surprised' \in [Page -> BOOLEAN]
      BY <1>9, RoomBounds DEF JoinFails, RoomTrouble, ShowDisconnected, RoomTypeOK
    <3> QED BY <3>1, <3>2, <3>3, <3>4, <3>5, <3>6, <3>7, <3>8, <3>9, <3>10, <3>11, <3>12 DEF RoomTypeOK
  <2>2. HookInv'
    BY <1>9 DEF JoinFails, RoomTrouble, ShowDisconnected, RoomTypeOK
  <2>3. GhostsInv'
    BY <1>9 DEF JoinFails, RoomTrouble, ShowDisconnected, RoomTypeOK
  <2>4. ShowsWhatIs'
    BY <1>9 DEF JoinFails, RoomTrouble, ShowDisconnected, RoomTypeOK
  <2>5. NoPhantoms'
    <3>1. UNCHANGED <<as, remote, again, ghosts>>
      BY <1>9 DEF JoinFails
    <3>2. \A q \in Page : (Told(q)' <=> Told(q)) /\ (InRoom(q)' <=> InRoom(q))
      BY <1>9 DEF JoinFails, RoomTypeOK
    <3> QED BY <3>1, <3>2, NobodyGone
  <2> QED BY <2>1, <2>2, <2>3, <2>4, <2>5
<1>10. ASSUME NEW p \in Page, JoinAborted(p) PROVE RoomInv'
  <2>1. RoomTypeOK'
    <3>1. at' \in [Page -> {"chat", "room", "leaving"}] /\ credentials' \in [Page -> BOOLEAN]
      BY <1>10, RoomBounds DEF JoinAborted, RoomTypeOK
    <3>2. as' \in [Page -> Identity]
      BY <1>10, RoomBounds DEF JoinAborted, RoomTypeOK
    <3>3. held' \in [Page -> BOOLEAN] /\ late' \in [Page -> BOOLEAN]
      BY <1>10, RoomBounds DEF JoinAborted, RoomTypeOK
    <3>4. conn' \in [Page -> {"none", "joining", "joined", "shaky", "left"}]
      BY <1>10, RoomBounds DEF JoinAborted, RoomTypeOK
    <3>5. step' \in [Page -> {"no", "import", "join", "mic", "camera"}]
      BY <1>10, RoomBounds DEF JoinAborted, RoomTypeOK
    <3>6. loaded' \in [Page -> BOOLEAN] /\ slipped' \in [Page -> BOOLEAN]
      BY <1>10, RoomBounds DEF JoinAborted, RoomTypeOK
    <3>7. ghosts' \subseteq Ghosts
      BY <1>10, RoomBounds DEF JoinAborted, RoomTypeOK
    <3>8. isConnecting' \in [Page -> BOOLEAN] /\ isConnected' \in [Page -> BOOLEAN]
      BY <1>10, RoomBounds DEF JoinAborted, RoomTypeOK
    <3>9. isDisconnected' \in [Page -> BOOLEAN]
      BY <1>10, RoomBounds DEF JoinAborted, RoomTypeOK
    <3>10. remote' \in [Page -> SUBSET Identity]
      BY <1>10, RoomBounds DEF JoinAborted, RoomTypeOK
    <3>11. visits' \in [Page -> Nat] /\ roomTroubles' \in 0..MaxRoomTroubles
      BY <1>10, RoomBounds DEF JoinAborted, RoomTypeOK
    <3>12. again' \in [Page -> BOOLEAN] /\ surprised' \in [Page -> BOOLEAN]
      BY <1>10, RoomBounds DEF JoinAborted, RoomTypeOK
    <3> QED BY <3>1, <3>2, <3>3, <3>4, <3>5, <3>6, <3>7, <3>8, <3>9, <3>10, <3>11, <3>12 DEF RoomTypeOK
  <2>2. HookInv'
    BY <1>10 DEF JoinAborted, RoomTypeOK
  <2>3. GhostsInv'
    BY <1>10 DEF JoinAborted, RoomTypeOK
  <2>4. ShowsWhatIs'
    BY <1>10 DEF JoinAborted, RoomTypeOK
  <2>5. NoPhantoms'
    <3>1. UNCHANGED <<conn, as, remote, again, ghosts>>
      BY <1>10 DEF JoinAborted
    <3> QED BY <3>1, NobodyGone
  <2> QED BY <2>1, <2>2, <2>3, <2>4, <2>5
<1>11. ASSUME NEW p \in Page, Microphone(p) PROVE RoomInv'
  <2>1. RoomTypeOK'
    <3>1. at' \in [Page -> {"chat", "room", "leaving"}] /\ credentials' \in [Page -> BOOLEAN]
      BY <1>11, RoomBounds DEF Microphone, RoomTypeOK
    <3>2. as' \in [Page -> Identity]
      BY <1>11, RoomBounds DEF Microphone, RoomTypeOK
    <3>3. held' \in [Page -> BOOLEAN] /\ late' \in [Page -> BOOLEAN]
      BY <1>11, RoomBounds DEF Microphone, RoomTypeOK
    <3>4. conn' \in [Page -> {"none", "joining", "joined", "shaky", "left"}]
      BY <1>11, RoomBounds DEF Microphone, RoomTypeOK
    <3>5. step' \in [Page -> {"no", "import", "join", "mic", "camera"}]
      BY <1>11, RoomBounds DEF Microphone, RoomTypeOK
    <3>6. loaded' \in [Page -> BOOLEAN] /\ slipped' \in [Page -> BOOLEAN]
      BY <1>11, RoomBounds DEF Microphone, RoomTypeOK
    <3>7. ghosts' \subseteq Ghosts
      BY <1>11, RoomBounds DEF Microphone, RoomTypeOK
    <3>8. isConnecting' \in [Page -> BOOLEAN] /\ isConnected' \in [Page -> BOOLEAN]
      BY <1>11, RoomBounds DEF Microphone, RoomTypeOK
    <3>9. isDisconnected' \in [Page -> BOOLEAN]
      BY <1>11, RoomBounds DEF Microphone, RoomTypeOK
    <3>10. remote' \in [Page -> SUBSET Identity]
      BY <1>11, RoomBounds DEF Microphone, RoomTypeOK
    <3>11. visits' \in [Page -> Nat] /\ roomTroubles' \in 0..MaxRoomTroubles
      BY <1>11, RoomBounds DEF Microphone, RoomTypeOK
    <3>12. again' \in [Page -> BOOLEAN] /\ surprised' \in [Page -> BOOLEAN]
      BY <1>11, RoomBounds DEF Microphone, RoomTypeOK
    <3> QED BY <3>1, <3>2, <3>3, <3>4, <3>5, <3>6, <3>7, <3>8, <3>9, <3>10, <3>11, <3>12 DEF RoomTypeOK
  <2>2. HookInv'
    BY <1>11 DEF Microphone, RoomTypeOK
  <2>3. GhostsInv'
    BY <1>11 DEF Microphone, RoomTypeOK
  <2>4. ShowsWhatIs'
    BY <1>11 DEF Microphone, RoomTypeOK
  <2>5. NoPhantoms'
    <3>1. UNCHANGED <<conn, as, remote, again, ghosts>>
      BY <1>11 DEF Microphone
    <3> QED BY <3>1, NobodyGone
  <2> QED BY <2>1, <2>2, <2>3, <2>4, <2>5
<1>12. ASSUME NEW p \in Page, Camera(p) PROVE RoomInv'
  <2>1. RoomTypeOK'
    <3>1. at' \in [Page -> {"chat", "room", "leaving"}] /\ credentials' \in [Page -> BOOLEAN]
      BY <1>12, RoomBounds DEF Camera, RoomTypeOK
    <3>2. as' \in [Page -> Identity]
      BY <1>12, RoomBounds DEF Camera, RoomTypeOK
    <3>3. held' \in [Page -> BOOLEAN] /\ late' \in [Page -> BOOLEAN]
      BY <1>12, RoomBounds DEF Camera, RoomTypeOK
    <3>4. conn' \in [Page -> {"none", "joining", "joined", "shaky", "left"}]
      BY <1>12, RoomBounds DEF Camera, RoomTypeOK
    <3>5. step' \in [Page -> {"no", "import", "join", "mic", "camera"}]
      BY <1>12, RoomBounds DEF Camera, RoomTypeOK
    <3>6. loaded' \in [Page -> BOOLEAN] /\ slipped' \in [Page -> BOOLEAN]
      BY <1>12, RoomBounds DEF Camera, RoomTypeOK
    <3>7. ghosts' \subseteq Ghosts
      BY <1>12, RoomBounds DEF Camera, RoomTypeOK
    <3>8. isConnecting' \in [Page -> BOOLEAN] /\ isConnected' \in [Page -> BOOLEAN]
      BY <1>12, RoomBounds DEF Camera, RoomTypeOK
    <3>9. isDisconnected' \in [Page -> BOOLEAN]
      BY <1>12, RoomBounds DEF Camera, RoomTypeOK
    <3>10. remote' \in [Page -> SUBSET Identity]
      BY <1>12, RoomBounds DEF Camera, RoomTypeOK
    <3>11. visits' \in [Page -> Nat] /\ roomTroubles' \in 0..MaxRoomTroubles
      BY <1>12, RoomBounds DEF Camera, RoomTypeOK
    <3>12. again' \in [Page -> BOOLEAN] /\ surprised' \in [Page -> BOOLEAN]
      BY <1>12, RoomBounds DEF Camera, RoomTypeOK
    <3> QED BY <3>1, <3>2, <3>3, <3>4, <3>5, <3>6, <3>7, <3>8, <3>9, <3>10, <3>11, <3>12 DEF RoomTypeOK
  <2>2. HookInv'
    BY <1>12 DEF Camera, RoomTypeOK
  <2>3. GhostsInv'
    BY <1>12 DEF Camera, RoomTypeOK
  <2>4. ShowsWhatIs'
    BY <1>12 DEF Camera, RoomTypeOK
  <2>5. NoPhantoms'
    <3>1. UNCHANGED <<conn, as, remote, again, ghosts>>
      BY <1>12 DEF Camera
    <3> QED BY <3>1, NobodyGone
  <2> QED BY <2>1, <2>2, <2>3, <2>4, <2>5
<1>13. ASSUME NEW p \in Page, Refused(p) PROVE RoomInv'
  <2>1. RoomTypeOK'
    <3>1. at' \in [Page -> {"chat", "room", "leaving"}] /\ credentials' \in [Page -> BOOLEAN]
      BY <1>13, RoomBounds DEF Refused, RoomTrouble, RoomTypeOK
    <3>2. as' \in [Page -> Identity]
      BY <1>13, RoomBounds DEF Refused, RoomTrouble, RoomTypeOK
    <3>3. held' \in [Page -> BOOLEAN] /\ late' \in [Page -> BOOLEAN]
      BY <1>13, RoomBounds DEF Refused, RoomTrouble, RoomTypeOK
    <3>4. conn' \in [Page -> {"none", "joining", "joined", "shaky", "left"}]
      BY <1>13, RoomBounds DEF Refused, RoomTrouble, RoomTypeOK
    <3>5. step' \in [Page -> {"no", "import", "join", "mic", "camera"}]
      BY <1>13, RoomBounds DEF Refused, RoomTrouble, RoomTypeOK
    <3>6. loaded' \in [Page -> BOOLEAN] /\ slipped' \in [Page -> BOOLEAN]
      BY <1>13, RoomBounds DEF Refused, RoomTrouble, RoomTypeOK
    <3>7. ghosts' \subseteq Ghosts
      BY <1>13, RoomBounds DEF Refused, RoomTrouble, RoomTypeOK
    <3>8. isConnecting' \in [Page -> BOOLEAN] /\ isConnected' \in [Page -> BOOLEAN]
      BY <1>13, RoomBounds DEF Refused, RoomTrouble, RoomTypeOK
    <3>9. isDisconnected' \in [Page -> BOOLEAN]
      BY <1>13, RoomBounds DEF Refused, RoomTrouble, RoomTypeOK
    <3>10. remote' \in [Page -> SUBSET Identity]
      BY <1>13, RoomBounds DEF Refused, RoomTrouble, RoomTypeOK
    <3>11. visits' \in [Page -> Nat] /\ roomTroubles' \in 0..MaxRoomTroubles
      BY <1>13, RoomBounds DEF Refused, RoomTrouble, RoomTypeOK
    <3>12. again' \in [Page -> BOOLEAN] /\ surprised' \in [Page -> BOOLEAN]
      BY <1>13, RoomBounds DEF Refused, RoomTrouble, RoomTypeOK
    <3> QED BY <3>1, <3>2, <3>3, <3>4, <3>5, <3>6, <3>7, <3>8, <3>9, <3>10, <3>11, <3>12 DEF RoomTypeOK
  <2>2. HookInv'
    BY <1>13 DEF Refused, RoomTrouble, RoomTypeOK
  <2>3. GhostsInv'
    BY <1>13 DEF Refused, RoomTrouble, RoomTypeOK
  <2>4. ShowsWhatIs'
    BY <1>13 DEF Refused, RoomTrouble, RoomTypeOK
  <2>5. NoPhantoms'
    <3>1. UNCHANGED <<conn, as, remote, again, ghosts>>
      BY <1>13 DEF Refused, RoomTrouble
    <3> QED BY <3>1, NobodyGone
  <2> QED BY <2>1, <2>2, <2>3, <2>4, <2>5
<1>14. ASSUME NEW p \in Page, LateEnds(p) PROVE RoomInv'
  <2>1. RoomTypeOK'
    <3>1. at' \in [Page -> {"chat", "room", "leaving"}] /\ credentials' \in [Page -> BOOLEAN]
      BY <1>14, RoomBounds DEF LateEnds, RoomTypeOK
    <3>2. as' \in [Page -> Identity]
      BY <1>14, RoomBounds DEF LateEnds, RoomTypeOK
    <3>3. held' \in [Page -> BOOLEAN] /\ late' \in [Page -> BOOLEAN]
      BY <1>14, RoomBounds DEF LateEnds, RoomTypeOK
    <3>4. conn' \in [Page -> {"none", "joining", "joined", "shaky", "left"}]
      BY <1>14, RoomBounds DEF LateEnds, RoomTypeOK
    <3>5. step' \in [Page -> {"no", "import", "join", "mic", "camera"}]
      BY <1>14, RoomBounds DEF LateEnds, RoomTypeOK
    <3>6. loaded' \in [Page -> BOOLEAN] /\ slipped' \in [Page -> BOOLEAN]
      BY <1>14, RoomBounds DEF LateEnds, RoomTypeOK
    <3>7. ghosts' \subseteq Ghosts
      BY <1>14, RoomBounds DEF LateEnds, RoomTypeOK
    <3>8. isConnecting' \in [Page -> BOOLEAN] /\ isConnected' \in [Page -> BOOLEAN]
      BY <1>14, RoomBounds DEF LateEnds, RoomTypeOK
    <3>9. isDisconnected' \in [Page -> BOOLEAN]
      BY <1>14, RoomBounds DEF LateEnds, RoomTypeOK
    <3>10. remote' \in [Page -> SUBSET Identity]
      BY <1>14, RoomBounds DEF LateEnds, RoomTypeOK
    <3>11. visits' \in [Page -> Nat] /\ roomTroubles' \in 0..MaxRoomTroubles
      BY <1>14, RoomBounds DEF LateEnds, RoomTypeOK
    <3>12. again' \in [Page -> BOOLEAN] /\ surprised' \in [Page -> BOOLEAN]
      BY <1>14, RoomBounds DEF LateEnds, RoomTypeOK
    <3> QED BY <3>1, <3>2, <3>3, <3>4, <3>5, <3>6, <3>7, <3>8, <3>9, <3>10, <3>11, <3>12 DEF RoomTypeOK
  <2>2. HookInv'
    BY <1>14 DEF LateEnds, RoomTypeOK
  <2>3. GhostsInv'
    BY <1>14 DEF LateEnds, RoomTypeOK
  <2>4. ShowsWhatIs'
    BY <1>14 DEF LateEnds, RoomTypeOK
  <2>5. NoPhantoms'
    <3>1. UNCHANGED <<conn, as, remote, again, ghosts>>
      BY <1>14 DEF LateEnds
    <3> QED BY <3>1, NobodyGone
  <2> QED BY <2>1, <2>2, <2>3, <2>4, <2>5
<1>15. ASSUME NEW p \in Page, Reconnected(p) PROVE RoomInv'
  <2> DEFINE there == {i \in Identity \ {as[p]} : Present(i, p)}
  <2>0. /\ remote' \in [Page -> SUBSET Identity] /\ remote'[p] \subseteq there
        /\ \A q \in Page \ {p} : remote'[q] = remote[q]
    <3>1. PICK more \in SUBSET there :
                remote' = [remote EXCEPT ![p] = (remote[p] \cap there) \cup more]
      BY <1>15 DEF Reconnected
    <3>2. there \subseteq Identity
      OBVIOUS
    <3> HIDE DEF there
    <3> QED BY <3>1, <3>2 DEF RoomTypeOK
  <2> HIDE DEF there
  <2>1. RoomTypeOK'
    <3>1. at' \in [Page -> {"chat", "room", "leaving"}] /\ credentials' \in [Page -> BOOLEAN]
      BY <1>15, <2>0, RoomBounds DEF Reconnected, RoomTypeOK
    <3>2. as' \in [Page -> Identity]
      BY <1>15, <2>0, RoomBounds DEF Reconnected, RoomTypeOK
    <3>3. held' \in [Page -> BOOLEAN] /\ late' \in [Page -> BOOLEAN]
      BY <1>15, <2>0, RoomBounds DEF Reconnected, RoomTypeOK
    <3>4. conn' \in [Page -> {"none", "joining", "joined", "shaky", "left"}]
      BY <1>15, <2>0, RoomBounds DEF Reconnected, RoomTypeOK
    <3>5. step' \in [Page -> {"no", "import", "join", "mic", "camera"}]
      BY <1>15, <2>0, RoomBounds DEF Reconnected, RoomTypeOK
    <3>6. loaded' \in [Page -> BOOLEAN] /\ slipped' \in [Page -> BOOLEAN]
      BY <1>15, <2>0, RoomBounds DEF Reconnected, RoomTypeOK
    <3>7. ghosts' \subseteq Ghosts
      BY <1>15, <2>0, RoomBounds DEF Reconnected, RoomTypeOK
    <3>8. isConnecting' \in [Page -> BOOLEAN] /\ isConnected' \in [Page -> BOOLEAN]
      BY <1>15, <2>0, RoomBounds DEF Reconnected, RoomTypeOK
    <3>9. isDisconnected' \in [Page -> BOOLEAN]
      BY <1>15, <2>0, RoomBounds DEF Reconnected, RoomTypeOK
    <3>10. remote' \in [Page -> SUBSET Identity]
      BY <2>0
    <3>11. visits' \in [Page -> Nat] /\ roomTroubles' \in 0..MaxRoomTroubles
      BY <1>15, <2>0, RoomBounds DEF Reconnected, RoomTypeOK
    <3>12. again' \in [Page -> BOOLEAN] /\ surprised' \in [Page -> BOOLEAN]
      BY <1>15, <2>0, RoomBounds DEF Reconnected, RoomTypeOK
    <3> QED BY <3>1, <3>2, <3>3, <3>4, <3>5, <3>6, <3>7, <3>8, <3>9, <3>10, <3>11, <3>12 DEF RoomTypeOK
  <2>2. HookInv'
    <3>1. ASSUME NEW q \in Page, ~held'[q] \/ (conn'[q] = "joining" /\ ~again'[q])
          PROVE  remote'[q] = {}
      <4>1. q = p => remote'[q] = {}
        BY <1>15, <2>0, <3>1 DEF Reconnected, RoomTypeOK
      <4>2. q # p => remote[q] = {}
        BY <1>15, <2>0, <3>1 DEF Reconnected, RoomTypeOK
      <4>3. q # p => remote'[q] \subseteq remote[q]
        BY <2>0
      <4> QED BY <4>1, <4>2, <4>3
    <3>2. ASSUME NEW q \in Page
          PROVE  /\ Live(q)' => held'[q]
                 /\ held'[q] \/ step'[q] # "no" => Mounted(q)'
                 /\ ~loaded'[q] => ~held'[q]
                 /\ step'[q] = "import" => ~loaded'[q] /\ ~isDisconnected'[q]
                 /\ isDisconnected'[q] => conn'[q] = "left"
                 /\ step'[q] \in {"mic", "camera"} /\ ~surprised'[q] => InRoom(q)'
      BY <1>15, <2>0 DEF Reconnected, RoomTypeOK
    <3> QED BY <3>1, <3>2
  <2>3. GhostsInv'
    BY <1>15, <2>0 DEF Reconnected, RoomTypeOK
  <2>4. ShowsWhatIs'
    BY <1>15, <2>0 DEF Reconnected, RoomTypeOK
  <2>5. NoPhantoms'
    <3>1. UNCHANGED <<as, again, ghosts>> /\ \A q \in Page : InRoom(q)' <=> InRoom(q)
      BY <1>15 DEF Reconnected, RoomTypeOK
    <3>2. \A q \in Page, i \in Identity : Present(i, q) => Present(i, q)'
      BY <3>1 DEF Present
    <3>3. \A q \in Page \ {p} : Told(q)' <=> Told(q)
      BY <1>15 DEF Reconnected, RoomTypeOK
    <3>4. \A q \in Page : remote'[q] \subseteq Identity
      BY <2>0
    <3>5. \A i \in there : Present(i, p)
      BY DEF there
    <3>6. ASSUME NEW q \in Page, Told(q)', ~again'[q], NEW i \in remote'[q]
          PROVE  Present(i, q)'
      <4>1. i \in Identity
        BY <3>4
      <4>2. CASE q = p
        BY <2>0, <3>2, <3>5, <4>1, <4>2
      <4>3. CASE q # p
        <5>1. Told(q) /\ ~again[q] /\ i \in remote[q]
          BY <2>0, <3>1, <3>3, <3>6, <4>3
        <5>2. Present(i, q)
          BY <5>1 DEF NoPhantoms
        <5> QED BY <3>2, <4>1, <5>2
      <4> QED BY <4>2, <4>3
    <3> QED BY <3>6 DEF NoPhantoms
  <2> QED BY <2>1, <2>2, <2>3, <2>4, <2>5
<1>16. ASSUME NEW p \in Page, Reconnecting(p) PROVE RoomInv'
  <2>1. RoomTypeOK'
    <3>1. at' \in [Page -> {"chat", "room", "leaving"}] /\ credentials' \in [Page -> BOOLEAN]
      BY <1>16, RoomBounds DEF Reconnecting, RoomTrouble, RoomTypeOK
    <3>2. as' \in [Page -> Identity]
      BY <1>16, RoomBounds DEF Reconnecting, RoomTrouble, RoomTypeOK
    <3>3. held' \in [Page -> BOOLEAN] /\ late' \in [Page -> BOOLEAN]
      BY <1>16, RoomBounds DEF Reconnecting, RoomTrouble, RoomTypeOK
    <3>4. conn' \in [Page -> {"none", "joining", "joined", "shaky", "left"}]
      BY <1>16, RoomBounds DEF Reconnecting, RoomTrouble, RoomTypeOK
    <3>5. step' \in [Page -> {"no", "import", "join", "mic", "camera"}]
      BY <1>16, RoomBounds DEF Reconnecting, RoomTrouble, RoomTypeOK
    <3>6. loaded' \in [Page -> BOOLEAN] /\ slipped' \in [Page -> BOOLEAN]
      BY <1>16, RoomBounds DEF Reconnecting, RoomTrouble, RoomTypeOK
    <3>7. ghosts' \subseteq Ghosts
      BY <1>16, RoomBounds DEF Reconnecting, RoomTrouble, RoomTypeOK
    <3>8. isConnecting' \in [Page -> BOOLEAN] /\ isConnected' \in [Page -> BOOLEAN]
      BY <1>16, RoomBounds DEF Reconnecting, RoomTrouble, RoomTypeOK
    <3>9. isDisconnected' \in [Page -> BOOLEAN]
      BY <1>16, RoomBounds DEF Reconnecting, RoomTrouble, RoomTypeOK
    <3>10. remote' \in [Page -> SUBSET Identity]
      BY <1>16, RoomBounds DEF Reconnecting, RoomTrouble, RoomTypeOK
    <3>11. visits' \in [Page -> Nat] /\ roomTroubles' \in 0..MaxRoomTroubles
      BY <1>16, RoomBounds DEF Reconnecting, RoomTrouble, RoomTypeOK
    <3>12. again' \in [Page -> BOOLEAN] /\ surprised' \in [Page -> BOOLEAN]
      BY <1>16, RoomBounds DEF Reconnecting, RoomTrouble, RoomTypeOK
    <3> QED BY <3>1, <3>2, <3>3, <3>4, <3>5, <3>6, <3>7, <3>8, <3>9, <3>10, <3>11, <3>12 DEF RoomTypeOK
  <2>2. HookInv'
    BY <1>16 DEF Reconnecting, RoomTrouble, RoomTypeOK
  <2>3. GhostsInv'
    BY <1>16 DEF Reconnecting, RoomTrouble, RoomTypeOK
  <2>4. ShowsWhatIs'
    BY <1>16 DEF Reconnecting, RoomTrouble, RoomTypeOK
  <2>5. NoPhantoms'
    <3>1. \A q \in Page : Told(q)' => Told(q) /\ remote'[q] = remote[q] /\ again'[q] = again[q]
      BY <1>16 DEF Reconnecting, RoomTrouble, RoomTypeOK
    <3>2. \A q \in Page : InRoom(q) => InRoom(q)' /\ as'[q] = as[q]
      BY <1>16 DEF Reconnecting, RoomTrouble, RoomTypeOK
    <3>3. \A g \in ghosts : g.at = "joined" => g \in ghosts'
      BY <1>16 DEF Reconnecting, RoomTrouble, Waiting
    <3> QED BY <3>1, <3>2, <3>3, NobodyGone
  <2> QED BY <2>1, <2>2, <2>3, <2>4, <2>5
<1>17. ASSUME NEW p \in Page, Lost(p) PROVE RoomInv'
  <2> DEFINE gone == {as[p]}
  <2>0. /\ remote' \in [Page -> SUBSET Identity] /\ remote'[p] = remote[p]
        /\ \A q \in Page \ {p} : /\ remote'[q] \subseteq remote[q]
                                 /\ Told(q) => remote'[q] \subseteq remote[q] \ gone
    <3> DEFINE kept == RemoteAfter({}, gone)
    <3>1. remote' = [kept EXCEPT ![p] = remote[p]]
      BY <1>17 DEF Lost
    <3> HIDE DEF gone
    <3>2. kept \in [Page -> SUBSET Identity]
          /\ \A q \in Page : kept[q] = IF Told(q) THEN remote[q] \ gone ELSE remote[q]
      BY RemoteParted DEF RoomInv
    <3> HIDE DEF kept
    <3>3. remote \in [Page -> SUBSET Identity]
      BY DEF RoomTypeOK
    <3> QED BY <3>1, <3>2, <3>3
  <2>6. /\ conn'[p] = "left" /\ \A q \in Page \ {p} : conn'[q] = conn[q]
        /\ InRoom(p) /\ as' = as /\ again' = again /\ ghosts' = ghosts
    BY <1>17 DEF Lost, RoomTypeOK
  <2>1. RoomTypeOK'
    <3>1. at' \in [Page -> {"chat", "room", "leaving"}] /\ credentials' \in [Page -> BOOLEAN]
      BY <1>17, <2>0, <2>6, RoomBounds DEF Lost, RoomTrouble, ShowDisconnected, RoomTypeOK
    <3>2. as' \in [Page -> Identity]
      BY <1>17, <2>0, <2>6, RoomBounds DEF Lost, RoomTrouble, ShowDisconnected, RoomTypeOK
    <3>3. held' \in [Page -> BOOLEAN] /\ late' \in [Page -> BOOLEAN]
      BY <1>17, <2>0, <2>6, RoomBounds DEF Lost, RoomTrouble, ShowDisconnected, RoomTypeOK
    <3>4. conn' \in [Page -> {"none", "joining", "joined", "shaky", "left"}]
      BY <1>17, <2>0, <2>6, RoomBounds DEF Lost, RoomTrouble, ShowDisconnected, RoomTypeOK
    <3>5. step' \in [Page -> {"no", "import", "join", "mic", "camera"}]
      BY <1>17, <2>0, <2>6, RoomBounds DEF Lost, RoomTrouble, ShowDisconnected, RoomTypeOK
    <3>6. loaded' \in [Page -> BOOLEAN] /\ slipped' \in [Page -> BOOLEAN]
      BY <1>17, <2>0, <2>6, RoomBounds DEF Lost, RoomTrouble, ShowDisconnected, RoomTypeOK
    <3>7. ghosts' \subseteq Ghosts
      BY <1>17, <2>0, <2>6, RoomBounds DEF Lost, RoomTrouble, ShowDisconnected, RoomTypeOK
    <3>8. isConnecting' \in [Page -> BOOLEAN] /\ isConnected' \in [Page -> BOOLEAN]
      BY <1>17, <2>0, <2>6, RoomBounds DEF Lost, RoomTrouble, ShowDisconnected, RoomTypeOK
    <3>9. isDisconnected' \in [Page -> BOOLEAN]
      BY <1>17, <2>0, <2>6, RoomBounds DEF Lost, RoomTrouble, ShowDisconnected, RoomTypeOK
    <3>10. remote' \in [Page -> SUBSET Identity]
      BY <1>17, <2>0, <2>6, RoomBounds DEF Lost, RoomTrouble, ShowDisconnected, RoomTypeOK
    <3>11. visits' \in [Page -> Nat] /\ roomTroubles' \in 0..MaxRoomTroubles
      BY <1>17, <2>0, <2>6, RoomBounds DEF Lost, RoomTrouble, ShowDisconnected, RoomTypeOK
    <3>12. again' \in [Page -> BOOLEAN] /\ surprised' \in [Page -> BOOLEAN]
      BY <1>17, <2>0, <2>6, RoomBounds DEF Lost, RoomTrouble, ShowDisconnected, RoomTypeOK
    <3> QED BY <3>1, <3>2, <3>3, <3>4, <3>5, <3>6, <3>7, <3>8, <3>9, <3>10, <3>11, <3>12 DEF RoomTypeOK
  <2>2. HookInv'
    <3>1. ASSUME NEW q \in Page, ~held'[q] \/ (conn'[q] = "joining" /\ ~again'[q])
          PROVE  remote'[q] = {}
      <4>1. q = p => remote'[q] = {}
        BY <1>17, <2>0, <2>6, <3>1 DEF Lost, RoomTrouble, ShowDisconnected, RoomTypeOK
      <4>2. q # p => remote[q] = {}
        BY <1>17, <2>0, <2>6, <3>1 DEF Lost, RoomTrouble, ShowDisconnected, RoomTypeOK
      <4>3. q # p => remote'[q] \subseteq remote[q]
        BY <2>0
      <4> QED BY <4>1, <4>2, <4>3
    <3>2. ASSUME NEW q \in Page
          PROVE  /\ Live(q)' => held'[q]
                 /\ held'[q] \/ step'[q] # "no" => Mounted(q)'
                 /\ ~loaded'[q] => ~held'[q]
                 /\ step'[q] = "import" => ~loaded'[q] /\ ~isDisconnected'[q]
                 /\ isDisconnected'[q] => conn'[q] = "left"
                 /\ step'[q] \in {"mic", "camera"} /\ ~surprised'[q] => InRoom(q)'
      BY <1>17, <2>0, <2>6 DEF Lost, RoomTrouble, ShowDisconnected, RoomTypeOK
    <3> QED BY <3>1, <3>2
  <2>3. GhostsInv'
    BY <1>17, <2>0, <2>6 DEF Lost, RoomTrouble, ShowDisconnected, RoomTypeOK
  <2>4. ShowsWhatIs'
    BY <1>17, <2>0, <2>6 DEF Lost, RoomTrouble, ShowDisconnected, RoomTypeOK
  <2>5. NoPhantoms'
    <3>1. \A q \in Page : Told(q)' /\ ~again'[q] =>
             \/ remote'[q] = {}
             \/ Told(q) /\ ~again[q] /\ remote'[q] \subseteq remote[q] \ gone
      BY <2>0, <2>6
    <3>2. \A q \in Page : InRoom(q) /\ as[q] \notin gone => InRoom(q)' /\ as'[q] = as[q]
      BY <2>6
    <3> HIDE DEF gone
    <3> QED BY <2>6, <3>1, <3>2, GoneForgotten
  <2> QED BY <2>1, <2>2, <2>3, <2>4, <2>5
<1>18. ASSUME NEW p \in Page, HangUp(p) PROVE RoomInv'
  <2> DEFINE gone == IF InRoom(p) THEN {as[p]} ELSE {}
  <2>0. /\ remote' \in [Page -> SUBSET Identity] /\ remote'[p] = {}
        /\ \A q \in Page \ {p} : /\ remote'[q] \subseteq remote[q]
                                 /\ Told(q) => remote'[q] \subseteq remote[q] \ gone
    <3> DEFINE kept == RemoteAfter({}, gone)
    <3>1. remote' = [kept EXCEPT ![p] = {}]
      BY <1>18 DEF HangUp, RemoteForgotten
    <3> HIDE DEF gone
    <3>2. kept \in [Page -> SUBSET Identity]
          /\ \A q \in Page : kept[q] = IF Told(q) THEN remote[q] \ gone ELSE remote[q]
      BY RemoteParted DEF RoomInv
    <3> HIDE DEF kept
    <3>3. remote \in [Page -> SUBSET Identity]
      BY DEF RoomTypeOK
    <3> QED BY <3>1, <3>2, <3>3
  <2>6. /\ conn'[p] = "left" /\ \A q \in Page \ {p} : conn'[q] = conn[q]
        /\ as' = as /\ again' = again /\ ghosts' = ghosts
    BY <1>18 DEF HangUp, RoomTypeOK
  <2>1. RoomTypeOK'
    <3>1. at' \in [Page -> {"chat", "room", "leaving"}] /\ credentials' \in [Page -> BOOLEAN]
      BY <1>18, <2>0, <2>6, RoomBounds DEF HangUp, Controls, RoomTypeOK
    <3>2. as' \in [Page -> Identity]
      BY <1>18, <2>0, <2>6, RoomBounds DEF HangUp, Controls, RoomTypeOK
    <3>3. held' \in [Page -> BOOLEAN] /\ late' \in [Page -> BOOLEAN]
      BY <1>18, <2>0, <2>6, RoomBounds DEF HangUp, Controls, RoomTypeOK
    <3>4. conn' \in [Page -> {"none", "joining", "joined", "shaky", "left"}]
      BY <1>18, <2>0, <2>6, RoomBounds DEF HangUp, Controls, RoomTypeOK
    <3>5. step' \in [Page -> {"no", "import", "join", "mic", "camera"}]
      BY <1>18, <2>0, <2>6, RoomBounds DEF HangUp, Controls, RoomTypeOK
    <3>6. loaded' \in [Page -> BOOLEAN] /\ slipped' \in [Page -> BOOLEAN]
      BY <1>18, <2>0, <2>6, RoomBounds DEF HangUp, Controls, RoomTypeOK
    <3>7. ghosts' \subseteq Ghosts
      BY <1>18, <2>0, <2>6, RoomBounds DEF HangUp, Controls, RoomTypeOK
    <3>8. isConnecting' \in [Page -> BOOLEAN] /\ isConnected' \in [Page -> BOOLEAN]
      BY <1>18, <2>0, <2>6, RoomBounds DEF HangUp, Controls, RoomTypeOK
    <3>9. isDisconnected' \in [Page -> BOOLEAN]
      BY <1>18, <2>0, <2>6, RoomBounds DEF HangUp, Controls, RoomTypeOK
    <3>10. remote' \in [Page -> SUBSET Identity]
      BY <2>0
    <3>11. visits' \in [Page -> Nat] /\ roomTroubles' \in 0..MaxRoomTroubles
      BY <1>18, <2>0, <2>6, RoomBounds DEF HangUp, Controls, RoomTypeOK
    <3>12. again' \in [Page -> BOOLEAN] /\ surprised' \in [Page -> BOOLEAN]
      BY <1>18, <2>0, <2>6, RoomBounds DEF HangUp, Controls, RoomTypeOK
    <3> QED BY <3>1, <3>2, <3>3, <3>4, <3>5, <3>6, <3>7, <3>8, <3>9, <3>10, <3>11, <3>12 DEF RoomTypeOK
  <2>2. HookInv'
    <3>1. ASSUME NEW q \in Page, ~held'[q] \/ (conn'[q] = "joining" /\ ~again'[q])
          PROVE  remote'[q] = {}
      <4>1. q = p => remote'[q] = {}
        BY <1>18, <2>0, <2>6, <3>1 DEF HangUp, Controls, RoomTypeOK
      <4>2. q # p => remote[q] = {}
        BY <1>18, <2>0, <2>6, <3>1 DEF HangUp, Controls, RoomTypeOK
      <4>3. q # p => remote'[q] \subseteq remote[q]
        BY <2>0
      <4> QED BY <4>1, <4>2, <4>3
    <3>2. ASSUME NEW q \in Page
          PROVE  /\ Live(q)' => held'[q]
                 /\ held'[q] \/ step'[q] # "no" => Mounted(q)'
                 /\ ~loaded'[q] => ~held'[q]
                 /\ step'[q] = "import" => ~loaded'[q] /\ ~isDisconnected'[q]
                 /\ isDisconnected'[q] => conn'[q] = "left"
                 /\ step'[q] \in {"mic", "camera"} /\ ~surprised'[q] => InRoom(q)'
      BY <1>18, <2>0, <2>6 DEF HangUp, Controls, RoomTypeOK
    <3> QED BY <3>1, <3>2
  <2>3. GhostsInv'
    BY <1>18, <2>0, <2>6 DEF HangUp, Controls, RoomTypeOK
  <2>4. ShowsWhatIs'
    BY <1>18, <2>0, <2>6 DEF HangUp, Controls, RoomTypeOK
  <2>5. NoPhantoms'
    <3>1. \A q \in Page : Told(q)' /\ ~again'[q] =>
             \/ remote'[q] = {}
             \/ Told(q) /\ ~again[q] /\ remote'[q] \subseteq remote[q] \ gone
      BY <2>0, <2>6
    <3>2. \A q \in Page : InRoom(q) /\ as[q] \notin gone => InRoom(q)' /\ as'[q] = as[q]
      BY <2>6
    <3> HIDE DEF gone
    <3> QED BY <2>6, <3>1, <3>2, GoneForgotten
  <2> QED BY <2>1, <2>2, <2>3, <2>4, <2>5
<1>19. ASSUME NEW g \in ghosts, GhostJoins(g) PROVE RoomInv'
  BY <1>19, GhostJoinSafe
<1>20. ASSUME NEW g \in ghosts, GhostEnds(g) PROVE RoomInv'
  <2> DEFINE gone == IF g.at = "joined" THEN {g.as} ELSE {}
  <2>0. /\ remote' \in [Page -> SUBSET Identity]
        /\ \A q \in Page : /\ remote'[q] \subseteq remote[q]
                           /\ Told(q) => remote'[q] \subseteq remote[q] \ gone
    <3> DEFINE kept == RemoteAfter({}, gone)
    <3>1. remote' = kept
      BY <1>20 DEF GhostEnds
    <3> HIDE DEF gone
    <3>2. kept \in [Page -> SUBSET Identity]
          /\ \A q \in Page : kept[q] = IF Told(q) THEN remote[q] \ gone ELSE remote[q]
      BY RemoteParted DEF RoomInv
    <3> HIDE DEF kept
    <3> QED BY <3>1, <3>2
  <2>1. RoomTypeOK'
    <3>1. at' \in [Page -> {"chat", "room", "leaving"}] /\ credentials' \in [Page -> BOOLEAN]
      BY <1>20, <2>0, RoomBounds DEF GhostEnds, RoomTrouble, RoomTypeOK
    <3>2. as' \in [Page -> Identity]
      BY <1>20, <2>0, RoomBounds DEF GhostEnds, RoomTrouble, RoomTypeOK
    <3>3. held' \in [Page -> BOOLEAN] /\ late' \in [Page -> BOOLEAN]
      BY <1>20, <2>0, RoomBounds DEF GhostEnds, RoomTrouble, RoomTypeOK
    <3>4. conn' \in [Page -> {"none", "joining", "joined", "shaky", "left"}]
      BY <1>20, <2>0, RoomBounds DEF GhostEnds, RoomTrouble, RoomTypeOK
    <3>5. step' \in [Page -> {"no", "import", "join", "mic", "camera"}]
      BY <1>20, <2>0, RoomBounds DEF GhostEnds, RoomTrouble, RoomTypeOK
    <3>6. loaded' \in [Page -> BOOLEAN] /\ slipped' \in [Page -> BOOLEAN]
      BY <1>20, <2>0, RoomBounds DEF GhostEnds, RoomTrouble, RoomTypeOK
    <3>7. ghosts' \subseteq Ghosts
      BY <1>20, <2>0, RoomBounds DEF GhostEnds, RoomTrouble, RoomTypeOK
    <3>8. isConnecting' \in [Page -> BOOLEAN] /\ isConnected' \in [Page -> BOOLEAN]
      BY <1>20, <2>0, RoomBounds DEF GhostEnds, RoomTrouble, RoomTypeOK
    <3>9. isDisconnected' \in [Page -> BOOLEAN]
      BY <1>20, <2>0, RoomBounds DEF GhostEnds, RoomTrouble, RoomTypeOK
    <3>10. remote' \in [Page -> SUBSET Identity]
      BY <2>0
    <3>11. visits' \in [Page -> Nat] /\ roomTroubles' \in 0..MaxRoomTroubles
      BY <1>20, <2>0, RoomBounds DEF GhostEnds, RoomTrouble, RoomTypeOK
    <3>12. again' \in [Page -> BOOLEAN] /\ surprised' \in [Page -> BOOLEAN]
      BY <1>20, <2>0, RoomBounds DEF GhostEnds, RoomTrouble, RoomTypeOK
    <3> QED BY <3>1, <3>2, <3>3, <3>4, <3>5, <3>6, <3>7, <3>8, <3>9, <3>10, <3>11, <3>12 DEF RoomTypeOK
  <2>2. HookInv'
    BY <1>20, <2>0 DEF GhostEnds, RoomTrouble, RoomTypeOK
  <2>3. GhostsInv'
    BY <1>20, <2>0 DEF GhostEnds, RoomTrouble, RoomTypeOK
  <2>4. ShowsWhatIs'
    BY <1>20, <2>0 DEF GhostEnds, RoomTrouble, RoomTypeOK
  <2>5. NoPhantoms'
    <3>1. UNCHANGED <<conn, as, again>> /\ ghosts' = ghosts \ {g}
      BY <1>20 DEF GhostEnds
    <3>2. \A f \in ghosts : f.at = "joined" /\ f.as \notin gone => f \in ghosts'
      BY <3>1
    <3> HIDE DEF gone
    <3> QED BY <2>0, <3>1, <3>2, GoneForgotten
  <2> QED BY <2>1, <2>2, <2>3, <2>4, <2>5
<1>21. CASE UNCHANGED roomVars
  <2>1. RoomTypeOK' /\ HookInv' /\ GhostsInv' /\ ShowsWhatIs'
    BY <1>21 DEF roomVars, RoomTypeOK
  <2>2. NoPhantoms'
    BY <1>21, NobodyGone DEF roomVars
  <2> QED BY <2>1, <2>2
<1> QED
  BY <1>1, <1>2, <1>3, <1>4, <1>5, <1>6, <1>7, <1>8, <1>9, <1>10, <1>11, <1>12, <1>13,
     <1>14, <1>15, <1>16, <1>17, <1>18, <1>19, <1>20, <1>21 DEF RoomNext, Connecting

LEMMA RoomInitially == RoomInit => RoomInv
<1> SUFFICES ASSUME RoomInit PROVE RoomInv
  OBVIOUS
<1>1. RoomTypeOK
  <2>1. as \in [Page -> Identity]
    BY RoomBounds DEF RoomInit, NoAccount
  <2>2. visits \in [Page -> Nat] /\ roomTroubles \in 0..MaxRoomTroubles
    BY RoomBounds DEF RoomInit
  <2>3. ghosts \subseteq Ghosts
    BY DEF RoomInit
  <2> QED BY <2>1, <2>2, <2>3 DEF RoomInit, RoomTypeOK
<1>2. HookInv /\ GhostsInv /\ ShowsWhatIs /\ NoPhantoms
  BY DEF RoomInit, HookInv, GhostsInv, ShowsWhatIs, NoPhantoms, Live, InRoom, Told,
     Mounted
<1> QED BY <1>1, <1>2 DEF RoomInv

LEMMA RoomInvariant == RoomSpec => []RoomInv
<1>1. RoomInv /\ [RoomNext]_roomVars => RoomInv'
  BY RoomStep
<1> QED BY <1>1, RoomInitially, PTL DEF RoomSpec

\* The room's state is well-formed for every page, whoever comes and goes.
THEOREM RoomTyped == RoomSpec => []RoomTypeOK
BY RoomInvariant, PTL DEF RoomInv

\* A page that was left holds no connection, at whatever moment of connect() it was
\* left but while it waited for LiveKit's module.
THEOREM PagesGoneAreSilent == RoomSpec => []GoneIsSilent
<1>1. RoomInv => GoneIsSilent
  BY DEF RoomInv, HookInv, GhostsInv, GoneIsSilent
<1> QED BY <1>1, RoomInvariant, PTL

\* A page says it is connected exactly while it is, unless connect() was surprised.
THEOREM RoomsShowWhatIs == RoomSpec => []ShowsWhatIs
BY RoomInvariant, PTL DEF RoomInv

\* Whoever a page that is told shows is in the room, unless its timer connected it
\* again.
THEOREM RoomsShowNoPhantoms == RoomSpec => []NoPhantoms
BY RoomInvariant, PTL DEF RoomInv
-----------------------------------------------------------------------------
(* The pages that show an edit at once. *)

\* Only the members have a third value.
FormInv == form # MembersSettings =>
    /\ shown \in [Key -> 0..1] /\ stored \in [Key -> 0..1] /\ got \in [Key -> 0..1]
    /\ \A e \in edits : e.value \in 0..1 /\ e.whole \in [Key -> 0..1]
                                         /\ e.before \in [Key -> 0..1]

\* What a refusal leaves on the screen.
NotTakenBack(e) ==
    form = AppearanceSettings \/ (form = Notifications /\ e.keys = Key)

\* A load that began while nothing was in flight has the page to itself, and the edits
\* that follow it are made on the page as it was opened.
OpenedInv == ~raced =>
    /\ stage \in {"sent", "read"} => edits = {}
    /\ stage = "read" => got = stored
    /\ \A e \in edits : e.here

\* As long as edits do not meet, the one that is in flight knows what was on the
\* screen and in the database before it, and the screen will be what is stored,
\* whichever way its answer goes.
AloneInv == stage = "ready" /\ ~raced /\ ~collided /\ ~lost /\ ~unrolled =>
    /\ edits = {} => shown = stored
    /\ \A e \in edits :
         /\ edits = {e}
         /\ e.whole = With(e.before, e.keys, e.value)
         /\ stored = IF e.at = "stored" THEN e.whole ELSE e.before
         /\ ShownOnSuccess(e) = e.whole
         /\ IF NotTakenBack(e) THEN e.at # "refused" ELSE ShownOnFailure(e) = e.before

\* Marks may meet, as long as none is refused: where the screen is ahead of the
\* database, a mark that is still to be stored makes up for it.
MarksInv == form = Notifications /\ stage = "ready" /\ ~raced /\ ~refused /\ ~lost =>
    /\ \A e \in edits : /\ e.value = 1 /\ e.at # "refused"
                        /\ \A k \in e.keys : shown[k] = 1
    /\ \A k \in Key : shown[k] = stored[k] \/ \E e \in edits : e.at = "sent" /\ k \in e.keys

\* Preferences never meet.
SwitchInv == form = NotificationSettings /\ ~raced => ~collided

EditsInv == EditsTypeOK /\ FormInv /\ OpenedInv /\ AloneInv /\ MarksInv /\ SwitchInv

LEMMA BitIsValue == 0 \in Value /\ 1 \in Value /\ 0..1 \subseteq Value
BY DEF Value

LEMMA WithTyped ==
  ASSUME NEW S, NEW f \in [Key -> S], NEW K \in SUBSET Key, NEW v \in S
  PROVE  With(f, K, v) \in [Key -> S]
BY DEF With

LEMMA WithUndone ==
  ASSUME NEW S, NEW f \in [Key -> S], NEW K \in SUBSET Key, NEW v, NEW w,
         \A k \in K : f[k] = w
  PROVE  With(With(f, K, v), K, w) = f
BY DEF With

\* An edit changes the screen as its page does, and on the pages that cannot bear it
\* meets no other.
LEMMA BeginStep ==
  ASSUME EditsInv, NEW K \in SUBSET Key, NEW v \in Value, NEW screen \in Values,
         Begin(K, v, screen), stage \in {"ready", "failed"},
         form # MembersSettings => v \in 0..1 /\ screen = With(shown, K, v),
         form = NotificationSettings /\ ~raced => edits = {},
         form = Notifications => v = 1 /\ (K = Key \/ \A k \in K : shown[k] = 0),
         form = MembersSettings =>
            \/ v # Gone /\ \A k \in K : shown[k] # Gone
            \/ screen = shown /\ (v = Gone \/ \E k \in K : shown[k] = Gone)
  PROVE  EditsInv'
<1>1. PICK new :
         /\ new = [id |-> made + 1, keys |-> K, value |-> v, whole |-> With(shown, K, v),
                   before |-> shown, at |-> "sent", here |-> TRUE]
         /\ edits' = edits \cup {new} /\ shown' = screen
         /\ made < MaxEdits /\ made' = made + 1
         /\ collided' = (collided \/ edits # {})
         /\ UNCHANGED <<form, stage, got, stored, loads, failures, raced, refused, unrolled,
                        lost>>
  BY DEF Begin
<1>2. With(shown, K, v) \in Values
  BY WithTyped DEF EditsInv, EditsTypeOK, Values
<1>3. EditsTypeOK'
  <2>1. new \in Edits
    BY <1>1, <1>2, ClientsAssumption DEF EditsInv, EditsTypeOK, Edit, Edits
  <2>2. made' \in 0..MaxEdits /\ collided' \in BOOLEAN
    BY <1>1, ClientsAssumption DEF EditsInv, EditsTypeOK
  <2>3. QED
    BY <1>1, <2>1, <2>2 DEF EditsInv, EditsTypeOK
<1>4. FormInv'
  <2>1. CASE form = MembersSettings
    BY <1>1, <2>1 DEF FormInv
  <2>2. CASE form # MembersSettings
    <3>1. With(shown, K, v) \in [Key -> 0..1] /\ shown \in [Key -> 0..1]
      BY <2>2, WithTyped DEF EditsInv, FormInv
    <3>2. QED
      BY <1>1, <2>2, <3>1 DEF EditsInv, FormInv
  <2>3. QED
    BY <2>1, <2>2
<1>9. OpenedInv'
  BY <1>1 DEF EditsInv, OpenedInv
<1>5. AloneInv'
  <2> SUFFICES ASSUME stage' = "ready", ~raced', ~collided', ~lost', ~unrolled'
               PROVE AloneInv'
    BY DEF AloneInv
  <2>1. edits = {} /\ stage = "ready" /\ ~raced /\ ~collided /\ ~lost /\ ~unrolled
    BY <1>1
  <2>2. stored = shown /\ edits' = {new} /\ stored' = stored
    BY <1>1, <2>1 DEF EditsInv, AloneInv
  <2>3. ShownOnSuccess(new)' = new.whole
    BY <1>1 DEF ShownOnSuccess
  <2>4. ASSUME ~NotTakenBack(new)' PROVE ShownOnFailure(new)' = new.before
    <3>1. CASE form = Notifications
      <4>1. K # Key /\ \A k \in K : shown[k] = 0
        BY <1>1, <2>4, <3>1 DEF NotTakenBack
      <4>2. With(With(shown, K, 1), K, 0) = shown
        <5>1. shown \in [Key -> Value]
          BY DEF EditsInv, EditsTypeOK, Values
        <5>2. QED
          BY <4>1, <5>1, WithUndone
      <4>3. With(shown, new.keys, 0)' = With(With(shown, K, 1), K, 0)
        BY <1>1, <3>1 DEF With, Notifications, MembersSettings
      <4>4. ShownOnFailure(new)' = With(shown, new.keys, 0)'
        BY <1>1, <3>1, <4>1
        DEF ShownOnFailure, Notifications, NotificationSettings, MembersSettings
      <4>5. QED
        BY <1>1, <4>2, <4>3, <4>4
    <3>2. CASE form = NotificationSettings
      BY <1>1, <3>2 DEF ShownOnFailure, Notifications, NotificationSettings
    <3>3. CASE form = MembersSettings
      <4>1. CASE v # Gone /\ \A k \in K : shown[k] # Gone
        BY <1>1, <3>3, <4>1
        DEF ShownOnFailure, Notifications, NotificationSettings, MembersSettings
      <4>2. CASE screen = shown /\ (v = Gone \/ \E k \in K : shown[k] = Gone)
        BY <1>1, <3>3, <4>2
        DEF ShownOnFailure, Notifications, NotificationSettings, MembersSettings
      <4>3. QED
        BY <3>3, <4>1, <4>2
    <3>4. QED
      BY <1>1, <2>4, <3>1, <3>2, <3>3 DEF NotTakenBack, EditsInv, EditsTypeOK, Forms
  <2>5. QED
    BY <1>1, <2>1, <2>2, <2>3, <2>4 DEF AloneInv
<1>6. MarksInv'
  <2> SUFFICES ASSUME form = Notifications, stage = "ready", ~raced, ~refused, ~lost
               PROVE MarksInv'
    BY <1>1 DEF MarksInv
  <2>1. v = 1 /\ screen = With(shown, K, 1)
    BY DEF Notifications, MembersSettings
  <2>2. \A k \in Key : shown'[k] = IF k \in K THEN 1 ELSE shown[k]
    BY <1>1, <2>1 DEF With
  <2>3. \A e \in edits' : /\ e.value = 1 /\ e.at # "refused"
                          /\ \A k \in e.keys : shown'[k] = 1
    BY <1>1, <2>1, <2>2 DEF EditsInv, MarksInv, EditsTypeOK, Edits
  <2>4. ASSUME NEW k \in Key
        PROVE  shown'[k] = stored'[k] \/ \E e \in edits' : e.at = "sent" /\ k \in e.keys
    <3>1. CASE k \in K
      <4>1. new \in edits' /\ new.at = "sent" /\ k \in new.keys
        BY <1>1, <3>1
      <4>2. QED
        BY <4>1
    <3>2. CASE k \notin K
      BY <1>1, <2>2, <3>2 DEF EditsInv, MarksInv
    <3>3. QED
      BY <3>1, <3>2
  <2>5. QED
    BY <2>3, <2>4 DEF MarksInv
<1>7. SwitchInv'
  BY <1>1 DEF EditsInv, SwitchInv, FormInv, NotificationSettings, MembersSettings
<1>8. QED
  BY <1>3, <1>4, <1>5, <1>6, <1>7, <1>9 DEF EditsInv

\* A request that the server has handled is the same but for its stage.
LEMMA HandledSame ==
  ASSUME NEW e, EditsTypeOK, e \in edits, NEW s \in {"stored", "refused"}
  PROVE  LET h == [e EXCEPT !.at = s]
         IN /\ h \in Edits
            /\ h.id = e.id /\ h.keys = e.keys /\ h.value = e.value
            /\ h.whole = e.whole /\ h.before = e.before /\ h.at = s
            /\ h.here = e.here
BY DEF EditsTypeOK, Edits

LEMMA StoreStep ==
  ASSUME EditsInv, NEW e \in edits, Store(e)
  PROVE  EditsInv'
<1> DEFINE h == [e EXCEPT !.at = "stored"]
<1>1. /\ e.at = "sent" /\ stored' = StoredAfter(e)
      /\ edits' = (edits \ {e}) \cup {h}
      /\ UNCHANGED <<form, stage, got, shown, made, loads, failures, raced, collided,
                     refused, unrolled, lost>>
  BY DEF Store, editHistory
<1>2. /\ h \in Edits
      /\ h.keys = e.keys /\ h.value = e.value
      /\ h.whole = e.whole /\ h.before = e.before /\ h.at = "stored" /\ h.here = e.here
  BY HandledSame DEF EditsInv
<1> HIDE DEF h
<1>3. e.keys \in SUBSET Key /\ e.value \in Value /\ e.whole \in Values
  BY DEF EditsInv, EditsTypeOK, Edits
<1>4. EditsTypeOK'
  <2>1. stored' \in Values
    BY <1>1, <1>3, WithTyped DEF StoredAfter, EditsInv, EditsTypeOK, Values
  <2>2. QED
    BY <1>1, <1>2, <2>1 DEF EditsInv, EditsTypeOK
<1>5. FormInv'
  <2>1. CASE form = MembersSettings
    BY <1>1, <2>1 DEF FormInv
  <2>2. CASE form # MembersSettings
    <3>1. stored' \in [Key -> 0..1]
      BY <1>1, <1>3, <2>2, WithTyped DEF StoredAfter, EditsInv, FormInv
    <3>2. QED
      BY <1>1, <1>2, <2>2, <3>1 DEF EditsInv, FormInv
  <2>3. QED
    BY <2>1, <2>2
<1>10. OpenedInv'
  BY <1>1, <1>2 DEF EditsInv, OpenedInv, EditsTypeOK
<1>6. AloneInv'
  <2> SUFFICES ASSUME stage = "ready", ~raced, ~collided, ~lost, ~unrolled
               PROVE AloneInv'
    BY <1>1 DEF AloneInv
  <2>1. /\ edits = {e} /\ stored = e.before /\ e.whole = With(e.before, e.keys, e.value)
        /\ ShownOnSuccess(e) = e.whole
        /\ ~NotTakenBack(e) => ShownOnFailure(e) = e.before
    BY <1>1 DEF EditsInv, AloneInv, EditsTypeOK
  <2>2. edits' = {h} /\ stored' = h.whole
    BY <1>1, <1>2, <2>1 DEF StoredAfter
  <2>3. ShownOnSuccess(h)' = ShownOnSuccess(e)
    BY <1>1, <1>2 DEF ShownOnSuccess
  <2>4. NotTakenBack(h)' = NotTakenBack(e) /\ ShownOnFailure(h)' = ShownOnFailure(e)
    BY <1>1, <1>2 DEF NotTakenBack, ShownOnFailure, With
  <2>5. QED
    BY <1>1, <1>2, <2>1, <2>2, <2>3, <2>4 DEF AloneInv
<1>7. MarksInv'
  <2> SUFFICES ASSUME form = Notifications, stage = "ready", ~raced, ~refused, ~lost
               PROVE MarksInv'
    BY <1>1 DEF MarksInv
  <2>1. stored' = With(stored, e.keys, 1)
    BY <1>1 DEF StoredAfter, EditsInv, MarksInv, Notifications, NotificationSettings,
                AppearanceSettings
  <2>2. \A k \in Key : stored'[k] = IF k \in e.keys THEN shown[k] ELSE stored[k]
    BY <2>1 DEF With, EditsInv, MarksInv
  <2>3. \A f \in edits' : /\ f.value = 1 /\ f.at # "refused"
                          /\ \A k \in f.keys : shown'[k] = 1
    BY <1>1, <1>2 DEF EditsInv, MarksInv
  <2>4. ASSUME NEW k \in Key
        PROVE  shown'[k] = stored'[k] \/ \E f \in edits' : f.at = "sent" /\ k \in f.keys
    BY <1>1, <2>2 DEF EditsInv, MarksInv
  <2>5. QED
    BY <2>3, <2>4 DEF MarksInv
<1>8. SwitchInv'
  BY <1>1 DEF EditsInv, SwitchInv
<1>9. QED
  BY <1>4, <1>5, <1>6, <1>7, <1>8, <1>10 DEF EditsInv

LEMMA RefuseStep ==
  ASSUME EditsInv, NEW e \in edits, Refuse(e)
  PROVE  EditsInv'
<1> DEFINE h == [e EXCEPT !.at = "refused"]
<1>1. /\ e.at = "sent" /\ edits' = (edits \ {e}) \cup {h}
      /\ failures' \in {failures, failures + 1} /\ failures' <= MaxFailures
      /\ refused' = TRUE /\ unrolled' = (unrolled \/ NotTakenBack(e))
      /\ UNCHANGED <<form, stage, got, shown, stored, made, loads, raced, collided, lost>>
  BY DEF Refuse, NotTakenBack
<1>2. /\ h \in Edits
      /\ h.keys = e.keys /\ h.value = e.value
      /\ h.whole = e.whole /\ h.before = e.before /\ h.at = "refused" /\ h.here = e.here
  BY HandledSame DEF EditsInv
<1> HIDE DEF h
<1>3. EditsTypeOK'
  <2>1. failures' \in 0..MaxFailures
    BY <1>1, ClientsAssumption DEF EditsInv, EditsTypeOK
  <2>2. unrolled' \in BOOLEAN
    BY <1>1 DEF NotTakenBack
  <2>3. QED
    BY <1>1, <1>2, <2>1, <2>2 DEF EditsInv, EditsTypeOK
<1>4. FormInv' /\ OpenedInv'
  BY <1>1, <1>2 DEF EditsInv, FormInv, OpenedInv
<1>5. AloneInv'
  <2> SUFFICES ASSUME stage = "ready", ~raced, ~collided, ~lost, ~unrolled,
                      ~NotTakenBack(e)
               PROVE AloneInv'
    BY <1>1 DEF AloneInv
  <2>1. /\ edits = {e} /\ stored = e.before /\ e.whole = With(e.before, e.keys, e.value)
        /\ ShownOnSuccess(e) = e.whole
        /\ ShownOnFailure(e) = e.before
    BY <1>1 DEF EditsInv, AloneInv, EditsTypeOK
  <2>2. edits' = {h}
    BY <1>1, <2>1
  <2>3. ShownOnSuccess(h)' = ShownOnSuccess(e)
    BY <1>1, <1>2 DEF ShownOnSuccess
  <2>4. NotTakenBack(h)' = NotTakenBack(e) /\ ShownOnFailure(h)' = ShownOnFailure(e)
    BY <1>1, <1>2 DEF NotTakenBack, ShownOnFailure, With
  <2>5. QED
    BY <1>1, <1>2, <2>1, <2>2, <2>3, <2>4 DEF AloneInv
<1>6. MarksInv'
  BY <1>1 DEF MarksInv
<1>7. SwitchInv'
  BY <1>1 DEF EditsInv, SwitchInv
<1>8. QED
  BY <1>3, <1>4, <1>5, <1>6, <1>7 DEF EditsInv

\* An answer: whichever it is, the one edit that is in flight leaves what is stored.
LEMMA AnswerStep ==
  ASSUME EditsInv, NEW e \in edits, Succeed(e) \/ Fail(e) \/ LoseAnswer(e)
  PROVE  EditsInv'
<1>1. /\ edits' = edits \ {e} /\ lost \in BOOLEAN /\ (lost => lost')
      /\ stage' \in {stage, "failed"}
      /\ UNCHANGED <<form, got, stored, made, loads, raced, collided, refused, unrolled>>
  BY DEF Succeed, Fail, LoseAnswer, Answer, FailureStage, editHistory, EditsInv,
     EditsTypeOK
<1>2. /\ ~e.here => shown' = shown
      /\ e.here => \/ Succeed(e) /\ e.at = "stored" /\ shown' = ShownOnSuccess(e)
                   \/ Fail(e) /\ e.at = "refused" /\ shown' = ShownOnFailure(e)
                   \/ LoseAnswer(e) /\ lost' /\ shown' = ShownOnFailure(e)
  BY DEF Succeed, Fail, LoseAnswer, Answer
<1>3. /\ e.keys \in SUBSET Key /\ e.value \in Value
      /\ e.whole \in Values /\ e.before \in Values
  BY DEF EditsInv, EditsTypeOK, Edits
<1>4. EditsTypeOK'
  <2>1. shown' \in {shown, e.whole, e.before, With(shown, e.keys, 0)}
    BY <1>2 DEF ShownOnSuccess, ShownOnFailure
  <2>2. With(shown, e.keys, 0) \in Values
    BY <1>3, WithTyped, BitIsValue DEF EditsInv, EditsTypeOK, Values
  <2>3. failures' \in 0..MaxFailures
    <3>1. failures' = failures \/ (failures < MaxFailures /\ failures' = failures + 1)
      BY DEF Succeed, Fail, LoseAnswer
    <3>2. QED
      BY <3>1, ClientsAssumption DEF EditsInv, EditsTypeOK
  <2>4. lost' \in BOOLEAN
    BY <1>1 DEF Succeed, Fail, LoseAnswer, editHistory
  <2>5. QED
    BY <1>1, <1>3, <2>1, <2>2, <2>3, <2>4 DEF EditsInv, EditsTypeOK
<1>5. FormInv'
  <2>1. CASE form = MembersSettings
    BY <1>1, <2>1 DEF FormInv
  <2>2. CASE form # MembersSettings
    <3>1. shown' \in [Key -> 0..1]
      <4>1. shown' \in {shown, e.whole, e.before, With(shown, e.keys, 0)}
        BY <1>2 DEF ShownOnSuccess, ShownOnFailure
      <4>2. With(shown, e.keys, 0) \in [Key -> 0..1]
        <5>1. shown \in [Key -> 0..1] /\ 0 \in 0..1
          BY <2>2 DEF EditsInv, FormInv
        <5>2. QED
          BY <1>3, <5>1, WithTyped
      <4>3. QED
        BY <2>2, <4>1, <4>2 DEF EditsInv, FormInv
    <3>2. QED
      BY <1>1, <2>2, <3>1 DEF EditsInv, FormInv
  <2>3. QED
    BY <2>1, <2>2
<1>10. OpenedInv'
  BY <1>1 DEF EditsInv, OpenedInv
<1>6. AloneInv'
  <2> SUFFICES ASSUME stage' = "ready", ~raced, ~collided, ~lost', ~unrolled
               PROVE AloneInv'
    BY <1>1 DEF AloneInv
  <2>1. edits = {e} /\ e.here /\ stage = "ready" /\ ~lost
    BY <1>1 DEF EditsInv, AloneInv, OpenedInv, EditsTypeOK
  <2>2. shown' = stored
    BY <1>1, <1>2, <2>1 DEF EditsInv, AloneInv
  <2>3. QED
    BY <1>1, <2>1, <2>2 DEF AloneInv
<1>7. MarksInv'
  <2> SUFFICES ASSUME form = Notifications, stage' = "ready", ~raced, ~refused, ~lost'
               PROVE MarksInv'
    BY <1>1 DEF MarksInv
  <2>0. stage = "ready" /\ ~lost /\ e.here
    BY <1>1 DEF EditsInv, OpenedInv
  <2>1. shown' = shown /\ e.at = "stored"
    BY <1>1, <1>2, <2>0
    DEF ShownOnSuccess, Notifications, MembersSettings, EditsInv, MarksInv
  <2>2. QED
    BY <1>1, <2>0, <2>1 DEF EditsInv, MarksInv
<1>8. SwitchInv'
  BY <1>1 DEF EditsInv, SwitchInv
<1>9. QED
  BY <1>4, <1>5, <1>6, <1>7, <1>8, <1>10 DEF EditsInv

\* A load that begins finds nothing in flight, or has raced.
LEMMA LoadBegins ==
  ASSUME EditsInv, OpenAgain \/ Reload
  PROVE  EditsInv'
<1>1. /\ loads < MaxLoads /\ loads' = loads + 1 /\ stage' = "sent" /\ got' = NoValues
      /\ raced' = (edits # {})
      /\ ~collided' /\ ~refused' /\ ~unrolled' /\ ~lost'
      /\ UNCHANGED <<form, shown, stored, made, failures>>
  BY DEF OpenAgain, Reload, StartLoading
<1>2. edits' = edits \/ edits' = {[e EXCEPT !.here = FALSE] : e \in edits}
  BY DEF OpenAgain, Reload
<1>3. \A e \in edits : [e EXCEPT !.here = FALSE] \in Edits
  BY DEF EditsInv, EditsTypeOK, Edits
<1>4. EditsTypeOK'
  <2>1. edits' \subseteq Edits
    BY <1>2, <1>3 DEF EditsInv, EditsTypeOK
  <2>2. loads' \in 0..MaxLoads
    BY <1>1, ClientsAssumption DEF EditsInv, EditsTypeOK
  <2>3. got' \in Values /\ raced' \in BOOLEAN /\ collided' \in BOOLEAN
        /\ refused' \in BOOLEAN /\ unrolled' \in BOOLEAN /\ lost' \in BOOLEAN
    <3>1. collided' \in BOOLEAN /\ refused' \in BOOLEAN /\ unrolled' \in BOOLEAN
          /\ lost' \in BOOLEAN /\ raced' \in BOOLEAN
      BY <1>1, Zenon DEF OpenAgain, Reload, StartLoading
    <3>2. got' \in Values
      BY <1>1 DEF NoValues, Values, Value
    <3>3. QED
      BY <3>1, <3>2
  <2>4. QED
    BY <1>1, <2>1, <2>2, <2>3 DEF EditsInv, EditsTypeOK
<1>5. FormInv'
  <2> SUFFICES ASSUME form # MembersSettings PROVE FormInv'
    BY <1>1 DEF FormInv
  <2>1. got' \in [Key -> 0..1]
    BY <1>1 DEF NoValues
  <2>2. ASSUME NEW e \in edits'
        PROVE  e.value \in 0..1 /\ e.whole \in [Key -> 0..1] /\ e.before \in [Key -> 0..1]
    <3>1. PICK f \in edits : e = f \/ e = [f EXCEPT !.here = FALSE]
      BY <1>2, <2>2
    <3>2. e.value = f.value /\ e.whole = f.whole /\ e.before = f.before
      BY <3>1 DEF EditsInv, EditsTypeOK, Edits
    <3>3. QED
      BY <3>2 DEF EditsInv, FormInv
  <2>3. QED
    BY <1>1, <2>1, <2>2 DEF EditsInv, FormInv
<1>6. OpenedInv'
  BY <1>1, <1>2 DEF OpenedInv
<1>7. AloneInv' /\ MarksInv' /\ SwitchInv'
  BY <1>1 DEF AloneInv, MarksInv, SwitchInv
<1>8. QED
  BY <1>4, <1>5, <1>6, <1>7 DEF EditsInv

\* A load that had the page to itself shows what is stored.
LEMMA LoadEnds ==
  ASSUME EditsInv, LoadingRead \/ LoadingAnswered \/ LoadingFails
  PROVE  EditsInv'
<1>1. /\ stage \in {"sent", "read"} /\ stage' \in {"read", "ready", "failed"}
      /\ UNCHANGED <<form, stored, edits, made, loads, raced, collided, refused, unrolled,
                     lost>>
  BY DEF LoadingRead, LoadingAnswered, LoadingFails, editHistory
<1>2. \/ LoadingRead /\ stage' = "read" /\ got' = stored /\ shown' = shown
      \/ LoadingAnswered /\ stage = "read" /\ stage' = "ready" /\ shown' = got
         /\ got' = NoValues
      \/ LoadingFails /\ stage' = "failed" /\ shown' \in ShownWithoutLoad
         /\ got' = NoValues
  BY DEF LoadingRead, LoadingAnswered, LoadingFails
<1>3. NoValues \in Values /\ NoValues \in [Key -> 0..1]
  BY DEF NoValues, Values, Value
<1>4. /\ ShownWithoutLoad \subseteq Values
      /\ form # MembersSettings => ShownWithoutLoad \subseteq [Key -> 0..1]
  <2>1. shown \in Values /\ form \in Forms
    BY DEF EditsInv, EditsTypeOK
  <2>2. form # MembersSettings => shown \in [Key -> 0..1]
    BY DEF EditsInv, FormInv
  <2>3. [k \in Key |-> 1] \in Values /\ [k \in Key |-> Gone] \in Values
        /\ [k \in Key |-> 1] \in [Key -> 0..1] /\ [Key -> 0..1] \subseteq Values
    BY DEF Values, Value, Gone
  <2>4. CASE form = Notifications
    <3>1. ShownWithoutLoad = {[k \in Key |-> 1]}
      BY <2>4 DEF ShownWithoutLoad, Notifications, NotificationSettings,
                  AppearanceSettings, MembersSettings
    <3>2. QED
      BY <2>3, <3>1
  <2>5. CASE form = NotificationSettings
    <3>1. ShownWithoutLoad = {shown}
      BY <2>5 DEF ShownWithoutLoad, Notifications, NotificationSettings,
                  AppearanceSettings, MembersSettings
    <3>2. QED
      BY <2>1, <2>2, <3>1
  <2>6. CASE form = AppearanceSettings
    BY <2>3, <2>6
    DEF ShownWithoutLoad, Notifications, NotificationSettings, AppearanceSettings
  <2>7. CASE form = MembersSettings
    BY <2>3, <2>7
    DEF ShownWithoutLoad, Notifications, NotificationSettings, AppearanceSettings,
        MembersSettings
  <2>8. QED
    BY <2>1, <2>4, <2>5, <2>6, <2>7 DEF Forms
<1>5. EditsTypeOK'
  <2>1. shown' \in Values /\ got' \in Values
    BY <1>2, <1>3, <1>4 DEF EditsInv, EditsTypeOK
  <2>2. failures' \in 0..MaxFailures
    <3>1. failures' = failures \/ (failures < MaxFailures /\ failures' = failures + 1)
      BY DEF LoadingRead, LoadingAnswered, LoadingFails
    <3>2. QED
      BY <3>1, ClientsAssumption DEF EditsInv, EditsTypeOK
  <2>3. QED
    BY <1>1, <2>1, <2>2 DEF EditsInv, EditsTypeOK
<1>6. FormInv'
  <2> SUFFICES ASSUME form # MembersSettings PROVE FormInv'
    BY <1>1 DEF FormInv
  <2>1. shown' \in [Key -> 0..1] /\ got' \in [Key -> 0..1]
    BY <1>2, <1>3, <1>4 DEF EditsInv, FormInv
  <2>2. QED
    BY <1>1, <2>1 DEF EditsInv, FormInv
<1>7. OpenedInv' /\ SwitchInv'
  BY <1>1, <1>2 DEF EditsInv, OpenedInv, SwitchInv
<1>8. AloneInv' /\ MarksInv'
  <2> SUFFICES ASSUME stage' = "ready", ~raced PROVE AloneInv' /\ MarksInv'
    BY <1>1 DEF AloneInv, MarksInv
  <2>1. edits = {} /\ edits' = {} /\ shown' = stored'
    BY <1>1, <1>2 DEF EditsInv, OpenedInv
  <2>2. QED
    BY <2>1 DEF AloneInv, MarksInv
<1>9. QED
  BY <1>5, <1>6, <1>7, <1>8 DEF EditsInv

LEMMA EditsStep ==
  ASSUME EditsInv, EditsNext \/ UNCHANGED editVars
  PROVE  EditsInv'
<1>0. EditsTypeOK /\ FormInv /\ OpenedInv
  BY DEF EditsInv
<1>1. ASSUME MarkAll PROVE EditsInv'
  <2>1. Optimistic(Key, 1) \in Values
    BY <1>0, WithTyped, BitIsValue DEF EditsTypeOK, Optimistic, Values
  <2>2. QED
    BY <1>1, <2>1, BeginStep
    DEF MarkAll, Optimistic, Value, Notifications, NotificationSettings, MembersSettings
<1>2. ASSUME NEW k \in Key, Select(k) PROVE EditsInv'
  <2>1. Optimistic({k}, 1) \in Values
    BY <1>0, WithTyped, BitIsValue DEF EditsTypeOK, Optimistic, Values
  <2>2. QED
    BY <1>2, <2>1, BeginStep
    DEF Select, Optimistic, Value, Notifications, NotificationSettings, MembersSettings
<1>3. ASSUME NEW k \in Key, Toggle(k) \/ SaveAppearance(k) PROVE EditsInv'
  <2>1. form \in {NotificationSettings, AppearanceSettings}
    BY <1>3 DEF Toggle, SaveAppearance
  <2>2. 1 - shown[k] \in 0..1
    BY <1>0, <2>1
    DEF FormInv, NotificationSettings, AppearanceSettings, MembersSettings
  <2>3. Optimistic({k}, 1 - shown[k]) \in Values
    BY <1>0, <2>2, WithTyped, BitIsValue DEF EditsTypeOK, Optimistic, Values
  <2>4. QED
    BY <1>0, <1>3, <2>1, <2>2, <2>3, BeginStep
    DEF Toggle, SaveAppearance, Editable, OpenedInv, Optimistic, Value, Notifications,
        NotificationSettings,
        AppearanceSettings, MembersSettings
<1>4. ASSUME NEW k \in Key, ChangeRole(k) PROVE EditsInv'
  <2>1. form = MembersSettings /\ shown[k] # Gone /\ 1 - shown[k] \in 0..1
    BY <1>0, <1>4 DEF ChangeRole, EditsTypeOK, Values, Value, Gone
  <2>2. Optimistic({k}, 1 - shown[k]) \in Values
    BY <1>0, <2>1, WithTyped, BitIsValue DEF EditsTypeOK, Optimistic, Values
  <2>3. QED
    BY <1>4, <2>1, <2>2, BeginStep
    DEF ChangeRole, Editable, Value, Gone, Notifications, NotificationSettings,
        MembersSettings
<1>5. ASSUME NEW k \in Key, Remove(k) \/ Provision(k) PROVE EditsInv'
  <2>1. form = MembersSettings /\ shown \in Values
    BY <1>0, <1>5 DEF Remove, Provision, EditsTypeOK
  <2>2. QED
    BY <1>5, <2>1, BeginStep
    DEF Remove, Provision, Editable, Value, Gone, Notifications, NotificationSettings,
        MembersSettings
<1>6. CASE UNCHANGED editVars
  <2>1. EditsTypeOK' /\ FormInv' /\ OpenedInv' /\ SwitchInv'
    BY <1>6 DEF editVars, editHistory, EditsInv, EditsTypeOK, FormInv, OpenedInv,
       SwitchInv
  <2>2. AloneInv'
    BY <1>6
    DEF editVars, editHistory, EditsInv, AloneInv, NotTakenBack, ShownOnSuccess,
        ShownOnFailure, With
  <2>3. MarksInv'
    BY <1>6 DEF editVars, editHistory, EditsInv, MarksInv
  <2>4. QED
    BY <2>1, <2>2, <2>3 DEF EditsInv
<1>7. QED
  BY <1>1, <1>2, <1>3, <1>4, <1>5, <1>6, StoreStep, RefuseStep, AnswerStep, LoadBegins,
     LoadEnds
  DEF EditsNext

LEMMA EditsInitially == Init => EditsInv
<1> SUFFICES ASSUME Init PROVE EditsInv
  OBVIOUS
<1>1. EditsInit
  BY DEF Init, ClosedEdits
<1>2. EditsTypeOK
  <2>1. shown \in Values /\ got \in Values /\ stored \in Values
    BY <1>1 DEF EditsInit, NoValues, Values, Value
  <2>2. made \in 0..MaxEdits /\ loads \in 0..MaxLoads /\ failures \in 0..MaxFailures
    BY <1>1, ClientsAssumption DEF EditsInit
  <2>3. QED
    BY <1>1, <2>1, <2>2 DEF EditsInit, EditsTypeOK
<1>3. FormInv
  BY <1>1 DEF EditsInit, FormInv, NoValues
<1>4. OpenedInv /\ AloneInv /\ MarksInv /\ SwitchInv
  BY <1>1 DEF EditsInit, OpenedInv, AloneInv, MarksInv, SwitchInv
<1>5. QED
  BY <1>2, <1>3, <1>4 DEF EditsInv

LEMMA EditsInvariant == Spec => []EditsInv
<1>1. EditsInv /\ [Next]_clientVars => EditsInv'
  BY EditsStep DEF Next, clientVars
<1>2. QED
  BY <1>1, EditsInitially, PTL DEF Spec

\* The state of the pages that edit is well-formed, whatever is edited and answered.
THEOREM EditsTyped == Spec => []EditsTypeOK
BY EditsInvariant, PTL DEF EditsInv

\* When a page shows what it has loaded and nothing is in flight, the screen is what is
\* stored, for any keys and any number of edits, loads and failures, unless an edit was
\* in flight when the load began, edits met on a page that cannot bear it, an answer was
\* lost, or the page took nothing back.
THEOREM ScreenShowsStored == Spec => []EditsAreStored
<1>1. EditsInv => EditsAreStored
  <2> SUFFICES ASSUME EditsInv, stage = "ready", edits = {}, ~raced, ~lost, ~Mixed,
                      ~unrolled
               PROVE  shown = stored
    BY DEF EditsAreStored
  <2>1. CASE ~collided
    BY <2>1 DEF EditsInv, AloneInv
  <2>2. CASE collided
    <3>1. form = Notifications /\ ~refused
      BY <2>2 DEF Mixed, EditsInv, SwitchInv, EditsTypeOK, Forms
    <3>2. \A k \in Key : shown[k] = stored[k]
      BY <3>1 DEF EditsInv, MarksInv
    <3>3. QED
      BY <3>2 DEF EditsInv, EditsTypeOK, Values
  <2>3. QED
    BY <2>1, <2>2
<1>2. QED
  BY <1>1, EditsInvariant, PTL
-----------------------------------------------------------------------------
(* The pages of a workspace. *)

\* The load that is not cancelled is of the active workspace, and so is what it has
\* read; where no creation overlapped it, it has all that the page has created.
LoadInv ==
    /\ Loading => active # 0 /\ load.ws = active
    /\ load.at = "read" => \A n \in load.got : owner[n] = active
    /\ load.at = "read" /\ ~load.overlap => \A n \in mine : n \in Listed(active) => n \in load.got
    /\ Loading /\ ~load.overlap => creations = {}

\* What a creation stored is on the screen at most once before its answer, and not at
\* all unless a load overlapped it; a record that is saved is the newest.
CreationInv(c) ==
    /\ page.creates = "sent"
    /\ page.once => creations = {c}
    /\ ~c.overlap => ~Loading
    /\ c.at = "stored" =>
         /\ c.item \in Item /\ owner[c.item] = c.ws
         /\ c.item \notin mine /\ items[c.item] <= 1
         /\ ~c.overlap => items[c.item] = 0
         /\ page.replaces => \A n \in mine : n < c.item
         /\ \A d \in creations : d.at = "stored" /\ d.item = c.item => d = c

\* Items come to exist in order, and nothing is shown that does not exist.
UsedInv ==
    /\ \A n \in Item : items[n] > 0 => n \in Used
    /\ \A n \in Used : \A k \in Item : k < n => k \in Used
    /\ \A n \in mine : IF page.creates = "kept" THEN owner[n] = 0 /\ items[n] = 1
                       ELSE owner[n] # 0

\* The list in the page's state, on the screen or not: it is of one workspace, which is
\* the active one where nothing else is shown.
ListInv ==
    /\ ~Loading /\ ~error => whose = active
    /\ ~crossed =>
         /\ \A n \in Item \ Kept : items[n] > 0 => whose # 0 /\ owner[n] = whose
         /\ ~overlapped => \A n \in mine : n \in Listed(whose) \cup Kept => items[n] = 1

PagesInv ==
    /\ PagesTypeOK /\ LoadInv /\ UsedInv /\ ListInv
    /\ \A c \in creations : CreationInv(c)

CreationType == [id : Request, item : Item \cup {0}, ws : Workspace,
                 overlap : BOOLEAN, at : {"sent", "stored"}]

LEMMA PageKinds ==
  ASSUME PagesTypeOK
  PROVE  /\ page.replaces => page.once /\ page.creates = "sent"
         /\ page.creates # "kept" => Kept = {}
<1>1. /\ ~TeamsPage.replaces /\ ~TasksPage.replaces /\ ~ProjectsPage.replaces
      /\ WorkspaceSsoSettings.once /\ WorkspaceSsoSettings.creates = "sent"
  BY DEF TeamsPage, TasksPage, ProjectsPage, WorkspaceSsoSettings
<1>2. ~CallsPage.replaces /\ ~CalendarPage.replaces
  BY DEF TeamsPage, ProjectsPage, CallsPage, CalendarPage
<1>3. QED
  BY <1>1, <1>2 DEF PagesTypeOK, Pages, Kept

LEMMA ListOfIs ==
  ASSUME NEW S
  PROVE  /\ ListOf(S) \in [Item -> 0..1]
         /\ \A n \in Item : ListOf(S)[n] = IF n \in S \cup Kept THEN 1 ELSE 0
BY DEF ListOf

\* The new creations' parts, where what they speak of stays.
LEMMA CreationKept ==
  ASSUME NEW c, CreationInv(c), creations' \subseteq creations, c \in creations',
         UNCHANGED page, Loading' => Loading \/ c.overlap,
         c.item \in Item => owner'[c.item] = owner[c.item] /\ items'[c.item] = items[c.item],
         UNCHANGED mine
  PROVE  CreationInv(c)'
BY DEF CreationInv

LEMMA StartLoadStep ==
  ASSUME PagesInv, NEW w \in Workspace \cup {0}, Switch(w)
  PROVE  PagesInv'
<1>0. PagesTypeOK /\ LoadInv /\ UsedInv /\ ListInv
  BY DEF PagesInv
<1>1. /\ creations' = {[c EXCEPT !.overlap = TRUE] : c \in creations}
      /\ load' = IF w = 0 THEN NoLoad
                 ELSE [at |-> "sent", ws |-> w, got |-> {}, overlap |-> creations # {}]
      /\ items' = IF w = 0 THEN ListOf({}) ELSE items
      /\ whose' = IF w = 0 THEN 0 ELSE whose
      /\ error' = (error /\ w = 0) /\ crossed' = (crossed /\ w # 0)
      /\ active' = w /\ switches < MaxSwitches /\ switches' = switches + 1
      /\ UNCHANGED <<page, owner, mine, overlapped, troubles>>
  BY DEF Switch, StartLoad
<1>2. PagesTypeOK'
  <2>1. creations' \subseteq CreationType
    <3>1. \A c \in creations : c \in CreationType
      BY <1>0 DEF PagesTypeOK, CreationType
    <3>2. \A c \in CreationType : [c EXCEPT !.overlap = TRUE] \in CreationType
      BY DEF CreationType
    <3>3. QED
      BY <1>1, <3>1, <3>2
  <2>2. load' \in [at : {"no", "sent", "read"}, ws : Workspace \cup {0},
                   got : SUBSET Item, overlap : BOOLEAN]
    BY <1>1 DEF NoLoad
  <2>3. items' \in [Item -> 0..2]
    BY <1>0, <1>1, ListOfIs DEF PagesTypeOK
  <2>4. error' \in BOOLEAN /\ crossed' \in BOOLEAN /\ switches' \in 0..MaxSwitches
        /\ whose' \in Workspace \cup {0}
    BY <1>0, <1>1, ClientsAssumption DEF PagesTypeOK
  <2>5. QED
    BY <1>0, <1>1, <2>1, <2>2, <2>3, <2>4 DEF PagesTypeOK, CreationType
<1>3. LoadInv'
  BY <1>1 DEF LoadInv, Loading, NoLoad
<1>4. UsedInv'
  <2>1. Used' = Used
    BY <1>1 DEF Used
  <2>2. \A n \in Item : items'[n] > 0 => items[n] > 0 \/ n \in Kept
    BY <1>1, ListOfIs
  <2>3. \A n \in mine : page.creates = "kept" => items'[n] = 1
    BY <1>0, <1>1, ListOfIs DEF UsedInv, Kept, PagesTypeOK
  <2>4. Kept \subseteq Used
    BY DEF Kept, Used
  <2>5. QED
    BY <1>0, <1>1, <2>1, <2>2, <2>3, <2>4 DEF UsedInv
<1>5. ListInv'
  <2>1. CASE w = 0
    <3>1. \A n \in Item : items'[n] = IF n \in Kept' THEN 1 ELSE 0
      BY <1>1, <2>1, ListOfIs DEF Kept
    <3>2. \A n \in mine : n \in Listed(whose)' \cup Kept' => n \in Kept'
      BY <1>0, <1>1, <2>1 DEF UsedInv, Listed, Newest, Held, Kept
    <3>3. Kept' \subseteq Item /\ whose' = 0 /\ active' = 0
      BY <1>0, <1>1, <2>1 DEF PagesTypeOK, Kept
    <3>4. \A n \in mine : n \in Listed(whose)' \cup Kept' => items'[n] = 1
      BY <3>1, <3>2, <3>3
    <3>5. QED
      BY <1>1, <3>1, <3>3, <3>4 DEF ListInv
  <2>2. CASE w # 0
    <3>1. Loading' /\ Kept' = Kept /\ Listed(whose)' = Listed(whose)
      BY <1>1, <2>2 DEF Loading, Kept, Listed, Newest, Held
    <3>2. QED
      BY <1>0, <1>1, <2>2, <3>1 DEF ListInv
  <2>3. QED
    BY <2>1, <2>2
<1>6. ASSUME NEW d \in creations' PROVE CreationInv(d)'
  <2>1. PICK c \in creations : d = [c EXCEPT !.overlap = TRUE]
    BY <1>1, <1>6
  <2>2. /\ d.at = c.at /\ d.item = c.item /\ d.ws = c.ws /\ d.overlap = TRUE
        /\ CreationInv(c)
    BY <1>0, <2>1 DEF PagesInv, PagesTypeOK
  <2>3. d.at = "stored" => items'[d.item] <= 1
    BY <1>1, <2>2, ListOfIs DEF CreationInv
  <2>4. ASSUME NEW e \in creations', d.at = "stored", e.at = "stored", e.item = d.item
        PROVE  e = d
    <3>1. PICK b \in creations : e = [b EXCEPT !.overlap = TRUE]
      BY <1>1, <2>4
    <3>2. b.at = "stored" /\ b.item = c.item
      BY <1>0, <2>2, <2>4, <3>1 DEF PagesTypeOK
    <3>3. QED
      BY <2>1, <2>2, <2>4, <3>1, <3>2 DEF CreationInv
  <2>5. page.once => creations' = {d}
    BY <1>1, <2>1, <2>2 DEF CreationInv
  <2>6. QED
    BY <1>1, <2>2, <2>3, <2>4, <2>5 DEF CreationInv
<1>7. QED
  BY <1>2, <1>3, <1>4, <1>5, <1>6 DEF PagesInv

LEMMA LoadStep ==
  ASSUME PagesInv, LoadRead \/ LoadAnswered \/ LoadFails
  PROVE  PagesInv'
<1>0. PagesTypeOK /\ LoadInv /\ UsedInv /\ ListInv
  BY DEF PagesInv
<1>1. Loading /\ UNCHANGED <<page, active, creations, owner, mine, switches>>
  BY DEF LoadRead, LoadAnswered, LoadFails, Loading, pagesHistory
<1>2. \A c \in creations : CreationInv(c) /\ c.overlap
  BY <1>1 DEF PagesInv, CreationInv
<1>3. Used' = Used /\ Kept' = Kept /\ \A w : Listed(w)' = Listed(w)
  BY <1>1 DEF Used, Kept, Listed, Newest, Held
<1>4. CASE LoadRead
  <2>1. /\ load' = [load EXCEPT !.at = "read", !.got = Listed(load.ws)]
        /\ UNCHANGED <<items, whose, error, crossed, overlapped, troubles>>
    BY <1>4 DEF LoadRead, pagesHistory
  <2>2. Listed(load.ws) \subseteq Item /\ \A n \in Listed(load.ws) : owner[n] = load.ws
    BY DEF Listed, Newest, Held
  <2>3. /\ load' \in [at : {"no", "sent", "read"}, ws : Workspace \cup {0},
                      got : SUBSET Item, overlap : BOOLEAN]
        /\ load'.at = "read" /\ load'.ws = load.ws /\ load'.got = Listed(load.ws)
        /\ load'.overlap = load.overlap
    BY <1>0, <2>1, <2>2 DEF PagesTypeOK
  <2>4. PagesTypeOK'
    BY <1>0, <1>1, <2>1, <2>3 DEF PagesTypeOK
  <2>5. LoadInv'
    BY <1>0, <1>1, <1>3, <2>2, <2>3 DEF LoadInv, Loading
  <2>6. UsedInv'
    BY <1>0, <1>1, <1>3, <2>1 DEF UsedInv
  <2>7. ListInv'
    BY <1>0, <1>1, <1>3, <2>1, <2>3 DEF ListInv, Loading
  <2>8. \A c \in creations' : CreationInv(c)'
    BY <1>1, <1>2, <2>1 DEF CreationInv
  <2>9. QED
    BY <2>4, <2>5, <2>6, <2>7, <2>8 DEF PagesInv
<1>5. CASE LoadAnswered
  <2>1. /\ load.at = "read" /\ load' = NoLoad /\ items' = ListOf(load.got)
        /\ whose' = load.ws
        /\ crossed' = FALSE /\ overlapped' = load.overlap
        /\ UNCHANGED <<error, troubles>>
    BY <1>5 DEF LoadAnswered
  <2>2. \A n \in Item : items'[n] = IF n \in load.got \cup Kept THEN 1 ELSE 0
    BY <2>1, ListOfIs
  <2>3. PagesTypeOK'
    <3>1. items' \in [Item -> 0..2]
      BY <2>1, ListOfIs
    <3>2. load' \in [at : {"no", "sent", "read"}, ws : Workspace \cup {0},
                     got : SUBSET Item, overlap : BOOLEAN]
      BY <2>1 DEF NoLoad
    <3>3. QED
      BY <1>0, <1>1, <2>1, <3>1, <3>2 DEF PagesTypeOK
  <2>4. LoadInv'
    BY <2>1 DEF LoadInv, Loading, NoLoad
  <2>5. \A n \in load.got : n \in Item /\ n \in Used
    BY <1>0, <1>1, <2>1, ClientsAssumption DEF LoadInv, PagesTypeOK, Used
  <2>6. UsedInv'
    <3>1. \A n \in Item : items'[n] > 0 => n \in Used
      BY <2>2, <2>5 DEF Kept, Used
    <3>2. \A n \in mine : page.creates = "kept" => items'[n] = 1
      BY <1>0, <2>2 DEF Kept, PagesTypeOK
    <3>3. QED
      BY <1>0, <1>1, <1>3, <3>1, <3>2 DEF UsedInv
  <2>7. ListInv'
    <3>0. whose' = active
      BY <1>0, <1>1, <2>1 DEF LoadInv
    <3>1. \A n \in Item \ Kept : items'[n] > 0 => active # 0 /\ owner[n] = active
      BY <1>0, <1>1, <2>1, <2>2 DEF LoadInv
    <3>2. ~overlapped' => \A n \in mine : n \in Listed(active) \cup Kept => items'[n] = 1
      BY <1>0, <2>1, <2>2 DEF LoadInv, PagesTypeOK
    <3>3. Listed(whose)' = Listed(active)
      BY <1>1, <3>0 DEF Listed, Newest, Held
    <3>4. QED
      BY <1>1, <1>3, <3>0, <3>1, <3>2, <3>3 DEF ListInv
  <2>8. ASSUME NEW c \in creations' PROVE CreationInv(c)'
    <3>1. c.item \in Item => items'[c.item] <= 1
      BY <2>2
    <3>2. QED
      BY <1>1, <1>2, <2>1, <3>1 DEF CreationInv, Loading, NoLoad
  <2>9. QED
    BY <2>3, <2>4, <2>6, <2>7, <2>8 DEF PagesInv
<1>6. CASE LoadFails
  <2>1. /\ load' = NoLoad /\ error' = TRUE /\ troubles < MaxTroubles /\ troubles' = troubles + 1
        /\ UNCHANGED <<items, whose, crossed, overlapped>>
    BY <1>6 DEF LoadFails, pagesHistory
  <2>2. PagesTypeOK'
    BY <1>0, <1>1, <2>1, ClientsAssumption DEF PagesTypeOK, NoLoad
  <2>3. LoadInv' /\ ListInv'
    BY <1>0, <1>1, <1>3, <2>1 DEF LoadInv, ListInv, Loading, NoLoad
  <2>4. UsedInv'
    BY <1>0, <1>1, <1>3, <2>1 DEF UsedInv
  <2>5. \A c \in creations' : CreationInv(c)'
    BY <1>1, <1>2, <2>1 DEF CreationInv, Loading, NoLoad
  <2>6. QED
    BY <2>2, <2>3, <2>4, <2>5 DEF PagesInv
<1>7. QED
  BY <1>4, <1>5, <1>6

\* An item that is stored was never on the screen, and takes no item of the page out
\* of what the server lists, but by being newer.
LEMMA StoredNext ==
  ASSUME PagesInv, NEW n \in Item, NEW w \in Workspace, IsNext(n),
         owner' = [owner EXCEPT ![n] = w],
         UNCHANGED <<page, active, items, whose, error, load, pagesHistory>>
  PROVE  /\ owner' \in [Item -> Workspace \cup {0}]
         /\ owner[n] = 0 /\ n \notin mine /\ items[n] = 0
         /\ \A m \in mine : m \in Item /\ m < n
         /\ UsedInv' /\ ListInv'
         /\ (creations = {} => creations' = {}) => LoadInv'
<1>0. PagesTypeOK /\ LoadInv /\ UsedInv /\ ListInv
  BY DEF PagesInv
<1>1. UNCHANGED <<mine, crossed, overlapped>> /\ Kept' = Kept
  BY DEF pagesHistory, Kept
<1>2. /\ owner' \in [Item -> Workspace \cup {0}]
      /\ \A m \in Item : owner'[m] = IF m = n THEN w ELSE owner[m]
  BY <1>0 DEF PagesTypeOK
<1>3. owner[n] = 0 /\ n \notin mine
  BY DEF IsNext, Used
<1>4. items[n] = 0
  BY <1>0 DEF UsedInv, IsNext, PagesTypeOK
<1>5. Used' = Used \cup {n}
  BY <1>1, <1>2, ClientsAssumption DEF Used
<1>6. \A m \in mine : m \in Item /\ m < n
  BY <1>0, <1>3 DEF PagesTypeOK, UsedInv, Used, IsNext, Item
<1>7. ASSUME NEW v, NEW m \in mine, n \in Item, m \in Item,
             m \in IF page.replaces THEN Newest({k \in Item : owner'[k] = v})
                                    ELSE {k \in Item : owner'[k] = v}
      PROVE  m \in Listed(v)
  <2>1. m # n /\ owner'[m] = v
    BY <1>3, <1>7 DEF Newest
  <2>2. owner[m] = v
    BY <1>2, <1>7, <2>1
  <2>3. CASE ~page.replaces
    BY <1>7, <2>2, <2>3 DEF Listed, Held
  <2>4. CASE page.replaces
    <3>1. v # 0
      BY <1>0, <2>2, <2>4, PageKinds DEF UsedInv
    <3>2. \A k \in Held(v) : k \in Item /\ owner'[k] = v
      BY <1>2, <1>3, <3>1 DEF Held
    <3>3. QED
      BY <1>7, <2>2, <2>4, <3>2 DEF Listed, Newest, Held
  <2>5. QED
    BY <2>3, <2>4
<1>12. \A m \in mine : /\ m \in Listed(active)' => m \in Listed(active)
                       /\ m \in Listed(whose)' => m \in Listed(whose)
  BY <1>6, <1>7 DEF Listed, Held, Newest
<1>8. UsedInv'
  <2>1. \A k \in Item : k < n => k \in Used
    BY DEF IsNext
  <2>2. QED
    BY <1>0, <1>1, <1>2, <1>3, <1>5, <2>1, ClientsAssumption DEF UsedInv, PagesTypeOK
<1>9. ListInv'
  BY <1>0, <1>1, <1>2, <1>3, <1>4, <1>12 DEF ListInv, Loading
<1>10. ASSUME creations = {} => creations' = {} PROVE LoadInv'
  BY <1>0, <1>1, <1>2, <1>3, <1>10, <1>12 DEF LoadInv, Loading, PagesTypeOK
<1>11. QED
  BY <1>2, <1>3, <1>4, <1>6, <1>8, <1>9, <1>10

LEMMA CreateStep ==
  ASSUME PagesInv, NEW i \in Request, Create(i)
  PROVE  PagesInv'
<1>0. PagesTypeOK /\ LoadInv /\ UsedInv /\ ListInv
  BY DEF PagesInv
<1>1. PICK new :
         /\ new = [id |-> i, item |-> 0, ws |-> active, overlap |-> Loading, at |-> "sent"]
         /\ creations' = creations \cup {new}
         /\ page.creates = "sent" /\ active # 0 /\ (page.once => creations = {})
         /\ load' = [load EXCEPT !.overlap = Loading]
         /\ UNCHANGED <<page, active, items, whose, error, owner, mine, crossed, overlapped,
                        switches, troubles>>
  BY DEF Create, pagesHistory
<1>2. Loading \in BOOLEAN /\ load' \in [at : {"no", "sent", "read"}, ws : Workspace \cup {0},
                                        got : SUBSET Item, overlap : BOOLEAN]
      /\ load'.at = load.at /\ load'.ws = load.ws /\ load'.got = load.got
      /\ (load'.overlap <=> Loading) /\ (Loading' <=> Loading)
  BY <1>0, <1>1 DEF PagesTypeOK, Loading
<1>3. PagesTypeOK'
  <2>1. new \in CreationType
    BY <1>0, <1>1, <1>2 DEF PagesTypeOK, CreationType
  <2>2. QED
    BY <1>0, <1>1, <1>2, <2>1 DEF PagesTypeOK, CreationType
<1>4. LoadInv'
  BY <1>0, <1>1, <1>2 DEF LoadInv, Loading
<1>5. UsedInv' /\ ListInv'
  BY <1>0, <1>1, <1>2 DEF UsedInv, ListInv, Used, Kept, Listed, Newest, Held
<1>6. CreationInv(new)'
  BY <1>1, <1>2 DEF CreationInv
<1>7. ASSUME NEW c \in creations PROVE CreationInv(c)'
  <2>1. CreationInv(c) /\ ~page.once
    BY <1>1 DEF PagesInv
  <2>2. ASSUME NEW d \in creations', c.at = "stored", d.at = "stored", d.item = c.item
        PROVE  d = c
    BY <1>1, <2>1, <2>2 DEF CreationInv
  <2>3. QED
    BY <1>0, <1>1, <1>2, <2>1, <2>2, PageKinds DEF CreationInv
<1>8. QED
  BY <1>1, <1>3, <1>4, <1>5, <1>6, <1>7 DEF PagesInv

LEMMA KeepStep ==
  ASSUME PagesInv, NEW n \in Item, Keep(n)
  PROVE  PagesInv'
<1>0. PagesTypeOK /\ LoadInv /\ UsedInv /\ ListInv
  BY DEF PagesInv
<1>1. /\ page.creates = "kept" /\ IsNext(n)
      /\ items' = [items EXCEPT ![n] = 1] /\ mine' = mine \cup {n}
      /\ UNCHANGED <<page, active, whose, error, load, creations, owner, crossed, overlapped,
                     switches, troubles>>
  BY DEF Keep
<1>2. creations = {} /\ ~page.replaces
  BY <1>0, <1>1, PageKinds DEF PagesInv, CreationInv
<1>3. /\ items' \in [Item -> 0..2] /\ mine' \subseteq Item
      /\ \A m \in Item : items'[m] = IF m = n THEN 1 ELSE items[m]
  BY <1>0, <1>1 DEF PagesTypeOK
<1>4. PagesTypeOK'
  BY <1>0, <1>1, <1>3 DEF PagesTypeOK
<1>5. owner[n] = 0 /\ n \notin mine /\ Used' = Used \cup {n} /\ Kept' = mine'
  BY <1>1 DEF IsNext, Used, Kept
<1>6. LoadInv'
  BY <1>0, <1>1, <1>2, <1>5 DEF LoadInv, Loading, Listed, Held
<1>7. UsedInv'
  BY <1>0, <1>1, <1>3, <1>5 DEF UsedInv, IsNext, PagesTypeOK
<1>8. ListInv'
  BY <1>0, <1>1, <1>3, <1>5 DEF ListInv, UsedInv, Loading, Kept, PagesTypeOK
<1>9. QED
  BY <1>1, <1>2, <1>4, <1>6, <1>7, <1>8 DEF PagesInv

LEMMA CreateHandledStep ==
  ASSUME PagesInv, NEW n \in Item, NEW c \in creations, CreateHandled(c, n)
  PROVE  PagesInv'
<1> DEFINE h == [c EXCEPT !.at = "stored", !.item = n]
<1>0. PagesTypeOK /\ LoadInv /\ UsedInv /\ ListInv
  BY DEF PagesInv
<1>1. /\ c.at = "sent" /\ IsNext(n) /\ owner' = [owner EXCEPT ![n] = c.ws]
      /\ creations' = (creations \ {c}) \cup {h}
      /\ UNCHANGED <<page, active, items, whose, error, load, pagesHistory, switches,
                     troubles>>
  BY DEF CreateHandled
<1>2. /\ c.ws \in Workspace /\ h \in CreationType
      /\ h.at = "stored" /\ h.item = n /\ h.ws = c.ws /\ h.overlap = c.overlap
  BY <1>0 DEF PagesTypeOK, CreationType
<1> HIDE DEF h
<1>3. /\ owner' \in [Item -> Workspace \cup {0}]
      /\ owner[n] = 0 /\ n \notin mine /\ items[n] = 0
      /\ \A m \in mine : m \in Item /\ m < n
      /\ UsedInv' /\ ListInv'
      /\ (creations = {} => creations' = {}) => LoadInv'
  BY <1>1, <1>2, StoredNext
<1>4. PagesTypeOK' /\ LoadInv'
  BY <1>0, <1>1, <1>2, <1>3 DEF PagesTypeOK, CreationType, pagesHistory
<1>5. \A d \in creations : d.at = "stored" => d.item \in Item /\ owner[d.item] # 0 /\ d.item # n
  <2> SUFFICES ASSUME NEW d \in creations, d.at = "stored"
               PROVE  d.item \in Item /\ owner[d.item] # 0 /\ d.item # n
    OBVIOUS
  <2>1. d.item \in Item /\ owner[d.item] = d.ws /\ d.ws \in Workspace
    BY <1>0 DEF PagesInv, CreationInv, PagesTypeOK
  <2>2. QED
    BY <1>3, <2>1, ClientsAssumption
<1>6. CreationInv(h)'
  <2>1. CreationInv(c)
    BY DEF PagesInv
  <2>2. owner'[n] = c.ws
    BY <1>0, <1>1, <1>2 DEF PagesTypeOK
  <2>3. \A d \in creations' : d.at = "stored" /\ d.item = n => d = h
    BY <1>1, <1>5
  <2>4. page.once => creations' = {h}
    BY <1>1, <2>1 DEF CreationInv
  <2>5. QED
    BY <1>1, <1>2, <1>3, <2>1, <2>2, <2>3, <2>4 DEF CreationInv, pagesHistory, Loading
<1>7. ASSUME NEW d \in creations \ {c} PROVE CreationInv(d)'
  <2>1. CreationInv(d) /\ ~page.once
    BY DEF PagesInv, CreationInv
  <2>2. d.at = "stored" => owner'[d.item] = owner[d.item] /\ d.item # n
    BY <1>0, <1>1, <1>5 DEF PagesTypeOK
  <2>3. \A e \in creations' : d.at = "stored" /\ e.at = "stored" /\ e.item = d.item => e = d
    BY <1>1, <1>2, <2>1, <2>2 DEF CreationInv
  <2>4. ~page.replaces
    BY <1>0, <2>1, PageKinds
  <2>5. QED
    BY <1>1, <2>1, <2>2, <2>3, <2>4 DEF CreationInv, pagesHistory, Loading
<1>8. QED
  BY <1>1, <1>3, <1>4, <1>6, <1>7 DEF PagesInv

LEMMA OtherCreatesStep ==
  ASSUME PagesInv, NEW n \in Item, NEW w \in Workspace, OtherCreates(n, w)
  PROVE  PagesInv'
<1>0. PagesTypeOK
  BY DEF PagesInv
<1>1. /\ IsNext(n) /\ owner' = [owner EXCEPT ![n] = w] /\ creations' = creations
      /\ UNCHANGED <<page, active, items, whose, error, load, pagesHistory, switches,
                     troubles>>
  BY DEF OtherCreates
<1>2. /\ owner' \in [Item -> Workspace \cup {0}]
      /\ owner[n] = 0 /\ n \notin mine /\ items[n] = 0
      /\ UsedInv' /\ ListInv' /\ LoadInv'
  BY <1>1, StoredNext
<1>3. PagesTypeOK'
  BY <1>0, <1>1, <1>2 DEF PagesTypeOK, pagesHistory
<1>4. ASSUME NEW c \in creations PROVE CreationInv(c)'
  <2>1. CreationInv(c) /\ c.ws # 0
    BY <1>0, ClientsAssumption DEF PagesInv, PagesTypeOK
  <2>2. c.at = "stored" => owner'[c.item] = owner[c.item]
    BY <1>0, <1>1, <1>2, <2>1 DEF CreationInv, PagesTypeOK
  <2>3. QED
    BY <1>1, <2>1, <2>2 DEF CreationInv, pagesHistory, Loading
<1>5. QED
  BY <1>1, <1>2, <1>3, <1>4 DEF PagesInv

LEMMA CreateAnsweredStep ==
  ASSUME PagesInv, NEW c \in creations, CreateAnswered(c)
  PROVE  PagesInv'
<1>0. PagesTypeOK /\ LoadInv /\ UsedInv /\ ListInv /\ CreationInv(c)
  BY DEF PagesInv
<1>1. /\ c.at = "stored" /\ items' = PutOnTop(c.item)
      /\ creations' = creations \ {c} /\ mine' = mine \cup {c.item}
      /\ crossed' = (crossed \/ c.ws # whose)
      /\ overlapped' = (overlapped \/ c.overlap)
      /\ UNCHANGED <<page, active, whose, error, load, owner, switches, troubles>>
  BY DEF CreateAnswered
<1>2. /\ c.item \in Item /\ owner[c.item] = c.ws /\ c.ws # 0 /\ c.ws \in Workspace
      /\ c.item \notin mine /\ items[c.item] <= 1 /\ page.creates = "sent"
  BY <1>0, <1>1, ClientsAssumption DEF CreationInv, PagesTypeOK
<1>3. Kept = {} /\ Kept' = {}
  BY <1>1, <1>2 DEF Kept
<1>4. /\ items' \in [Item -> 0..2]
      /\ \A n \in Item : items'[n] = IF n = c.item THEN IF page.replaces THEN 1 ELSE items[n] + 1
                                     ELSE IF page.replaces THEN 0 ELSE items[n]
  <2>1. CASE page.replaces
    BY <1>1, <1>2, <1>3, <2>1, ListOfIs DEF PutOnTop
  <2>2. CASE ~page.replaces
    BY <1>0, <1>1, <1>2, <2>2 DEF PutOnTop, PagesTypeOK
  <2>3. QED
    BY <2>1, <2>2
<1>5. PagesTypeOK'
  <2>1. overlapped' \in BOOLEAN /\ crossed' \in BOOLEAN
    BY <1>0, <1>1 DEF PagesTypeOK
  <2>2. QED
    BY <1>0, <1>1, <1>2, <1>4, <2>1 DEF PagesTypeOK
<1>6. LoadInv'
  BY <1>0, <1>1 DEF LoadInv, Loading
<1>7. c.item \in Used /\ Used' = Used
  BY <1>1, <1>2 DEF Used
<1>8. UsedInv'
  BY <1>0, <1>1, <1>2, <1>4, <1>7 DEF UsedInv
<1>9. ListInv'
  <2>0. ~Loading' /\ ~error' => whose' = active'
    BY <1>0, <1>1 DEF ListInv, Loading
  <2> SUFFICES ASSUME ~crossed, c.ws = whose PROVE ListInv'
    BY <1>1, <2>0 DEF ListInv
  <2>1. \A n \in Item : items'[n] > 0 => whose # 0 /\ owner[n] = whose
    BY <1>0, <1>2, <1>3, <1>4 DEF ListInv, PagesTypeOK
  <2>2. ASSUME ~overlapped, ~c.overlap, NEW n \in mine', n \in Listed(whose)
        PROVE  items'[n] = 1
    <3>1. n \in Item /\ owner[n] = whose
      BY <2>2 DEF Listed, Newest, Held
    <3>2. CASE n = c.item
      BY <1>0, <1>1, <1>2, <1>4, <2>2, <3>2 DEF CreationInv
    <3>3. CASE n # c.item /\ ~page.replaces
      BY <1>0, <1>1, <1>4, <2>2, <3>1, <3>3 DEF ListInv
    <3>4. CASE n # c.item /\ page.replaces
      <4>1. n < c.item
        BY <1>0, <1>1, <2>2, <3>4 DEF CreationInv
      <4>2. c.item <= n
        BY <1>2, <2>2, <3>4 DEF Listed, Newest, Held
      <4>3. QED
        BY <1>2, <3>1, <4>1, <4>2 DEF Item
    <3>5. QED
      BY <3>2, <3>3, <3>4
  <2>3. Listed(whose)' = Listed(whose)
    BY <1>1 DEF Listed, Newest, Held
  <2>4. QED
    BY <1>1, <1>3, <2>0, <2>1, <2>2, <2>3 DEF ListInv
<1>10. ASSUME NEW d \in creations \ {c} PROVE CreationInv(d)'
  <2>1. CreationInv(d) /\ ~page.once
    BY <1>0 DEF PagesInv, CreationInv
  <2>2. ~page.replaces
    BY <1>0, <2>1, PageKinds
  <2>3. d.at = "stored" => d.item # c.item /\ items'[d.item] = items[d.item]
    BY <1>1, <1>4, <2>1, <2>2 DEF CreationInv
  <2>4. QED
    BY <1>1, <2>1, <2>2, <2>3 DEF CreationInv, Loading
<1>11. QED
  BY <1>1, <1>5, <1>6, <1>8, <1>9, <1>10 DEF PagesInv

LEMMA PageShows == \A p \in Pages : p.shows \in BOOLEAN
<1>1. /\ TeamsPage.shows \in BOOLEAN /\ TasksPage.shows \in BOOLEAN
      /\ ProjectsPage.shows \in BOOLEAN /\ WorkspaceSsoSettings.shows \in BOOLEAN
  BY DEF TeamsPage, TasksPage, ProjectsPage, WorkspaceSsoSettings
<1>2. CallsPage.shows \in BOOLEAN /\ CalendarPage.shows \in BOOLEAN
  BY DEF CallsPage, CalendarPage, ProjectsPage
<1>3. QED
  BY <1>1, <1>2 DEF Pages

LEMMA CreateFailsStep ==
  ASSUME PagesInv, NEW c \in creations, CreateFails(c)
  PROVE  PagesInv'
<1>0. PagesTypeOK /\ LoadInv /\ UsedInv /\ ListInv
  BY DEF PagesInv
<1>1. /\ troubles < MaxTroubles /\ troubles' = troubles + 1
      /\ creations' = creations \ {c} /\ error' = (error \/ page.shows)
      /\ UNCHANGED <<page, active, items, whose, load, owner, mine, crossed, overlapped,
                     switches>>
  BY DEF CreateFails, pagesHistory
<1>2. PagesTypeOK'
  <2>1. page.shows \in BOOLEAN
    BY <1>0, PageShows DEF PagesTypeOK
  <2>2. error' \in BOOLEAN /\ troubles' \in 0..MaxTroubles
    BY <1>0, <1>1, <2>1, ClientsAssumption DEF PagesTypeOK
  <2>3. QED
    BY <1>0, <1>1, <2>2 DEF PagesTypeOK
<1>3. LoadInv' /\ UsedInv' /\ ListInv'
  BY <1>0, <1>1
  DEF LoadInv, UsedInv, ListInv, Loading, Used, Kept, Listed, Newest, Held
<1>4. ASSUME NEW d \in creations' PROVE CreationInv(d)'
  BY <1>1, <1>4 DEF PagesInv, CreationInv, Loading
<1>5. QED
  BY <1>2, <1>3, <1>4 DEF PagesInv

LEMMA PagesStep ==
  ASSUME PagesInv, PagesNext \/ UNCHANGED pagesVars
  PROVE  PagesInv'
<1>1. CASE UNCHANGED pagesVars
  <2>1. PagesTypeOK' /\ LoadInv' /\ UsedInv' /\ ListInv'
    BY <1>1 DEF pagesVars, PagesInv, PagesTypeOK, LoadInv, UsedInv, ListInv, Loading,
       Used,
                Kept, Listed, Newest, Held
  <2>2. \A c \in creations' : CreationInv(c)'
    BY <1>1 DEF pagesVars, PagesInv, CreationInv, Loading
  <2>3. QED
    BY <2>1, <2>2 DEF PagesInv
<1>2. QED
  BY <1>1, StartLoadStep, LoadStep, CreateStep, KeepStep, CreateHandledStep,
     OtherCreatesStep, CreateAnsweredStep, CreateFailsStep
  DEF PagesNext

LEMMA PagesInitially == Init => PagesInv
<1> SUFFICES ASSUME Init PROVE PagesInv
  OBVIOUS
<1>1. /\ page \in Pages /\ items = NoItems /\ whose = 0 /\ error = FALSE /\ creations = {}
      /\ owner = NoItems /\ mine = {} /\ crossed = FALSE /\ overlapped = FALSE
      /\ switches = 0 /\ troubles = 0
  BY DEF Init, PagesInit, ClosedPages, NoItems, Pages
<1>2. \/ active \in Workspace /\ load = [at |-> "sent", ws |-> active, got |-> {}, overlap |-> FALSE]
      \/ active = 0 /\ load = NoLoad
  BY ClientsAssumption DEF Init, PagesInit, ClosedPages
<1>3. PagesTypeOK
  <2>1. NoItems \in [Item -> 0..2] /\ NoItems \in [Item -> Workspace \cup {0}]
    BY DEF NoItems
  <2>2. switches \in 0..MaxSwitches /\ troubles \in 0..MaxTroubles
    BY <1>1, ClientsAssumption
  <2>3. active \in Workspace \cup {0}
    BY <1>2
  <2>4. load \in [at : {"no", "sent", "read"}, ws : Workspace \cup {0},
                  got : SUBSET Item, overlap : BOOLEAN]
    <3>1. CASE load = NoLoad
      BY <3>1 DEF NoLoad
    <3>2. CASE /\ active \in Workspace
               /\ load = [at |-> "sent", ws |-> active, got |-> {}, overlap |-> FALSE]
      <4>1. {} \in SUBSET Item /\ FALSE \in BOOLEAN
        OBVIOUS
      <4>2. QED
        BY <3>2, <4>1
    <3>3. QED
      BY <1>2, <3>1, <3>2
  <2>5. QED
    BY <1>1, <2>1, <2>2, <2>3, <2>4 DEF PagesTypeOK
<1>4. LoadInv /\ UsedInv /\ ListInv
  BY <1>1, <1>2, ClientsAssumption
  DEF LoadInv, UsedInv, ListInv, Loading, NoItems, NoLoad, Used
<1>5. QED
  BY <1>1, <1>3, <1>4 DEF PagesInv

LEMMA PagesInvariant == Spec => []PagesInv
<1>1. PagesInv /\ [Next]_clientVars => PagesInv'
  BY PagesStep DEF Next, clientVars
<1>2. QED
  BY <1>1, PagesInitially, PTL DEF Spec

\* The pages' state is well-formed: no item is ever in a list more than twice.
THEOREM PagesTyped == Spec => []PagesTypeOK
BY PagesInvariant, PTL DEF PagesInv

\* What a page renders is of one workspace, beside a spinner or an error too, and of the
\* active one where it shows neither, whatever the order of switches, loads and answers,
\* unless an item was created for another workspace than the list's.
THEOREM ListsAreOfOwnWorkspace == Spec => []OwnWorkspaceOnly
<1>1. PagesInv => OwnWorkspaceOnly
  <2> SUFFICES ASSUME PagesInv PROVE OwnWorkspaceOnly
    OBVIOUS
  <2>1. View = "list" => ~Loading /\ ~error
    BY DEF View
  <2>2. QED
    BY <2>1 DEF PagesInv, ListInv, OwnWorkspaceOnly
<1>2. QED
  BY <1>1, PagesInvariant, PTL

\* What a page has created is once in the list of its workspace, whatever was answered
\* in between and whether or not the page loads or shows an error, unless a load
\* overlapped the creation.
THEOREM CreationsAreShownOnce == Spec => []CreatedShownOnce
<1>1. PagesInv => CreatedShownOnce
  BY DEF PagesInv, ListInv, CreatedShownOnce
<1>2. QED
  BY <1>1, PagesInvariant, PTL

=============================================================================
