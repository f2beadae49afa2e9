---------------------------- MODULE SessionProofs ----------------------------
(***************************************************************************)
(* Proofs about the login session of the portal.                           *)
(***************************************************************************)
EXTENDS Session, TLAPS

(***************************************************************************)
(* Types                                                                   *)
(***************************************************************************)
\* What restoreSession leaves, up to its first await.
LEMMA RestoreTyped ==
  ASSUME SessionTypeOK, Restore
  PROVE  /\ account' \in Logins \union {0} /\ restoring' \in Logins \union {0}
         /\ since' \in Nat \union {Never} /\ restoreStart' \in Nat \union {Never}
         /\ countdown' \in Nat \union {NoCountdown, Cleared}
         /\ isAuthenticated' \in BOOLEAN
<1>1. now \in Nat /\ start \in Nat \union {Never} /\ {token, refresh} \subseteq Logins \union {0}
  BY DEF SessionTypeOK
<1>2. CASE Resumed /\ restoring' = 0
  BY <1>1, <1>2 DEF Restore, Resumed
<1>3. CASE ResetRedux /\ restoring' \in {refresh, 0}
  BY <1>1, <1>3 DEF Restore, ResetRedux
<1> QED BY <1>2, <1>3 DEF Restore

\* What a page load does to the authorization request.
LEMMA ExchangeTyped ==
  ASSUME SessionTypeOK, NEW c \in Logins \union {0}, IF c = 0 THEN OpenPage ELSE StartExchange(c)
  PROVE  /\ pkce' \in Logins \union {0} /\ code' \in Logins \union {0} /\ exchanging' \in Logins \union {0}
         /\ page' \in {"app", "callback", "away"}
         /\ exchanges' \in [Logins -> Nat]
BY DEF OpenPage, StartExchange, SessionTypeOK, Logins

\* A page load keeps the types.
LEMMA LoadTyped ==
  ASSUME SessionTypeOK, NEW c \in Logins \union {0}, Load(c)
  PROVE  SessionTypeOK'
<1>1. /\ account' \in Logins \union {0} /\ restoring' \in Logins \union {0}
      /\ since' \in Nat \union {Never} /\ restoreStart' \in Nat \union {Never}
      /\ countdown' \in Nat \union {NoCountdown, Cleared}
      /\ isAuthenticated' \in BOOLEAN
  BY RestoreTyped DEF Load
<1>2. /\ pkce' \in Logins \union {0} /\ code' \in Logins \union {0} /\ exchanging' \in Logins \union {0}
      /\ page' \in {"app", "callback", "away"}
      /\ exchanges' \in [Logins -> Nat]
  BY ExchangeTyped DEF Load
<1>3. /\ leaving' = FALSE /\ checked' = FALSE /\ UNCHANGED <<now, signIns>>
      /\ UNCHANGED <<token, tokenExp, tokenUntil, refresh, start, signedIn, signedInAt>>
  BY DEF Load, storage, signing
<1> QED BY <1>1, <1>2, <1>3 DEF SessionTypeOK

\* What a login that is stored looks like.
LEMMA SetTokenTyped ==
  ASSUME SessionTypeOK, NEW login \in Logins \union {0}, SetToken(login)
  PROVE  /\ {token', refresh'} \subseteq Logins \union {0}
         /\ {tokenExp', tokenUntil'} \subseteq Nat
BY SessionTimes DEF SetToken, SessionTypeOK

\* An interrupted countdown is still one.
LEMMA InterruptedTyped ==
  ASSUME SessionTypeOK
  PROVE  Interrupted \in Nat \union {NoCountdown, Cleared}
BY DEF Interrupted, SessionTypeOK

\* What the fulfilled reducers leave.
LEMMA AuthenticatedTyped ==
  ASSUME SessionTypeOK, NEW login \in Logins \union {0}, NEW from \in Nat, Authenticated(login, from)
  PROVE  /\ account' \in Logins \union {0} /\ since' \in Nat \union {Never}
         /\ countdown' \in Nat \union {NoCountdown, Cleared}
         /\ {isAuthenticated', checked'} \subseteq BOOLEAN
BY InterruptedTyped DEF Authenticated, SessionTypeOK

\* An authorization request has a number of its own.
LEMMA NextLogin ==
  ASSUME SessionTypeOK, signIns < MaxSignIns
  PROVE  signIns + 1 \in Logins /\ signIns \in Nat
<1>1. signIns \in Logins \union {0} /\ MaxSignIns \in Nat
  BY SessionTimes DEF SessionTypeOK
<1>2. signIns \in 0 .. MaxSignIns
  BY <1>1 DEF Logins
<1> QED BY <1>1, <1>2 DEF Logins

\* What a logout leaves.
LEMMA LoggedOutTyped ==
  ASSUME SessionTypeOK, LoggedOut
  PROVE  /\ {token', refresh', account'} \subseteq Logins \union {0}
         /\ {tokenExp', tokenUntil'} \subseteq Nat /\ signedInAt' \in Nat
         /\ {start', since'} \subseteq Nat \union {Never}
         /\ {isAuthenticated', signedIn'} \subseteq BOOLEAN
<1>1. signedInAt' \in Nat /\ isAuthenticated' = FALSE /\ signedIn' = FALSE
  BY DEF LoggedOut, SessionTypeOK
<1>2. /\ token' = 0 /\ refresh' = 0 /\ account' = 0 /\ tokenExp' = 0 /\ tokenUntil' = 0
      /\ start' = Never /\ since' = Never
  BY DEF LoggedOut, ClearStorage
<1>3. {isAuthenticated', signedIn'} \subseteq BOOLEAN
  BY <1>1
<1>4. {token', refresh', account'} \subseteq Logins \union {0} /\ {tokenExp', tokenUntil'} \subseteq Nat
  BY <1>2
<1>5. {start', since'} \subseteq Nat \union {Never}
  BY <1>2
<1> QED BY <1>1, <1>3, <1>4, <1>5

\* The initial state has the types.
LEMMA SessionStartTyped == SessionInit => SessionTypeOK
<1> SUFFICES ASSUME SessionInit PROVE SessionTypeOK
  OBVIOUS
<1>1. now = 0 /\ 0 \in 0 .. MaxTime
  BY SessionTimes DEF SessionInit
<1>2. {leaving, isAuthenticated, checked, signedIn} \subseteq BOOLEAN
  BY DEF SessionInit
<1>3. exchanges \in [Logins -> Nat]
  BY DEF SessionInit
<1> QED BY <1>1, <1>2, <1>3 DEF SessionInit, SessionTypeOK

\* Every step keeps the types.
LEMMA SessionStepTyped == SessionTypeOK /\ [SessionNext]_sessionVars => SessionTypeOK'
<1> SUFFICES ASSUME SessionTypeOK, [SessionNext]_sessionVars PROVE SessionTypeOK'
  OBVIOUS
<1> USE DEF storage, redux, awaited, place, signing
<1>1. CASE Reload \/ Return
  <2>1. PICK c \in Logins \union {0} : Load(c)
    BY <1>1 DEF Reload, Return, SessionTypeOK
  <2> QED BY <2>1, LoadTyped
<1>2. CASE Unload
  BY <1>2 DEF Unload, ResetRedux, SessionTypeOK, NoCountdown, Never
<1>3. CASE SignIn
  <2>1. signIns + 1 \in Logins
    BY <1>3, NextLogin DEF SignIn
  <2> QED BY <1>3, <2>1 DEF SignIn, SessionTypeOK
<1>4. CASE Logout
  <2>1. LoggedOut /\ countdown' = NoCountdown /\ code' = 0 /\ leaving' = TRUE
    BY <1>4 DEF Logout
  <2>2. UNCHANGED <<now, pkce, page, restoring, restoreStart, exchanging, checked, signIns, exchanges>>
    BY <1>4 DEF Logout
  <2> QED BY <2>1, <2>2, LoggedOutTyped DEF SessionTypeOK
<1>5. CASE Monitor
  <2>1. countdown' \in Nat \union {NoCountdown, Cleared}
    <3>1. countdown' \in {NoCountdown, countdown - 1, CountdownStart, countdown} /\ (countdown' = countdown - 1 => countdown > 1 \/ countdown' \in {NoCountdown, CountdownStart, countdown})
      BY <1>5 DEF Monitor
    <3>2. countdown \in Nat \union {NoCountdown, Cleared} /\ CountdownStart \in Nat
      BY SessionTimes DEF SessionTypeOK
    <3> QED BY <3>1, <3>2 DEF NoCountdown, Cleared
  <2>2. CASE LoggedOut
    <3>1. UNCHANGED <<now, pkce, page, code, leaving, restoring, restoreStart, exchanging, signIns, exchanges>> /\ checked' = TRUE
      BY <1>5 DEF Monitor
    <3> QED BY <2>1, <2>2, <3>1, LoggedOutTyped DEF SessionTypeOK
  <2>3. CASE UNCHANGED <<isAuthenticated, account, since, storage, signing>>
    BY <1>5, <2>1, <2>3 DEF Monitor, SessionTypeOK
  <2> QED BY <1>5, <2>2, <2>3 DEF Monitor
<1>6. CASE SessionTick
  <2>1. now' \in 0 .. MaxTime /\ checked' = FALSE
    BY <1>6, SessionTimes DEF SessionTick, SessionTypeOK
  <2> QED BY <1>6, <2>1 DEF SessionTick, SessionTypeOK
<1>7. CASE ExchangeDone
  <2>1. now \in Nat /\ exchanging \in Logins \union {0}
    BY DEF SessionTypeOK
  <2>2. SetToken(exchanging) /\ Authenticated(exchanging, now)
    BY <1>7 DEF ExchangeDone
  <2> QED BY <1>7, <2>1, <2>2, SetTokenTyped, AuthenticatedTyped DEF ExchangeDone, SessionTypeOK
<1>8. CASE ExchangeFails
  BY <1>8, InterruptedTyped DEF ExchangeFails, SessionTypeOK
<1>12. CASE Navigate
  BY <1>12, InterruptedTyped DEF Navigate, SessionTypeOK
<1>9. CASE RefreshDone
  <2>1. PICK from \in Nat : Authenticated(restoring, from)
    BY <1>9 DEF RefreshDone, SessionTypeOK, Never
  <2>2. SetToken(restoring) /\ restoring \in Logins \union {0}
    BY <1>9 DEF RefreshDone, SessionTypeOK
  <2> QED BY <1>9, <2>1, <2>2, SetTokenTyped, AuthenticatedTyped DEF RefreshDone, SessionTypeOK, Never
<1>10. CASE RefreshFails
  BY <1>10 DEF RefreshFails, ClearStorage, SessionTypeOK, Never
<1>11. CASE UNCHANGED sessionVars
  BY <1>11 DEF sessionVars, SessionTypeOK
<1> QED
  BY <1>1, <1>2, <1>3, <1>4, <1>5, <1>6, <1>7, <1>8, <1>9, <1>10, <1>11, <1>12 DEF SessionNext

\* Every variable of the session keeps its type.
THEOREM SessionTyped == SessionSpec => []SessionTypeOK
<1> QED BY SessionStartTyped, SessionStepTyped, PTL DEF SessionSpec

(***************************************************************************)
(* Codes                                                                   *)
(***************************************************************************)
\* The verifier in the storage is that of a code nobody has sent, and so are the
\* verifiers to come.
CodeInv ==
  /\ SessionTypeOK
  /\ pkce # 0 => exchanges[pkce] = 0
  /\ \A c \in Logins : exchanges[c] <= 1 /\ (c > signIns => exchanges[c] = 0)
  /\ pkce <= signIns

\* Only a page load sends a code, and takes the verifier out of the storage first.
LEMMA LoadSendsOnce ==
  ASSUME CodeInv, NEW c \in Logins \union {0}, Load(c)
  PROVE  CodeInv'
<1>1. SessionTypeOK'
  BY LoadTyped DEF CodeInv
<1>2. signIns' = signIns
  BY DEF Load
<1>3. CASE c = 0
  BY <1>1, <1>2, <1>3 DEF Load, OpenPage, CodeInv
<1>4. CASE c # 0 /\ c = pkce
  <2>1. pkce' = 0 /\ exchanges' = [exchanges EXCEPT ![c] = @ + 1] /\ exchanges[c] = 0 /\ c <= signIns
    BY <1>4 DEF Load, StartExchange, CodeInv
  <2> QED BY <1>1, <1>2, <1>4, <2>1 DEF CodeInv, SessionTypeOK, Logins
<1>5. CASE c # 0 /\ c # pkce
  <2>1. pkce' = 0 /\ exchanges' = exchanges
    BY <1>5 DEF Load, StartExchange
  <2> QED BY <1>1, <1>2, <2>1 DEF CodeInv, SessionTypeOK, Logins
<1> QED BY <1>3, <1>4, <1>5

\* Every step keeps the verifiers unused.
LEMMA CodeStep == CodeInv /\ [SessionNext]_sessionVars => CodeInv'
<1> SUFFICES ASSUME CodeInv, [SessionNext]_sessionVars PROVE CodeInv'
  OBVIOUS
<1>1. SessionTypeOK'
  BY SessionStepTyped DEF CodeInv
<1>2. CASE Reload \/ Return
  <2>1. PICK c \in Logins \union {0} : Load(c)
    BY <1>2 DEF Reload, Return, CodeInv, SessionTypeOK
  <2> QED BY <2>1, LoadSendsOnce
<1>3. CASE SignIn
  <2>1. signIns + 1 \in Logins /\ signIns \in Nat
    BY <1>3, NextLogin DEF SignIn, CodeInv
  <2>0. pkce' = signIns + 1 /\ signIns' = signIns + 1 /\ exchanges' = exchanges
    BY <1>3 DEF SignIn
  <2>2. exchanges'[signIns + 1] = 0
    BY <2>0, <2>1 DEF CodeInv
  <2>3. \A c \in Logins : exchanges'[c] <= 1 /\ (c > signIns' => exchanges'[c] = 0)
    BY <2>0, <2>1 DEF CodeInv, Logins
  <2> QED BY <1>1, <2>0, <2>1, <2>2, <2>3 DEF CodeInv
<1>4. CASE UNCHANGED <<pkce, signIns, exchanges>>
  BY <1>1, <1>4 DEF CodeInv
<1>5. Reload \/ Return \/ SignIn \/ UNCHANGED <<pkce, signIns, exchanges>>
  BY DEF SessionNext, Unload, Logout, Navigate, Monitor, SessionTick, ExchangeDone, ExchangeFails,
     RefreshDone, RefreshFails, sessionVars
<1> QED BY <1>2, <1>3, <1>4, <1>5

\* Each authorization code is sent to Keycloak at most once, whatever is reloaded
\* while it is exchanged (authUtils.ts:91-105).
THEOREM CodeSentOnceAlways == SessionSpec => []CodeSentOnce
<1>1. SessionInit => CodeInv
  <2> SUFFICES ASSUME SessionInit PROVE CodeInv
    OBVIOUS
  <2>1. pkce = 0 /\ signIns = 0 /\ \A c \in Logins : exchanges[c] = 0
    BY DEF SessionInit
  <2> QED BY <2>1, SessionStartTyped DEF CodeInv
<1>2. CodeInv => CodeSentOnce
  BY DEF CodeInv, CodeSentOnce
<1> QED BY <1>1, <1>2, CodeStep, PTL DEF SessionSpec

(***************************************************************************)
(* The end of a session                                                    *)
(***************************************************************************)
\* The stored start is the last login's, and whom the monitor has let pass is
\* signed in for no longer than a session.
EndInv ==
  /\ SessionTypeOK
  /\ start # Never => signedIn /\ start = signedInAt
  /\ isAuthenticated /\ checked => signedIn /\ now - signedInAt <= SessionDuration

\* Every step keeps it: a refresh leaves the start alone, and only the monitor
\* lets pass.
LEMMA EndStep == EndInv /\ [SessionNext]_sessionVars => EndInv'
<1> SUFFICES ASSUME EndInv, [SessionNext]_sessionVars PROVE EndInv'
  OBVIOUS
<1>0. SessionTypeOK /\ SessionTypeOK'
  BY SessionStepTyped DEF EndInv
<1> USE <1>0 DEF EndInv, storage, redux, signing
<1>1. CASE Reload \/ Return
  BY <1>1 DEF Reload, Return, Load
<1>2. CASE Unload
  BY <1>2 DEF Unload, ResetRedux
<1>3. CASE Logout
  BY <1>3 DEF Logout, LoggedOut, ClearStorage
<1>4. CASE Monitor
  <2>1. CASE LoggedOut
    BY <1>4, <2>1 DEF LoggedOut, ClearStorage
  <2>2. CASE ~Expired /\ UNCHANGED <<isAuthenticated, account, since, storage, signing>>
    <3>1. start # Never /\ ~(now - start > SessionDuration)
      BY <2>2 DEF Expired
    <3>2. now - start <= SessionDuration
      BY <3>1, SessionTimes DEF SessionTypeOK
    <3>3. now' = now
      BY <1>4 DEF Monitor
    <3> QED BY <2>2, <3>1, <3>2, <3>3
  <2> QED BY <1>4, <2>1, <2>2 DEF Monitor
<1>5. CASE SignIn \/ Navigate \/ SessionTick \/ ExchangeFails
  BY <1>5 DEF SignIn, Navigate, SessionTick, ExchangeFails
<1>6. CASE ExchangeDone
  BY <1>6 DEF ExchangeDone, Authenticated
<1>7. CASE RefreshDone
  BY <1>7 DEF RefreshDone, Authenticated
<1>8. CASE RefreshFails
  BY <1>8 DEF RefreshFails, ClearStorage
<1>9. CASE UNCHANGED sessionVars
  BY <1>9 DEF sessionVars
<1> QED BY <1>1, <1>2, <1>3, <1>4, <1>5, <1>6, <1>7, <1>8, <1>9 DEF SessionNext

\* No tab outlives a check of the monitor after its user has logged out or a
\* session's time after the last login, for any durations and any race of logins,
\* restores and refreshes (useSessionMonitor.ts:103-128).
THEOREM EndsWithSessionAlways == SessionSpec => EndsWithSession
<1>1. SessionInit => EndInv
  BY SessionStartTyped DEF SessionInit, EndInv
<1>2. EndInv /\ [SessionNext]_sessionVars =>
        [now' # now /\ isAuthenticated => signedIn /\ now - signedInAt <= SessionDuration]_sessionVars
  <2> SUFFICES ASSUME EndInv, SessionNext, now' # now, isAuthenticated
               PROVE  signedIn /\ now - signedInAt <= SessionDuration
    OBVIOUS
  <2>1. SessionTick
    BY DEF SessionNext, Reload, Return, Load, Unload, SignIn, Logout, Navigate, Monitor, ExchangeDone, ExchangeFails,
       RefreshDone, RefreshFails
  <2> QED BY <2>1 DEF SessionTick, EndInv
<1> QED BY <1>1, <1>2, EndStep, PTL DEF SessionSpec, EndsWithSession
=============================================================================
