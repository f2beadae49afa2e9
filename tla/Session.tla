------------------------------ MODULE Session ------------------------------
(***************************************************************************)
(* The login session of one browser tab of the portal (src/frontend): the  *)
(* PKCE round trip over Keycloak (authUtils.ts, Login.tsx, Callback.tsx),  *)
(* the restore of a stored session at every page load (authSlice.ts,       *)
(* AppProvider.tsx), and the monitor that ends it (useSessionMonitor.ts).  *)
(*                                                                         *)
(* sessionStorage outlives a page load, the Redux state and the calls      *)
(* under way do not.  A login is known by the number of its authorization  *)
(* request, whose state, verifier and code carry the same number; 0 is no  *)
(* login.  Time is counted in ticks of the monitor's interval.             *)
(***************************************************************************)
EXTENDS Integers

CONSTANTS
  SessionDuration,  \* of a session, and of a stored token
  TokenLife,        \* the exp claim of an access token
  CountdownStart,   \* the last ticks, counted down for the user
  MaxSignIns,       \* authorization requests
  MaxTime           \* ticks

ASSUME SessionTimes ==
  /\ {SessionDuration, TokenLife, CountdownStart, MaxSignIns, MaxTime} \subseteq Nat \ {0}
  /\ CountdownStart < SessionDuration

VARIABLES
  now,
  token, tokenExp, tokenUntil,  \* sessionStorage: the access token's login, its
                                \* exp claim, and setToken's expiresAt
  refresh,                      \* sessionStorage: the refresh token's login
  start,                        \* sessionStorage: session_start_time, or Never
  pkce,                         \* sessionStorage: pkce_state and pkce_code_verifier
  page, code, leaving,          \* where the tab is, the code its URL asks for or
                                \* holds, and is it being navigated away?
  isAuthenticated, account, since, countdown,   \* Redux, and the monitor's ref
  restoring, restoreStart,      \* the restore that waits for a refresh
  exchanging,                   \* the code being exchanged
  checked,                      \* has the monitor's interval come round in this tick?
  signIns,                      \* authorization requests so far
  exchanges,                    \* history: how often each code has been sent
  signedIn, signedInAt          \* history: the last login, until its logout

storage == <<token, tokenExp, tokenUntil, refresh, start>>
redux == <<isAuthenticated, account, since, countdown>>
awaited == <<restoring, restoreStart, exchanging>>
place == <<page, code, leaving>>
signing == <<signedIn, signedInAt>>
sessionVars == <<now, storage, pkce, place, redux, awaited, checked, signIns, exchanges, signing>>

Never == -1
NoCountdown == -1
Cleared == -2    \* the interval is gone, its ref is not
Logins == 1 .. MaxSignIns

SessionInit ==
  /\ now = 0 /\ token = 0 /\ tokenExp = 0 /\ tokenUntil = 0 /\ refresh = 0 /\ start = Never
  /\ pkce = 0 /\ page = "app" /\ code = 0 /\ leaving = FALSE
  /\ isAuthenticated = FALSE /\ account = 0 /\ since = Never /\ countdown = NoCountdown
  /\ restoring = 0 /\ restoreStart = Never /\ exchanging = 0
  /\ checked = TRUE /\ signIns = 0 /\ exchanges = [c \in Logins |-> 0]
  /\ signedIn = FALSE /\ signedInAt = 0

SetToken(login) ==
  /\ token' = login
  /\ tokenExp' = now + TokenLife
  /\ tokenUntil' = now + SessionDuration
  /\ refresh' = login

ClearStorage ==
  /\ token' = 0 /\ tokenExp' = 0 /\ tokenUntil' = 0 /\ refresh' = 0 /\ start' = Never

\* The monitor's effect gets a new callback with a new sessionStartTime, and with a
\* new page, since navigate is another function there: its cleanup clears a
\* countdown's interval but leaves the ref set.
Interrupted == IF isAuthenticated /\ countdown >= 0 THEN Cleared ELSE countdown

\* The fulfilled reducers.
Authenticated(login, from) ==
  /\ isAuthenticated' = TRUE /\ account' = login /\ since' = from
  /\ countdown' = IF from # since THEN Interrupted ELSE countdown
  /\ checked' = FALSE

ResetRedux ==
  /\ isAuthenticated' = FALSE /\ account' = 0 /\ since' = Never /\ countdown' = NoCountdown

(***************************************************************************)
(* A page load                                                             *)
(***************************************************************************)
\* A load with a stored token that is good for use.
Resumed ==
  /\ isAuthenticated' = TRUE /\ account' = token
  /\ since' = IF start = Never THEN now ELSE start
  /\ countdown' = NoCountdown

\* restoreSession up to its first await: a stored token is used, refreshed or
\* ignored.
Restore ==
  /\ restoreStart' = start
  /\ \/ /\ token # 0 /\ now < tokenUntil /\ tokenExp >= now
        /\ Resumed /\ restoring' = 0
     \/ /\ token # 0 /\ now < tokenUntil /\ tokenExp < now /\ refresh # 0
        /\ ResetRedux /\ restoring' = refresh
     \/ /\ token = 0 \/ now >= tokenUntil \/ (tokenExp < now /\ refresh = 0)
        /\ ResetRedux /\ restoring' = 0

\* completePkceLogin up to its first await: state and verifier are taken out of the
\* storage before they are compared.
StartExchange(c) ==
  /\ pkce' = 0
  /\ IF c = pkce
     THEN exchanging' = c /\ exchanges' = [exchanges EXCEPT ![c] = @ + 1] /\ page' = "callback"
     ELSE exchanging' = 0 /\ page' = "app" /\ UNCHANGED exchanges
  /\ code' = IF c = pkce THEN c ELSE 0

OpenPage ==
  /\ page' = "app" /\ code' = 0 /\ exchanging' = 0 /\ UNCHANGED <<pkce, exchanges>>

\* Effects run from the leaves up: Callback's before AppProvider's.
Load(c) ==
  /\ IF c = 0 THEN OpenPage ELSE StartExchange(c)
  /\ Restore
  /\ leaving' = FALSE /\ checked' = FALSE
  /\ UNCHANGED <<now, storage, signIns, signing>>

Reload == page # "away" /\ ~leaving /\ Load(IF page = "callback" THEN code ELSE 0)

\* Keycloak sends the browser back, with a code if it was asked for one and the
\* user signed in.
Return == page = "away" /\ \E c \in {0, code} : Load(c)

Unload ==
  /\ leaving
  /\ page' = "away" /\ leaving' = FALSE
  /\ restoring' = 0 /\ restoreStart' = Never /\ exchanging' = 0
  /\ ResetRedux
  /\ UNCHANGED <<now, storage, pkce, code, checked, signIns, exchanges, signing>>

(***************************************************************************)
(* Signing in and out                                                      *)
(***************************************************************************)
\* startPkceLogin: a new verifier and state, and the browser leaves for Keycloak.
SignIn ==
  /\ page = "app" /\ ~isAuthenticated /\ ~leaving /\ signIns < MaxSignIns
  /\ signIns' = signIns + 1
  /\ pkce' = signIns + 1 /\ code' = signIns + 1 /\ leaving' = TRUE
  /\ UNCHANGED <<now, storage, page, redux, awaited, checked, exchanges, signing>>

ExchangeDone ==
  /\ exchanging # 0
  /\ SetToken(exchanging) /\ start' = now
  /\ Authenticated(exchanging, now)
  /\ exchanging' = 0 /\ page' = "app" /\ code' = 0
  /\ signedIn' = TRUE /\ signedInAt' = now
  /\ UNCHANGED <<now, pkce, leaving, restoring, restoreStart, signIns, exchanges>>

ExchangeFails ==
  /\ exchanging # 0
  /\ exchanging' = 0 /\ page' = "app" /\ code' = 0
  /\ countdown' = Interrupted
  /\ UNCHANGED <<now, storage, pkce, leaving, isAuthenticated, account, since>>
  /\ UNCHANGED <<restoring, restoreStart, checked, signIns, exchanges, signing>>

\* refreshAuthToken stores what it gets, whatever has been stored or removed since;
\* the session keeps the start that was read before.
RefreshDone ==
  /\ restoring # 0
  /\ SetToken(restoring)
  /\ Authenticated(restoring, IF restoreStart = Never THEN now ELSE restoreStart)
  /\ restoring' = 0 /\ restoreStart' = Never
  /\ UNCHANGED <<now, start, pkce, place, exchanging, signIns, exchanges, signing>>

\* The catch of restoreSession clears the storage, whoever has filled it; the
\* rejected reducer leaves the session alone.
RefreshFails ==
  /\ restoring # 0
  /\ ClearStorage
  /\ restoring' = 0 /\ restoreStart' = Never
  /\ UNCHANGED <<now, pkce, place, redux, exchanging, checked, signIns, exchanges, signing>>

LoggedOut ==
  /\ isAuthenticated' = FALSE /\ account' = 0 /\ since' = Never
  /\ ClearStorage
  /\ signedIn' = FALSE
  /\ UNCHANGED signedInAt

\* UserCircle: logout, and on to Keycloak's logout endpoint.
Logout ==
  /\ isAuthenticated /\ page = "app" /\ ~leaving
  /\ LoggedOut /\ countdown' = NoCountdown
  /\ code' = 0 /\ leaving' = TRUE
  /\ UNCHANGED <<now, pkce, page, awaited, checked, signIns, exchanges>>

(***************************************************************************)
(* The monitor                                                             *)
(***************************************************************************)
Expired == start = Never \/ now - start > SessionDuration
Remaining == IF now - since > SessionDuration THEN 0 ELSE SessionDuration - (now - since)

\* Mutant: a session without a stored start is not taken for expired.
MonitorIgnoresMissingStart ==
  /\ isAuthenticated /\ ~checked
  /\ checked' = TRUE
  /\ IF start # Never /\ Expired THEN LoggedOut /\ countdown' = NoCountdown
     ELSE UNCHANGED <<isAuthenticated, account, since, countdown, storage, signing>>
  /\ UNCHANGED <<now, pkce, place, awaited, signIns, exchanges>>

\* checkSession and the interval of the countdown, once a tick.
Monitor ==
  /\ isAuthenticated /\ ~checked
  /\ checked' = TRUE
  /\ \/ /\ Expired \/ countdown = 1
        /\ LoggedOut /\ countdown' = NoCountdown
     \/ /\ ~Expired /\ countdown # 1
        /\ countdown' = IF countdown > 1 THEN countdown - 1
                        ELSE IF countdown = NoCountdown /\ Remaining <= CountdownStart
                             THEN CountdownStart ELSE countdown
        /\ UNCHANGED <<isAuthenticated, account, since, storage, signing>>
  /\ UNCHANGED <<now, pkce, place, awaited, signIns, exchanges>>

\* The user goes from one page of the portal to another.
Navigate ==
  /\ page = "app" /\ ~leaving
  /\ countdown' = Interrupted
  /\ UNCHANGED <<now, storage, pkce, place, isAuthenticated, account, since>>
  /\ UNCHANGED <<awaited, checked, signIns, exchanges, signing>>

SessionTick ==
  /\ now < MaxTime /\ (isAuthenticated => checked)
  /\ now' = now + 1
  /\ checked' = FALSE
  /\ UNCHANGED <<storage, pkce, place, redux, awaited, signIns, exchanges, signing>>

SessionNext ==
  \/ Reload \/ Return \/ Unload \/ SignIn \/ Logout \/ Navigate \/ Monitor \/ SessionTick
  \/ ExchangeDone \/ ExchangeFails \/ RefreshDone \/ RefreshFails

SessionSpec == SessionInit /\ [][SessionNext]_sessionVars

(***************************************************************************)
(* Properties                                                              *)
(***************************************************************************)
\* Every variable has its type.
SessionTypeOK ==
  /\ now \in 0 .. MaxTime
  /\ {token, refresh, pkce, code, account, restoring, exchanging, signIns} \subseteq Logins \union {0}
  /\ {tokenExp, tokenUntil} \subseteq Nat
  /\ {start, since, restoreStart} \subseteq Nat \union {Never}
  /\ countdown \in Nat \union {NoCountdown, Cleared}
  /\ page \in {"app", "callback", "away"}
  /\ {leaving, isAuthenticated, checked, signedIn} \subseteq BOOLEAN
  /\ exchanges \in [Logins -> Nat]
  /\ signedInAt \in Nat

\* Whatever is reloaded, restored, refreshed or raced, no check of the monitor leaves
\* a tab signed in whose user has logged out, or whose last login is older than a
\* session (useSessionMonitor.ts:103-113; a refresh does not prolong it).
EndsWithSession ==
  [][now' # now /\ isAuthenticated => signedIn /\ now - signedInAt <= SessionDuration]_sessionVars

\* A code is sent to Keycloak once, by whoever holds the verifier of its own
\* authorization request: codes are single-use (Callback.tsx:17-21).
CodeSentOnce == \A c \in Logins : exchanges[c] <= 1
=============================================================================
