----------------------------- MODULE PortalProofs -----------------------------
(***************************************************************************)
(* Proofs about the portal's conversion monitor (Channel), its conversion  *)
(* flow (Conversion), its lists (Lists), and the feed of transactions it   *)
(* pages through (Feed).                                                   *)
(***************************************************************************)
EXTENDS Channel, Conversion, Feed, Lists, FiniteSetTheorems, TLAPS

(***************************************************************************)
(* Channel                                                                 *)
(***************************************************************************)
ChannelInv == ChannelTypeOK /\ OneSocket

\* connect() leaves one socket, the new one.
LEMMA ConnectKeeps ==
  ASSUME ChannelInv, NEW new \in Sockets, NEW retry \in BOOLEAN, Connect(new, retry)
  PROVE  /\ socketState' \in [Sockets -> SocketStates] /\ isRetry' \in [Sockets -> BOOLEAN]
         /\ socket' \in Sockets \union {NoOne}
         /\ OneSocket'
<1>1. /\ socketState' \in [Sockets -> SocketStates] /\ isRetry' \in [Sockets -> BOOLEAN]
      /\ socket' \in Sockets \union {NoOne}
  BY DEF ChannelInv, ChannelTypeOK, Connect, ClosedByScript, SocketStates
<1>2. ASSUME NEW s \in Sockets, socketState'[s] \in {"connecting", "open"}
      PROVE  s = socket'
  <2> SUFFICES ASSUME s # new PROVE FALSE
    BY DEF Connect
  <2>1. CASE s = socket
    BY <1>2, <2>1 DEF Connect, ClosedByScript, ChannelInv, ChannelTypeOK
  <2>2. CASE s # socket
    BY <1>2, <2>2 DEF Connect, ChannelInv, OneSocket, Live, ChannelTypeOK
  <2> QED BY <2>1, <2>2
<1> QED BY <1>1, <1>2 DEF OneSocket, Live

\* disconnect() leaves none.
LEMMA DisconnectKeeps ==
  ASSUME ChannelInv, Disconnect
  PROVE  /\ socketState' \in [Sockets -> SocketStates] /\ isRetry' \in [Sockets -> BOOLEAN]
         /\ socket' \in Sockets \union {NoOne}
         /\ reconnectTimer' \in {"none", "armed", "fired"} /\ orphans' \in Nat
         /\ reconnectAttempts' \in 0 .. MaxAttempts
         /\ OneSocket'
<1>1. ASSUME NEW s \in Sockets PROVE socketState'[s] \notin {"connecting", "open"}
  <2>1. CASE s = socket
    BY <2>1 DEF Disconnect, ClosedByScript, ChannelInv, ChannelTypeOK
  <2>2. CASE s # socket
    BY <2>2 DEF Disconnect, ChannelInv, OneSocket, Live, ChannelTypeOK
  <2> QED BY <2>1, <2>2
<1>2. OneSocket'
  BY <1>1 DEF OneSocket, Live
<1> QED BY <1>2, ChannelBounds DEF Disconnect, ClosedByScript, ChannelInv, ChannelTypeOK, SocketStates

\* A socket that is freed is no longer held.
LEMMA FreedKeeps ==
  ASSUME ChannelInv, NEW s \in Sockets, Freed(s)
  PROVE  /\ socketState' \in [Sockets -> SocketStates] /\ isRetry' \in [Sockets -> BOOLEAN]
         /\ socket' \in Sockets \union {NoOne}
         /\ OneSocket'
<1>1. /\ socketState' \in [Sockets -> SocketStates] /\ isRetry' \in [Sockets -> BOOLEAN]
      /\ socket' \in Sockets \union {NoOne}
  BY DEF ChannelInv, ChannelTypeOK, Freed, SocketStates
<1>2. ASSUME NEW o \in Sockets, socketState'[o] \in {"connecting", "open"}
      PROVE  o = socket'
  <2>1. o # s /\ o = socket
    BY <1>2 DEF Freed, ChannelInv, ChannelTypeOK, OneSocket, Live
  <2> QED BY <2>1 DEF Freed
<1> QED BY <1>1, <1>2 DEF OneSocket, Live

\* The attempts stay within their limit.
LEMMA AttemptKeeps ==
  ASSUME ChannelInv, NEW t \in {"none", "armed", "fired"}, AttemptReconnect(t)
  PROVE  reconnectTimer' \in {"none", "armed", "fired"} /\ reconnectAttempts' \in 0 .. MaxAttempts
BY ChannelBounds DEF ChannelInv, ChannelTypeOK, AttemptReconnect

\* The initial state satisfies the invariant.
LEMMA ChannelStart == ChannelInit => ChannelInv
BY ChannelBounds DEF ChannelInit, ChannelInv, ChannelTypeOK, OneSocket, Live, SocketStates

\* The invariant is inductive.
LEMMA ChannelStep == ChannelInv /\ [ChannelNext]_channelVars => ChannelInv'
<1> SUFFICES ASSUME ChannelInv, [ChannelNext]_channelVars PROVE ChannelInv'
  OBVIOUS
<1>1. ASSUME NEW s \in Sockets, Opens(s) PROVE ChannelInv'
  <2>1. ChannelTypeOK'
    BY <1>1, ChannelBounds DEF Opens, Settled, Orphaned, ChannelInv, ChannelTypeOK, SocketStates
  <2>2. OneSocket'
    BY <1>1 DEF Opens, ChannelInv, ChannelTypeOK, OneSocket, Live
  <2> QED BY <2>1, <2>2 DEF ChannelInv
<1>2. ASSUME NEW s \in Sockets, FailsToOpen(s) PROVE ChannelInv'
  <2>1. Settled(s) \in {"none", "armed", "fired"} /\ AttemptReconnect(Settled(s)) /\ Freed(s)
    BY <1>2 DEF FailsToOpen, Settled, ChannelInv, ChannelTypeOK
  <2>2. reconnectTimer' \in {"none", "armed", "fired"} /\ reconnectAttempts' \in 0 .. MaxAttempts
    BY <2>1, AttemptKeeps
  <2>3. orphans' \in Nat
    BY <1>2 DEF FailsToOpen, Orphaned, ChannelInv, ChannelTypeOK
  <2> QED BY <1>2, <2>1, <2>2, <2>3, FreedKeeps DEF FailsToOpen, ChannelInv, ChannelTypeOK
<1>3. ASSUME NEW s \in Sockets, Closes(s) PROVE ChannelInv'
  <2>1. reconnectTimer \in {"none", "armed", "fired"} /\ AttemptReconnect(reconnectTimer) /\ Freed(s)
    BY <1>3 DEF Closes, ChannelInv, ChannelTypeOK
  <2>2. reconnectTimer' \in {"none", "armed", "fired"} /\ reconnectAttempts' \in 0 .. MaxAttempts
    BY <2>1, AttemptKeeps
  <2> QED BY <1>3, <2>1, <2>2, FreedKeeps DEF Closes, ChannelInv, ChannelTypeOK
<1>4. ASSUME NEW s \in Sockets, TimerFires(s) PROVE ChannelInv'
  <2>1. Connect(s, TRUE)
    BY <1>4 DEF TimerFires
  <2>2. reconnectTimer' \in {"none", "armed", "fired"} /\ orphans' \in Nat
    BY <1>4 DEF TimerFires, ChannelInv, ChannelTypeOK
  <2>3. UNCHANGED <<reconnectAttempts, active, ending, up, setups, outages>>
    BY <1>4 DEF TimerFires
  <2> QED BY <2>1, <2>2, <2>3, ConnectKeeps DEF ChannelInv, ChannelTypeOK
<1>5. ASSUME NEW tx \in Monitored, Setup(tx) PROVE ChannelInv'
  <2>1. setups' \in Nat /\ active' \in Monitored \union {NoOne}
    BY <1>5 DEF Setup, ChannelInv, ChannelTypeOK
  <2>2. CASE UNCHANGED service
    BY <1>5, <2>1, <2>2 DEF Setup, service, ChannelInv, ChannelTypeOK, OneSocket, Live
  <2>3. CASE /\ \E new \in Sockets : Connect(new, FALSE)
             /\ UNCHANGED <<reconnectTimer, orphans, reconnectAttempts>>
    BY <1>5, <2>1, <2>3, ConnectKeeps DEF Setup, ChannelInv, ChannelTypeOK
  <2> QED BY <1>5, <2>2, <2>3 DEF Setup
<1>6. CASE Cleanup
  BY <1>6, DisconnectKeeps DEF Cleanup, ChannelInv, ChannelTypeOK
<1>7. CASE LastUpdate
  BY <1>7 DEF LastUpdate, service, ChannelInv, ChannelTypeOK, OneSocket, Live
<1>8. CASE AutoDisconnect
  <2>1. CASE Disconnect /\ active' = NoOne
    BY <1>8, <2>1, DisconnectKeeps DEF AutoDisconnect, ChannelInv, ChannelTypeOK
  <2>2. CASE UNCHANGED <<service, active>>
    BY <1>8, <2>2 DEF AutoDisconnect, service, ChannelInv, ChannelTypeOK, OneSocket, Live
  <2> QED BY <1>8, <2>1, <2>2 DEF AutoDisconnect
<1>9. CASE GoesDown \/ ComesUp
  <2>0. up' \in BOOLEAN
    BY <1>9 DEF GoesDown, ComesUp
  <2>1. outages' \in Nat
    <3>1. outages \in Nat /\ (outages' = outages \/ (outages > 0 /\ outages' = outages - 1))
      BY <1>9 DEF GoesDown, ComesUp, ChannelInv, ChannelTypeOK
    <3> QED BY <3>1
  <2>2. UNCHANGED <<service, active, ending, setups>>
    BY <1>9 DEF GoesDown, ComesUp
  <2> QED BY <2>0, <2>1, <2>2 DEF service, ChannelInv, ChannelTypeOK, OneSocket, Live
<1>10. CASE UNCHANGED channelVars
  BY <1>10 DEF channelVars, service, ChannelInv, ChannelTypeOK, OneSocket, Live
<1> QED
  BY <1>1, <1>2, <1>3, <1>4, <1>5, <1>6, <1>7, <1>8, <1>9, <1>10 DEF ChannelNext, ServiceStep

\* Every variable of the monitor's channel keeps its type: the attempts never pass
\* their limit.
THEOREM ChannelTyped == ChannelSpec => []ChannelTypeOK
<1>1. ChannelInv => ChannelTypeOK
  BY DEF ChannelInv
<1> QED BY <1>1, ChannelStart, ChannelStep, PTL DEF ChannelSpec

\* The service never has two sockets open or opening (websocketService.ts:29-80).
THEOREM OneSocketAlways == ChannelSpec => []OneSocket
<1>1. ChannelInv => OneSocket
  BY DEF ChannelInv
<1> QED BY <1>1, ChannelStart, ChannelStep, PTL DEF ChannelSpec

(***************************************************************************)
(* Conversion                                                              *)
(***************************************************************************)
\* One confirmation at a time, its flag set for as long, and none beside a
\* transaction on display; the quote page shows no transaction.
ConversionInv ==
  /\ ConversionTypeOK
  /\ loadingConfirmation = (confirming # {})
  /\ \A c, d \in confirming : c = d
  /\ confirming # {} => currentTransaction = 0
  /\ screen = "quote" => currentTransaction = 0

\* What an effect on the inputs leaves: typed, and the confirmations alone.
LEMMA AskTyped ==
  ASSUME NEW i \in Inputs, NEW quote \in QuoteIds \union {0}, ConversionTypeOK, InputsChange(i, quote)
  PROVE  /\ entered' \in Inputs /\ inputError' \in BOOLEAN
         /\ currentQuote' \in QuoteIds \union {0}
         /\ loadingQuote' \in BOOLEAN
         /\ asking' \subseteq [no : QuoteIds, input : Inputs]
         /\ quotesAsked' \in 0 .. MaxQuotes
<1>1. CASE kycStatus /\ i \in WithinLimits /\ quoteCache[i] = 0
  <2>1. quotesAsked < MaxQuotes /\ quotesAsked' = quotesAsked + 1
    BY <1>1 DEF InputsChange, AskQuote
  <2>2. quotesAsked + 1 \in QuoteIds
    BY <2>1, ConversionBounds DEF ConversionTypeOK, QuoteIds
  <2>3. asking' = asking \union {[no |-> quotesAsked + 1, input |-> i]}
    BY <1>1 DEF InputsChange, AskQuote
  <2> QED BY <1>1, <2>1, <2>2, <2>3, ConversionBounds DEF InputsChange, AskQuote, ConversionTypeOK, QuoteIds
<1>2. CASE kycStatus /\ i \in WithinLimits /\ quoteCache[i] # 0
  BY <1>2 DEF InputsChange, AskQuote, ConversionTypeOK
<1>3. CASE ~(kycStatus /\ i \in WithinLimits)
  BY <1>3 DEF InputsChange, ConversionTypeOK
<1> QED BY <1>1, <1>2, <1>3

\* The initial state satisfies the invariant.
LEMMA ConversionStart == ConversionInit => ConversionInv
<1> SUFFICES ASSUME ConversionInit PROVE ConversionInv
  OBVIOUS
<1>1. 0 \in 0 .. MaxQuotes /\ 0 \in 0 .. MaxConfirmations
  BY ConversionBounds
<1>2. ConversionTypeOK
  BY <1>1, ConversionBounds DEF ConversionInit, ConversionTypeOK, Screens
<1>3. loadingConfirmation = FALSE /\ confirming = {} /\ currentTransaction = 0
  BY DEF ConversionInit
<1> QED BY <1>2, <1>3 DEF ConversionInv

\* The invariant is inductive.
LEMMA ConversionStep == ConversionInv /\ [ConversionNext]_conversionVars => ConversionInv'
<1> SUFFICES ASSUME ConversionInv, [ConversionNext]_conversionVars
             PROVE  ConversionInv'
  OBVIOUS
<1> USE ConversionBounds DEF ConversionInv, form, kept, underWay
<1>1. CASE LoadPortal
  BY <1>1 DEF LoadPortal, ConversionTypeOK, Screens
<1>2. CASE OpenConvert
  <2>1. (IF screen = "confirm" THEN 0 ELSE currentQuote) \in QuoteIds \union {0}
    BY DEF ConversionTypeOK
  <2>2. PICK quote \in QuoteIds \union {0} : InputsChange(FirstInput, quote)
    BY <1>2, <2>1 DEF OpenConvert
  <2>3. ConversionTypeOK'
    BY <1>2, <2>2, AskTyped DEF OpenConvert, ConversionTypeOK, Screens
  <2> QED BY <1>2, <2>3 DEF OpenConvert
<1>3. CASE KYCAnswered
  BY <1>3 DEF KYCAnswered, ConversionTypeOK
<1>4. CASE CardExpires
  BY <1>4 DEF CardExpires, ConversionTypeOK
<1>5. CASE Continue
  BY <1>5 DEF Continue, OpenQuote, ConversionTypeOK, Screens
<1>6. CASE Validate
  BY <1>6 DEF Validate, ConversionTypeOK
<1>7. CASE Redirect
  <2>1. CASE screen = "convert"
    BY <1>7, <2>1 DEF Redirect, ConversionTypeOK
  <2>2. CASE screen # "convert"
    <3>1. (IF screen = "confirm" THEN 0 ELSE currentQuote) \in QuoteIds \union {0}
      BY DEF ConversionTypeOK
    <3>2. PICK quote \in QuoteIds \union {0} : InputsChange(FirstInput, quote)
      BY <1>7, <2>2, <3>1 DEF Redirect
    <3>3. ConversionTypeOK'
      BY <1>7, <2>2, <3>2, AskTyped DEF Redirect, ConversionTypeOK, Screens
    <3> QED BY <1>7, <2>2, <3>3 DEF Redirect
  <2> QED BY <2>1, <2>2
<1>8. CASE Confirm
  <2>1. confirming = {} /\ currentTransaction = 0
    BY <1>8 DEF Confirm
  <2>2. confirmationsSent + 1 \in TransactionIds /\ confirmationsSent' \in 0 .. MaxConfirmations
    BY <1>8 DEF Confirm, ConversionTypeOK, TransactionIds
  <2> QED BY <1>8, <2>1, <2>2 DEF Confirm, ConfirmPending, ConversionTypeOK
<1>9. ASSUME NEW i \in Inputs, Enter(i) PROVE ConversionInv'
  <2>1. currentQuote \in QuoteIds \union {0} /\ InputsChange(i, currentQuote)
    BY <1>9 DEF ConversionTypeOK, Enter
  <2>2. ConversionTypeOK'
    BY <1>9, <2>1, AskTyped DEF Enter, ConversionTypeOK
  <2> QED BY <1>9, <2>2 DEF Enter
<1>10. ASSUME NEW i \in Inputs, CacheLapses(i) PROVE ConversionInv'
  BY <1>10 DEF CacheLapses, ConversionTypeOK
<1>11. ASSUME NEW q \in QuoteIds, QuoteExpires(q) PROVE ConversionInv'
  BY <1>11 DEF QuoteExpires, ConversionTypeOK
<1>12. ASSUME NEW q \in QuoteIds, GoBack(q) PROVE ConversionInv'
  BY <1>12 DEF GoBack, OpenQuote, ConversionTypeOK, Screens
<1>13. ASSUME NEW c \in asking, QuoteAnswered(c) PROVE ConversionInv'
  <2>1. c.no \in QuoteIds /\ c.input \in Inputs
    BY DEF ConversionTypeOK
  <2> QED BY <1>13, <2>1 DEF QuoteAnswered, ConversionTypeOK
<1>14. ASSUME NEW c \in confirming, ConfirmAnswered(c) PROVE ConversionInv'
  <2>1. confirming' = {} /\ c \in TransactionIds
    BY <1>14 DEF ConfirmAnswered, ConversionTypeOK
  <2> QED BY <1>14, <2>1 DEF ConfirmAnswered, ConversionTypeOK, Screens
<1>15. ASSUME NEW to \in Screens, Leave(to) PROVE ConversionInv'
  BY <1>15 DEF Leave, ConversionTypeOK
<1>16. CASE UNCHANGED conversionVars
  BY <1>16 DEF conversionVars, ConversionTypeOK
<1> QED
  BY <1>1, <1>2, <1>3, <1>4, <1>5, <1>6, <1>7, <1>8, <1>9, <1>10, <1>11, <1>12, <1>13, <1>14, <1>15, <1>16 DEF ConversionNext

\* Whatever is asked, answered, confirmed and left, the flow keeps its invariant:
\* at most one confirmation is under way.
THEOREM ConversionInvariance == ConversionSpec => []ConversionInv
<1> QED BY ConversionStart, ConversionStep, PTL DEF ConversionSpec

\* Every variable of the conversion flow keeps its type.
THEOREM ConversionTyped == ConversionSpec => []ConversionTypeOK
<1>1. ConversionInv => ConversionTypeOK
  BY DEF ConversionInv
<1> QED BY <1>1, ConversionInvariance, PTL

\* No confirmation replaces the transaction that is on display (ConvertQuote.tsx,
\* confirmConversion's reducers).
THEOREM NeverReplacedAlways == ConversionSpec => NeverReplaced
<1>1. ConversionInv /\ [ConversionNext]_conversionVars =>
        [currentTransaction # 0 => currentTransaction' \in {currentTransaction, 0}]_conversionVars
  <2> SUFFICES ASSUME ConversionInv, ConversionNext, currentTransaction # 0
               PROVE  currentTransaction' \in {currentTransaction, 0}
    OBVIOUS
  <2>1. confirming = {}
    BY DEF ConversionInv
  <2> QED
    BY <2>1 DEF ConversionNext, LoadPortal, OpenConvert, KYCAnswered, CardExpires, Continue, Validate,
       Redirect, Confirm, Enter, CacheLapses, QuoteExpires, GoBack, OpenQuote, QuoteAnswered, Leave, kept
<1> QED BY <1>1, ConversionInvariance, PTL DEF ConversionSpec, NeverReplaced
(***************************************************************************)
(* Lists                                                                   *)
(***************************************************************************)
\* A call keeps its thunk, and with it the flag it will take away.
LEMMA SameSpinner ==
  ASSUME NEW c, NEW progress, NEW answer, NEW late
  PROVE  Spins(AsOf(c, progress, answer, late)) = Spins(c)
BY DEF Spins, AsOf

\* Calls that are marked as late are still there.
LEMMA OutdatedCalls ==
  ASSUME NEW lists, NEW d \in pending
  PROVE  \E e \in Outdated(lists) : Spins(e) = Spins(d)
<1> DEFINE e == AsOf(d, d.stage, d.answer,
                  d.late \/ (d.stage = "served" /\ d.thunk.kind = "fetch" /\ d.thunk.list \in lists))
<1>1. e \in Outdated(lists)
  BY DEF Outdated
<1>2. Spins(e) = Spins(d)
  BY SameSpinner
<1> QED BY <1>1, <1>2

\* So are the calls that have not been answered, when one is.
LEMMA SeenCalls ==
  ASSUME NEW c, NEW d \in pending, d # c
  PROVE  \E e \in SeenBy(c) : Spins(e) = Spins(d)
<1> DEFINE e == AsOf(d, d.stage, d.answer,
                  d.late \/ (c.thunk.kind = "fetch" /\ d.thunk.kind = "add"
                             /\ d.thunk.list = c.thunk.list /\ d.stage = "served"))
<1>1. e \in SeenBy(c)
  BY DEF SeenBy
<1>2. Spins(e) = Spins(d)
  BY SameSpinner
<1> QED BY <1>1, <1>2

\* Every step leaves a call for each flag that is set.
LEMMA SpinnerStep == SpinnerStops /\ [ListsNext]_listVars => SpinnerStops'
<1> SUFFICES ASSUME SpinnerStops, [ListsNext]_listVars, NEW s \in spinning'
             PROVE  \E c \in pending' : s \in Spins(c)
  BY DEF SpinnerStops, Spins
<1>0. s \in spinning => \E d \in pending : s \in Spins(d)
  BY DEF SpinnerStops
<1>1. ASSUME NEW t \in DOMAIN Thunks, NEW i \in ItemIds \union {0}, Start(t, i)
      PROVE  \E c \in pending' : s \in Spins(c)
  <2> DEFINE new == Call(calls + 1, t, i)
  <2>1. pending' = pending \union {new} /\ spinning' = spinning \union Spins(new)
    BY <1>1 DEF Start
  <2> QED BY <1>0, <2>1
<1>2. ASSUME NEW c \in pending, Serve(c)
      PROVE  \E e \in pending' : s \in Spins(e)
  <2>1. PICK d \in pending : s \in Spins(d)
    BY <1>0, <1>2 DEF Serve
  <2>2. PICK answer, lists : \/ pending' = (pending \ {c}) \union {Served(c, answer)}
                             \/ pending' = (Outdated(lists) \ {c}) \union {Served(c, answer)}
    BY <1>2 DEF Serve, Read, Write
  <2>3. Spins(Served(c, answer)) = Spins(c) /\ Served(c, answer) \in pending'
    BY <2>2, SameSpinner DEF Served
  <2>4. CASE d = c
    BY <2>1, <2>3, <2>4
  <2>5. CASE d # c /\ pending' = (pending \ {c}) \union {Served(c, answer)}
    BY <2>1, <2>5
  <2>6. CASE d # c /\ pending' = (Outdated(lists) \ {c}) \union {Served(c, answer)}
    <3>1. PICK e \in Outdated(lists) : Spins(e) = Spins(d)
      BY OutdatedCalls
    <3>2. CASE e = c
      BY <2>1, <2>3, <3>1, <3>2
    <3>3. CASE e # c
      BY <2>1, <2>6, <3>1, <3>3
    <3> QED BY <3>2, <3>3
  <2> QED BY <2>2, <2>4, <2>5, <2>6
<1>3. ASSUME NEW c \in pending, Answer(c)
      PROVE  \E e \in pending' : s \in Spins(e)
  <2>1. pending' = SeenBy(c) \union FollowUps(c)
    BY <1>3 DEF Answer
  <2>2. CASE s \in UNION {Spins(d) : d \in FollowUps(c)}
    BY <2>1, <2>2
  <2>3. CASE s \in spinning \ Spins(c)
    <3>1. PICK d \in pending : s \in Spins(d)
      BY <1>0, <2>3
    <3>2. PICK e \in SeenBy(c) : Spins(e) = Spins(d)
      BY <2>3, <3>1, SeenCalls
    <3> QED BY <2>1, <3>1, <3>2
  <2> QED BY <1>3, <2>2, <2>3 DEF Answer
<1>4. ASSUME NEW c \in pending, CallFails(c)
      PROVE  \E e \in pending' : s \in Spins(e)
  <2>1. s \in spinning /\ s \notin Spins(c) /\ pending' = pending \ {c}
    BY <1>4 DEF CallFails
  <2> QED BY <1>0, <2>1
<1>5. ASSUME NEW l \in Lists, OthersChange(l)
      PROVE  \E e \in pending' : s \in Spins(e)
  <2>1. PICK d \in pending : s \in Spins(d)
    BY <1>0, <1>5 DEF OthersChange
  <2>2. PICK e \in Outdated({l}) : Spins(e) = Spins(d)
    BY OutdatedCalls
  <2> QED BY <1>5, <2>1, <2>2 DEF OthersChange
<1>6. CASE UNCHANGED listVars
  BY <1>0, <1>6 DEF listVars
<1> QED BY <1>1, <1>2, <1>3, <1>4, <1>5, <1>6 DEF ListsNext

\* However calls overlap and fail, no slice is left with a flag that no call will
\* take away.
THEOREM SpinnerStopsAlways == ListsSpec => []SpinnerStops
<1>1. ListsInit => SpinnerStops
  BY DEF ListsInit, SpinnerStops
<1> QED BY <1>1, SpinnerStep, PTL DEF ListsSpec

\* A form starts two fetches, anything else none.
LEMMA FollowUpsCounted ==
  ASSUME NEW c
  PROVE  Cardinality(FollowUps(c)) \in Nat
<1>1. CASE c.thunk.kind = "move"
  <2> DEFINE x == Call(calls + 1, "fetchWallets", 1)
             y == Call(calls + 2, "fetchWalletStatement", 1)
  <2>1. IsFiniteSet({x}) /\ IsFiniteSet({x} \union {y})
    BY FS_Singleton, FS_AddElement
  <2>2. {x} \union {y} = {x, y}
    OBVIOUS
  <2>3. FollowUps(c) = {x, y}
    BY <1>1 DEF FollowUps
  <2> HIDE DEF x, y
  <2> QED BY <2>1, <2>2, <2>3, FS_CardinalityType
<1>2. CASE c.thunk.kind # "move"
  BY <1>2, FS_EmptySet DEF FollowUps
<1> QED BY <1>1, <1>2

\* One item stored anew leaves the table of its kind.
LEMMA ChangedTyped ==
  ASSUME stored \in [Lists -> [ItemIds -> Nat \union {Gone}]],
         NEW l, NEW i, NEW version \in Nat \union {Gone}, Changed(l, i, version)
  PROVE  stored' \in [Lists -> [ItemIds -> Nat \union {Gone}]]
BY DEF Changed

\* Every step keeps the types.
LEMMA ListsTypeStep ==
  ASSUME ListsTypeOK, [ListsNext]_listVars
  PROVE  ListsTypeOK'
<1> USE DEF ListsTypeOK
<1>0. slice' = slice /\ Lists' = Lists
  BY DEF ListsNext, Start, Serve, Answer, CallFails, OthersChange, listVars, Lists, ListsOf
<1>1. ASSUME NEW t \in DOMAIN Thunks, NEW i \in ItemIds \union {0}, Start(t, i)
      PROVE  ListsTypeOK'
  BY <1>0, <1>1 DEF Start
<1>2. ASSUME NEW c \in pending, Serve(c)
      PROVE  ListsTypeOK'
  <2>1. stored' \in [Lists -> [ItemIds -> Nat \union {Gone}]]
    <3>1. CASE Read(c)
      BY <3>1 DEF Read
    <3>2. CASE Write(c)
      <4>1. ASSUME NEW l, NEW i, NEW version \in {1, Gone}, Changed(l, i, version)
            PROVE  stored' \in [Lists -> [ItemIds -> Nat \union {Gone}]]
        BY <4>1, ChangedTyped
      <4>2. CASE stored' = [l \in Lists |-> [stored[l] EXCEPT ![c.item] = @ + 1]]
        <5>1. ASSUME NEW l \in Lists
              PROVE  [stored[l] EXCEPT ![c.item] = @ + 1] \in [ItemIds -> Nat \union {Gone}]
          <6>1. c.item \in ItemIds => stored[l][c.item] + 1 \in Nat \union {Gone}
            BY DEF Gone
          <6> QED BY <6>1
        <5> QED BY <4>2, <5>1
      <4> QED BY <3>2, <4>1, <4>2 DEF Write
    <3> QED BY <1>2, <3>1, <3>2 DEF Serve
  <2> QED BY <1>0, <1>2, <2>1 DEF Serve
<1>3. ASSUME NEW c \in pending, Answer(c)
      PROVE  ListsTypeOK'
  <2>1. calls' \in Nat /\ others' \in Nat
    BY <1>3, FollowUpsCounted DEF Answer
  <2>2. settled' \in [Lists -> BOOLEAN]
    BY <1>3 DEF Answer
  <2>3. stored' = stored /\ DOMAIN listed' = Lists
    BY <1>3 DEF Answer
  <2> QED BY <1>0, <2>1, <2>2, <2>3
<1>4. ASSUME NEW c \in pending, CallFails(c)
      PROVE  ListsTypeOK'
  <2>1. settled' \in [Lists -> BOOLEAN]
    BY <1>4 DEF CallFails
  <2> QED BY <1>0, <1>4, <2>1 DEF CallFails
<1>5. ASSUME NEW l \in Lists, OthersChange(l)
      PROVE  ListsTypeOK'
  <2>1. stored' \in [Lists -> [ItemIds -> Nat \union {Gone}]]
    <3>1. stored[l][1] + 1 \in Nat \union {Gone}
      BY <1>5, ListsBounds DEF OthersChange, Gone
    <3>2. Changed(l, 1, stored[l][1] + 1)
      BY <1>5 DEF OthersChange
    <3> QED BY <3>1, <3>2, ChangedTyped
  <2>2. settled' \in [Lists -> BOOLEAN]
    BY <1>5 DEF OthersChange
  <2>3. DOMAIN listed' = Lists /\ calls' \in Nat
    BY <1>5 DEF OthersChange
  <2>4. others' \in Nat
    BY <1>5 DEF OthersChange
  <2> QED BY <1>0, <2>1, <2>2, <2>3, <2>4
<1>6. CASE UNCHANGED listVars
  BY <1>0, <1>6 DEF listVars
<1> QED BY <1>1, <1>2, <1>3, <1>4, <1>5, <1>6 DEF ListsNext

\* The lists, the tables of the server and the counters keep their types.
THEOREM ListsTyped == ListsSpec => []ListsTypeOK
<1>1. ListsInit => ListsTypeOK
  BY ListsBounds DEF ListsInit, ListsTypeOK, Gone
<1>2. ListsTypeOK /\ [ListsNext]_listVars => ListsTypeOK'
  BY ListsTypeStep
<1> QED BY <1>1, <1>2, PTL DEF ListsSpec

(***************************************************************************)
(* Lists: the invariant behind ShownIsStored.  A list differs from what is *)
(* stored by the writes that are served and not answered, unless a fetch   *)
(* or a change of somebody else came between.                              *)
(***************************************************************************)
Entry == (ItemIds \union {0}) \X (Nat \union {Gone})
Ids(list) == {list[n][1] : n \in DOMAIN list}
Distinct(list) == \A m, n \in DOMAIN list : list[m][1] = list[n][1] => m = n

\* Ids that exist, or did, or stand for made-up data.
Made(l) == {i \in ItemIds : stored[l][i] # 0} \union {0}

CallsSound == \A c \in pending :
  /\ c = AsOf(c, c.stage, c.answer, c.late)
  /\ c.thunk \in {Thunks[t] : t \in DOMAIN Thunks} /\ c.stage \in {"sent", "served"}
  /\ c.late \in BOOLEAN /\ (c.late => c.stage = "served")
  /\ IF c.thunk.kind = "remove" THEN c.item \in Made(c.thunk.list) ELSE c.item = 1

\* What a fetch read is as the server has it until something changes.
FetchesSound == \A c \in pending :
  c.thunk.kind = "fetch" /\ c.stage = "served" =>
    /\ c.answer \in Seq(Entry) /\ Ids(c.answer) \subseteq Made(c.thunk.list)
    /\ ~c.late => c.answer = Listing(c.thunk.list)

\* Only bank accounts are removed; the first item was there from the start.
StoreSound(l) ==
  /\ IsFiniteSet(Held(l)) /\ stored[l][1] # 0
  /\ slice # "bankAccounts" => \A i \in ItemIds : stored[l][i] # Gone

ScreenSound(l) == listed[l] \in Seq(Entry) /\ Ids(listed[l]) \subseteq Made(l)

Adding(l) == {c \in pending : c.thunk.kind = "add" /\ c.thunk.list = l /\ c.stage = "served"}
Removing(l) == {c \in pending : c.thunk.kind = "remove" /\ c.thunk.list = l}
Moved(l) == \E c \in pending : c.thunk.kind = "move" /\ c.stage = "served" /\ l \in Touches(c.thunk)

\* A registration no fetch has seen is not on the screen, so nobody unlinks it.
AddsSound(l) ==
  /\ \A c \in Adding(l) : /\ c.answer[1] \in ItemIds \ {1} /\ c.answer = <<c.answer[1], 1>>
                          /\ stored[l][c.answer[1]] # 0
  /\ \A c, d \in Adding(l) : c.answer[1] = d.answer[1] => c = d
  /\ \A c \in Adding(l) : ~c.late =>
       /\ stored[l][c.answer[1]] = 1 /\ c.answer[1] \notin Ids(listed[l])
       /\ \A d \in Removing(l) : d.item # c.answer[1]

RemovesSound(l) == \A c \in Removing(l) :
  c.stage = "served" => c.item \in ItemIds /\ stored[l][c.item] = Gone

\* A settled list differs from what is stored by the writes whose answers are out.
ListSound(l) ==
  /\ Distinct(listed[l])
  /\ \A n \in DOMAIN listed[l] :
       \/ \E i \in Held(l) : listed[l][n] = <<i, stored[l][i]>>
       \/ \E c \in Removing(l) : c.stage = "served" /\ c.item = listed[l][n][1]
  /\ \A i \in Held(l) :
       \/ \E n \in DOMAIN listed[l] : listed[l][n] = <<i, stored[l][i]>>
       \/ \E c \in Adding(l) : ~c.late /\ c.answer[1] = i

ItemsSound(l) ==
  /\ StoreSound(l) /\ ScreenSound(l) /\ AddsSound(l) /\ RemovesSound(l)
  /\ settled[l] /\ ~Moved(l) => ListSound(l)

ListsInv == ListsTypeOK /\ CallsSound /\ FetchesSound /\ \A l \in Lists : ItemsSound(l)

\* The elements of a finite set of numbers are its first, its second, ...
LEMMA NthIs ==
  ASSUME NEW S, IsFiniteSet(S), S \subseteq Int
  PROVE  /\ Cardinality(S) \in Nat
         /\ \A n \in 1..Cardinality(S) : Nth(S, n) \in S
         /\ \A i \in S : \E n \in 1..Cardinality(S) : Nth(S, n) = i
         /\ \A m, n \in 1..Cardinality(S) : Nth(S, m) = Nth(S, n) => m = n
<1> DEFINE below(i) == {j \in S : j < i}
           rank == [i \in S |-> Cardinality(below(i))]
           k == Cardinality(S)
<1>1. k \in Nat
  BY FS_CardinalityType
<1>2. ASSUME NEW i \in S PROVE rank[i] \in 0..k-1
  <2>1. IsFiniteSet(below(i)) /\ Cardinality(below(i)) <= k /\ Cardinality(below(i)) # k
    BY FS_Subset
  <2>2. Cardinality(below(i)) \in Nat
    BY <2>1, FS_CardinalityType
  <2>3. rank[i] = Cardinality(below(i))
    OBVIOUS
  <2> HIDE DEF rank, below, k
  <2> QED BY <1>1, <2>1, <2>2, <2>3
<1>3. ASSUME NEW i \in S, NEW j \in S, i < j PROVE rank[i] < rank[j]
  <2>1. IsFiniteSet(below(j))
    BY FS_Subset
  <2>2. below(i) \in SUBSET below(j) /\ i \in below(j) /\ i \notin below(i)
    <3>1. i \in Int /\ j \in Int /\ \A x \in S : x \in Int
      OBVIOUS
    <3>2. \A x \in S : x < i => x < j
      BY <1>3, <3>1
    <3>3. \A x : x \in below(i) => x \in below(j)
      BY <3>2
    <3>4. i \in below(j)
      BY <1>3
    <3>5. i \notin below(i)
      BY <3>1
    <3> HIDE DEF below
    <3> QED BY <3>3, <3>4, <3>5
  <2>3. IsFiniteSet(below(i)) /\ Cardinality(below(i)) <= Cardinality(below(j)) /\ Cardinality(below(i)) # Cardinality(below(j))
    BY <2>1, <2>2, FS_Subset
  <2>4. Cardinality(below(i)) \in Nat /\ Cardinality(below(j)) \in Nat
    BY <2>1, <2>3, FS_CardinalityType
  <2>5. rank[i] = Cardinality(below(i)) /\ rank[j] = Cardinality(below(j))
    OBVIOUS
  <2> HIDE DEF rank, below
  <2> QED BY <2>3, <2>4, <2>5
<1>4. ASSUME NEW i \in S, NEW j \in S, rank[i] = rank[j] PROVE i = j
  <2>1. rank[i] \in Int /\ rank[j] \in Int /\ i \in Int /\ j \in Int
    BY <1>1, <1>2
  <2>2. ~(i < j) /\ ~(j < i)
    <3> HIDE DEF rank
    <3> QED BY <1>3, <1>4, <2>1
  <2> QED BY <2>1, <2>2
<1>5. rank \in Injection(S, 0..k-1)
  BY <1>2, <1>4 DEF Injection, IsInjective
<1>6. IsFiniteSet(0..k-1) /\ Cardinality(0..k-1) = k
  BY <1>1, FS_Interval
<1>7. rank \in Surjection(S, 0..k-1)
  <2> HIDE DEF rank
  <2> QED BY <1>5, <1>6, FS_Injection
<1>8. \A n \in 1..k : n - 1 \in 0..k-1
  BY <1>1
<1>9. ASSUME NEW n \in 1..k PROVE Nth(S, n) \in S /\ rank[Nth(S, n)] = n - 1
  <2>1. PICK i \in S : rank[i] = n - 1
    <3> HIDE DEF rank, k
    <3> QED BY <1>7, <1>8 DEF Surjection
  <2>2. \A j \in S : rank[j] = Cardinality({x \in S : x < j})
    OBVIOUS
  <2> HIDE DEF rank, k
  <2> QED BY <2>1, <2>2 DEF Nth
<1>10. ASSUME NEW i \in S PROVE \E n \in 1..k : Nth(S, n) = i
  <2>1. rank[i] + 1 \in 1..k /\ (rank[i] + 1) - 1 = rank[i]
    <3> HIDE DEF rank, k
    <3> QED BY <1>1, <1>2
  <2>2. Nth(S, rank[i] + 1) \in S /\ rank[Nth(S, rank[i] + 1)] = rank[i]
    <3> HIDE DEF rank, k
    <3> QED BY <1>9, <2>1
  <2> HIDE DEF rank, k
  <2> QED BY <1>4, <2>1, <2>2
<1>11. ASSUME NEW m \in 1..k, NEW n \in 1..k, Nth(S, m) = Nth(S, n) PROVE m = n
  <2>1. m - 1 = n - 1
    <3> HIDE DEF rank, k
    <3> QED BY <1>9, <1>11
  <2> QED BY <1>1, <2>1
<1> QED BY <1>1, <1>9, <1>10, <1>11

\* A filtered list has the entries it should have, and no entry more often.
LEMMA WithoutIs ==
  ASSUME NEW list \in Seq(Entry), NEW i, NEW w, w = Without(list, i)
  PROVE  /\ w \in Seq(Entry)
         /\ \A n \in DOMAIN w : \E m \in DOMAIN list : w[n] = list[m] /\ list[m][1] # i
         /\ \A m \in DOMAIN list : list[m][1] # i => \E n \in DOMAIN w : w[n] = list[m]
         /\ Distinct(list) => Distinct(w)
<1> DEFINE stays == {n \in DOMAIN list : list[n][1] # i}
           k == Cardinality(stays)
<1>1. DOMAIN list = 1..Len(list) /\ Len(list) \in Nat
  OBVIOUS
<1>2. IsFiniteSet(stays) /\ stays \subseteq Int
  <2>1. IsFiniteSet(1..Len(list)) /\ stays \in SUBSET (1..Len(list)) /\ 1..Len(list) \subseteq Int
    BY <1>1, FS_Interval
  <2> HIDE DEF stays
  <2> QED BY <2>1, FS_Subset
<1>3. /\ k \in Nat
      /\ \A n \in 1..k : Nth(stays, n) \in stays
      /\ \A m \in stays : \E n \in 1..k : Nth(stays, n) = m
      /\ \A m, n \in 1..k : Nth(stays, m) = Nth(stays, n) => m = n
  <2> HIDE DEF stays
  <2> QED BY <1>2, NthIs
<1>4. w = [n \in 1..k |-> list[Nth(stays, n)]]
  BY DEF Without
<1>5. \A m : m \in stays <=> m \in DOMAIN list /\ list[m][1] # i
  OBVIOUS
<1>6. \A m \in DOMAIN list : list[m] \in Entry
  BY <1>1
<1> HIDE DEF stays, k
<1>7. w \in Seq(Entry)
  <2>1. w \in [1..k -> Entry]
    BY <1>3, <1>4, <1>5, <1>6
  <2> QED BY <1>3, <2>1
<1>8. DOMAIN w = 1..k /\ \A n \in 1..k : w[n] = list[Nth(stays, n)]
  BY <1>4
<1>9. Distinct(list) => Distinct(w)
  BY <1>3, <1>5, <1>8 DEF Distinct
<1> QED BY <1>3, <1>5, <1>7, <1>8, <1>9

\* An answer to a fetch is what is stored, each item once.
LEMMA ListingIs ==
  ASSUME ListsTypeOK, NEW l \in Lists, IsFiniteSet(Held(l)), NEW w, w = Listing(l)
  PROVE  /\ w \in Seq(Entry) /\ Len(w) = Cardinality(Held(l))
         /\ \A n \in DOMAIN w : \E i \in Held(l) : w[n] = <<i, stored[l][i]>>
         /\ \A i \in Held(l) : \E n \in DOMAIN w : w[n] = <<i, stored[l][i]>>
         /\ Distinct(w)
<1> DEFINE k == Cardinality(Held(l))
<1>1. Held(l) \subseteq Int
  <2>1. \A i \in Held(l) : i \in ItemIds
    BY DEF Held
  <2>2. \A i \in ItemIds : i \in Int
    BY ListsBounds
  <2> QED BY <2>1, <2>2
<1>2. /\ k \in Nat
      /\ \A n \in 1..k : Nth(Held(l), n) \in Held(l)
      /\ \A i \in Held(l) : \E n \in 1..k : Nth(Held(l), n) = i
      /\ \A m, n \in 1..k : Nth(Held(l), m) = Nth(Held(l), n) => m = n
  BY <1>1, NthIs
<1>3. w = [n \in 1..k |-> <<Nth(Held(l), n), stored[l][Nth(Held(l), n)]>>]
  BY DEF Listing
<1>4. \A i \in Held(l) : <<i, stored[l][i]>> \in Entry
  BY DEF Held, Entry, ListsTypeOK
<1> HIDE DEF k
<1>5. w \in Seq(Entry)
  <2>1. w \in [1..k -> Entry]
    BY <1>2, <1>3, <1>4
  <2> QED BY <1>2, <2>1
<1>6. /\ DOMAIN w = 1..k
      /\ \A n \in 1..k : w[n] = <<Nth(Held(l), n), stored[l][Nth(Held(l), n)]>>
  BY <1>3
<1>7. Len(w) = k
  BY <1>2, <1>5, <1>6
<1>8. Distinct(w)
  BY <1>2, <1>6 DEF Distinct
<1> QED BY <1>2, <1>5, <1>6, <1>7, <1>8 DEF k

\* What the slices have in common: lists are removed from and added to in one of
\* them only, and money is moved in another.
LEMMA ThunkIs ==
  ASSUME slice \in DOMAIN Slices, NEW th \in {Thunks[t] : t \in DOMAIN Thunks}
  PROVE  /\ th.kind \in {"fetch", "add", "remove", "move"} /\ th.list \in Lists
         /\ th.fallback \in {"keep", "mock"}
         /\ th.kind \in {"add", "remove"} => slice = "bankAccounts" /\ th.fallback = "mock"
         /\ th.kind = "move" =>
              slice = "wallet" /\ th.fallback = "keep" /\ Touches(th) = Lists
         /\ th.kind # "move" => Touches(th) = {th.list}
<1> DEFINE Fine == /\ th.kind \in {"fetch", "add", "remove", "move"} /\ th.list \in Lists
                   /\ th.fallback \in {"keep", "mock"}
                   /\ th.kind \in {"add", "remove"} => slice = "bankAccounts" /\ th.fallback = "mock"
                   /\ th.kind = "move" => slice = "wallet" /\ th.fallback = "keep"
<1>1. PICK t \in DOMAIN Thunks : th = Thunks[t]
  OBVIOUS
<1>2. slice \in {"wallet", "bankAccounts", "transactions", "dashboard", "conversion"}
  BY DEF Slices
<1>3. th.list \in Lists
  BY <1>1 DEF Lists, ListsOf, Thunks
<1>4. ASSUME slice = "wallet" PROVE Fine
  <2>1. Thunks = WalletSlice
    BY <1>4 DEF Thunks, Slices
  <2>2. t \in {"fetchWallets", "fetchWalletStatement", "depositToWallet", "transferBetweenWallets"}
    BY <2>1 DEF WalletSlice
  <2>3. Fine
    BY <1>1, <1>3, <1>4, <2>1, <2>2 DEF WalletSlice, Thunk
  <2> QED BY <2>3
<1>5. ASSUME slice = "bankAccounts" PROVE Fine
  <2>1. Thunks = BankAccountsSlice
    BY <1>5 DEF Thunks, Slices
  <2>2. t \in DOMAIN BankFetches \/ (t \in DOMAIN BankWrites /\ t \notin DOMAIN BankFetches)
    BY <2>1 DEF BankAccountsSlice
  <2>3. CASE t \in DOMAIN BankFetches
    <3>1. th = BankFetches[t]
      BY <1>1, <2>1, <2>3 DEF BankAccountsSlice
    <3> QED BY <1>3, <1>5, <2>3, <3>1 DEF BankFetches, Thunk
  <2>4. CASE t \in DOMAIN BankWrites /\ t \notin DOMAIN BankFetches
    <3>1. th = BankWrites[t]
      BY <1>1, <2>1, <2>4 DEF BankAccountsSlice
    <3> QED BY <1>3, <1>5, <2>4, <3>1 DEF BankWrites, Thunk
  <2> QED BY <2>2, <2>3, <2>4
<1>6. ASSUME slice = "transactions" PROVE Fine
  <2>1. Thunks = TransactionsSlice
    BY <1>6 DEF Thunks, Slices
  <2>2. Fine
    BY <1>1, <1>3, <1>6, <2>1 DEF TransactionsSlice, Thunk
  <2> QED BY <2>2
<1>7. ASSUME slice = "dashboard" PROVE Fine
  <2>1. Thunks = DashboardSlice
    BY <1>7 DEF Thunks, Slices
  <2>2. Fine
    BY <1>1, <1>3, <1>7, <2>1 DEF DashboardSlice, Thunk
  <2> QED BY <2>2
<1>8. ASSUME slice = "conversion" PROVE Fine
  <2>1. Thunks = ConversionSlice
    BY <1>8 DEF Thunks, Slices
  <2>2. Fine
    BY <1>1, <1>3, <1>8, <2>1 DEF ConversionSlice, Thunk
  <2> QED BY <2>2
<1>9. Fine
  BY <1>2, <1>4, <1>5, <1>6, <1>7, <1>8
<1>10. ASSUME th.kind = "move" PROVE Touches(th) = Lists
  <2>1. slice = "wallet" /\ Touches(th) = {"wallets", "statement"}
    BY <1>9, <1>10 DEF Touches
  <2>2. Lists = {WalletSlice[x].list : x \in DOMAIN WalletSlice} \union {"statement"}
    BY <2>1 DEF Lists, ListsOf, Slices
  <2>3. DOMAIN WalletSlice = {"fetchWallets", "fetchWalletStatement", "depositToWallet", "transferBetweenWallets"}
    BY DEF WalletSlice
  <2>4. /\ WalletSlice["fetchWallets"].list = "wallets" /\ WalletSlice["fetchWalletStatement"].list = "statement"
        /\ WalletSlice["depositToWallet"].list = "wallets" /\ WalletSlice["transferBetweenWallets"].list = "wallets"
    BY DEF WalletSlice, Thunk
  <2> QED BY <2>1, <2>2, <2>3, <2>4
<1>11. th.kind # "move" => Touches(th) = {th.list}
  BY DEF Touches
<1> QED BY <1>9, <1>10, <1>11

\* The fields of a call.
LEMMA Fields ==
  ASSUME NEW c, NEW progress, NEW answer, NEW late, NEW d, d = AsOf(c, progress, answer, late)
  PROVE  /\ d.thunk = c.thunk /\ d.item = c.item /\ d.stage = progress /\ d.answer = answer /\ d.late = late
         /\ d = AsOf(d, d.stage, d.answer, d.late)
BY DEF AsOf

\* Marking what is outdated touches served fetches of these lists only.
LEMMA OutdatedIs ==
  ASSUME CallsSound, NEW lists
  PROVE  /\ \A d \in Outdated(lists) : \E c \in pending :
              /\ d = AsOf(c, c.stage, c.answer, d.late) /\ d.late \in BOOLEAN
              /\ d.late => c.stage = "served"
              /\ ~d.late => d = c /\ ~(c.stage = "served" /\ c.thunk.kind = "fetch" /\ c.thunk.list \in lists)
              /\ c.thunk.kind # "fetch" => d = c
         /\ \A c \in pending : c.thunk.kind # "fetch" => c \in Outdated(lists)
<1> DEFINE old(c) == c.stage = "served" /\ c.thunk.kind = "fetch" /\ c.thunk.list \in lists
           image(c) == AsOf(c, c.stage, c.answer, c.late \/ old(c))
<1>1. ASSUME NEW c \in pending
      PROVE  /\ c = AsOf(c, c.stage, c.answer, c.late) /\ c.late \in BOOLEAN /\ (c.late => c.stage = "served")
             /\ image(c).late = (c.late \/ old(c))
  BY DEF CallsSound, AsOf
<1>2. ASSUME NEW c \in pending, ~old(c) PROVE image(c) = c
  <2>1. (c.late \/ old(c)) = c.late
    BY <1>1, <1>2
  <2>2. image(c) = AsOf(c, c.stage, c.answer, c.late)
    BY <2>1, Zenon
  <2> QED BY <1>1, <2>2
<1>3. ASSUME NEW d \in Outdated(lists)
      PROVE  \E c \in pending :
              /\ d = AsOf(c, c.stage, c.answer, d.late) /\ d.late \in BOOLEAN
              /\ d.late => c.stage = "served"
              /\ ~d.late => d = c /\ ~old(c)
              /\ c.thunk.kind # "fetch" => d = c
  <2>1. PICK c \in pending : d = image(c)
    BY DEF Outdated
  <2>2. d.late = (c.late \/ old(c))
    BY <1>1, <2>1
  <2>3. d = AsOf(c, c.stage, c.answer, d.late)
    BY <2>1, <2>2
  <2> HIDE DEF image
  <2> QED BY <1>1, <1>2, <2>1, <2>2, <2>3
<1>4. ASSUME NEW c \in pending, c.thunk.kind # "fetch" PROVE c \in Outdated(lists)
  <2>1. image(c) = c
    BY <1>2, <1>4
  <2>2. image(c) \in Outdated(lists)
    BY DEF Outdated
  <2> QED BY <2>1, <2>2
<1> QED BY <1>3, <1>4

\* An answer leaves the other calls as they are, but for the registrations it has
\* seen when it is that of a fetch.
LEMMA SeenByIs ==
  ASSUME CallsSound, NEW c
  PROVE  /\ \A d \in SeenBy(c) : \E e \in pending \ {c} :
              /\ d = AsOf(e, e.stage, e.answer, d.late) /\ d.late \in BOOLEAN
              /\ d.late => e.stage = "served"
              /\ ~d.late => d = e /\ ~(c.thunk.kind = "fetch" /\ e.thunk.kind = "add"
                                       /\ e.thunk.list = c.thunk.list /\ e.stage = "served")
              /\ e.thunk.kind # "add" \/ c.thunk.kind # "fetch" \/ e.thunk.list # c.thunk.list => d = e
         /\ \A e \in pending \ {c} :
              e.thunk.kind # "add" \/ c.thunk.kind # "fetch" \/ e.thunk.list # c.thunk.list => e \in SeenBy(c)
<1> DEFINE seen(e) == c.thunk.kind = "fetch" /\ e.thunk.kind = "add"
                      /\ e.thunk.list = c.thunk.list /\ e.stage = "served"
           image(e) == AsOf(e, e.stage, e.answer, e.late \/ seen(e))
<1>1. ASSUME NEW e \in pending
      PROVE  /\ e = AsOf(e, e.stage, e.answer, e.late) /\ e.late \in BOOLEAN /\ (e.late => e.stage = "served")
             /\ image(e).late = (e.late \/ seen(e))
  BY DEF CallsSound, AsOf
<1>2. ASSUME NEW e \in pending, ~seen(e) PROVE image(e) = e
  <2>1. (e.late \/ seen(e)) = e.late
    BY <1>1, <1>2
  <2>2. image(e) = AsOf(e, e.stage, e.answer, e.late)
    BY <2>1, Zenon
  <2> QED BY <1>1, <2>2
<1>3. ASSUME NEW d \in SeenBy(c)
      PROVE  \E e \in pending \ {c} :
              /\ d = AsOf(e, e.stage, e.answer, d.late) /\ d.late \in BOOLEAN
              /\ d.late => e.stage = "served"
              /\ ~d.late => d = e /\ ~seen(e)
              /\ e.thunk.kind # "add" \/ c.thunk.kind # "fetch" \/ e.thunk.list # c.thunk.list => d = e
  <2>1. PICK e \in pending \ {c} : d = image(e)
    BY DEF SeenBy
  <2>2. d.late = (e.late \/ seen(e))
    BY <1>1, <2>1
  <2>3. d = AsOf(e, e.stage, e.answer, d.late)
    BY <2>1, <2>2
  <2> HIDE DEF image
  <2> QED BY <1>1, <1>2, <2>1, <2>2, <2>3
<1>4. ASSUME NEW e \in pending \ {c},
             e.thunk.kind # "add" \/ c.thunk.kind # "fetch" \/ e.thunk.list # c.thunk.list
      PROVE  e \in SeenBy(c)
  <2>1. image(e) = e
    BY <1>2, <1>4
  <2>2. image(e) \in SeenBy(c)
    BY DEF SeenBy
  <2> QED BY <2>1, <2>2
<1> QED BY <1>3, <1>4

\* What does not concern a list leaves it sound.
LEMMA Untouched ==
  ASSUME NEW l \in Lists, ItemsSound(l), listed'[l] = listed[l], stored'[l] = stored[l], slice' = slice,
         Adding(l)' = Adding(l), Removing(l)' = Removing(l),
         settled'[l] => settled[l], Moved(l) => Moved(l)' \/ ~settled'[l]
  PROVE  ItemsSound(l)'
<1>1. Held(l)' = Held(l) /\ Made(l)' = Made(l) /\ Ids(listed[l])' = Ids(listed[l])
  BY DEF Held, Made, Ids
<1>2. StoreSound(l)' /\ ScreenSound(l)' /\ AddsSound(l)' /\ RemovesSound(l)'
  BY <1>1 DEF ItemsSound, StoreSound, ScreenSound, AddsSound, RemovesSound
<1>3. ASSUME ListSound(l) PROVE ListSound(l)'
  <2>1. Distinct(listed[l])'
    BY <1>3 DEF ListSound, Distinct
  <2>2. \A n \in DOMAIN listed'[l] :
          \/ \E i \in Held(l)' : listed'[l][n] = <<i, stored'[l][i]>>
          \/ \E c \in Removing(l)' : c.stage = "served" /\ c.item = listed'[l][n][1]
    BY <1>1, <1>3 DEF ListSound
  <2>3. ASSUME NEW i \in Held(l)
        PROVE  \/ \E n \in DOMAIN listed'[l] : listed'[l][n] = <<i, stored'[l][i]>>
               \/ \E c \in Adding(l)' : ~c.late /\ c.answer[1] = i
    <3>1. \/ \E n \in DOMAIN listed[l] : listed[l][n] = <<i, stored[l][i]>>
          \/ \E c \in Adding(l) : ~c.late /\ c.answer[1] = i
      BY <1>3 DEF ListSound
    <3> QED BY <3>1
  <2> QED BY <1>1, <2>1, <2>2, <2>3 DEF ListSound
<1> QED BY <1>2, <1>3 DEF ItemsSound

\* So do answers that were there before stay sound.
LEMMA FetchesKept ==
  ASSUME FetchesSound, \A l \in Lists : Made(l) \subseteq Made(l)', CallsSound, ListsTypeOK,
         \A d \in pending' : d.thunk.kind = "fetch" /\ d.stage = "served" =>
            \E e \in pending :
              /\ e.thunk = d.thunk /\ e.stage = "served" /\ e.answer = d.answer
              /\ ~d.late => ~e.late /\ stored'[e.thunk.list] = stored[e.thunk.list]
  PROVE  FetchesSound'
<1> SUFFICES ASSUME NEW d \in pending', d.thunk.kind = "fetch", d.stage = "served"
             PROVE  /\ d.answer \in Seq(Entry) /\ Ids(d.answer) \subseteq Made(d.thunk.list)'
                    /\ ~d.late => d.answer = Listing(d.thunk.list)'
  BY DEF FetchesSound, Ids
<1>1. PICK e \in pending :
        /\ e.thunk = d.thunk /\ e.stage = "served" /\ e.answer = d.answer
        /\ ~d.late => ~e.late /\ stored'[e.thunk.list] = stored[e.thunk.list]
  OBVIOUS
<1>2. e.thunk.list \in Lists
  BY ThunkIs DEF CallsSound, ListsTypeOK
<1>3. /\ e.answer \in Seq(Entry) /\ Ids(e.answer) \subseteq Made(e.thunk.list)
      /\ ~e.late => e.answer = Listing(e.thunk.list)
  BY <1>1 DEF FetchesSound
<1>4. ASSUME ~d.late PROVE Listing(d.thunk.list)' = Listing(d.thunk.list)
  <2> DEFINE l == d.thunk.list
  <2>1. stored'[l] = stored[l]
    BY <1>1, <1>4
  <2>2. Held(l)' = Held(l)
    BY <2>1 DEF Held
  <2> QED BY <2>1, <2>2 DEF Listing
<1> QED BY <1>1, <1>2, <1>3, <1>4

\* The slice of a behaviour stays.
LEMMA SameSlice ==
  ASSUME slice' = slice
  PROVE  Lists' = Lists /\ Thunks' = Thunks
BY DEF Lists, ListsOf, Thunks

\* What a call under way is.
LEMMA CallIs ==
  ASSUME CallsSound, ListsTypeOK, NEW c \in pending
  PROVE  /\ c.thunk.kind \in {"fetch", "add", "remove", "move"} /\ c.thunk.list \in Lists
         /\ c.thunk.fallback \in {"keep", "mock"}
         /\ c.thunk.kind \in {"add", "remove"} => slice = "bankAccounts" /\ c.thunk.fallback = "mock"
         /\ c.thunk.kind = "move" =>
              slice = "wallet" /\ c.thunk.fallback = "keep" /\ Touches(c.thunk) = Lists
         /\ c.thunk.kind # "move" => Touches(c.thunk) = {c.thunk.list}
BY ThunkIs DEF CallsSound, ListsTypeOK

\* A call that begins.
LEMMA StartKeeps ==
  ASSUME ListsInv, ListsTypeOK', NEW t \in DOMAIN Thunks, NEW i \in ItemIds \union {0}, Start(t, i)
  PROVE  ListsInv'
<1> DEFINE new == Call(calls + 1, t, i)
<1>1. /\ pending' = pending \union {new} /\ UNCHANGED <<slice, listed, stored, settled>>
      /\ IF Thunks[t].kind = "remove"
         THEN \E n \in DOMAIN listed[Thunks[t].list] : listed[Thunks[t].list][n][1] = i
         ELSE i = 1
  BY DEF Start
<1>2. /\ new.thunk = Thunks[t] /\ new.stage = "sent" /\ new.late = FALSE /\ new.item = i
      /\ new = AsOf(new, new.stage, new.answer, new.late)
  BY DEF Call, AsOf
<1>3. Lists' = Lists /\ Thunks' = Thunks /\ (\A l : Made(l)' = Made(l))
  BY <1>1, SameSlice DEF Made
<1>4. Thunks[t].list \in Lists
  BY ThunkIs DEF ListsInv, ListsTypeOK
<1> HIDE DEF new
<1>5. Thunks[t].kind = "remove" => i \in Ids(listed[Thunks[t].list]) /\ i \in Made(Thunks[t].list)
  BY <1>1, <1>4 DEF ListsInv, ItemsSound, ScreenSound, Ids
<1>6. CallsSound'
  <2> SUFFICES ASSUME NEW c \in pending'
               PROVE  /\ c = AsOf(c, c.stage, c.answer, c.late)
                      /\ c.thunk \in {Thunks[x] : x \in DOMAIN Thunks} /\ c.stage \in {"sent", "served"}
                      /\ c.late \in BOOLEAN /\ (c.late => c.stage = "served")
                      /\ IF c.thunk.kind = "remove" THEN c.item \in Made(c.thunk.list) ELSE c.item = 1
    BY <1>3 DEF CallsSound
  <2>1. CASE c \in pending
    BY <2>1 DEF ListsInv, CallsSound
  <2>2. CASE c = new
    BY <1>1, <1>2, <1>5, <2>2
  <2> QED BY <1>1, <2>1, <2>2
<1>7. FetchesSound'
  <2>1. \A d \in pending' : d.stage = "served" => d \in pending
    BY <1>1, <1>2
  <2> QED BY <1>1, <1>3, <2>1, FetchesKept DEF ListsInv
<1>8. ASSUME NEW l \in Lists PROVE ItemsSound(l)'
  <2>1. ItemsSound(l)
    BY DEF ListsInv
  <2>2. Adding(l)' = Adding(l) /\ Moved(l)' = Moved(l)
    BY <1>1, <1>2 DEF Adding, Moved
  <2>3. CASE ~(Thunks[t].kind = "remove" /\ Thunks[t].list = l)
    <3>1. Removing(l)' = Removing(l)
      BY <1>1, <1>2, <2>3 DEF Removing
    <3> QED BY <1>1, <2>1, <2>2, <3>1, Untouched
  <2>4. CASE Thunks[t].kind = "remove" /\ Thunks[t].list = l
    <3>1. Removing(l)' = Removing(l) \union {new}
      BY <1>1, <1>2, <2>4 DEF Removing
    <3>2. Held(l)' = Held(l) /\ Ids(listed[l])' = Ids(listed[l])
      BY <1>1 DEF Held, Ids
    <3>3. StoreSound(l)' /\ ScreenSound(l)'
      BY <1>1, <1>3, <2>1, <3>2 DEF ItemsSound, StoreSound, ScreenSound
    <3>4. AddsSound(l)'
      BY <1>1, <1>2, <1>5, <2>1, <2>2, <2>4, <3>1, <3>2 DEF ItemsSound, AddsSound
    <3>5. RemovesSound(l)'
      BY <1>1, <1>2, <2>1, <3>1 DEF ItemsSound, RemovesSound
    <3>6. ListSound(l) => ListSound(l)'
      BY <1>1, <2>2, <3>1, <3>2 DEF ListSound
    <3> QED BY <1>1, <2>1, <2>2, <3>3, <3>4, <3>5, <3>6 DEF ItemsSound
  <2> QED BY <2>3, <2>4
<1> QED BY <1>3, <1>6, <1>7, <1>8 DEF ListsInv

\* Somebody else's change.
LEMMA OthersKeep ==
  ASSUME ListsInv, ListsTypeOK', NEW k \in Lists, OthersChange(k)
  PROVE  ListsInv'
<1>1. /\ stored[k][1] > 0 /\ Changed(k, 1, stored[k][1] + 1) /\ pending' = Outdated({k})
      /\ settled' = [settled EXCEPT ![k] = FALSE] /\ UNCHANGED <<slice, listed>>
  BY DEF OthersChange
<1>2. Lists' = Lists /\ Thunks' = Thunks
  BY <1>1, SameSlice
<1>3. /\ stored \in [Lists -> [ItemIds -> Nat \union {Gone}]] /\ settled \in [Lists -> BOOLEAN]
      /\ 1 \in ItemIds /\ stored[k][1] \in Nat /\ stored[k][1] # 0
  BY <1>1, ListsBounds DEF ListsInv, ListsTypeOK, Gone
<1>4. /\ \A l \in Lists : l # k => stored'[l] = stored[l] /\ settled'[l] = settled[l]
      /\ \A i \in ItemIds : i # 1 => stored'[k][i] = stored[k][i]
      /\ stored'[k][1] = stored[k][1] + 1 /\ ~settled'[k]
  BY <1>1, <1>3 DEF Changed
<1>5. ASSUME NEW l \in Lists PROVE Held(l)' = Held(l) /\ Made(l)' = Made(l)
  <2>1. \A i \in ItemIds : (stored'[l][i] > 0 <=> stored[l][i] > 0) /\ (stored'[l][i] # 0 <=> stored[l][i] # 0)
    BY <1>1, <1>3, <1>4
  <2> QED BY <2>1 DEF Held, Made
<1>6. CallsSound
  BY DEF ListsInv
<1>7. ASSUME NEW d \in pending'
      PROVE  \E c \in pending :
               /\ d = AsOf(c, c.stage, c.answer, d.late) /\ d.late \in BOOLEAN
               /\ d.late => c.stage = "served"
               /\ ~d.late => d = c /\ ~(c.stage = "served" /\ c.thunk.kind = "fetch" /\ c.thunk.list \in {k})
               /\ c.thunk.kind # "fetch" => d = c
  BY <1>1, <1>6, <1>7, OutdatedIs
<1>8. CallsSound'
  <2> SUFFICES ASSUME NEW d \in pending'
               PROVE  /\ d = AsOf(d, d.stage, d.answer, d.late)
                      /\ d.thunk \in {Thunks[x] : x \in DOMAIN Thunks} /\ d.stage \in {"sent", "served"}
                      /\ d.late \in BOOLEAN /\ (d.late => d.stage = "served")
                      /\ IF d.thunk.kind = "remove" THEN d.item \in Made(d.thunk.list)' ELSE d.item = 1
    BY <1>2 DEF CallsSound, Made
  <2>1. PICK c \in pending : d = AsOf(c, c.stage, c.answer, d.late) /\ d.late \in BOOLEAN /\ (d.late => c.stage = "served")
    BY <1>7
  <2>2. /\ d.thunk = c.thunk /\ d.item = c.item /\ d.stage = c.stage
        /\ d = AsOf(d, d.stage, d.answer, d.late)
    BY <2>1, Fields
  <2>3. c.thunk.list \in Lists
    BY <1>6, CallIs DEF ListsInv
  <2> QED BY <1>5, <1>6, <2>1, <2>2, <2>3 DEF CallsSound
<1>9. FetchesSound'
  <2>1. ASSUME NEW d \in pending', d.thunk.kind = "fetch", d.stage = "served"
        PROVE  \E e \in pending :
                 /\ e.thunk = d.thunk /\ e.stage = "served" /\ e.answer = d.answer
                 /\ ~d.late => ~e.late /\ stored'[e.thunk.list] = stored[e.thunk.list]
    <3>1. PICK c \in pending :
               /\ d = AsOf(c, c.stage, c.answer, d.late)
               /\ ~d.late => d = c /\ ~(c.stage = "served" /\ c.thunk.kind = "fetch" /\ c.thunk.list \in {k})
      BY <1>7
    <3>2. d.thunk = c.thunk /\ d.stage = c.stage /\ d.answer = c.answer
      BY <3>1, Fields
    <3>3. c.thunk.list \in Lists
      BY <1>6, CallIs DEF ListsInv
    <3> QED BY <1>4, <2>1, <3>1, <3>2, <3>3
  <2> QED BY <1>5, <1>6, <2>1, FetchesKept DEF ListsInv
<1>10. ASSUME NEW l \in Lists PROVE ItemsSound(l)'
  <2>1. ItemsSound(l)
    BY DEF ListsInv
  <2>2. \A c : c \in pending' /\ c.thunk.kind # "fetch" <=> c \in pending /\ c.thunk.kind # "fetch"
    <3>1. ASSUME NEW d \in pending', d.thunk.kind # "fetch" PROVE d \in pending
      <4>1. PICK c \in pending : d = AsOf(c, c.stage, c.answer, d.late) /\ (c.thunk.kind # "fetch" => d = c)
        BY <1>7
      <4> QED BY <3>1, <4>1, Fields
    <3> QED BY <1>1, <1>6, <3>1, OutdatedIs
  <2>3. Adding(l)' = Adding(l) /\ Removing(l)' = Removing(l) /\ Moved(l)' = Moved(l)
    BY <2>2 DEF Adding, Removing, Moved
  <2>4. CASE l # k
    BY <1>1, <1>4, <2>1, <2>3, <2>4, Untouched
  <2>5. CASE l = k
    <3>1. ~settled'[l] /\ listed'[l] = listed[l] /\ slice' = slice
      BY <1>1, <1>4, <2>5
    <3>2. StoreSound(l)'
      BY <1>1, <1>3, <1>4, <1>5, <2>1, <2>5 DEF ItemsSound, StoreSound, Gone
    <3>3. ScreenSound(l)' /\ Ids(listed[l])' = Ids(listed[l])
      BY <1>5, <2>1, <3>1 DEF ItemsSound, ScreenSound, Ids
    <3>4. AddsSound(l)'
      BY <1>3, <1>4, <2>1, <2>3, <2>5, <3>1, <3>3 DEF ItemsSound, AddsSound
    <3>5. RemovesSound(l)'
      BY <1>1, <1>3, <1>4, <2>1, <2>3, <2>5 DEF ItemsSound, RemovesSound, Gone
    <3> QED BY <3>1, <3>2, <3>3, <3>4, <3>5 DEF ItemsSound
  <2> QED BY <2>4, <2>5
<1> QED BY <1>2, <1>8, <1>9, <1>10 DEF ListsInv

\* What the server's answer makes of the calls under way.
LEMMA ServedCalls ==
  ASSUME ListsInv, NEW c \in pending, NEW answer, NEW lists,
         slice' = slice, \A l \in Lists : Made(l) \subseteq Made(l)',
         \/ pending' = (pending \ {c}) \union {Served(c, answer)}
         \/ pending' = (Outdated(lists) \ {c}) \union {Served(c, answer)}
  PROVE  /\ CallsSound'
         /\ \A d \in pending' : d.thunk.kind # "fetch" => d = Served(c, answer) \/ d \in pending \ {c}
         /\ \A d \in pending \ {c} : d.thunk.kind # "fetch" => d \in pending'
         /\ \A d \in pending' : d = Served(c, answer) \/ \E e \in pending :
              /\ e.thunk = d.thunk /\ e.stage = d.stage /\ e.answer = d.answer
              /\ ~d.late => ~e.late
              /\ pending' = (Outdated(lists) \ {c}) \union {Served(c, answer)} =>
                   (~d.late => ~(e.stage = "served" /\ e.thunk.kind = "fetch" /\ e.thunk.list \in lists))
<1> DEFINE s == Served(c, answer)
<1>1. s = AsOf(c, "served", answer, c.late)
  BY DEF Served
<1>2. /\ s.thunk = c.thunk /\ s.item = c.item /\ s.stage = "served" /\ s.late = c.late
      /\ s = AsOf(s, s.stage, s.answer, s.late)
  BY <1>1, Fields
<1> HIDE DEF s
<1>3. CallsSound
  BY DEF ListsInv
<1>4. Lists' = Lists /\ Thunks' = Thunks
  BY SameSlice
<1>5. ASSUME NEW d \in pending'
      PROVE  d = s \/ \E e \in pending :
               /\ d = AsOf(e, e.stage, e.answer, d.late) /\ d.late \in BOOLEAN
               /\ d.late => e.stage = "served"
               /\ ~d.late => d = e
               /\ e.thunk.kind # "fetch" => d = e
               /\ pending' = (Outdated(lists) \ {c}) \union {Served(c, answer)} =>
                    (~d.late => ~(e.stage = "served" /\ e.thunk.kind = "fetch" /\ e.thunk.list \in lists))
  <2>1. CASE d \in Outdated(lists)
    BY <1>3, <2>1, OutdatedIs
  <2>2. CASE d \in pending /\ pending' = (pending \ {c}) \union {s} /\ d \notin Outdated(lists)
    <3>1. d = AsOf(d, d.stage, d.answer, d.late) /\ d.late \in BOOLEAN /\ (d.late => d.stage = "served")
      BY <1>3, <2>2 DEF CallsSound
    <3>2. d # s => pending' # (Outdated(lists) \ {c}) \union {Served(c, answer)}
      BY <1>5, <2>2 DEF s
    <3> QED BY <2>2, <3>1, <3>2
  <2> QED BY <1>5, <2>1, <2>2 DEF s
<1>6. CallsSound'
  <2> SUFFICES ASSUME NEW d \in pending'
               PROVE  /\ d = AsOf(d, d.stage, d.answer, d.late)
                      /\ d.thunk \in {Thunks[x] : x \in DOMAIN Thunks} /\ d.stage \in {"sent", "served"}
                      /\ d.late \in BOOLEAN /\ (d.late => d.stage = "served")
                      /\ IF d.thunk.kind = "remove" THEN d.item \in Made(d.thunk.list)' ELSE d.item = 1
    BY <1>4 DEF CallsSound, Made
  <2>1. CASE d = s
    <3>1. c.thunk.list \in Lists
      BY <1>3, CallIs DEF ListsInv
    <3> QED BY <1>2, <1>3, <2>1, <3>1 DEF CallsSound
  <2>2. CASE d # s
    <3>1. PICK e \in pending : d = AsOf(e, e.stage, e.answer, d.late) /\ d.late \in BOOLEAN /\ (d.late => e.stage = "served")
      BY <1>5, <2>2
    <3>2. /\ d.thunk = e.thunk /\ d.item = e.item /\ d.stage = e.stage
          /\ d = AsOf(d, d.stage, d.answer, d.late)
      BY <3>1, Fields
    <3>3. e.thunk.list \in Lists
      BY <1>3, CallIs DEF ListsInv
    <3> QED BY <1>3, <3>1, <3>2, <3>3 DEF CallsSound
  <2> QED BY <2>1, <2>2
<1>7. ASSUME NEW d \in pending', d.thunk.kind # "fetch", d # s PROVE d \in pending \ {c}
  <2>1. PICK e \in pending : d = AsOf(e, e.stage, e.answer, d.late) /\ (e.thunk.kind # "fetch" => d = e)
    BY <1>5, <1>7
  <2>2. d = e
    BY <1>7, <2>1, Fields
  <2>3. d # c
    BY <1>7 DEF s
  <2> QED BY <2>2, <2>3
<1>8. ASSUME NEW d \in pending \ {c}, d.thunk.kind # "fetch" PROVE d \in pending'
  BY <1>3, <1>8, OutdatedIs
<1>9. ASSUME NEW d \in pending', d # s
      PROVE  \E e \in pending :
              /\ e.thunk = d.thunk /\ e.stage = d.stage /\ e.answer = d.answer
              /\ ~d.late => ~e.late
              /\ pending' = (Outdated(lists) \ {c}) \union {Served(c, answer)} =>
                   (~d.late => ~(e.stage = "served" /\ e.thunk.kind = "fetch" /\ e.thunk.list \in lists))
  <2>1. PICK e \in pending :
               /\ d = AsOf(e, e.stage, e.answer, d.late)
               /\ ~d.late => d = e
               /\ pending' = (Outdated(lists) \ {c}) \union {Served(c, answer)} =>
                    (~d.late => ~(e.stage = "served" /\ e.thunk.kind = "fetch" /\ e.thunk.list \in lists))
    BY <1>5, <1>9
  <2>2. d.thunk = e.thunk /\ d.stage = e.stage /\ d.answer = e.answer
    BY <2>1, Fields
  <2> QED BY <2>1, <2>2
<1> QED BY <1>6, <1>7, <1>8, <1>9 DEF s

\* A fetch is read.
LEMMA ReadKeeps ==
  ASSUME ListsInv, ListsTypeOK', NEW c \in pending, Serve(c), Read(c)
  PROVE  ListsInv'
<1> DEFINE answer == Listing(c.thunk.list)
           s == Served(c, answer)
<1>1. /\ c.thunk.kind = "fetch" /\ pending' = (pending \ {c}) \union {s}
      /\ UNCHANGED <<slice, listed, stored, settled>>
  BY DEF Serve, Read
<1>2. CallsSound /\ ListsTypeOK /\ c.thunk.list \in Lists
  BY CallIs DEF ListsInv
<1>3. Lists' = Lists /\ \A l : Made(l)' = Made(l) /\ Held(l)' = Held(l) /\ Listing(l)' = Listing(l)
  BY <1>1, SameSlice DEF Made, Held, Listing
<1>4. s.thunk = c.thunk /\ s.answer = answer /\ s.late = c.late
  BY Fields DEF Served
<1>5. /\ CallsSound'
      /\ \A d \in pending' : d.thunk.kind # "fetch" => d = s \/ d \in pending \ {c}
      /\ \A d \in pending \ {c} : d.thunk.kind # "fetch" => d \in pending'
  BY <1>1, <1>3, ServedCalls
<1>6. answer \in Seq(Entry) /\ Ids(answer) \subseteq Made(c.thunk.list)
  <2>1. /\ answer \in Seq(Entry)
        /\ \A n \in DOMAIN answer : \E i \in Held(c.thunk.list) : answer[n] = <<i, stored[c.thunk.list][i]>>
    BY <1>2, ListingIs DEF ListsInv, ItemsSound, StoreSound
  <2>2. \A i \in Held(c.thunk.list) : i \in Made(c.thunk.list)
    BY DEF Held, Made
  <2> HIDE DEF answer
  <2> QED BY <2>1, <2>2 DEF Ids
<1> HIDE DEF answer, s
<1>7. FetchesSound'
  <2> SUFFICES ASSUME NEW d \in pending', d.thunk.kind = "fetch", d.stage = "served"
               PROVE  /\ d.answer \in Seq(Entry) /\ Ids(d.answer) \subseteq Made(d.thunk.list)'
                      /\ ~d.late => d.answer = Listing(d.thunk.list)'
    BY DEF FetchesSound, Ids
  <2>1. CASE d = s
    BY <1>3, <1>4, <1>6, <2>1 DEF answer
  <2>2. CASE d \in pending
    BY <1>3, <2>2 DEF ListsInv, FetchesSound
  <2> QED BY <1>1, <2>1, <2>2
<1>8. ASSUME NEW l \in Lists PROVE ItemsSound(l)'
  <2>1. Adding(l)' = Adding(l) /\ Removing(l)' = Removing(l) /\ Moved(l)' = Moved(l)
    BY <1>1, <1>4, <1>5 DEF Adding, Removing, Moved
  <2> QED BY <1>1, <2>1, Untouched DEF ListsInv
<1> QED BY <1>3, <1>5, <1>7, <1>8 DEF ListsInv

\* A write that is served: the lists it does not touch, and the fetches.
LEMMA WriteKeeps ==
  ASSUME ListsInv, ListsTypeOK', NEW c \in pending, NEW answer,
         c.thunk.kind # "fetch", UNCHANGED <<slice, listed, settled>>,
         pending' = (Outdated(Touches(c.thunk)) \ {c}) \union {Served(c, answer)},
         \A l \in Lists : Made(l) \subseteq Made(l)',
         \A l \in Lists : l \notin Touches(c.thunk) => stored'[l] = stored[l],
         \A l \in Touches(c.thunk) : ItemsSound(l)'
  PROVE  ListsInv'
<1> DEFINE s == Served(c, answer)
<1>1. CallsSound /\ ListsTypeOK
  BY DEF ListsInv
<1>2. /\ CallsSound'
      /\ \A d \in pending' : d.thunk.kind # "fetch" => d = s \/ d \in pending \ {c}
      /\ \A d \in pending \ {c} : d.thunk.kind # "fetch" => d \in pending'
      /\ \A d \in pending' : d = s \/ \E e \in pending :
              /\ e.thunk = d.thunk /\ e.stage = d.stage /\ e.answer = d.answer
              /\ ~d.late => ~e.late
              /\ ~d.late => ~(e.stage = "served" /\ e.thunk.kind = "fetch" /\ e.thunk.list \in Touches(c.thunk))
  BY ServedCalls
<1>3. s.thunk = c.thunk
  BY Fields DEF Served
<1> HIDE DEF s
<1>4. FetchesSound'
  <2>1. ASSUME NEW d \in pending', d.thunk.kind = "fetch", d.stage = "served"
        PROVE  \E e \in pending :
                 /\ e.thunk = d.thunk /\ e.stage = "served" /\ e.answer = d.answer
                 /\ ~d.late => ~e.late /\ stored'[e.thunk.list] = stored[e.thunk.list]
    <3>1. PICK e \in pending :
              /\ e.thunk = d.thunk /\ e.stage = d.stage /\ e.answer = d.answer
              /\ ~d.late => ~e.late
              /\ ~d.late => ~(e.stage = "served" /\ e.thunk.kind = "fetch" /\ e.thunk.list \in Touches(c.thunk))
      BY <1>2, <1>3, <2>1
    <3>2. e.thunk.list \in Lists
      BY <1>1, CallIs
    <3> QED BY <2>1, <3>1, <3>2
  <2> QED BY <1>1, <2>1, FetchesKept DEF ListsInv
<1>5. ASSUME NEW l \in Lists, l \notin Touches(c.thunk) PROVE ItemsSound(l)'
  <2>1. (c.thunk.kind = "move" => Touches(c.thunk) = Lists) /\ (c.thunk.kind # "move" => c.thunk.list \in Touches(c.thunk))
    BY <1>1, CallIs
  <2>2. c.thunk.kind # "move" /\ c.thunk.list # l
    BY <1>5, <2>1
  <2>3. Adding(l)' = Adding(l) /\ Removing(l)' = Removing(l) /\ Moved(l)' = Moved(l)
    BY <1>2, <1>3, <2>2 DEF Adding, Removing, Moved
  <2> QED BY <1>5, <2>3, Untouched DEF ListsInv
<1>6. Lists' = Lists
  BY SameSlice
<1> QED BY <1>2, <1>4, <1>5, <1>6 DEF ListsInv

\* A registration is served: its id is new.
LEMMA AddKeeps ==
  ASSUME ListsInv, ListsTypeOK', NEW c \in pending, Serve(c), Write(c), c.thunk.kind = "add"
  PROVE  ListsInv'
<1> DEFINE l == c.thunk.list
<1>1. PICK i \in ItemIds :
        /\ stored[l][i] = 0 /\ Changed(l, i, 1)
        /\ pending' = (Outdated(Touches(c.thunk)) \ {c}) \union {Served(c, <<i, 1>>)}
  BY DEF Write
<1> DEFINE s == Served(c, <<i, 1>>)
<1>2. CallsSound /\ ListsTypeOK /\ l \in Lists /\ Touches(c.thunk) = {l} /\ slice = "bankAccounts"
  BY CallIs DEF ListsInv
<1>3. c.stage = "sent" /\ ~c.late /\ UNCHANGED <<slice, listed, settled>>
  BY <1>2 DEF Serve, CallsSound
<1>4. /\ s.thunk = c.thunk /\ s.stage = "served" /\ s.answer = <<i, 1>> /\ s.answer[1] = i /\ s.late = c.late
  BY Fields DEF Served
<1>5. /\ \A k \in Lists : k # l => stored'[k] = stored[k]
      /\ \A j \in ItemIds : j # i => stored'[l][j] = stored[l][j]
      /\ stored'[l][i] = 1
  BY <1>1, <1>2 DEF Changed, ListsTypeOK
<1>6. Held(l)' = Held(l) \union {i} /\ i \notin Held(l) /\ Made(l)' = Made(l) \union {i} /\ i \notin Made(l)
  <2>1. \A j \in ItemIds : /\ stored'[l][j] > 0 <=> stored[l][j] > 0 \/ j = i
                           /\ stored'[l][j] # 0 <=> stored[l][j] # 0 \/ j = i
    BY <1>5
  <2>2. i # 0 /\ ~(stored[l][i] > 0)
    BY <1>1, ListsBounds
  <2> QED BY <1>1, <2>1, <2>2 DEF Held, Made
<1>7. ASSUME NEW k \in Lists PROVE Made(k) \subseteq Made(k)'
  BY <1>5, <1>6 DEF Made
<1>8. /\ \A d \in pending' : d.thunk.kind # "fetch" => d = s \/ d \in pending \ {c}
      /\ \A d \in pending \ {c} : d.thunk.kind # "fetch" => d \in pending'
  BY <1>1, <1>3, <1>7, ServedCalls
<1>9. s \in pending' /\ c.thunk.kind = "add"
  BY <1>1
<1> HIDE DEF s
<1>10. Adding(l)' = Adding(l) \union {s} /\ Removing(l)' = Removing(l) /\ Moved(l)' = Moved(l)
  <2>1. Adding(l)' = Adding(l) \union {s}
    BY <1>3, <1>4, <1>8, <1>9 DEF Adding
  <2>2. Removing(l)' = Removing(l) /\ Moved(l)' = Moved(l)
    BY <1>3, <1>4, <1>8, <1>9 DEF Removing, Moved
  <2> QED BY <2>1, <2>2
<1>11. ItemsSound(l) /\ Ids(listed[l])' = Ids(listed[l])
  BY <1>2, <1>3 DEF ListsInv, Ids
<1>12. StoreSound(l)'
  <2>1. stored'[l][1] # 0
    BY <1>5, <1>11, ListsBounds DEF ItemsSound, StoreSound
  <2> QED BY <1>2, <1>3, <1>6, <1>11, <2>1, FS_AddElement DEF ItemsSound, StoreSound
<1>13. ScreenSound(l)'
  BY <1>2, <1>3, <1>7, <1>11 DEF ItemsSound, ScreenSound
<1>14. i \notin Ids(listed[l]) /\ \A d \in Removing(l) : d.item # i
  <2>1. i \notin Ids(listed[l])
    BY <1>6, <1>11 DEF ItemsSound, ScreenSound
  <2>2. \A d \in Removing(l) : d.item \in Made(l)
    BY <1>2 DEF CallsSound, Removing
  <2> QED BY <1>6, <2>1, <2>2
<1>15. AddsSound(l)'
  <2>1. \A d \in Adding(l) : d.answer[1] \in ItemIds \ {1} /\ d.answer[1] # i /\ d.answer = <<d.answer[1], 1>> /\ stored[l][d.answer[1]] # 0
    BY <1>1, <1>11 DEF ItemsSound, AddsSound
  <2>2. i # 1
    BY <1>1, <1>11 DEF ItemsSound, StoreSound
  <2>3. ASSUME NEW d \in Adding(l) \union {s}
        PROVE  /\ d.answer[1] \in ItemIds \ {1} /\ d.answer = <<d.answer[1], 1>>
               /\ stored'[l][d.answer[1]] # 0
    BY <1>4, <1>5, <2>1, <2>2
  <2>4. ASSUME NEW d \in Adding(l) \union {s}, NEW e \in Adding(l) \union {s}, d.answer[1] = e.answer[1]
        PROVE  d = e
    BY <1>4, <1>11, <2>1, <2>4 DEF ItemsSound, AddsSound
  <2>5. ASSUME NEW d \in Adding(l) \union {s}, ~d.late
        PROVE  /\ stored'[l][d.answer[1]] = 1 /\ d.answer[1] \notin Ids(listed[l])
               /\ \A e \in Removing(l) : e.item # d.answer[1]
    <3>1. CASE d = s
      BY <1>4, <1>5, <1>14, <3>1
    <3>2. CASE d \in Adding(l)
      BY <1>5, <1>11, <2>1, <2>5, <3>2 DEF ItemsSound, AddsSound
    <3> QED BY <3>1, <3>2
  <2> QED BY <1>10, <1>11, <2>3, <2>4, <2>5 DEF AddsSound
<1>16. RemovesSound(l)'
  <2>1. \A d \in Removing(l) : d.stage = "served" => d.item \in ItemIds /\ stored[l][d.item] = Gone
    BY <1>11 DEF ItemsSound, RemovesSound
  <2>2. \A d \in Removing(l) : d.stage = "served" => d.item \in ItemIds /\ stored'[l][d.item] = Gone
    BY <1>5, <1>14, <2>1
  <2> QED BY <1>10, <2>2 DEF RemovesSound
<1>17. ListSound(l) => ListSound(l)'
  <2> SUFFICES ASSUME ListSound(l) PROVE ListSound(l)'
    OBVIOUS
  <2>1. \A j \in Held(l) : stored'[l][j] = stored[l][j] /\ j \in Held(l)'
    BY <1>5, <1>6 DEF Held
  <2>2. \A n \in DOMAIN listed[l] :
           \/ \E j \in Held(l)' : listed[l][n] = <<j, stored'[l][j]>>
           \/ \E d \in Removing(l)' : d.stage = "served" /\ d.item = listed[l][n][1]
    BY <1>10, <2>1 DEF ListSound
  <2>3. \A j \in Held(l)' :
           \/ \E n \in DOMAIN listed[l] : listed[l][n] = <<j, stored'[l][j]>>
           \/ \E d \in Adding(l)' : ~d.late /\ d.answer[1] = j
    <3>1. ~s.late /\ s.answer[1] = i /\ s \in Adding(l)' /\ Adding(l) \subseteq Adding(l)'
      BY <1>3, <1>4, <1>10
    <3>2. ASSUME NEW j \in Held(l)
          PROVE  \/ \E n \in DOMAIN listed[l] : listed[l][n] = <<j, stored'[l][j]>>
                 \/ \E d \in Adding(l)' : ~d.late /\ d.answer[1] = j
      <4>1. \/ \E n \in DOMAIN listed[l] : listed[l][n] = <<j, stored[l][j]>>
            \/ \E d \in Adding(l) : ~d.late /\ d.answer[1] = j
        BY DEF ListSound
      <4> QED BY <2>1, <3>1, <4>1
    <3> QED BY <1>6, <3>1, <3>2
  <2>4. Distinct(listed[l])'
    BY <1>3 DEF ListSound, Distinct
  <2> QED BY <1>3, <2>2, <2>3, <2>4 DEF ListSound
<1>18. ItemsSound(l)'
  BY <1>3, <1>10, <1>11, <1>12, <1>13, <1>15, <1>16, <1>17 DEF ItemsSound
<1> QED
  BY <1>1, <1>2, <1>3, <1>5, <1>7, <1>18, WriteKeeps

\* A removal is served: what it removes is on no list that is due to show it.
LEMMA RemoveKeeps ==
  ASSUME ListsInv, ListsTypeOK', NEW c \in pending, Serve(c), Write(c), c.thunk.kind = "remove"
  PROVE  ListsInv'
<1> DEFINE l == c.thunk.list
           i == c.item
           s == Served(c, <<>>)
<1>1. /\ i \in ItemIds /\ stored[l][i] > 0 /\ Changed(l, i, Gone)
      /\ pending' = (Outdated(Touches(c.thunk)) \ {c}) \union {s}
  BY DEF Write
<1>2. CallsSound /\ ListsTypeOK /\ l \in Lists /\ Touches(c.thunk) = {l} /\ slice = "bankAccounts"
  BY CallIs DEF ListsInv
<1>3. c.stage = "sent" /\ UNCHANGED <<slice, listed, settled>>
  BY DEF Serve
<1>4. s.thunk = c.thunk /\ s.stage = "served" /\ s.item = i
  BY Fields DEF Served
<1>5. /\ \A k \in Lists : k # l => stored'[k] = stored[k]
      /\ \A j \in ItemIds : j # i => stored'[l][j] = stored[l][j]
      /\ stored'[l][i] = Gone
  BY <1>1, <1>2 DEF Changed, ListsTypeOK
<1>6. Held(l)' = Held(l) \ {i} /\ Made(l)' = Made(l)
  <2>1. \A j \in ItemIds : /\ stored'[l][j] > 0 <=> stored[l][j] > 0 /\ j # i
                           /\ stored'[l][j] # 0 <=> stored[l][j] # 0
    BY <1>1, <1>5 DEF Gone
  <2> QED BY <1>1, <2>1 DEF Held, Made
<1>7. ASSUME NEW k \in Lists PROVE Made(k) \subseteq Made(k)'
  BY <1>5, <1>6 DEF Made
<1>8. /\ \A d \in pending' : d.thunk.kind # "fetch" => d = s \/ d \in pending \ {c}
      /\ \A d \in pending \ {c} : d.thunk.kind # "fetch" => d \in pending'
  BY <1>1, <1>3, <1>7, ServedCalls
<1>9. s \in pending' /\ c.thunk.kind = "remove"
  BY <1>1
<1> HIDE DEF s
<1>10. Adding(l)' = Adding(l) /\ Removing(l)' = (Removing(l) \ {c}) \union {s} /\ Moved(l)' = Moved(l)
  <2>1. Adding(l)' = Adding(l) /\ Moved(l)' = Moved(l)
    BY <1>3, <1>4, <1>8, <1>9 DEF Adding, Moved
  <2>2. Removing(l)' = (Removing(l) \ {c}) \union {s}
    BY <1>3, <1>4, <1>8, <1>9 DEF Removing
  <2> QED BY <2>1, <2>2
<1>11. ItemsSound(l) /\ Ids(listed[l])' = Ids(listed[l]) /\ c \in Removing(l)
  BY <1>2, <1>3 DEF ListsInv, Ids, Removing
<1>12. StoreSound(l)'
  <2>1. stored'[l][1] # 0
    BY <1>5, <1>11, ListsBounds DEF ItemsSound, StoreSound, Gone
  <2> QED BY <1>2, <1>3, <1>6, <1>11, <2>1, FS_RemoveElement DEF ItemsSound, StoreSound
<1>13. ScreenSound(l)'
  BY <1>2, <1>3, <1>6, <1>11 DEF ItemsSound, ScreenSound
<1>14. \A d \in Adding(l) : ~d.late => d.answer[1] # i
  BY <1>11 DEF ItemsSound, AddsSound
<1>15. AddsSound(l)'
  <2>1. ASSUME NEW d \in Adding(l)
        PROVE  /\ d.answer[1] \in ItemIds \ {1} /\ d.answer = <<d.answer[1], 1>>
               /\ stored'[l][d.answer[1]] # 0
    BY <1>5, <1>11 DEF ItemsSound, AddsSound, Gone
  <2>2. ASSUME NEW d \in Adding(l), ~d.late
        PROVE  /\ stored'[l][d.answer[1]] = 1 /\ d.answer[1] \notin Ids(listed[l])
               /\ \A e \in Removing(l) \union {s} : e.item # d.answer[1]
    BY <1>4, <1>5, <1>11, <1>14, <2>1, <2>2 DEF ItemsSound, AddsSound
  <2>3. \A d, e \in Adding(l) : d.answer[1] = e.answer[1] => d = e
    BY <1>11 DEF ItemsSound, AddsSound
  <2> QED BY <1>10, <1>11, <2>1, <2>2, <2>3 DEF AddsSound
<1>16. RemovesSound(l)'
  <2>1. \A d \in Removing(l) : d.stage = "served" => d.item \in ItemIds /\ stored[l][d.item] = Gone
    BY <1>11 DEF ItemsSound, RemovesSound
  <2>2. \A d \in Removing(l) \union {s} : d.stage = "served" => d.item \in ItemIds /\ stored'[l][d.item] = Gone
    BY <1>1, <1>4, <1>5, <2>1
  <2> QED BY <1>10, <2>2 DEF RemovesSound
<1>17. ListSound(l) => ListSound(l)'
  <2> SUFFICES ASSUME ListSound(l) PROVE ListSound(l)'
    OBVIOUS
  <2>1. \A j \in Held(l) : j # i => stored'[l][j] = stored[l][j] /\ j \in Held(l)'
    BY <1>5, <1>6 DEF Held
  <2>2. ASSUME NEW n \in DOMAIN listed[l]
        PROVE  \/ \E j \in Held(l)' : listed[l][n] = <<j, stored'[l][j]>>
               \/ \E d \in Removing(l)' : d.stage = "served" /\ d.item = listed[l][n][1]
    <3>1. CASE \E j \in Held(l) : listed[l][n] = <<j, stored[l][j]>>
      <4>1. PICK j \in Held(l) : listed[l][n] = <<j, stored[l][j]>>
        BY <3>1
      <4>2. listed[l][n][1] = j
        BY <4>1
      <4>3. CASE j = i
        BY <1>4, <1>10, <4>2, <4>3
      <4>4. CASE j # i
        BY <2>1, <4>1, <4>4
      <4> QED BY <4>3, <4>4
    <3>2. CASE \E d \in Removing(l) : d.stage = "served" /\ d.item = listed[l][n][1]
      BY <1>3, <1>10, <3>2
    <3> QED BY <3>1, <3>2 DEF ListSound
  <2>3. \A j \in Held(l)' :
           \/ \E n \in DOMAIN listed[l] : listed[l][n] = <<j, stored'[l][j]>>
           \/ \E d \in Adding(l)' : ~d.late /\ d.answer[1] = j
    <3> SUFFICES ASSUME NEW j \in Held(l), j # i
                 PROVE  \/ \E n \in DOMAIN listed[l] : listed[l][n] = <<j, stored'[l][j]>>
                        \/ \E d \in Adding(l) : ~d.late /\ d.answer[1] = j
      BY <1>6, <1>10
    <3>1. \/ \E n \in DOMAIN listed[l] : listed[l][n] = <<j, stored[l][j]>>
          \/ \E d \in Adding(l) : ~d.late /\ d.answer[1] = j
      BY DEF ListSound
    <3> QED BY <2>1, <3>1
  <2>4. Distinct(listed[l])'
    BY <1>3 DEF ListSound, Distinct
  <2> QED BY <1>3, <2>2, <2>3, <2>4 DEF ListSound
<1>18. ItemsSound(l)'
  BY <1>3, <1>10, <1>11, <1>12, <1>13, <1>15, <1>16, <1>17 DEF ItemsSound
<1> QED
  BY <1>1, <1>2, <1>3, <1>5, <1>7, <1>18, WriteKeeps DEF s

\* A movement is served: no list of its slice can be trusted until it is answered.
LEMMA MoveKeeps ==
  ASSUME ListsInv, ListsTypeOK', NEW c \in pending, Serve(c), Write(c), c.thunk.kind = "move"
  PROVE  ListsInv'
<1> DEFINE s == Served(c, <<>>)
<1>1. /\ stored' = [l \in Lists |-> [stored[l] EXCEPT ![c.item] = @ + 1]]
      /\ pending' = (Outdated(Touches(c.thunk)) \ {c}) \union {s}
  BY DEF Write
<1>2. CallsSound /\ ListsTypeOK /\ Touches(c.thunk) = Lists /\ slice = "wallet" /\ c.item = 1 /\ 1 \in ItemIds
  BY CallIs, ListsBounds DEF ListsInv, CallsSound
<1>3. UNCHANGED <<slice, listed, settled>>
  BY DEF Serve
<1>4. s.thunk = c.thunk /\ s.stage = "served"
  BY Fields DEF Served
<1>5. ASSUME NEW l \in Lists
      PROVE  /\ \A j \in ItemIds : j # 1 => stored'[l][j] = stored[l][j]
             /\ stored'[l][1] = stored[l][1] + 1
             /\ stored[l][1] \in Nat \ {0} /\ \A j \in ItemIds : stored[l][j] # Gone
  BY <1>1, <1>2 DEF ListsTypeOK, ListsInv, ItemsSound, StoreSound
<1>6. ASSUME NEW l \in Lists PROVE Held(l)' = Held(l) /\ Made(l)' = Made(l)
  <2>1. \A j \in ItemIds : /\ stored'[l][j] > 0 <=> stored[l][j] > 0
                           /\ stored'[l][j] # 0 <=> stored[l][j] # 0
    BY <1>5
  <2> QED BY <2>1 DEF Held, Made
<1>7. /\ \A d \in pending' : d.thunk.kind # "fetch" => d = s \/ d \in pending \ {c}
      /\ \A d \in pending \ {c} : d.thunk.kind # "fetch" => d \in pending'
  BY <1>1, <1>3, <1>6, ServedCalls
<1>8. s \in pending'
  BY <1>1
<1> HIDE DEF s
<1>9. ASSUME NEW l \in Lists PROVE ItemsSound(l)'
  <2>1. Adding(l)' = {} /\ Removing(l)' = {}
    <3>1. \A d \in pending : d.thunk.kind \notin {"add", "remove"}
      BY <1>2, CallIs
    <3> QED BY <1>4, <1>7, <3>1 DEF Adding, Removing
  <2>2. Moved(l)'
    BY <1>2, <1>4, <1>8 DEF Moved
  <2>3. StoreSound(l)'
    <3>1. stored'[l][1] # 0 /\ \A j \in ItemIds : stored'[l][j] # Gone
      BY <1>5 DEF Gone
    <3> QED BY <1>6, <3>1 DEF ListsInv, ItemsSound, StoreSound
  <2>4. ScreenSound(l)'
    BY <1>3, <1>6 DEF ListsInv, ItemsSound, ScreenSound, Ids
  <2>5. AddsSound(l)' /\ RemovesSound(l)'
    BY <2>1 DEF AddsSound, RemovesSound
  <2> QED BY <2>2, <2>3, <2>4, <2>5 DEF ItemsSound
<1> QED BY <1>1, <1>2, <1>3, <1>6, <1>9, WriteKeeps DEF s

\* An answer leaves the calls sound; what it does to registrations is SeenBy.
LEMMA AnsweredCalls ==
  ASSUME ListsInv, NEW c \in pending, Answer(c)
  PROVE  /\ CallsSound' /\ FetchesSound'
         /\ \A d : d \in pending' /\ d.thunk.kind \in {"remove", "move"}
                   <=> d \in pending \ {c} /\ d.thunk.kind \in {"remove", "move"}
         /\ \A d \in pending' : d.thunk.kind = "add" => \E e \in pending \ {c} :
              /\ d.thunk = e.thunk /\ d.answer = e.answer /\ d.stage = e.stage /\ d.late \in BOOLEAN
              /\ d = AsOf(e, e.stage, e.answer, d.late)
              /\ ~d.late => d = e
              /\ IF c.thunk.kind = "fetch" /\ e.thunk.list = c.thunk.list
                 THEN e.stage = "served" => d.late
                 ELSE d = e
         /\ \A e \in pending \ {c} : c.thunk.kind # "fetch" \/ e.thunk.list # c.thunk.list => e \in pending'
<1>1. /\ pending' = SeenBy(c) \union FollowUps(c) /\ UNCHANGED <<slice, stored>>
  BY DEF Answer
<1>2. CallsSound /\ ListsTypeOK /\ FetchesSound
  BY DEF ListsInv
<1>3. Lists' = Lists /\ Thunks' = Thunks /\ \A l : Made(l)' = Made(l) /\ Listing(l)' = Listing(l)
  BY <1>1, SameSlice DEF Made, Listing, Held
<1>4. ASSUME NEW d \in FollowUps(c)
      PROVE  /\ d = AsOf(d, d.stage, d.answer, d.late) /\ d.thunk \in {Thunks[x] : x \in DOMAIN Thunks}
             /\ d.stage = "sent" /\ d.late = FALSE /\ d.item = 1 /\ d.thunk.kind = "fetch"
  <2>1. c.thunk.kind = "move"
    BY <1>4 DEF FollowUps
  <2>2. slice = "wallet"
    BY <1>2, <2>1, CallIs
  <2>3. Thunks = WalletSlice
    BY <2>2 DEF Thunks, Slices
  <2>4. PICK n, t : t \in {"fetchWallets", "fetchWalletStatement"} /\ d = Call(n, t, 1)
    BY <1>4, <2>1 DEF FollowUps
  <2>5. t \in DOMAIN Thunks /\ Thunks[t].kind = "fetch"
    BY <2>3, <2>4 DEF WalletSlice, Thunk
  <2>6. /\ d.thunk = Thunks[t] /\ d.stage = "sent" /\ d.late = FALSE /\ d.item = 1
        /\ d = AsOf(d, d.stage, d.answer, d.late)
    BY <2>4 DEF Call, AsOf
  <2> QED BY <2>5, <2>6
<1>5. ASSUME NEW d \in SeenBy(c)
      PROVE  \E e \in pending \ {c} :
              /\ d = AsOf(e, e.stage, e.answer, d.late) /\ d.late \in BOOLEAN
              /\ d.late => e.stage = "served"
              /\ ~d.late => d = e /\ ~(c.thunk.kind = "fetch" /\ e.thunk.kind = "add"
                                       /\ e.thunk.list = c.thunk.list /\ e.stage = "served")
              /\ e.thunk.kind # "add" \/ c.thunk.kind # "fetch" \/ e.thunk.list # c.thunk.list => d = e
              /\ d.thunk = e.thunk /\ d.item = e.item /\ d.stage = e.stage /\ d.answer = e.answer
              /\ d = AsOf(d, d.stage, d.answer, d.late)
  <2>1. PICK e \in pending \ {c} :
              /\ d = AsOf(e, e.stage, e.answer, d.late) /\ d.late \in BOOLEAN
              /\ d.late => e.stage = "served"
              /\ ~d.late => d = e /\ ~(c.thunk.kind = "fetch" /\ e.thunk.kind = "add"
                                       /\ e.thunk.list = c.thunk.list /\ e.stage = "served")
              /\ e.thunk.kind # "add" \/ c.thunk.kind # "fetch" \/ e.thunk.list # c.thunk.list => d = e
    BY <1>2, SeenByIs
  <2>2. /\ d.thunk = e.thunk /\ d.item = e.item /\ d.stage = e.stage /\ d.answer = e.answer
        /\ d = AsOf(d, d.stage, d.answer, d.late)
    BY <2>1, Fields
  <2> QED BY <2>1, <2>2
<1>6. CallsSound'
  <2> SUFFICES ASSUME NEW d \in pending'
               PROVE  /\ d = AsOf(d, d.stage, d.answer, d.late)
                      /\ d.thunk \in {Thunks[x] : x \in DOMAIN Thunks} /\ d.stage \in {"sent", "served"}
                      /\ d.late \in BOOLEAN /\ (d.late => d.stage = "served")
                      /\ IF d.thunk.kind = "remove" THEN d.item \in Made(d.thunk.list) ELSE d.item = 1
    BY <1>3 DEF CallsSound
  <2>1. CASE d \in FollowUps(c)
    BY <1>4, <2>1
  <2>2. CASE d \in SeenBy(c)
    <3>1. PICK e \in pending :
            /\ d.late \in BOOLEAN /\ (d.late => e.stage = "served")
            /\ d.thunk = e.thunk /\ d.item = e.item /\ d.stage = e.stage
            /\ d = AsOf(d, d.stage, d.answer, d.late)
      BY <1>5, <2>2
    <3> QED BY <1>2, <3>1 DEF CallsSound
  <2> QED BY <1>1, <2>1, <2>2
<1>7. FetchesSound'
  <2>1. ASSUME NEW d \in pending', d.thunk.kind = "fetch", d.stage = "served"
        PROVE  d \in pending
    <3>1. d \in SeenBy(c)
      BY <1>1, <1>4, <2>1
    <3> QED BY <1>5, <2>1, <3>1
  <2> QED BY <1>2, <1>3, <2>1, FetchesKept, <1>1
<1>8. ASSUME NEW d \in pending', d.thunk.kind \in {"remove", "move"} PROVE d \in pending \ {c}
  <2>1. d \in SeenBy(c)
    BY <1>1, <1>4, <1>8
  <2> QED BY <1>5, <1>8, <2>1
<1>9. ASSUME NEW e \in pending \ {c},
             e.thunk.kind \in {"remove", "move"} \/ c.thunk.kind # "fetch" \/ e.thunk.list # c.thunk.list
      PROVE  e \in pending'
  <2>1. e.thunk.kind # "add" \/ c.thunk.kind # "fetch" \/ e.thunk.list # c.thunk.list
    BY <1>9
  <2> QED BY <1>1, <1>2, <2>1, SeenByIs
<1>10. ASSUME NEW d \in pending', d.thunk.kind = "add"
       PROVE  \E e \in pending \ {c} :
              /\ d.thunk = e.thunk /\ d.answer = e.answer /\ d.stage = e.stage /\ d.late \in BOOLEAN
              /\ d = AsOf(e, e.stage, e.answer, d.late)
              /\ ~d.late => d = e
              /\ IF c.thunk.kind = "fetch" /\ e.thunk.list = c.thunk.list
                 THEN e.stage = "served" => d.late
                 ELSE d = e
  <2>1. d \in SeenBy(c)
    BY <1>1, <1>4, <1>10
  <2> QED BY <1>5, <1>10, <2>1
<1> QED BY <1>6, <1>7, <1>8, <1>9, <1>10

\* The answer to a fetch replaces the list.
LEMMA FetchedKeeps ==
  ASSUME ListsInv, ListsTypeOK', NEW c \in pending, Answer(c), c.thunk.kind = "fetch"
  PROVE  ListsInv'
<1> DEFINE l == c.thunk.list
<1>1. CallsSound /\ ListsTypeOK /\ FetchesSound /\ l \in Lists /\ Touches(c.thunk) = {l}
  BY CallIs DEF ListsInv
<1>2. /\ c.stage = "served" /\ listed' = [listed EXCEPT ![l] = c.answer] /\ UNCHANGED <<slice, stored>>
      /\ \A k \in Lists : settled'[k] = IF k = l THEN ~c.late ELSE settled[k]
  BY <1>1 DEF Answer, Fulfilled
<1>3. Lists' = Lists /\ \A k : Made(k)' = Made(k) /\ Held(k)' = Held(k)
  BY <1>2, SameSlice DEF Made, Held
<1>4. /\ CallsSound' /\ FetchesSound'
      /\ \A d : d \in pending' /\ d.thunk.kind \in {"remove", "move"}
                   <=> d \in pending \ {c} /\ d.thunk.kind \in {"remove", "move"}
      /\ \A d \in pending' : d.thunk.kind = "add" => \E e \in pending \ {c} :
              /\ d.thunk = e.thunk /\ d.answer = e.answer /\ d.stage = e.stage /\ d.late \in BOOLEAN
              /\ d = AsOf(e, e.stage, e.answer, d.late)
              /\ IF c.thunk.kind = "fetch" /\ e.thunk.list = c.thunk.list
                 THEN e.stage = "served" => d.late
                 ELSE d = e
      /\ \A e \in pending \ {c} : c.thunk.kind # "fetch" \/ e.thunk.list # c.thunk.list => e \in pending'
  BY AnsweredCalls
<1>5. /\ c.answer \in Seq(Entry) /\ Ids(c.answer) \subseteq Made(l)
      /\ ~c.late => c.answer = Listing(l)
  BY <1>1, <1>2 DEF FetchesSound
<1>6. ASSUME NEW k \in Lists PROVE Removing(k)' = Removing(k) /\ Moved(k)' = Moved(k)
  BY <1>4 DEF Removing, Moved
<1>7. ASSUME NEW k \in Lists, k # l PROVE ItemsSound(k)'
  <2>1. Adding(k)' = Adding(k)
    <3>1. ASSUME NEW d \in pending', d.thunk.kind = "add", d.thunk.list = k PROVE d \in pending
      BY <1>4, <1>7, <3>1
    <3> QED BY <1>4, <1>7, <3>1 DEF Adding
  <2>2. listed'[k] = listed[k]
    BY <1>1, <1>2, <1>7 DEF ListsTypeOK
  <2> QED BY <1>2, <1>6, <1>7, <2>1, <2>2, Untouched DEF ListsInv
<1>8. ItemsSound(l)'
  <2>1. listed'[l] = c.answer /\ ItemsSound(l)
    BY <1>1, <1>2 DEF ListsTypeOK, ListsInv
  <2>2. StoreSound(l)' /\ RemovesSound(l)'
    BY <1>2, <1>3, <1>6, <1>1, <2>1 DEF ItemsSound, StoreSound, RemovesSound
  <2>3. ScreenSound(l)'
    BY <1>3, <1>5, <2>1 DEF ScreenSound, Ids
  <2>4. ASSUME NEW d \in Adding(l)'
        PROVE  d.late /\ \E e \in Adding(l) : d.answer = e.answer /\ d = AsOf(e, e.stage, e.answer, TRUE)
    <3>1. d \in pending' /\ d.thunk.kind = "add" /\ d.thunk.list = l /\ d.stage = "served"
      BY DEF Adding
    <3>2. PICK e \in pending \ {c} :
              /\ d.thunk = e.thunk /\ d.answer = e.answer /\ d.stage = e.stage /\ d.late \in BOOLEAN
              /\ d = AsOf(e, e.stage, e.answer, d.late)
              /\ IF c.thunk.kind = "fetch" /\ e.thunk.list = c.thunk.list
                 THEN e.stage = "served" => d.late
                 ELSE d = e
      BY <1>4, <3>1
    <3>3. d.late = TRUE /\ e \in Adding(l)
      BY <3>1, <3>2 DEF Adding
    <3> QED BY <3>2, <3>3
  <2>5. AddsSound(l)'
    <3>1. \A d \in Adding(l)' : /\ d.answer[1] \in ItemIds \ {1} /\ d.answer = <<d.answer[1], 1>>
                                /\ stored'[l][d.answer[1]] # 0
      <4>1. \A e \in Adding(l) : /\ e.answer[1] \in ItemIds \ {1} /\ e.answer = <<e.answer[1], 1>>
                                 /\ stored[l][e.answer[1]] # 0
        BY <2>1 DEF ItemsSound, AddsSound
      <4>2. ASSUME NEW d \in Adding(l)'
            PROVE  /\ d.answer[1] \in ItemIds \ {1} /\ d.answer = <<d.answer[1], 1>>
                   /\ stored[l][d.answer[1]] # 0
        <5>1. PICK e \in Adding(l) : d.answer = e.answer
          BY <2>4
        <5> QED BY <4>1, <5>1
      <4>3. stored' = stored
        BY <1>2
      <4> QED BY <4>2, <4>3
    <3>2. ASSUME NEW d \in Adding(l)', NEW e \in Adding(l)', d.answer[1] = e.answer[1] PROVE d = e
      <4>1. PICK x \in Adding(l) : d.answer = x.answer /\ d = AsOf(x, x.stage, x.answer, TRUE)
        BY <2>4
      <4>2. PICK y \in Adding(l) : e.answer = y.answer /\ e = AsOf(y, y.stage, y.answer, TRUE)
        BY <2>4
      <4>3. x = y
        BY <2>1, <3>2, <4>1, <4>2 DEF ItemsSound, AddsSound
      <4> QED BY <4>1, <4>2, <4>3
    <3> QED BY <2>4, <3>1, <3>2 DEF AddsSound
  <2>6. ASSUME settled'[l] PROVE ListSound(l)'
    <3>1. c.answer = Listing(l)
      BY <1>1, <1>2, <1>5, <2>6
    <3>2. /\ \A n \in DOMAIN c.answer : \E i \in Held(l) : c.answer[n] = <<i, stored[l][i]>>
          /\ \A i \in Held(l) : \E n \in DOMAIN c.answer : c.answer[n] = <<i, stored[l][i]>>
          /\ Distinct(c.answer)
      BY <1>1, <2>1, <3>1, ListingIs DEF ItemsSound, StoreSound
    <3>3. Distinct(listed[l])'
      BY <2>1, <3>2 DEF Distinct
    <3> QED BY <1>2, <1>3, <2>1, <3>2, <3>3 DEF ListSound
  <2> QED BY <2>2, <2>3, <2>5, <2>6 DEF ItemsSound
<1> QED BY <1>3, <1>4, <1>7, <1>8 DEF ListsInv

\* The answers to writes: the lists they do not touch, and the other calls.
LEMMA WroteKeeps ==
  ASSUME ListsInv, ListsTypeOK', NEW c \in pending, Answer(c), c.thunk.kind # "fetch",
         \A l \in Touches(c.thunk) : ItemsSound(l)'
  PROVE  ListsInv'
<1>1. CallsSound /\ ListsTypeOK /\ c.thunk.list \in Lists
      /\ (c.thunk.kind = "move" => Touches(c.thunk) = Lists) /\ (c.thunk.kind # "move" => Touches(c.thunk) = {c.thunk.list})
  BY CallIs DEF ListsInv
<1>2. /\ CallsSound' /\ FetchesSound'
      /\ \A d : d \in pending' /\ d.thunk.kind # "fetch" <=> d \in pending \ {c} /\ d.thunk.kind # "fetch"
  <2>1. \A d \in pending : d.thunk.kind \in {"fetch", "add", "remove", "move"}
    BY <1>1, CallIs
  <2>2. CallsSound' /\ FetchesSound'
    BY AnsweredCalls
  <2>3. \A d \in pending' : d.thunk.kind \in {"fetch", "add", "remove", "move"}
    <3>1. Thunks' = Thunks /\ Lists' = Lists /\ slice' = slice
      BY SameSlice DEF Answer
    <3> QED BY <1>1, <2>2, <3>1, ThunkIs DEF CallsSound, ListsTypeOK
  <2> QED BY <2>1, <2>2, <2>3, AnsweredCalls
<1>3. /\ UNCHANGED <<slice, stored>> /\ listed' = [listed EXCEPT ![c.thunk.list] = Fulfilled(c)]
      /\ \A k \in Lists : k \notin Touches(c.thunk) => settled'[k] = settled[k]
  BY DEF Answer
<1>4. ASSUME NEW l \in Lists, l \notin Touches(c.thunk) PROVE ItemsSound(l)'
  <2>1. Adding(l)' = Adding(l) /\ Removing(l)' = Removing(l) /\ Moved(l)' = Moved(l)
    BY <1>1, <1>2, <1>4 DEF Adding, Removing, Moved
  <2>2. listed'[l] = listed[l]
    BY <1>1, <1>3, <1>4 DEF ListsTypeOK
  <2> QED BY <1>3, <1>4, <2>1, <2>2, Untouched DEF ListsInv
<1>5. Lists' = Lists
  BY <1>3, SameSlice
<1> QED BY <1>2, <1>4, <1>5 DEF ListsInv

\* A list with one more entry at its end.
LEMMA EntryAppended ==
  ASSUME NEW list \in Seq(Entry), NEW entry \in Entry, NEW longer, longer = Append(list, entry)
  PROVE  /\ longer \in Seq(Entry) /\ DOMAIN longer = DOMAIN list \union {Len(list) + 1}
         /\ \A n \in DOMAIN list : longer[n] = list[n]
         /\ longer[Len(list) + 1] = entry
<1>1. longer \in Seq(Entry) /\ longer[Len(list) + 1] = entry /\ \A n \in DOMAIN list : longer[n] = list[n]
  OBVIOUS
<1>2. PICK k \in Nat : k = Len(list)
  OBVIOUS
<1>3. DOMAIN list = 1..k /\ DOMAIN longer = 1..(k + 1)
  BY <1>2
<1>4. 1..(k + 1) = (1..k) \union {k + 1}
  BY <1>2
<1> QED BY <1>1, <1>2, <1>3, <1>4

\* The calls that are left when one is answered that was not a fetch.
LEMMA WroteCalls ==
  ASSUME ListsInv, NEW c \in pending, Answer(c), c.thunk.kind # "fetch"
  PROVE  /\ \A d : d \in pending' /\ d.thunk.kind # "fetch" <=> d \in pending \ {c} /\ d.thunk.kind # "fetch"
         /\ UNCHANGED <<slice, stored>> /\ c.stage = "served"
<1>1. /\ pending' = SeenBy(c) \union FollowUps(c) /\ UNCHANGED <<slice, stored>> /\ c.stage = "served"
  BY DEF Answer
<1>2. CallsSound /\ ListsTypeOK
  BY DEF ListsInv
<1>3. ASSUME NEW d \in FollowUps(c) PROVE d.thunk.kind = "fetch"
  <2>1. c.thunk.kind = "move"
    BY <1>3 DEF FollowUps
  <2>2. Thunks = WalletSlice
    BY <1>2, <2>1, CallIs DEF Thunks, Slices
  <2>3. PICK n, t : t \in {"fetchWallets", "fetchWalletStatement"} /\ d = Call(n, t, 1)
    BY <1>3, <2>1 DEF FollowUps
  <2>4. d.thunk = Thunks[t]
    BY <2>3 DEF Call
  <2> QED BY <2>2, <2>3, <2>4 DEF WalletSlice, Thunk
<1>4. ASSUME NEW d \in SeenBy(c) PROVE d \in pending \ {c}
  BY <1>2, SeenByIs
<1>5. ASSUME NEW d \in pending \ {c} PROVE d \in SeenBy(c)
  BY <1>2, SeenByIs
<1> QED BY <1>1, <1>3, <1>4, <1>5

\* What an answer to a write makes of its list.
LEMMA FulfilledIs ==
  ASSUME ListsTypeOK, NEW c, Answer(c), c.thunk.list \in Lists
  PROVE  /\ c.thunk.kind = "add" => listed'[c.thunk.list] = Append(listed[c.thunk.list], c.answer)
         /\ c.thunk.kind = "remove" => listed'[c.thunk.list] = Without(listed[c.thunk.list], c.item)
         /\ c.thunk.kind = "move" => \A l \in Lists : listed'[l] = listed[l]
         /\ \A l \in Touches(c.thunk) \intersect Lists :
              /\ c.thunk.kind = "move" => ~settled'[l]
              /\ c.thunk.kind \in {"add", "remove"} => (settled'[l] => settled[l] /\ ~c.late)
<1>1. listed' = [listed EXCEPT ![c.thunk.list] = Fulfilled(c)] /\ DOMAIN listed = Lists
  BY DEF Answer, ListsTypeOK
<1>2. listed'[c.thunk.list] = Fulfilled(c)
  BY <1>1
<1>3. ASSUME c.thunk.kind = "add" PROVE Fulfilled(c) = Append(listed[c.thunk.list], c.answer)
  BY <1>3 DEF Fulfilled
<1>4. ASSUME c.thunk.kind = "remove" PROVE Fulfilled(c) = Without(listed[c.thunk.list], c.item)
  BY <1>4 DEF Fulfilled
<1>5. ASSUME c.thunk.kind = "move", NEW l \in Lists PROVE listed'[l] = listed[l]
  <2>1. Fulfilled(c) = listed[c.thunk.list]
    BY <1>5 DEF Fulfilled
  <2> QED BY <1>1, <2>1
<1>6. ASSUME NEW l \in Touches(c.thunk) \intersect Lists
      PROVE  /\ c.thunk.kind = "move" => ~settled'[l]
             /\ c.thunk.kind \in {"add", "remove"} => (settled'[l] => settled[l] /\ ~c.late)
  <2>1. settled'[l] = CASE c.thunk.kind = "fetch" -> ~c.late
                        [] c.thunk.kind = "move"  -> FALSE
                        [] OTHER                  -> settled[l] /\ ~c.late
    BY DEF Answer
  <2>2. ASSUME c.thunk.kind = "move" PROVE ~settled'[l]
    BY <2>1, <2>2
  <2>3. ASSUME c.thunk.kind \in {"add", "remove"} PROVE settled'[l] => settled[l] /\ ~c.late
    <3>1. c.thunk.kind # "fetch" /\ c.thunk.kind # "move"
      BY <2>3
    <3> QED BY <2>1, <3>1
  <2> QED BY <2>2, <2>3
<1> QED BY <1>2, <1>3, <1>4, <1>5, <1>6

\* A registration is answered: it is on the screen now.
LEMMA AddedKeeps ==
  ASSUME ListsInv, ListsTypeOK', NEW c \in pending, Answer(c), c.thunk.kind = "add"
  PROVE  ListsInv'
<1> DEFINE l == c.thunk.list
           i == c.answer[1]
           last == Len(listed[l]) + 1
<1>1. CallsSound /\ ListsTypeOK /\ l \in Lists /\ Touches(c.thunk) = {l}
  BY CallIs DEF ListsInv
<1>2. /\ \A d : d \in pending' /\ d.thunk.kind # "fetch" <=> d \in pending \ {c} /\ d.thunk.kind # "fetch"
      /\ UNCHANGED <<slice, stored>> /\ c.stage = "served"
  BY WroteCalls
<1>3. listed'[l] = Append(listed[l], c.answer) /\ (settled'[l] => settled[l] /\ ~c.late)
  BY <1>1, FulfilledIs
<1>4. Adding(l)' = Adding(l) \ {c} /\ Removing(l)' = Removing(l) /\ Moved(l)' = Moved(l) /\ c \in Adding(l)
  BY <1>2 DEF Adding, Removing, Moved
<1>5. Made(l)' = Made(l) /\ Held(l)' = Held(l)
  BY <1>2 DEF Made, Held
<1>6. ItemsSound(l)
  BY <1>1 DEF ListsInv
<1>7. /\ i \in ItemIds \ {1} /\ c.answer = <<i, 1>> /\ stored[l][i] # 0
      /\ \A d \in Adding(l) \ {c} : d.answer[1] # i
      /\ ~c.late => stored[l][i] = 1 /\ i \notin Ids(listed[l])
  BY <1>4, <1>6 DEF ItemsSound, AddsSound
<1>8. listed[l] \in Seq(Entry) /\ Ids(listed[l]) \subseteq Made(l) /\ c.answer \in Entry
  <2>1. <<i, 1>> \in Entry
    BY <1>7 DEF Entry
  <2> QED BY <1>6, <1>7, <2>1 DEF ItemsSound, ScreenSound
<1>9. /\ listed'[l] \in Seq(Entry) /\ DOMAIN listed'[l] = DOMAIN listed[l] \union {last}
      /\ \A n \in DOMAIN listed[l] : listed'[l][n] = listed[l][n]
      /\ listed'[l][last] = <<i, 1>>
  <2>1. listed[l] \in Seq(Entry) /\ c.answer \in Entry /\ listed'[l] = Append(listed[l], c.answer)
    BY <1>3, <1>8
  <2>2. /\ listed'[l] \in Seq(Entry) /\ DOMAIN listed'[l] = DOMAIN listed[l] \union {last}
        /\ listed'[l][last] = c.answer
    <3> HIDE DEF l, i
    <3> QED BY <2>1, EntryAppended
  <2>3. \A n \in DOMAIN listed[l] : listed'[l][n] = listed[l][n]
    <3> HIDE DEF l, i
    <3> QED BY <2>1, EntryAppended
  <2> QED BY <1>7, <2>2, <2>3
<1> HIDE DEF i, last
<1>10. Ids(listed[l])' = Ids(listed[l]) \union {i}
  <2>1. <<i, 1>>[1] = i
    OBVIOUS
  <2> QED BY <1>9, <2>1 DEF Ids
<1>11. StoreSound(l)' /\ RemovesSound(l)'
  BY <1>2, <1>4, <1>5, <1>6 DEF ItemsSound, StoreSound, RemovesSound
<1>12. ScreenSound(l)'
  <2>1. i \in Made(l)
    BY <1>7 DEF Made
  <2> QED BY <1>5, <1>8, <1>9, <1>10, <2>1 DEF ScreenSound
<1>13. AddsSound(l)'
  BY <1>2, <1>4, <1>6, <1>7, <1>10 DEF ItemsSound, AddsSound
<1>14. ASSUME ~c.late, ListSound(l) PROVE ListSound(l)'
  <2>1. stored[l][i] = 1 /\ i \notin Ids(listed[l]) /\ i \in Held(l)
    BY <1>7, <1>14 DEF Held
  <2>2. \A n \in DOMAIN listed[l] : listed[l][n][1] # i
    BY <2>1 DEF Ids
  <2>3. listed'[l][last][1] = i
    BY <1>9
  <2>4. ASSUME NEW m \in DOMAIN listed'[l], NEW n \in DOMAIN listed'[l], listed'[l][m][1] = listed'[l][n][1]
        PROVE  m = n
    BY <1>9, <1>14, <2>2, <2>3, <2>4 DEF ListSound, Distinct
  <2>5. ASSUME NEW n \in DOMAIN listed'[l]
        PROVE  \/ \E j \in Held(l) : listed'[l][n] = <<j, stored[l][j]>>
               \/ \E d \in Removing(l) : d.stage = "served" /\ d.item = listed'[l][n][1]
    <3>1. CASE n \in DOMAIN listed[l]
      BY <1>9, <1>14, <3>1 DEF ListSound
    <3>2. CASE n = last
      BY <1>9, <2>1, <3>2
    <3> QED BY <1>9, <3>1, <3>2
  <2>6. ASSUME NEW j \in Held(l)
        PROVE  \/ \E n \in DOMAIN listed'[l] : listed'[l][n] = <<j, stored[l][j]>>
               \/ \E d \in Adding(l)' : ~d.late /\ d.answer[1] = j
    <3>1. CASE \E n \in DOMAIN listed[l] : listed[l][n] = <<j, stored[l][j]>>
      BY <1>9, <3>1
    <3>2. CASE \E d \in Adding(l) : ~d.late /\ d.answer[1] = j
      <4>1. PICK d \in Adding(l) : ~d.late /\ d.answer[1] = j
        BY <3>2
      <4>2. CASE d = c
        <5>1. j = i
          BY <4>1, <4>2 DEF i
        <5> QED BY <1>9, <2>1, <5>1
      <4>3. CASE d # c
        BY <1>4, <4>1, <4>3
      <4> QED BY <4>2, <4>3
    <3> QED BY <1>14, <3>1, <3>2 DEF ListSound
  <2>7. /\ Distinct(listed[l])'
        /\ \A n \in DOMAIN listed'[l] :
             \/ \E j \in Held(l)' : listed'[l][n] = <<j, stored'[l][j]>>
             \/ \E d \in Removing(l)' : d.stage = "served" /\ d.item = listed'[l][n][1]
        /\ \A j \in Held(l)' :
             \/ \E n \in DOMAIN listed'[l] : listed'[l][n] = <<j, stored'[l][j]>>
             \/ \E d \in Adding(l)' : ~d.late /\ d.answer[1] = j
    <3>1. stored' = stored /\ Held(l)' = Held(l) /\ Removing(l)' = Removing(l)
      BY <1>2, <1>4, <1>5
    <3>2. Distinct(listed[l])'
      BY <2>4 DEF Distinct
    <3>3. \A n \in DOMAIN listed'[l] :
             \/ \E j \in Held(l)' : listed'[l][n] = <<j, stored'[l][j]>>
             \/ \E d \in Removing(l)' : d.stage = "served" /\ d.item = listed'[l][n][1]
      BY <2>5, <3>1
    <3>4. \A j \in Held(l)' :
             \/ \E n \in DOMAIN listed'[l] : listed'[l][n] = <<j, stored'[l][j]>>
             \/ \E d \in Adding(l)' : ~d.late /\ d.answer[1] = j
      BY <2>6, <3>1
    <3> QED BY <3>2, <3>3, <3>4
  <2> HIDE DEF l
  <2> QED BY <2>7 DEF ListSound
<1>15. ItemsSound(l)'
  BY <1>3, <1>4, <1>6, <1>11, <1>12, <1>13, <1>14 DEF ItemsSound
<1> QED BY <1>1, <1>15, WroteKeeps

\* A removal is answered: what it removed is off the screen.
LEMMA RemovedKeeps ==
  ASSUME ListsInv, ListsTypeOK', NEW c \in pending, Answer(c), c.thunk.kind = "remove"
  PROVE  ListsInv'
<1> DEFINE l == c.thunk.list
           i == c.item
           w == Without(listed[l], i)
<1>1. CallsSound /\ ListsTypeOK /\ l \in Lists /\ Touches(c.thunk) = {l}
  BY CallIs DEF ListsInv
<1>2. /\ \A d : d \in pending' /\ d.thunk.kind # "fetch" <=> d \in pending \ {c} /\ d.thunk.kind # "fetch"
      /\ UNCHANGED <<slice, stored>> /\ c.stage = "served"
  BY WroteCalls
<1>3. listed'[l] = w /\ (settled'[l] => settled[l])
  BY <1>1, FulfilledIs
<1>4. Adding(l)' = Adding(l) /\ Removing(l)' = Removing(l) \ {c} /\ Moved(l)' = Moved(l) /\ c \in Removing(l)
  BY <1>2 DEF Adding, Removing, Moved
<1>5. Made(l)' = Made(l) /\ Held(l)' = Held(l)
  BY <1>2 DEF Made, Held
<1>6. ItemsSound(l)
  BY <1>1 DEF ListsInv
<1>7. i \in ItemIds /\ stored[l][i] = Gone
  BY <1>2, <1>4, <1>6 DEF ItemsSound, RemovesSound
<1>8. /\ w \in Seq(Entry)
      /\ \A n \in DOMAIN w : \E m \in DOMAIN listed[l] : w[n] = listed[l][m] /\ listed[l][m][1] # i
      /\ \A m \in DOMAIN listed[l] : listed[l][m][1] # i => \E n \in DOMAIN w : w[n] = listed[l][m]
      /\ Distinct(listed[l]) => Distinct(w)
  <2>1. listed[l] \in Seq(Entry)
    BY <1>6 DEF ItemsSound, ScreenSound
  <2>2. w = Without(listed[l], i)
    OBVIOUS
  <2> HIDE DEF w, i, l
  <2>3. w \in Seq(Entry) /\ (Distinct(listed[l]) => Distinct(w))
    BY <2>1, <2>2, WithoutIs
  <2>4. \A n \in DOMAIN w : \E m \in DOMAIN listed[l] : w[n] = listed[l][m] /\ listed[l][m][1] # i
    BY <2>1, <2>2, WithoutIs
  <2>5. \A m \in DOMAIN listed[l] : listed[l][m][1] # i => \E n \in DOMAIN w : w[n] = listed[l][m]
    BY <2>1, <2>2, WithoutIs
  <2> QED BY <2>3, <2>4, <2>5
<1> HIDE DEF w, i
<1>9. Ids(listed[l])' \subseteq Ids(listed[l])
  BY <1>3, <1>8 DEF Ids
<1>10. StoreSound(l)' /\ RemovesSound(l)'
  BY <1>2, <1>4, <1>5, <1>6 DEF ItemsSound, StoreSound, RemovesSound
<1>11. ScreenSound(l)'
  BY <1>3, <1>5, <1>6, <1>8, <1>9 DEF ItemsSound, ScreenSound
<1>12. AddsSound(l)'
  BY <1>2, <1>4, <1>6, <1>9 DEF ItemsSound, AddsSound
<1>13. ASSUME ListSound(l) PROVE ListSound(l)'
  <2>1. Distinct(w)
    BY <1>8, <1>13 DEF ListSound
  <2>2. ASSUME NEW n \in DOMAIN w
        PROVE  \/ \E j \in Held(l) : w[n] = <<j, stored[l][j]>>
               \/ \E d \in Removing(l) \ {c} : d.stage = "served" /\ d.item = w[n][1]
    <3>1. PICK m \in DOMAIN listed[l] : w[n] = listed[l][m] /\ listed[l][m][1] # i
      BY <1>8
    <3>2. \/ \E j \in Held(l) : listed[l][m] = <<j, stored[l][j]>>
          \/ \E d \in Removing(l) : d.stage = "served" /\ d.item = listed[l][m][1]
      BY <1>13 DEF ListSound
    <3> QED BY <3>1, <3>2 DEF i
  <2>3. ASSUME NEW j \in Held(l)
        PROVE  \/ \E n \in DOMAIN w : w[n] = <<j, stored[l][j]>>
               \/ \E d \in Adding(l) : ~d.late /\ d.answer[1] = j
    <3>1. CASE \E m \in DOMAIN listed[l] : listed[l][m] = <<j, stored[l][j]>>
      <4>1. PICK m \in DOMAIN listed[l] : listed[l][m] = <<j, stored[l][j]>>
        BY <3>1
      <4>2. listed[l][m][1] = j /\ j # i
        BY <1>7, <4>1 DEF Held, Gone
      <4>3. PICK n \in DOMAIN w : w[n] = listed[l][m]
        BY <1>8, <4>2
      <4> QED BY <4>1, <4>3
    <3> QED BY <1>13, <3>1 DEF ListSound
  <2>4. Distinct(listed[l])'
    BY <1>3, <2>1 DEF Distinct
  <2> QED BY <1>2, <1>3, <1>4, <1>5, <2>2, <2>3, <2>4 DEF ListSound
<1>14. ItemsSound(l)'
  BY <1>3, <1>4, <1>6, <1>10, <1>11, <1>12, <1>13 DEF ItemsSound
<1> QED BY <1>1, <1>14, WroteKeeps

\* A movement is answered: its form fetches the lists it has changed.
LEMMA MovedKeeps ==
  ASSUME ListsInv, ListsTypeOK', NEW c \in pending, Answer(c), c.thunk.kind = "move"
  PROVE  ListsInv'
<1>1. /\ CallsSound /\ ListsTypeOK /\ c.thunk.list \in Lists /\ Touches(c.thunk) = Lists /\ slice = "wallet"
  BY CallIs DEF ListsInv
<1>2. /\ \A d : d \in pending' /\ d.thunk.kind # "fetch" <=> d \in pending \ {c} /\ d.thunk.kind # "fetch"
      /\ UNCHANGED <<slice, stored>>
  BY WroteCalls
<1>3. \A l \in Lists : listed'[l] = listed[l] /\ ~settled'[l]
  BY <1>1, FulfilledIs
<1>4. ASSUME NEW l \in Lists PROVE ItemsSound(l)'
  <2>1. Adding(l)' = {} /\ Removing(l)' = {}
    <3>1. \A d \in pending : d.thunk.kind \notin {"add", "remove"}
      BY <1>1, CallIs
    <3> QED BY <1>2, <3>1 DEF Adding, Removing
  <2>2. Made(l)' = Made(l) /\ Held(l)' = Held(l) /\ Ids(listed[l])' = Ids(listed[l])
    BY <1>2, <1>3 DEF Made, Held, Ids
  <2>3. StoreSound(l)' /\ ScreenSound(l)'
    BY <1>2, <1>3, <2>2 DEF ListsInv, ItemsSound, StoreSound, ScreenSound
  <2> QED BY <1>3, <2>1, <2>3 DEF ItemsSound, AddsSound, RemovesSound
<1> QED BY <1>1, <1>4, WroteKeeps

\* A call fails: its list shows made-up data, or is left as it was.
LEMMA FailKeeps ==
  ASSUME ListsInv, ListsTypeOK', NEW c \in pending, CallFails(c)
  PROVE  ListsInv'
<1> DEFINE k == c.thunk.list
<1>1. /\ CallsSound /\ ListsTypeOK /\ FetchesSound
      /\ c.thunk.kind \in {"fetch", "add", "remove", "move"} /\ k \in Lists
      /\ c.thunk.fallback \in {"keep", "mock"}
      /\ c.thunk.kind \in {"add", "remove"} => c.thunk.fallback = "mock"
      /\ c.thunk.kind = "move" => c.thunk.fallback = "keep" /\ Touches(c.thunk) = Lists
      /\ c.thunk.kind # "move" => Touches(c.thunk) = {k}
  BY CallIs DEF ListsInv
<1>2. /\ pending' = pending \ {c} /\ UNCHANGED <<slice, stored>>
      /\ listed' = [listed EXCEPT ![k] = Rejected(c)]
      /\ \A l \in Lists : settled'[l] = (settled[l] /\
           (l \in Touches(c.thunk) => c.thunk.fallback = "keep" /\ (c.thunk.kind = "fetch" \/ c.stage = "sent")))
  BY DEF CallFails
<1>3. Lists' = Lists /\ Thunks' = Thunks /\ \A l : Made(l)' = Made(l) /\ Held(l)' = Held(l)
  BY <1>2, SameSlice DEF Made, Held
<1>4. CallsSound'
  BY <1>1, <1>2, <1>3 DEF CallsSound
<1>5. FetchesSound'
  BY <1>1, <1>2, <1>3, FetchesKept
<1>6. /\ \A l \in Lists : l # k => listed'[l] = listed[l]
      /\ listed'[k] = Rejected(c)
  BY <1>1, <1>2 DEF ListsTypeOK
<1>7. ASSUME NEW l \in Lists, c.thunk.fallback = "keep" \/ l # k PROVE ItemsSound(l)'
  <2>1. listed'[l] = listed[l]
    BY <1>6, <1>7 DEF Rejected
  <2>2. Adding(l)' = Adding(l) /\ Removing(l)' = Removing(l)
    BY <1>1, <1>2, <1>7 DEF Adding, Removing
  <2>3. settled'[l] => settled[l]
    BY <1>2
  <2>4. Moved(l) => Moved(l)' \/ ~settled'[l]
    <3>1. CASE c.thunk.kind = "move" /\ c.stage = "served"
      BY <1>1, <1>2, <3>1
    <3>2. CASE ~(c.thunk.kind = "move" /\ c.stage = "served")
      BY <1>2, <3>2 DEF Moved
    <3> QED BY <3>1, <3>2
  <2> QED BY <1>2, <2>1, <2>2, <2>3, <2>4, Untouched DEF ListsInv
<1>8. ASSUME c.thunk.fallback # "keep" PROVE ItemsSound(k)'
  <2>1. ItemsSound(k) /\ ~settled'[k] /\ c.thunk.kind \in {"fetch", "add", "remove"}
    BY <1>1, <1>2, <1>8 DEF ListsInv
  <2>2. listed[k] \in Seq(Entry) /\ Ids(listed[k]) \subseteq Made(k)
    BY <2>1 DEF ItemsSound, ScreenSound
  <2>3. MadeUp \in Entry /\ MadeUp[1] = 0
    BY DEF MadeUp, Entry
  <2>4. listed'[k] \in Seq(Entry) /\ \A n \in DOMAIN listed'[k] :
          listed'[k][n][1] = 0 \/ \E m \in DOMAIN listed[k] : listed'[k][n] = listed[k][m]
    <3>1. ASSUME c.thunk.kind = "fetch"
          PROVE  listed'[k] \in Seq(Entry) /\ \A n \in DOMAIN listed'[k] : listed'[k][n][1] = 0
      <4>1. listed'[k] = <<MadeUp>>
        BY <1>6, <1>8, <3>1 DEF Rejected
      <4> QED BY <2>3, <4>1
    <3>2. ASSUME c.thunk.kind = "add"
          PROVE  listed'[k] \in Seq(Entry) /\ \A n \in DOMAIN listed'[k] :
                   listed'[k][n][1] = 0 \/ \E m \in DOMAIN listed[k] : listed'[k][n] = listed[k][m]
      <4>1. listed'[k] = Append(listed[k], MadeUp)
        BY <1>6, <1>8, <3>2 DEF Rejected
      <4> HIDE DEF k
      <4> QED BY <2>2, <2>3, <4>1
    <3>3. ASSUME c.thunk.kind = "remove"
          PROVE  listed'[k] \in Seq(Entry) /\ \A n \in DOMAIN listed'[k] :
                   \E m \in DOMAIN listed[k] : listed'[k][n] = listed[k][m]
      <4>1. listed'[k] = Without(listed[k], c.item)
        BY <1>6, <1>8, <3>3 DEF Rejected
      <4> HIDE DEF k
      <4> QED BY <2>2, <4>1, WithoutIs
    <3> QED BY <2>1, <3>1, <3>2, <3>3
  <2>5. Ids(listed[k])' \subseteq Ids(listed[k]) \union {0}
    BY <2>4 DEF Ids
  <2>6. 0 \in Made(k) /\ 0 \notin ItemIds
    BY ListsBounds DEF Made
  <2>7. Adding(k)' \subseteq Adding(k) /\ Removing(k)' \subseteq Removing(k)
    BY <1>2 DEF Adding, Removing
  <2>8. StoreSound(k)' /\ ScreenSound(k)'
    BY <1>2, <1>3, <2>1, <2>2, <2>4, <2>5, <2>6 DEF ItemsSound, StoreSound, ScreenSound
  <2>9. AddsSound(k)'
    BY <1>2, <2>1, <2>5, <2>6, <2>7 DEF ItemsSound, AddsSound
  <2>10. RemovesSound(k)'
    BY <1>2, <2>1, <2>7 DEF ItemsSound, RemovesSound
  <2> QED BY <2>1, <2>8, <2>9, <2>10 DEF ItemsSound
<1>9. \A l \in Lists : ItemsSound(l)'
  BY <1>7, <1>8
<1> QED BY <1>3, <1>4, <1>5, <1>9 DEF ListsInv

\* At first nothing is on the screen and nothing is due to be.
LEMMA ListsInitially == ASSUME ListsInit, ListsTypeOK PROVE ListsInv
<1>1. CallsSound /\ FetchesSound
  BY DEF ListsInit, CallsSound, FetchesSound
<1>2. ASSUME NEW l \in Lists PROVE ItemsSound(l)
  <2>1. /\ listed[l] = <<>> /\ ~settled[l] /\ pending = {}
        /\ \A i \in ItemIds : stored[l][i] = IF i = 1 THEN 1 ELSE 0
    BY DEF ListsInit
  <2>2. Held(l) = {1}
    <3>1. 1 \in ItemIds /\ stored[l][1] = 1 /\ \A i \in ItemIds : i # 1 => stored[l][i] = 0
      BY <2>1, ListsBounds
    <3>2. \A i \in ItemIds : stored[l][i] > 0 <=> i = 1
      BY <3>1
    <3> QED BY <3>1, <3>2 DEF Held
  <2>3. IsFiniteSet({1})
    BY FS_Singleton
  <2>4. StoreSound(l)
    BY <2>1, <2>2, <2>3, ListsBounds DEF StoreSound, Gone
  <2>5. ScreenSound(l)
    BY <2>1 DEF ScreenSound, Ids
  <2>6. Adding(l) = {} /\ Removing(l) = {}
    BY <2>1 DEF Adding, Removing
  <2> QED BY <2>1, <2>4, <2>5, <2>6 DEF ItemsSound, AddsSound, RemovesSound
<1> QED BY <1>1, <1>2 DEF ListsInv

LEMMA ListsStep == ASSUME ListsInv, ListsTypeOK', [ListsNext]_listVars PROVE ListsInv'
<1>1. CASE UNCHANGED listVars
  <2>1. UNCHANGED <<slice, listed, stored, pending, settled, calls, others>>
    BY <1>1 DEF listVars
  <2>2. Lists' = Lists /\ Thunks' = Thunks
    BY <2>1, SameSlice
  <2>3. \A l : Held(l)' = Held(l) /\ Made(l)' = Made(l) /\ Listing(l)' = Listing(l)
    BY <2>1 DEF Held, Made, Listing
  <2>4. CallsSound' /\ FetchesSound'
    BY <2>1, <2>2, <2>3 DEF ListsInv, CallsSound, FetchesSound, Ids
  <2>5. ASSUME NEW l \in Lists PROVE ItemsSound(l)'
    <3>1. Adding(l)' = Adding(l) /\ Removing(l)' = Removing(l) /\ Moved(l)' = Moved(l)
      BY <2>1 DEF Adding, Removing, Moved
    <3> QED BY <2>1, <3>1, Untouched DEF ListsInv
  <2> QED BY <2>2, <2>4, <2>5 DEF ListsInv
<1>2. ASSUME NEW t \in DOMAIN Thunks, NEW i \in ItemIds \union {0}, Start(t, i) PROVE ListsInv'
  BY <1>2, StartKeeps DEF ListsInv
<1>3. ASSUME NEW c \in pending, Serve(c) PROVE ListsInv'
  <2>1. Read(c) \/ Write(c)
    BY <1>3 DEF Serve
  <2>2. Write(c) => c.thunk.kind \in {"add", "remove", "move"}
    BY DEF Write
  <2> QED BY <1>3, <2>1, <2>2, ReadKeeps, AddKeeps, RemoveKeeps, MoveKeeps
<1>4. ASSUME NEW c \in pending, Answer(c) PROVE ListsInv'
  <2>1. c.thunk.kind \in {"fetch", "add", "remove", "move"}
    BY CallIs DEF ListsInv
  <2> QED BY <1>4, <2>1, FetchedKeeps, AddedKeeps, RemovedKeeps, MovedKeeps
<1>5. ASSUME NEW c \in pending, CallFails(c) PROVE ListsInv'
  BY <1>5, FailKeeps
<1>6. ASSUME NEW l \in Lists, OthersChange(l) PROVE ListsInv'
  BY <1>6, OthersKeep
<1> QED BY <1>1, <1>2, <1>3, <1>4, <1>5, <1>6 DEF ListsNext

\* A list that is settled and waits for no write is the list the server has.
LEMMA SettledIsStored == ListsInv => ShownIsStored
<1> SUFFICES ASSUME ListsInv, NEW l \in Lists, settled[l], Quiet(l)
             PROVE  /\ {listed[l][n] : n \in DOMAIN listed[l]} = {<<i, stored[l][i]>> : i \in Held(l)}
                    /\ Len(listed[l]) = Cardinality(Held(l))
  BY DEF ShownIsStored
<1> DEFINE list == listed[l]
<1>1. CallsSound /\ ListsTypeOK /\ ItemsSound(l)
  BY DEF ListsInv
<1>2. Adding(l) = {} /\ Removing(l) = {} /\ ~Moved(l)
  <2>1. \A c \in pending : c.thunk.kind \in {"add", "remove"} => c.thunk.list # l
    BY <1>1, CallIs DEF Quiet
  <2>2. Adding(l) = {} /\ Removing(l) = {}
    BY <2>1 DEF Adding, Removing
  <2>3. ~Moved(l)
    BY DEF Moved, Quiet
  <2> QED BY <2>2, <2>3
<1>3. /\ \A m, n \in DOMAIN list : list[m][1] = list[n][1] => m = n
      /\ \A n \in DOMAIN list : \E i \in Held(l) : list[n] = <<i, stored[l][i]>>
      /\ \A i \in Held(l) : \E n \in DOMAIN list : list[n] = <<i, stored[l][i]>>
  BY <1>1, <1>2 DEF ItemsSound, ListSound, Distinct
<1>4. list \in Seq(Entry) /\ IsFiniteSet(Held(l))
  BY <1>1 DEF ItemsSound, ScreenSound, StoreSound
<1> HIDE DEF list
<1>5. Len(list) = Cardinality(Held(l))
  <2> DEFINE id == [n \in 1..Len(list) |-> list[n][1]]
  <2>1. DOMAIN list = 1..Len(list) /\ Len(list) \in Nat
    BY <1>4
  <2>2. \A n \in 1..Len(list) : id[n] = list[n][1] /\ id[n] \in Held(l)
    <3>1. ASSUME NEW n \in 1..Len(list) PROVE list[n][1] \in Held(l)
      <4>1. PICK i \in Held(l) : list[n] = <<i, stored[l][i]>>
        BY <1>3, <2>1
      <4> QED BY <4>1
    <3> QED BY <3>1
  <2>3. id \in [1..Len(list) -> Held(l)]
    BY <2>2
  <2>4. \A i \in Held(l) : \E n \in 1..Len(list) : id[n] = i
    <3>1. ASSUME NEW i \in Held(l) PROVE \E n \in 1..Len(list) : id[n] = i
      <4>1. PICK n \in 1..Len(list) : list[n] = <<i, stored[l][i]>>
        BY <1>3, <2>1
      <4> QED BY <4>1
    <3> QED BY <3>1
  <2>5. \A m, n \in 1..Len(list) : id[m] = id[n] => m = n
    BY <1>3, <2>1, <2>2
  <2> HIDE DEF id
  <2>6. id \in Bijection(1..Len(list), Held(l))
    BY <2>3, <2>4, <2>5 DEF Bijection, Injection, Surjection, IsInjective
  <2>7. IsFiniteSet(1..Len(list)) /\ Cardinality(1..Len(list)) = Len(list)
    <3>1. PICK n \in Nat : n = Len(list)
      BY <2>1
    <3>2. 1 \in Int /\ n \in Int /\ (IF 1 > n THEN 0 ELSE n - 1 + 1) = n
      OBVIOUS
    <3>3. IsFiniteSet(1..n) /\ Cardinality(1..n) = n
      BY <3>2, FS_Interval
    <3> QED BY <3>1, <3>3
  <2> QED BY <1>4, <2>6, <2>7, FS_Bijection DEF ExistsBijection
<1>6. {list[n] : n \in DOMAIN list} = {<<i, stored[l][i]>> : i \in Held(l)}
  <2>1. ASSUME NEW n \in DOMAIN list PROVE list[n] \in {<<i, stored[l][i]>> : i \in Held(l)}
    BY <1>3
  <2>2. ASSUME NEW i \in Held(l) PROVE <<i, stored[l][i]>> \in {list[n] : n \in DOMAIN list}
    BY <1>3
  <2> QED BY <2>1, <2>2
<1> QED BY <1>5, <1>6 DEF list

\* Under every order of answers and every failure, what a slice holds is accounted for.
THEOREM ListsInvariance == ListsSpec => []ListsInv
<1>1. ListsInit => ListsTypeOK
  BY ListsBounds DEF ListsInit, ListsTypeOK, Gone
<1>2. ListsInit /\ ListsTypeOK => ListsInv
  BY ListsInitially
<1>3. ListsInv /\ ListsTypeOK' /\ [ListsNext]_listVars => ListsInv'
  BY ListsStep
<1> QED BY <1>1, <1>2, <1>3, ListsTyped, PTL DEF ListsSpec

\* A list that is due to be what is stored, and waits for no write, is exactly that,
\* each item once: the fulfilled reducers lose and double nothing.
THEOREM ShownIsStoredAlways == ListsSpec => []ShownIsStored
BY ListsInvariance, SettledIsStored, PTL

(***************************************************************************)
(* Feed: the cursor parts the rows the walk has shown from those it has    *)
(* not.                                                                    *)
(***************************************************************************)
\* What has been shown is committed, was shown once, and is not below the cursor.
ShownAbove ==
  /\ \A r \in Rows : times[r] # 0 => times[r] = 1 /\ row[r] = "committed"
  /\ walking => \A r \in Rows : times[r] # 0 => cursor.set /\ ~Below(r, cursor)

FeedInv ==
  /\ FeedTypeOK
  /\ ShownAbove
  /\ \A r \in older : row[r] = "committed"
  /\ AllShown

\* A row is below the position of the newer ones and of no other.
LEMMA NewerBelow ==
  ASSUME FeedTypeOK, NEW r \in Rows, NEW s \in Rows
  PROVE  /\ Newer(r, s) => Below(s, Position(r)) /\ ~Below(r, Position(s))
         /\ ~Below(r, Position(r))
BY FeedBounds DEF FeedTypeOK, Newer, Below, Position

\* What is not below a cursor is not below a position below it.
LEMMA BelowTransitive ==
  ASSUME FeedTypeOK, NEW r \in Rows, NEW s \in Rows, cursor.set, Below(s, cursor), ~Below(r, cursor)
  PROVE  ~Below(r, Position(s))
BY FeedBounds DEF FeedTypeOK, Below, Position

\* A page that says there is more leaves out only rows older than all of its own.
LEMMA PageIsTop ==
  ASSUME NEW limit \in Int, NEW batch, IsPage(batch, TRUE, cursor, limit),
         NEW s \in Matching(cursor) \ batch, NEW r \in batch
  PROVE  Newer(r, s)
<1>1. PICK extra \in SUBSET (Matching(cursor) \ batch) :
        /\ IsTop(batch \union extra, Matching(cursor), limit + 1)
        /\ \A q \in batch, t \in extra : Newer(q, t)
  BY DEF IsPage
<1> QED BY <1>1 DEF IsTop

\* A page that says there is no more is all there is.
LEMMA LastPageIsAll ==
  ASSUME NEW limit \in Int, NEW batch, IsPage(batch, FALSE, cursor, limit)
  PROVE  batch = Matching(cursor)
<1>1. IsTop(batch \union {}, Matching(cursor), limit + 1) /\ ~(Cardinality(batch \union {}) > limit)
  BY DEF IsPage
<1>2. Cardinality(batch \union {}) # limit + 1
  BY <1>1
<1> QED BY <1>1, <1>2 DEF IsTop

\* The size of a page is a number.
LEMMA LimitIsInt == \A asked \in AskedLimits : ClampLimit(asked) \in Int
BY FeedBounds DEF ClampLimit

\* The initial state satisfies the invariant.
LEMMA FeedStart == FeedInit => FeedInv
<1> SUFFICES ASSUME FeedInit PROVE FeedInv
  OBVIOUS
<1>1. cursor \in [id : Int, createdAt : Nat, set : BOOLEAN]
  BY DEF FeedInit, Start0
<1>2. FeedTypeOK
  BY <1>1 DEF FeedInit, FeedTypeOK
<1>3. ShownAbove /\ AllShown /\ older = {}
  BY DEF FeedInit, ShownAbove, AllShown
<1> QED BY <1>2, <1>3 DEF FeedInv

\* While the reader stands still, rows may come and go: those that count stay.
LEMMA PostingKeeps ==
  ASSUME FeedInv, FeedTypeOK', UNCHANGED <<cursor, walking, items, times, older>>,
         \A r \in Rows : row[r] = "committed" => row'[r] = "committed" /\ createdAt'[r] = createdAt[r]
  PROVE  FeedInv'
<1>1. \A r \in Rows : row[r] = "committed" => Below(r, cursor)' = Below(r, cursor)
  BY DEF Below
<1>2. ShownAbove'
  BY <1>1 DEF FeedInv, ShownAbove
<1>3. AllShown'
  BY <1>1 DEF FeedInv, AllShown, FeedTypeOK
<1>4. \A r \in older' : row'[r] = "committed"
  BY DEF FeedInv, FeedTypeOK
<1> QED BY <1>2, <1>3, <1>4 DEF FeedInv

\* A page keeps the invariant.
LEMMA ReadPageKeeps ==
  ASSUME FeedInv, NEW asked \in AskedLimits, ReadPage(asked)
  PROVE  FeedInv'
<1> USE DEF FeedInv
<1> DEFINE limit == ClampLimit(asked)
<1>1. limit \in Int
  BY LimitIsInt
<1>2. PICK batch \in SUBSET Matching(cursor), more \in BOOLEAN :
        /\ IsPage(batch, more, cursor, limit)
        /\ \/ more /\ \E last \in batch : IsLast(last, batch) /\ cursor' = Position(last)
           \/ ~more /\ cursor' = Start0
        /\ walking' = more
        /\ items' = batch
        /\ times' = [r \in Rows |-> IF r \in batch THEN times[r] + 1 ELSE times[r]]
  BY DEF ReadPage
<1>3. walking /\ UNCHANGED <<clock, row, createdAt, older>>
  BY DEF ReadPage
<1>4. \A r \in batch : r \in Rows /\ row[r] = "committed" /\ Below(r, cursor)
  BY <1>2 DEF Matching
<1>5. \A r \in batch : times[r] = 0
  BY <1>3, <1>4 DEF ShownAbove
<1>6. times' \in [Rows -> Nat]
  BY <1>2 DEF FeedTypeOK
<1>7. \A r \in Rows : times'[r] # 0 => times'[r] = 1 /\ row'[r] = "committed"
  BY <1>2, <1>3, <1>4, <1>5 DEF ShownAbove
<1>8. CASE more
  <2>1. PICK last \in batch : IsLast(last, batch) /\ cursor' = Position(last)
    BY <1>2, <1>8
  <2>2. last \in Rows /\ cursor' \in [id : Int, createdAt : Nat, set : BOOLEAN] /\ cursor'.set
    BY <1>4, <2>1, FeedBounds DEF Position, FeedTypeOK
  <2>3. \A r \in Rows : Below(r, cursor)' <=> Below(r, Position(last))
    BY <1>3, <2>1 DEF Below
  <2>4. ASSUME NEW r \in Rows, times'[r] # 0 PROVE ~Below(r, Position(last))
    <3>1. CASE r \in batch
      BY <2>1, <2>2, <3>1, NewerBelow DEF IsLast
    <3>2. CASE r \notin batch
      <4>1. cursor.set /\ ~Below(r, cursor)
        BY <1>2, <1>3, <2>4, <3>2 DEF ShownAbove
      <4> QED BY <1>4, <2>1, <2>2, <4>1, BelowTransitive
    <3> QED BY <3>1, <3>2
  <2>5. ASSUME NEW r \in older, times'[r] = 0 PROVE Below(r, Position(last))
    <3>1. r \in Rows /\ row[r] = "committed"
      BY DEF FeedTypeOK
    <3>2. r \notin batch /\ times[r] = 0
      BY <1>2, <1>5, <2>5, <3>1
    <3>3. r \in Matching(cursor) \ batch
      BY <3>1, <3>2 DEF AllShown, Matching
    <3>4. Newer(last, r)
      BY <1>1, <1>2, <1>8, <2>1, <3>3, PageIsTop
    <3> QED BY <2>2, <3>1, <3>4, NewerBelow
  <2>6. ShownAbove'
    BY <1>7, <2>2, <2>3, <2>4 DEF ShownAbove
  <2>7. AllShown'
    BY <1>2, <1>3, <1>8, <2>3, <2>5 DEF AllShown, FeedTypeOK
  <2>8. FeedTypeOK'
    BY <1>2, <1>3, <1>4, <1>6, <2>2 DEF FeedTypeOK
  <2> QED BY <1>3, <2>6, <2>7, <2>8
<1>9. CASE ~more
  <2>1. batch = Matching(cursor)
    BY <1>1, <1>2, <1>9, LastPageIsAll
  <2>2. \A r \in older : times'[r] # 0
    <3> SUFFICES ASSUME NEW r \in older, times'[r] = 0 PROVE FALSE
      OBVIOUS
    <3>1. r \in Rows /\ row[r] = "committed"
      BY DEF FeedTypeOK
    <3>2. r \notin batch /\ times[r] = 0
      BY <1>2, <1>5, <3>1
    <3> QED BY <2>1, <3>1, <3>2 DEF AllShown, Matching
  <2>3. cursor' \in [id : Int, createdAt : Nat, set : BOOLEAN]
    <3>1. cursor' = Start0
      BY <1>2, <1>9
    <3> QED BY <3>1 DEF Start0
  <2>4. ShownAbove'
    BY <1>2, <1>7, <1>9 DEF ShownAbove
  <2>5. AllShown'
    BY <1>3, <2>2 DEF AllShown
  <2>6. FeedTypeOK'
    BY <1>2, <1>3, <1>4, <1>6, <2>3 DEF FeedTypeOK
  <2> QED BY <1>3, <2>4, <2>5, <2>6
<1> QED BY <1>8, <1>9

\* The invariant is inductive.
LEMMA FeedStep == FeedInv /\ [FeedNext]_feedVars => FeedInv'
<1> SUFFICES ASSUME FeedInv, [FeedNext]_feedVars PROVE FeedInv'
  OBVIOUS
<1>1. ASSUME NEW r \in Rows, InsertRow(r) PROVE FeedInv'
  <2>1. FeedTypeOK'
    BY <1>1 DEF InsertRow, FeedInv, FeedTypeOK
  <2>2. \A q \in Rows : row[q] = "committed" => row'[q] = "committed" /\ createdAt'[q] = createdAt[q]
    BY <1>1 DEF InsertRow, FeedInv, FeedTypeOK
  <2> QED BY <1>1, <2>1, <2>2, PostingKeeps DEF InsertRow
<1>2. ASSUME NEW r \in Rows, CommitRow(r) \/ RollBack(r) PROVE FeedInv'
  <2>1. FeedTypeOK'
    BY <1>2 DEF CommitRow, RollBack, TransactionEnds, FeedInv, FeedTypeOK
  <2>2. \A q \in Rows : row[q] = "committed" => row'[q] = "committed" /\ createdAt'[q] = createdAt[q]
    BY <1>2 DEF CommitRow, RollBack, TransactionEnds, FeedInv, FeedTypeOK
  <2> QED BY <1>2, <2>1, <2>2, PostingKeeps DEF CommitRow, RollBack, TransactionEnds
<1>3. CASE ClockTicks
  <2>1. FeedTypeOK'
    BY <1>3 DEF ClockTicks, FeedInv, FeedTypeOK
  <2> QED BY <1>3, <2>1, PostingKeeps DEF ClockTicks
<1>4. CASE BeginWalk
  <2>1. cursor' \in [id : Int, createdAt : Nat, set : BOOLEAN] /\ ~cursor'.set
    BY <1>4 DEF BeginWalk, Start0
  <2>2. FeedTypeOK'
    BY <1>4, <2>1 DEF BeginWalk, FeedInv, FeedTypeOK
  <2>3. ShownAbove'
    BY <1>4 DEF BeginWalk, ShownAbove
  <2>4. AllShown'
    BY <1>4, <2>1 DEF BeginWalk, AllShown, Below
  <2> QED BY <1>4, <2>2, <2>3, <2>4 DEF BeginWalk, FeedInv
<1>5. ASSUME NEW asked \in AskedLimits, ReadPage(asked) PROVE FeedInv'
  BY <1>5, ReadPageKeeps
<1>6. CASE UNCHANGED feedVars
  BY <1>6 DEF feedVars, FeedInv, FeedTypeOK, ShownAbove, AllShown, Below
<1> QED BY <1>1, <1>2, <1>3, <1>4, <1>5, <1>6 DEF FeedNext

\* The cursor parts what has been shown from what has not, whatever is posted.
THEOREM FeedInvariance == FeedSpec => []FeedInv
<1> QED BY FeedStart, FeedStep, PTL DEF FeedSpec

\* Every variable of the feed keeps its type.
THEOREM FeedTyped == FeedSpec => []FeedTypeOK
<1>1. FeedInv => FeedTypeOK
  BY DEF FeedInv
<1> QED BY <1>1, FeedInvariance, PTL

\* No walk is shown a row twice, for any number of rows and any sizes of pages.
THEOREM NoRowTwiceAlways == FeedSpec => []NoRowTwice
<1>1. FeedInv => NoRowTwice
  BY DEF FeedInv, ShownAbove, NoRowTwice, FeedTypeOK
<1> QED BY <1>1, FeedInvariance, PTL

\* No walk misses a row that was committed when it began.
THEOREM AllShownAlways == FeedSpec => []AllShown
<1>1. FeedInv => AllShown
  BY DEF FeedInv
<1> QED BY <1>1, FeedInvariance, PTL
=============================================================================
