------------------------------ MODULE Channel ------------------------------
(***************************************************************************)
(* The WebSocket of the portal's conversion monitor: one service for all   *)
(* of a page load (websocketService.ts, getWebSocketInstance), set up for  *)
(* a transaction and torn down again by the pages and by a transaction     *)
(* that ends (conversionWebSocket.ts, useConversionWithRedux.ts).          *)
(*                                                                         *)
(* An action is one task of the browser's event loop, with its             *)
(* microtasks: a socket that fails to open fires error, whose promise is   *)
(* settled, and then close.                                                *)
(***************************************************************************)
EXTENDS Integers, FiniteSets

CONSTANTS
  Sockets,        \* the WebSocket objects that may be alive at once
  Monitored,      \* transactions
  NoOne,          \* no socket, no transaction
  MaxAttempts,    \* maxReconnectAttempts
  MaxSetups,      \* how often a page sets up the monitor
  MaxOutages      \* how often the server goes away, and drops a connection

ASSUME ChannelBounds ==
  /\ {MaxAttempts, MaxSetups, MaxOutages} \subseteq Nat \ {0}
  /\ NoOne \notin Sockets \union Monitored

VARIABLES
  socketState,    \* of each socket; "free" is not in use
  isRetry,        \* was it made by the reconnect timer?
  socket,         \* the service's socket
  reconnectTimer, \* the service's timer: "none", "armed", or "fired" until its
                  \* connect() is settled
  orphans,        \* timers armed and no longer held by reconnectTimer
  reconnectAttempts,
  active,         \* activeTransactionId while wsInstance is set
  ending,         \* disconnects due two seconds after a transaction's end
  up,             \* does the server answer?
  setups, outages \* what is left of both

service == <<socketState, isRetry, socket, reconnectTimer, orphans, reconnectAttempts>>
channelVars == <<service, active, ending, up, setups, outages>>

SocketStates == {"free", "connecting", "open", "closing", "abandoned"}
Live == {s \in Sockets : socketState[s] \in {"connecting", "open"}}
IsConnected == \E s \in Sockets : s = socket /\ socketState[s] = "open"

ChannelInit ==
  /\ socketState = [s \in Sockets |-> "free"]
  /\ isRetry = [s \in Sockets |-> FALSE]
  /\ socket = NoOne
  /\ reconnectTimer = "none" /\ orphans = 0 /\ reconnectAttempts = 0
  /\ active = NoOne /\ ending = 0
  /\ up = TRUE /\ setups = MaxSetups /\ outages = MaxOutages

(***************************************************************************)
(* The service                                                             *)
(***************************************************************************)
\* socket.close(): an open socket closes, one that connects will fire error too.
ClosedByScript(s) ==
  CASE socketState[s] = "open" -> "closing"
    [] socketState[s] = "connecting" -> "abandoned"
    [] OTHER -> socketState[s]

\* Mutant: the socket in use is forgotten, not closed.
ConnectBeside(new, retry) ==
  /\ socketState[new] = "free"
  /\ socketState' = [socketState EXCEPT ![new] = "connecting"]
  /\ isRetry' = [isRetry EXCEPT ![new] = retry]
  /\ socket' = new

\* connect() closes the socket it replaces.
Connect(new, retry) ==
  /\ socketState[new] = "free"
  /\ socketState' = [s \in Sockets |->
       IF s = new THEN "connecting" ELSE IF s = socket THEN ClosedByScript(s) ELSE socketState[s]]
  /\ isRetry' = [isRetry EXCEPT ![new] = retry]
  /\ socket' = new

\* disconnect(): the close event is still to come.
Disconnect ==
  /\ socketState' = [s \in Sockets |-> IF s = socket THEN ClosedByScript(s) ELSE socketState[s]]
  /\ socket' = NoOne
  /\ reconnectTimer' = "none"
  /\ reconnectAttempts' = 0
  /\ UNCHANGED <<isRetry, orphans>>

\* Mutant: a failed reconnect leaves the timer set.
NeverSettled(s) == reconnectTimer

\* The then and the catch of a timer's connect() set reconnectTimer to null, even
\* when it holds another timer by now.
Settled(s) == IF isRetry[s] THEN "none" ELSE reconnectTimer

Orphaned(s) == IF isRetry[s] /\ reconnectTimer = "armed" THEN orphans + 1 ELSE orphans

\* attemptReconnect(), called with the timer t.
AttemptReconnect(t) ==
  IF t # "none" \/ reconnectAttempts >= MaxAttempts
  THEN reconnectTimer' = t /\ UNCHANGED reconnectAttempts
  ELSE reconnectTimer' = "armed" /\ reconnectAttempts' = reconnectAttempts + 1

Freed(s) ==
  /\ socketState' = [socketState EXCEPT ![s] = "free"]
  /\ socket' = IF socket = s THEN NoOne ELSE socket
  /\ UNCHANGED isRetry

Opens(s) ==
  /\ socketState[s] = "connecting" /\ up
  /\ socketState' = [socketState EXCEPT ![s] = "open"]
  /\ reconnectAttempts' = 0
  /\ reconnectTimer' = Settled(s) /\ orphans' = Orphaned(s)
  /\ UNCHANGED <<isRetry, socket, active, ending, up, setups, outages>>

\* error, the rejected promise, close.
FailsToOpen(s) ==
  /\ \/ socketState[s] = "connecting" /\ ~up
     \/ socketState[s] = "abandoned"
  /\ Freed(s)
  /\ AttemptReconnect(Settled(s)) /\ orphans' = Orphaned(s)
  /\ UNCHANGED <<active, ending, up, setups, outages>>

\* The close event of a socket that was open, closed by the script or lost.
Closes(s) ==
  /\ socketState[s] = "closing" \/ (socketState[s] = "open" /\ ~up)
  /\ Freed(s)
  /\ AttemptReconnect(reconnectTimer)
  /\ UNCHANGED <<orphans, active, ending, up, setups, outages>>

TimerFires(new) ==
  /\ \/ reconnectTimer = "armed" /\ reconnectTimer' = "fired" /\ UNCHANGED orphans
     \/ orphans > 0 /\ orphans' = orphans - 1 /\ UNCHANGED reconnectTimer
  /\ Connect(new, TRUE)
  /\ UNCHANGED <<reconnectAttempts, active, ending, up, setups, outages>>

(***************************************************************************)
(* The monitor                                                             *)
(***************************************************************************)
\* setupTransactionWebSocket: nothing to do for a transaction already monitored.
Setup(tx) ==
  /\ setups > 0 /\ setups' = setups - 1
  /\ active' = tx
  /\ \/ active = tx /\ IsConnected /\ UNCHANGED service
     \/ /\ ~(active = tx /\ IsConnected)
        /\ \E new \in Sockets : Connect(new, FALSE)
        /\ UNCHANGED <<reconnectTimer, orphans, reconnectAttempts>>
  /\ UNCHANGED <<ending, up, outages>>

\* The cleanup of a page, or disconnectTransactionWebSocket.
Cleanup ==
  /\ active # NoOne
  /\ Disconnect /\ active' = NoOne
  /\ UNCHANGED <<ending, up, setups, outages>>

\* An update says the transaction has ended: disconnect in two seconds.
LastUpdate ==
  /\ active # NoOne /\ IsConnected /\ ending = 0
  /\ ending' = 1
  /\ UNCHANGED <<service, active, up, setups, outages>>

AutoDisconnect ==
  /\ ending = 1 /\ ending' = 0
  /\ \/ active # NoOne /\ Disconnect /\ active' = NoOne
     \/ active = NoOne /\ UNCHANGED <<service, active>>
  /\ UNCHANGED <<up, setups, outages>>

(***************************************************************************)
(* The server                                                              *)
(***************************************************************************)
GoesDown ==
  /\ up /\ outages > 0
  /\ up' = FALSE /\ outages' = outages - 1
  /\ UNCHANGED <<service, active, ending, setups>>

ComesUp ==
  /\ ~up /\ up' = TRUE
  /\ UNCHANGED <<service, active, ending, setups, outages>>

ServiceStep ==
  \/ \E s \in Sockets : Opens(s) \/ FailsToOpen(s) \/ Closes(s) \/ TimerFires(s)

ChannelNext ==
  \/ ServiceStep
  \/ \E tx \in Monitored : Setup(tx)
  \/ Cleanup \/ LastUpdate \/ AutoDisconnect
  \/ GoesDown \/ ComesUp

ChannelSpec == ChannelInit /\ [][ChannelNext]_channelVars

\* The browser fires its timers and delivers the events of its sockets.
ChannelFairness ==
  /\ \A s \in Sockets : WF_channelVars(Opens(s)) /\ WF_channelVars(FailsToOpen(s)) /\ WF_channelVars(Closes(s))
  /\ WF_channelVars(\E s \in Sockets : TimerFires(s))

ChannelFair == ChannelSpec /\ ChannelFairness

(***************************************************************************)
(* Properties                                                              *)
(***************************************************************************)
\* Every variable has its type.
ChannelTypeOK ==
  /\ socketState \in [Sockets -> SocketStates]
  /\ isRetry \in [Sockets -> BOOLEAN]
  /\ socket \in Sockets \union {NoOne}
  /\ reconnectTimer \in {"none", "armed", "fired"}
  /\ orphans \in Nat
  /\ reconnectAttempts \in 0 .. MaxAttempts
  /\ active \in Monitored \union {NoOne}
  /\ ending \in {0, 1}
  /\ up \in BOOLEAN
  /\ setups \in Nat /\ outages \in Nat

\* Whatever is set up, torn down, lost and retried, the service has at most one
\* socket that is open or opening, and holds it.
OneSocket == \A s \in Live : s = socket

\* Once the server stays up, a monitor that stays set up is connected again and
\* again, unless its attempts are used up (websocketService.ts:121-137).
Reconnects ==
  <>[](up /\ active # NoOne) => []<>(IsConnected \/ reconnectAttempts = MaxAttempts)
=============================================================================
