----------------------------- MODULE TradeStream -----------------------------
(***************************************************************************)
(* The insider scanner's connection to the exchange                        *)
(* (insider-scanner, scanner/ws-scanner.service.ts): connect, reconnect    *)
(* with a timer, the periodic health check, and the handlers of a socket.  *)
(*                                                                         *)
(* Node runs one callback at a time: each action is one of them, up to its *)
(* end or to an await.  Sockets have the states and the events of the `ws' *)
(* library.  Which of the closed sockets this.socket still refers to makes no *)
(* difference, so identities are used again.                               *)
(***************************************************************************)
EXTENDS Integers, FiniteSets

CONSTANTS
  Sockets,   \* identities of sockets that are not closed
  NoSocket,  \* null
  OldSocket, \* a socket that has closed
  MaxLoads,  \* bound: connect calls that await the coins at the same time
  MaxHasty   \* bound: reconnects scheduled while the socket was closing

ASSUME SocketsAssumption ==
  /\ IsFiniteSet(Sockets) /\ Sockets # {}
  /\ NoSocket \notin Sockets /\ OldSocket \notin Sockets /\ NoSocket # OldSocket
  /\ MaxLoads \in Nat \ {0}
  /\ MaxHasty \in Nat

VARIABLES
  readyState,    \* of each socket
  socket,        \* this.socket
  isConnecting,
  refreshing,    \* connect calls that await loadCoins
  timer,         \* reconnectTimer is set
  connected,     \* stats.connected
  reconnected,   \* stats.reconnects > 0
  lastMessage,   \* stats.lastMessageAt: "never", "recent", or "old" (60 s ago)
  silent,        \* open sockets on which no trade comes
  crashed,       \* an exception left an event handler: the process has ended
  hasty          \* reconnects scheduled while the socket was closing

stream == <<readyState, socket, isConnecting, refreshing, timer, connected,
            reconnected, lastMessage, silent, crashed, hasty>>

Live == {s \in Sockets : readyState[s] # "closed"}

\* The readyState of this.socket, "closed" for none.
Current == IF socket \in Sockets THEN readyState[socket] ELSE "closed"

\* onModuleInit has loaded the coins and called connect.
StreamInit ==
  \E s \in Sockets :
    /\ readyState = [x \in Sockets |-> IF x = s THEN "connecting" ELSE "closed"]
    /\ socket = s
    /\ isConnecting = TRUE
    /\ refreshing = 0
    /\ timer = FALSE /\ connected = FALSE /\ reconnected = FALSE
    /\ lastMessage = "never"
    /\ silent = {} /\ crashed = FALSE /\ hasty = 0

----------------------------------------------------------------------------
(* connect and scheduleReconnect                                           *)

\* new WebSocket, whatever this.socket was.
NewSocket ==
  \E s \in Sockets \ Live :
    /\ readyState' = [readyState EXCEPT ![s] = "connecting"]
    /\ socket' = s

\* The two early returns of connect.
MayConnect == ~isConnecting /\ Current # "open"

\* The timer calls connect, which reloads the coins first if there has been a
\* connection before.
TimerFires ==
  /\ timer /\ timer' = FALSE
  /\ \/ /\ MayConnect /\ reconnected
        /\ refreshing < MaxLoads
        /\ isConnecting' = TRUE /\ refreshing' = refreshing + 1
        /\ UNCHANGED <<readyState, socket>>
     \/ /\ MayConnect /\ ~reconnected
        /\ isConnecting' = TRUE /\ NewSocket
        /\ UNCHANGED refreshing
     \/ /\ ~MayConnect
        /\ UNCHANGED <<isConnecting, refreshing, readyState, socket>>
  /\ UNCHANGED <<connected, reconnected, lastMessage, silent, crashed, hasty>>

\* loadCoins has returned (it catches its errors): connect goes on.
CoinsLoaded ==
  /\ refreshing > 0 /\ refreshing' = refreshing - 1
  /\ NewSocket
  /\ UNCHANGED <<isConnecting, timer, connected, reconnected, lastMessage, silent,
                 crashed, hasty>>

\* Seeded fault: a reconnect is scheduled although one is under way.
ScheduledAlways == TRUE

\* scheduleReconnect
Scheduled == timer \/ ~isConnecting

----------------------------------------------------------------------------
(* The handlers of a socket                                                *)

\* 'open': the subscriptions are sent on this.socket, which need not be the
\* socket that opened.  send throws on a socket that is connecting, not on one
\* that is closing or closed, and there is nothing to call it on when
\* this.socket is null.
Opens(s) ==
  /\ readyState[s] = "connecting"
  /\ readyState' = [readyState EXCEPT ![s] = "open"]
  /\ connected' = TRUE /\ isConnecting' = FALSE
  /\ silent' = IF s = socket THEN silent ELSE silent \cup {s}
  /\ crashed' = (s # socket /\ (socket = NoSocket \/ Current = "connecting"))
  /\ UNCHANGED <<socket, refreshing, timer, reconnected, lastMessage, hasty>>

\* Seeded fault: 'close' leaves isConnecting as it is.
ClosedLeaves(s) == isConnecting

\* isConnecting after the event 'close' of s, whichever socket that is.
AfterClose(s) == FALSE

\* 'close', after a failed handshake, the closing of an open socket, or without
\* warning.  this.socket keeps its reference.
Closes(s) ==
  /\ readyState[s] # "closed"
  /\ readyState' = [readyState EXCEPT ![s] = "closed"]
  /\ socket' = IF s = socket THEN OldSocket ELSE socket
  /\ connected' = FALSE /\ reconnected' = TRUE
  /\ isConnecting' = AfterClose(s)
  /\ timer' = (timer \/ ~isConnecting')
  /\ silent' = silent \ {s}
  /\ UNCHANGED <<refreshing, lastMessage, crashed, hasty>>

\* The exchange has sent a close frame, or the client's side has failed: no
\* message comes any more, the event 'close' is still to come.
StartsClosing(s) ==
  /\ readyState[s] = "open"
  /\ readyState' = [readyState EXCEPT ![s] = "closing"]
  /\ silent' = silent \ {s}
  /\ UNCHANGED <<socket, isConnecting, refreshing, timer, connected, reconnected,
                 lastMessage, crashed, hasty>>

Delivering == {s \in Sockets : readyState[s] = "open"} \ silent

\* 'message' with trades, on one socket or on several.
Message ==
  /\ Delivering # {}
  /\ lastMessage' = "recent"
  /\ UNCHANGED <<readyState, socket, isConnecting, refreshing, timer, connected,
                 reconnected, silent, crashed, hasty>>

\* Nothing comes on an open socket any more.
FallsSilent(s) ==
  /\ s \in Delivering
  /\ silent' = silent \cup {s}
  /\ UNCHANGED <<readyState, socket, isConnecting, refreshing, timer, connected,
                 reconnected, lastMessage, crashed, hasty>>

\* STALE_CONNECTION_MS have passed since the last message.
MinutePasses ==
  /\ lastMessage = "recent" /\ lastMessage' = "old"
  /\ UNCHANGED <<readyState, socket, isConnecting, refreshing, timer, connected,
                 reconnected, silent, crashed, hasty>>

----------------------------------------------------------------------------
(* reconnectIfNeeded, every 30 seconds                                     *)

\* Case 1: the socket is closed, closing or null.
HealthCheckDead ==
  /\ Current \in {"closed", "closing"}
  /\ timer' = Scheduled
  /\ IF Current = "closing" /\ timer' # timer
       THEN hasty < MaxHasty /\ hasty' = hasty + 1
       ELSE UNCHANGED hasty
  /\ UNCHANGED <<readyState, socket, isConnecting, refreshing, connected, reconnected,
                 lastMessage, silent, crashed>>

\* Case 2: it is open and the last message is old.  forceReconnect removes the
\* listeners, so no 'close' follows.
HealthCheckStale ==
  /\ Current = "open" /\ lastMessage = "old"
  /\ readyState' = [readyState EXCEPT ![socket] = "closed"]
  /\ socket' = NoSocket
  /\ connected' = FALSE
  /\ timer' = Scheduled
  /\ silent' = silent \ {socket}
  /\ UNCHANGED <<isConnecting, refreshing, reconnected, lastMessage, crashed, hasty>>

HealthCheck == HealthCheckDead \/ HealthCheckStale

----------------------------------------------------------------------------
(* Properties                                                              *)

StreamTypeOK ==
  /\ readyState \in [Sockets -> {"closed", "connecting", "open", "closing"}]
  /\ socket \in Live \cup {NoSocket, OldSocket}
  /\ isConnecting \in BOOLEAN /\ timer \in BOOLEAN
  /\ connected \in BOOLEAN /\ reconnected \in BOOLEAN
  /\ refreshing \in Nat
  /\ lastMessage \in {"never", "recent", "old"}
  /\ silent \subseteq Live
  /\ crashed \in BOOLEAN /\ hasty \in 0 .. MaxHasty

\* There is one connection at most, this.socket, and at most one connect under
\* way or about to be, unless a health check fell between the closing of a
\* socket and its end.  (Then a second and a third connection can be open, each
\* trade counts twice, and the handler of 'open' may throw.)
OneStream ==
  hasty = 0 =>
    /\ Live \subseteq {socket}
    /\ ~crashed
    /\ connected => Current \in {"open", "closing"}

=============================================================================
