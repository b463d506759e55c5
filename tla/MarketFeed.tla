---------------------------- MODULE MarketFeed ----------------------------
(***************************************************************************)
(* How the momentum bot keeps its market data flowing: the WebSocket       *)
(* feeder (data/feeder.py) with its reconnects, and the candle pipeline    *)
(* (data/candle_pipeline.py) that subscribes and unsubscribes coins after  *)
(* each scan (main.py, _run_scan_cycle).                                   *)
(*                                                                         *)
(* Two coroutines: the feeder reads one message at a time and awaits the   *)
(* callbacks, on_signal included; the scan awaits REST calls and socket    *)
(* writes.  A write suspends when the transport's buffer is full, and      *)
(* raises when the connection has closed.  The three frames the code sends *)
(* for a coin (candles, trades, book) are one here: if the connection      *)
(* closes between them the exchange forgets them all.                      *)
(***************************************************************************)
EXTENDS Integers, FiniteSets, Sequences

CONSTANTS
  Coins,       \* tradable coins
  Rankings,    \* candidate lists a scan may produce, best first, no repeats
  MaxSubs,     \* scanner.max_ws_subscriptions
  MaxHeld,     \* risk.max_concurrent_positions
  MaxSignals   \* bound: signals handled in one behaviour

ASSUME RankingsAssumption ==
  /\ Rankings \subseteq Seq(Coins)
  /\ \A r \in Rankings : \A i, j \in 1 .. Len(r) : r[i] = r[j] => i = j
  /\ IsFiniteSet(Coins) /\ Coins # {}

ASSUME BoundsAssumption ==
  /\ MaxSubs \in Nat /\ MaxHeld \in Nat /\ MaxSignals \in Nat

VARIABLES
  link,        \* the connection the feeder made last: "up" or "closed"
  served,      \* what the exchange sends on it, per coin
  coinSubs,    \* feeder._coin_subs
  feeder,      \* the feeder's coroutine
  subscribed,  \* pipeline._subscribed
  scan,        \* the scan's coroutine
  held,        \* coins with an entry in the position table
  signals      \* signals handled so far

vars == <<link, served, coinSubs, feeder, subscribed, scan, held, signals>>

----------------------------------------------------------------------------
(* Initial state                                                           *)

\* "off": it was sent earlier on this connection, messages may be buffered.
Nothing == [c \in Coins |-> "never"]

\* The coin field of a coroutine that works on no coin.
AnyCoin == CHOOSE c \in Coins : TRUE

FeederAt(pc, todo) == [pc |-> pc, todo |-> todo, coin |-> AnyCoin]

\* protected is kept after a cycle, for the properties; ok tells whether the
\* cycle returned without an exception.
ScanIdle(protected, ok) ==
  [pc |-> "idle", phase |-> "fill", coin |-> AnyCoin,
   stale |-> {}, ranking |-> <<>>, protected |-> protected, ok |-> ok]

Init ==
  /\ link = "closed"
  /\ served = Nothing
  /\ coinSubs = {}
  /\ feeder = FeederAt("down", {})
  /\ subscribed = {}
  /\ scan = ScanIdle({}, TRUE)
  /\ held = {}
  /\ signals = 0

----------------------------------------------------------------------------
(* The feeder                                                              *)

\* Seeded fault: self._ws is set after the replay.
HasSocketLate == feeder.pc \notin {"down", "replay"}

\* self._ws is not None
HasSocket == feeder.pc # "down"

\* Seeded fault: a subscription replaces those before it.
ServeOnly(c) == served' = [x \in {c} |-> "on"]

\* The exchange takes a subscription of c.
Serve(c) == served' = [served EXCEPT ![c] = "on"]

\* Seeded fault: a new connection starts with no replay.
ConnectBare ==
  /\ feeder.pc = "down"
  /\ link' = "up"
  /\ feeder' = FeederAt("replay", {})
  /\ UNCHANGED <<served, coinSubs, subscribed, scan, held, signals>>

\* The backoff is over and the connection made: the socket is set and the
\* subscriptions to replay are copied, with no await in between.
Connect ==
  /\ feeder.pc = "down"
  /\ link' = "up"
  /\ feeder' = FeederAt("replay", coinSubs)
  /\ UNCHANGED <<served, coinSubs, subscribed, scan, held, signals>>

Replay(c) ==
  /\ feeder.pc = "replay" /\ link = "up"
  /\ c \in feeder.todo
  /\ Serve(c)
  /\ feeder' = [feeder EXCEPT !.todo = @ \ {c}]
  /\ UNCHANGED <<link, coinSubs, subscribed, scan, held, signals>>

Listen ==
  /\ feeder.pc = "replay" /\ link = "up"
  /\ feeder.todo = {}
  /\ feeder' = FeederAt("listen", {})
  /\ UNCHANGED <<link, served, coinSubs, subscribed, scan, held, signals>>

\* A candle of c closes and yields a signal: on_signal runs in the feeder's
\* coroutine.  (A message that yields none changes no state of this module.)
Signal(c) ==
  /\ feeder.pc = "listen"
  /\ served[c] # "never" /\ c \in subscribed
  /\ signals < MaxSignals
  /\ signals' = signals + 1
  /\ feeder' = [feeder EXCEPT !.pc = "signal", !.coin = c]
  /\ UNCHANGED <<link, served, coinSubs, subscribed, scan, held>>

\* on_signal returned: it opened a position if there was a slot, or not.
SignalHandled ==
  /\ feeder.pc = "signal"
  /\ \/ held' = held
     \/ /\ Cardinality(held) < MaxHeld
        /\ held' = held \cup {feeder.coin}
  /\ feeder' = FeederAt("listen", {})
  /\ UNCHANGED <<link, served, coinSubs, subscribed, scan, signals>>

\* The feeder, when it is not in a callback, finds the connection closed:
\* run() clears the socket and backs off.  What was sent on the connection and
\* not read is lost.
Disconnect ==
  /\ feeder.pc \in {"replay", "listen"} /\ link = "closed"
  /\ feeder' = FeederAt("down", {})
  /\ served' = Nothing
  /\ UNCHANGED <<link, coinSubs, subscribed, scan, held, signals>>

\* The network or the exchange closes the connection.
LinkCloses ==
  /\ link = "up"
  /\ link' = "closed"
  /\ UNCHANGED <<served, coinSubs, feeder, subscribed, scan, held, signals>>

----------------------------------------------------------------------------
(* A scan cycle                                                            *)

Top(ranking) == {ranking[i] : i \in {n \in DOMAIN ranking : n <= MaxSubs}}

Stale(ranking, protected) == subscribed \ (Top(ranking) \cup protected)

\* The scan has its candidates; the protected coins are read now.
ScanStart(ranking) ==
  /\ scan.pc = "idle"
  /\ scan' = [ScanIdle(held, FALSE) EXCEPT
                !.pc = "unsub", !.stale = Stale(ranking, held), !.ranking = ranking]
  /\ UNCHANGED <<link, served, coinSubs, feeder, subscribed, held, signals>>

\* The exception ends the cycle.
ScanRaises == scan' = ScanIdle(scan.protected, FALSE)

\* feeder.unsubscribe_coin up to its write: nothing is sent without a socket,
\* the write on a closed connection raises.
Unsubscribe(c) ==
  /\ scan.pc = "unsub" /\ c \in scan.stale
  /\ coinSubs' = coinSubs \ {c}
  /\ IF HasSocket /\ link = "closed"
       THEN ScanRaises /\ UNCHANGED served
       ELSE /\ scan' = [scan EXCEPT !.pc = "unsubscribing", !.coin = c]
            /\ served' = [served EXCEPT ![c] =
                 IF HasSocket /\ @ = "on" THEN "off" ELSE @]
  /\ UNCHANGED <<link, feeder, subscribed, held, signals>>

Unsubscribed ==
  /\ scan.pc = "unsubscribing"
  /\ subscribed' = subscribed \ {scan.coin}
  /\ scan' = [scan EXCEPT !.pc = "unsub", !.coin = AnyCoin, !.stale = @ \ {scan.coin}]
  /\ UNCHANGED <<link, served, coinSubs, feeder, held, signals>>

\* A suspended write of either kind raises when the connection closes.
WriteRaises ==
  /\ scan.pc \in {"unsubscribing", "subscribing"}
  /\ link = "closed"
  /\ ScanRaises
  /\ UNCHANGED <<link, served, coinSubs, feeder, subscribed, held, signals>>

StaleDone ==
  /\ scan.pc = "unsub" /\ scan.stale = {}
  /\ scan' = [scan EXCEPT !.pc = "next"]
  /\ UNCHANGED <<link, served, coinSubs, feeder, subscribed, held, signals>>

\* Seeded fault: the limit is off by one.
HasRoomOffByOne == Cardinality(subscribed) <= MaxSubs

HasRoom == Cardinality(subscribed) < MaxSubs

\* The next candidate, while there is room; one that is subscribed is skipped.
NextCandidate ==
  /\ scan.pc = "next" /\ scan.phase = "fill"
  /\ HasRoom /\ scan.ranking # <<>>
  /\ scan' = IF Head(scan.ranking) \in subscribed
               THEN [scan EXCEPT !.ranking = Tail(@)]
               ELSE [scan EXCEPT !.ranking = Tail(@), !.pc = "bootstrap",
                                 !.coin = Head(scan.ranking)]
  /\ UNCHANGED <<link, served, coinSubs, feeder, subscribed, held, signals>>

CandidatesDone ==
  /\ scan.pc = "next" /\ scan.phase = "fill"
  /\ ~HasRoom \/ scan.ranking = <<>>
  /\ scan' = [scan EXCEPT !.phase = "protect", !.ranking = <<>>]
  /\ UNCHANGED <<link, served, coinSubs, feeder, subscribed, held, signals>>

\* Seeded fault: protected coins are subscribed only while there is room.
UnservedProtectedInRoom == IF HasRoom THEN scan.protected \ subscribed ELSE {}

UnservedProtected == scan.protected \ subscribed

NextProtected(c) ==
  /\ scan.pc = "next" /\ scan.phase = "protect"
  /\ c \in UnservedProtected
  /\ scan' = [scan EXCEPT !.pc = "bootstrap", !.coin = c]
  /\ UNCHANGED <<link, served, coinSubs, feeder, subscribed, held, signals>>

ScanDone ==
  /\ scan.pc = "next" /\ scan.phase = "protect"
  /\ UnservedProtected = {}
  /\ scan' = ScanIdle(scan.protected, TRUE)
  /\ UNCHANGED <<link, served, coinSubs, feeder, subscribed, held, signals>>

\* The candles are loaded, or could not be: feeder.subscribe_coin up to its
\* write.
Subscribe ==
  /\ scan.pc = "bootstrap"
  /\ coinSubs' = coinSubs \cup {scan.coin}
  /\ IF HasSocket /\ link = "closed"
       THEN ScanRaises /\ UNCHANGED served
       ELSE /\ scan' = [scan EXCEPT !.pc = "subscribing"]
            /\ IF HasSocket THEN Serve(scan.coin) ELSE UNCHANGED served
  /\ UNCHANGED <<link, feeder, subscribed, held, signals>>

Subscribed ==
  /\ scan.pc = "subscribing"
  /\ subscribed' = subscribed \cup {scan.coin}
  /\ scan' = [scan EXCEPT !.pc = "next", !.coin = AnyCoin]
  /\ UNCHANGED <<link, served, coinSubs, feeder, held, signals>>

ScanTurn ==
  \/ \E c \in Coins : Unsubscribe(c) \/ NextProtected(c)
  \/ Unsubscribed
  \/ WriteRaises
  \/ StaleDone
  \/ NextCandidate
  \/ CandidatesDone
  \/ ScanDone
  \/ Subscribe
  \/ Subscribed

----------------------------------------------------------------------------
(* Specification                                                           *)

\* The position loop or the emergency close removes an entry.
PositionCloses(c) ==
  /\ c \in held
  /\ held' = held \ {c}
  /\ UNCHANGED <<link, served, coinSubs, feeder, subscribed, scan, signals>>

FeederTurn ==
  \/ \E c \in Coins : Replay(c)
  \/ Listen
  \/ Disconnect

Next ==
  \/ Connect
  \/ FeederTurn
  \/ \E c \in Coins : Signal(c) \/ PositionCloses(c)
  \/ SignalHandled
  \/ LinkCloses
  \/ \E r \in Rankings : ScanStart(r)
  \/ ScanTurn

\* Coroutines that can go on do.  A write or a REST call ends: the first by
\* the connection's pings, the second by its timeout.  Orders are answered or
\* raise.  Nothing makes the exchange accept a connection.
Fairness ==
  /\ WF_vars(FeederTurn)
  /\ WF_vars(SignalHandled)
  /\ WF_vars(ScanTurn)

Spec == Init /\ [][Next]_vars

FairSpec == Spec /\ Fairness

----------------------------------------------------------------------------
(* Properties                                                              *)

ScanState ==
  [pc : {"idle", "unsub", "unsubscribing", "next", "bootstrap", "subscribing"},
   phase : {"fill", "protect"}, coin : Coins, stale : SUBSET Coins,
   ranking : Seq(Coins), protected : SUBSET Coins, ok : BOOLEAN]

TypeOK ==
  /\ link \in {"up", "closed"}
  /\ served \in [Coins -> {"never", "on", "off"}]
  /\ coinSubs \subseteq Coins /\ subscribed \subseteq Coins /\ held \subseteq Coins
  /\ feeder \in [pc : {"down", "replay", "listen", "signal"},
                 todo : SUBSET Coins, coin : Coins]
  /\ scan \in ScanState
  /\ signals \in Nat

\* The pipeline never has more coins than the configured subscriptions and
\* the positions together, however often cycles are cut short by exceptions
\* and whatever was protected when a coin was added.
SubscriptionBudget == Cardinality(subscribed) <= MaxSubs + MaxHeld

\* Once the replay is over, the exchange sends everything the feeder wants,
\* although coins come and go while the replay is suspended.
ConnectedServesAll ==
  link = "up" /\ feeder.pc \in {"listen", "signal"} =>
    \A c \in coinSubs : served[c] = "on"

\* A cycle that ends without an exception leaves every coin it protects in
\* the pipeline's set.
ProtectedAreSubscribed ==
  scan.pc = "idle" /\ scan.ok => scan.protected \subseteq subscribed

\* Once a coin is in the feeder's set, it is sent, or leaves the set, or the
\* connection is lost.
WantedIsSent ==
  \A c \in Coins :
    (c \in coinSubs /\ link = "up")
      ~> (served[c] = "on" \/ c \notin coinSubs \/ link = "closed")

=============================================================================
