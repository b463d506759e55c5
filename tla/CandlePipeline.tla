--------------------------- MODULE CandlePipeline ---------------------------
(***************************************************************************)
(* From the exchange's candles to a signal, for one coin: the REST         *)
(* bootstrap (data/candle_bootstrap.py), the candle messages the feeder    *)
(* stores (data/candle_store.py, data/feeder.py) and the evaluation the    *)
(* pipeline makes of the stored window when a minute has closed            *)
(* (data/candle_pipeline.py).                                              *)
(*                                                                         *)
(* The exchange pushes its open candle whenever a trade changes it.  A     *)
(* message is processed before the next trade or is lost, with the         *)
(* connection down.  There are trades in every minute.                     *)
(***************************************************************************)
EXTENDS Strategy

CONSTANTS
  MinCandles,      \* strategy.staircase.min_lookback_candles, the window
  MaxCandles,      \* max_candles of the store
  BootstrapCount,  \* candles the REST call answers with, if there are as many
  Histories,       \* candles of the coin before the bot looks at it
  Ticks,           \* price changes of a trade
  MaxMinutes,      \* bound: candles after the history
  MaxTrades,       \* bound: trades in a candle
  MaxLost,         \* bound: messages lost
  MaxSubs          \* bound: subscriptions

Ascending(s) == \A i, j \in DOMAIN s : i < j => s[i].t < s[j].t

ASSUME PipelineAssumption ==
  /\ MinCandles \in Nat \ {0} /\ MaxCandles \in Nat /\ MinCandles <= MaxCandles
  /\ BootstrapCount \in Nat /\ MinCandles <= BootstrapCount
  /\ Ticks \subseteq Int
  /\ \A h \in Histories : h \in Seq(Candle) /\ Len(h) > 0 /\ Ascending(h) /\ h[1].t > 0

VARIABLES
  market,     \* the exchange's candles, the last one open
  store,      \* candle_store: the deque of the coin
  pc,         \* "off", "loaded" (bootstrapped, not yet subscribed), "on"
  lastT,      \* _last_candle_ts, 0 for none
  evaluated,  \* the window evaluated last
  signals,    \* what that gave
  lost,       \* messages lost so far
  subs,       \* subscriptions so far
  whole,      \* the bootstrap was complete and no message is missing since
  mixed       \* a short bootstrap was appended to older candles

link == <<pc, lost, subs>>
vars == <<market, store, lastT, evaluated, signals, link, whole, mixed>>

----------------------------------------------------------------------------
(* The store                                                               *)

Latest(s, count) == SubSeq(s, Larger(1, Len(s) - count + 1), Len(s))

\* Seeded fault: every message appends.
KeptBeforeAll(buf, t) == buf

\* A stored last candle of the same minute gives way.
KeptBefore(buf, t) ==
  IF buf # <<>> /\ buf[Len(buf)].t = t THEN SubSeq(buf, 1, Len(buf) - 1) ELSE buf

\* Seeded fault: the candle that was stored first stays.
AddCandlesFirst(buf, cs) ==
  IF cs # <<>> /\ buf # <<>> /\ buf[Len(buf)].t = cs[1].t
    THEN Latest(buf \o Tail(cs), MaxCandles)
    ELSE Latest(buf \o cs, MaxCandles)

\* Seeded fault: the deque has no bound.
AddCandlesUnbounded(buf, cs) ==
  IF cs = <<>> THEN buf ELSE KeptBefore(buf, cs[1].t) \o cs

\* add_candle for each of a list of candles in ascending order: only the first
\* of them can replace one.  The deque drops its oldest beyond MaxCandles.
AddCandles(buf, cs) ==
  IF cs = <<>> THEN buf ELSE Latest(KeptBefore(buf, cs[1].t) \o cs, MaxCandles)

\* get_candles
Window == Latest(store, MinCandles)

----------------------------------------------------------------------------
(* Initial state                                                           *)

Init ==
  /\ market \in Histories
  /\ store = <<>>
  /\ pc = "off" /\ lastT = 0
  /\ evaluated = <<>> /\ signals = {}
  /\ lost = 0 /\ subs = 0
  /\ whole = FALSE /\ mixed = FALSE

----------------------------------------------------------------------------
(* update_candidates: the coin becomes a candidate, or is one no longer    *)

\* bootstrap_candles is answered, or fails and loads nothing.  Whatever the
\* store holds of an earlier subscription stays in front.
Bootstrap(count) ==
  LET cs == Latest(market, count)
  IN  /\ pc = "off" /\ subs < MaxSubs
      /\ pc' = "loaded" /\ subs' = subs + 1
      /\ store' = AddCandles(store, cs)
      /\ whole' = (Len(cs) >= MinCandles \/ (store = <<>> /\ cs = market))
      /\ mixed' = (Len(cs) < MinCandles /\ (mixed \/ (cs # <<>> /\ store # <<>>)))
      /\ UNCHANGED <<market, lastT, evaluated, signals, lost>>

\* feeder.subscribe_coin has returned and the coin is in _subscribed.
Subscribe ==
  /\ pc = "loaded" /\ pc' = "on"
  /\ UNCHANGED <<market, store, lastT, evaluated, signals, lost, subs, whole, mixed>>

\* The store is not told.
Unsubscribe ==
  /\ pc = "on" /\ pc' = "off"
  /\ lastT' = 0
  /\ UNCHANGED <<market, store, evaluated, signals, lost, subs, whole, mixed>>

----------------------------------------------------------------------------
(* A trade, and its candle message                                         *)

Open == market[Len(market)]

\* A trade at the close price changed by d, in the open minute or in the next:
\* the candle it makes, if there is one.  Prices are positive.
Traded(d) ==
  LET price == Open.close + d
  IN  IF Open.n < MaxTrades /\ price > 0
        THEN {[Open EXCEPT !.high = Larger(@, price), !.low = -Larger(-@, -price),
                           !.close = price, !.vol = @ + 1, !.n = @ + 1]}
        ELSE {}

Opened(d) ==
  LET price == Open.close + d
  IN  IF Open.t < MaxMinutes /\ price > 0
        THEN {[t |-> Open.t + 1, high |-> price, low |-> price, close |-> price,
               vol |-> 1, n |-> 1]}
        ELSE {}

\* _on_candle_update, called after the candle is stored: another timestamp than
\* the last one means that a candle has closed, and the window, with the first
\* trade of the new minute as its last candle, is evaluated.
Receive(candle) ==
  /\ pc # "off"
  /\ store' = AddCandles(store, <<candle>>)
  /\ lastT' = IF pc = "on" THEN candle.t ELSE lastT
  /\ IF pc = "on" /\ lastT # 0 /\ lastT # candle.t
       THEN evaluated' = Window' /\ signals' = Signals(Window')
       ELSE UNCHANGED <<evaluated, signals>>
  /\ UNCHANGED <<link, whole, mixed>>

\* Nobody listens, the subscription is not yet active, or the connection is
\* down.
Miss ==
  /\ IF pc = "on" THEN lost < MaxLost /\ lost' = lost + 1 ELSE UNCHANGED lost
  /\ whole' = FALSE
  /\ UNCHANGED <<store, pc, lastT, evaluated, signals, subs, mixed>>

Trade(d) ==
  \E candle \in Traded(d) :
    /\ market' = [market EXCEPT ![Len(market)] = candle]
    /\ Receive(candle) \/ Miss

Minute(d) ==
  \E candle \in Opened(d) :
    /\ market' = Append(market, candle)
    /\ Receive(candle) \/ Miss

----------------------------------------------------------------------------
(* Specification                                                           *)

Next ==
  \/ \E count \in {0, BootstrapCount} : Bootstrap(count)
  \/ Subscribe
  \/ Unsubscribe
  \/ \E d \in Ticks : Trade(d) \/ Minute(d)

Spec == Init /\ [][Next]_vars

----------------------------------------------------------------------------
(* Properties                                                              *)

\* The types of the variables; the deque keeps its bound and the exchange's
\* candles ascend.
CPTypeOK ==
  /\ market \in Seq(Candle) /\ Len(market) > 0 /\ Ascending(market)
  /\ store \in Seq(Candle) /\ Len(store) <= MaxCandles
  /\ pc \in {"off", "loaded", "on"}
  /\ lastT \in Nat
  /\ evaluated \in Seq(Candle)
  /\ \A s \in signals : s.dir \in {1, -1}
  /\ lost \in Nat /\ subs \in Nat
  /\ whole \in BOOLEAN /\ mixed \in BOOLEAN

\* A window holds each minute at most once and in order, across lost messages,
\* failed bootstraps and subscriptions that end and begin again; but not after
\* a bootstrap shorter than the window (a young coin) that met candles of an
\* earlier subscription, which the store still holds.
WindowsOrdered == ~mixed => Ascending(Window)

\* With no message missing since a complete bootstrap the window is that of the
\* exchange: nothing of an earlier subscription, no candle left as it was
\* before its last trade.
WindowsMirrorMarket ==
  whole /\ pc # "off" => Window = Latest(market, MinCandles)

\* Every signal breaks out: the entry is beyond each earlier candle of the
\* window it was made from, the stop is the far side of one of them, 0.5% to 5%
\* away, and the target at least as far on the other side.
SaneSignal(s, w) ==
  /\ s.dir = 1 => /\ s.stop < s.entry /\ s.target2 - 2 * s.entry >= 2 * (s.entry - s.stop)
                  /\ \A i \in 1 .. Len(w) - 1 : w[i].high < s.entry
                  /\ \E i \in 1 .. Len(w) - 1 : w[i].low = s.stop
  /\ s.dir = -1 => /\ s.stop > s.entry /\ 2 * s.entry - s.target2 >= 2 * (s.stop - s.entry)
                   /\ \A i \in 1 .. Len(w) - 1 : w[i].low > s.entry
                   /\ \E i \in 1 .. Len(w) - 1 : w[i].high = s.stop
  /\ StopWithin(s.entry, s.stop, 5, 50)

SignalsSane == \A s \in signals : SaneSignal(s, evaluated)

\* No repainting: a swing found among the stored candles that are closed is
\* found again when the next message has been stored, as long as the candles
\* before it that confirm it are in the window.
ClosedSwings ==
  LET w == SubSeq(Window, 1, Len(Window) - 1)
  IN  {<<w[i].t, "high", w[i].high>> : i \in SwingHighs(w)}
        \cup {<<w[i].t, "low", w[i].low>> : i \in SwingLows(w)}

Confirmable == {Window[i].t : i \in MinBars + 1 .. Len(Window)}

SwingsStay ==
  [][subs' = subs /\ ~mixed =>
       \A s \in ClosedSwings : s[1] \in Confirmable' => s \in ClosedSwings']_vars

=============================================================================
