# Formal model of the momentum bot and its companions

TLA+ specifications of the programs under `apps/`, the TLC configurations that
check them on small instances, and the theorems about them that TLAPS checks
for every instance. The code referred to is the repository's: paths are
relative to its root, and `main.py` without a directory is
`apps/momentum-bot/src/main.py`.

## 1. The system

Three programs trade on, or watch, the Hyperliquid exchange.

**Momentum bot** (`apps/momentum-bot`, Python, one asyncio event loop). A
coroutine runs until an `await` that really suspends, so two coroutines
interleave only there.

| Component | State | Operations | Talks to |
|---|---|---|---|
| Position lifecycle, `main.py` | `_positions` (coin to position), `_closed_positions`, `_signals`, `dry_run`, the configuration | `on_signal`, `position_loop` / `_update_positions` / `_close_position`, `_emergency_close_all`, `_apply_config_update` | feed (calls `on_signal`), executor, risk manager, alerts, dashboard |
| Order executor, `execution/executor.py` | metadata of assets | placements, cancellation, queries; SDK calls in a thread pool | exchange |
| Risk manager, `execution/risk_mgr.py` | day and week counters with their reset times, initial and peak equity, halt | sizing, `can_open_trade`, `update_pnl`, `check_drawdown`, `emergency_close_all`, `reset_halt` | executor, position manager |
| Position manager, `execution/position_mgr.py` (not used by `main.py`) | positions with their order ids | open, trail, time out, close | executor |
| Market data feed, `data/feeder.py`, `candle_pipeline.py`, `candle_store.py`, `candle_bootstrap.py`, `cvd_tracker.py`, `orderbook.py` | socket, subscription sets, candles, last timestamps, trackers | connect and replay, subscribe and unsubscribe, message routing, diff of candidates, bootstrap, evaluation on a candle close | exchange, strategy, `on_signal` |
| REST rate limiter, `utils/rate_limiter.py` | window of timestamped weights, lock | `acquire`, `post_info` | scanner, poller, bootstrap |
| Strategy, `strategy/*.py` | none | swing points, staircase, volume trend, regime, signal | pipeline |
| Scanner, poller, dashboard, alerts, configuration | containers for display, settings | poll and rank, render, deliver, merge | exchange, operator |

**Insider scanner** (`apps/insider-scanner`, NestJS, one Node event loop): a
WebSocket stream of trades with reconnects and a health check
(`ws-scanner.service.ts`), aggregation buffers with timers, an inspection queue
and a registry of suspects (`insider-detector.service.ts`,
`rate-limiter.service.ts`), alerts with cooldowns, a database client, a
dashboard.

**Data analytics** (`apps/data-analytics`, NestJS): a cache over Redis with a
fallback in memory, periodic collectors, stateless statistics.

### What is hard

* *Interleavings at awaits.* `_update_positions` iterates the live dict and
  awaits alerts in the middle; `on_signal` checks the number of positions
  before up to five awaits and inserts after them; the emergency close works on
  a snapshot. Each reads state before an await and uses it after.
* *Partial failure.* Entry, stop-loss and take-profit are three calls. Each may
  be refused, may raise, or may raise although the exchange took the order. The
  trailing stop cancels before it places.
* *Two views of one position.* The table is the bot's, the account is the
  exchange's; in `main.py` closing is bookkeeping, and the exchange's trigger
  orders close positions without telling the table.
* *Lazy calendars.* The risk counters roll over when somebody calls.
* *Queueing.* The rate limiter sleeps while it holds its lock.
* *Reconnects.* The feeder replays its subscriptions with awaits while the
  pipeline changes them, and a write that raises cuts the change short. The
  scanner has a timer, a health check and two handlers that all decide whether
  to connect.
* *Windows with gaps.* The store appends what arrives: messages may be lost, a
  coin may come back, a bootstrap may be short.
* *Sliding timers.* A buffer's timer is set anew by each fill, up to a cap.

`PROJECT.json` lists each hazard at its line with the properties that cover it.

### What makes each component correct

| Component | Properties |
|---|---|
| Position lifecycle | the table is a pool of slots under a limit that holds across awaits; a stop never loosens and a trailed one locks in profit; the history and the table agree; an entry is neither lost while open nor kept once closed; a stale position is closed |
| Lifecycle and account | a dry run sends nothing; a tracked position has its stop; nothing is exposed that nobody accounts for |
| Risk manager | counters are sums of calendar periods; no trade passes a limit reached; a drawdown halts until reset; sizing bounds the loss and the leverage |
| Rate limiter | no request over budget; one sleep suffices; everyone is served |
| Subscriptions | what is subscribed on the exchange converges to what is wanted; their number is bounded; protected coins keep their candles |
| Candles and strategy | a window is in order and is the exchange's; a signal breaks out and has its stop and target on the right sides; a swing found stays found |
| Position manager | dict and account agree between two operations; a held position has its stop; a close leaves nothing behind, and never a position the other way; a stale position is closed |
| Trade stream | a dead or silent connection is replaced; one connection at a time |
| Detector | every fill is in exactly one flush; one inspection per address at a time |

## 2. The modules

| Module | Models | Kind |
|---|---|---|
| `SlotPool` | what the position limit promises | abstract specification |
| `TradeLoop` | `main.py`: the table and its three kinds of coroutine | component; implements `SlotPool` |
| `LiveExchange` | `TradeLoop` with the account the orders create | composition; implements `TradeLoop` |
| `PositionManager` | `execution/position_mgr.py`, `emergency_close_all` of `execution/risk_mgr.py`, and the account | composition |
| `RiskManager` | `execution/risk_mgr.py` | component |
| `RateLimiter` | `utils/rate_limiter.py` | component |
| `MarketFeed` | subscriptions: `data/feeder.py`, `data/candle_pipeline.py`, the scan of `main.py` | composition of feeder and pipeline |
| `Strategy` | `strategy/*.py`, as operators over windows of candles | algorithms |
| `CandlePipeline` | `data/candle_bootstrap.py`, `candle_store.py`, `candle_pipeline.py` for one coin, with `Strategy` at its end | composition |
| `TradeStream` | `ws-scanner.service.ts` | component |
| `Detector` | the buffers of `insider-detector.service.ts`, the queue of `rate-limiter.service.ts` | component |
| `InsiderScanner` | `TradeStream` feeding `Detector` | composition |
| `TradeLoopProofs`, `LiveExchangeProofs`, `PositionManagerProofs`, `RiskManagerProofs`, `RateLimiterProofs`, `MarketFeedProofs`, `CandlePipelineProofs`, `ScannerProofs` | | theorems |
| `MCTradeLoop`, `MCLiveExchange`, `MCPositionManager`, `MCRiskManager`, `MCRateLimiter`, `MCMarketFeed`, `MCCandlePipeline`, `MCInsiderScanner` | | instances for TLC |

An operator with the comment "Seeded fault" is a variant of the definition
below it with a plausible mistake. No specification uses it; substituting it
for the definition makes TLC report the property it is meant for, which shows
that the property depends on that part of the code.

### TradeLoop and SlotPool

`positions[c]` is the dict entry of coin `c`; status `ABSENT` stands for a
missing key. A position keeps its signal, its current stop, the high-water (for
a short, low-water) mark and whether it has trailed or outlived the timeout.
`opened` numbers the positions so that two positions of one coin can be told
apart, and `closes[i]` counts how often position `i` is in
`_closed_positions`. Once closed, only the number is kept: nothing reads the
levels again.

`cpu` names the coroutine that is running between two awaits; every other
coroutine's step needs `cpu = "none"`. Steps without an await between them
could be one action; they are separate, under `cpu`, where the code loops
(one step per key of an iteration).

| Code | Actions |
|---|---|
| `on_signal` | `OnSignal` (all guards up to the first await; a dry run inserts here), `EquityReturned`, `OrderReturned` (entry, then stop), `TakeProfitReturned` (inserts, starts the alerts), `OrderRaised`, `EntryAlertsSent` |
| `_update_positions` | `LoopWake` (makes the iterator), `LoopSkip`, `LoopHold` (mark and trail), `LoopClose` (mark, `_close_position`), `LoopAlertsSent`, `LoopRaises` (the dict changed size, or its keys changed), `LoopFinish` (the deletions) |
| `_emergency_close_all` | `EmergencyStart`, `EmergencyClose`, `EmergencyAlertsSent`, `EmergencyKeyError`, `EmergencyPop` |
| `_apply_config_update` | `UpdateLimit` |
| the clock | `Expire` |

The dict iterator is CPython's: a change of size raises at the next step; a key
replaced in place does not. When as many keys were inserted as popped
(`popped`), the size is that of the start; where the new entry lies in the
dict's table decides, and the model leaves open, whether the iterator visits it,
passes it over or raises for changed keys. `LoopFinish` deletes by name, up to the first
`KeyError`. Signals come one at a time because the feeder awaits the callback
of each message before it reads the next.

`SlotPool` says what this amounts to: a coin gets a slot only by a reservation
made while fewer slots than the limit were held. Its `limit` is the configured
one, its `holders` are the keys of the dict, and the coin of a signal between
the check and the insertion has its slot `reserved`.

Abstractions: the order of the dict is arbitrary at each visit; prices are
whole numbers and the close is chosen when it is read; R multiples are in
tenths and products are rounded down (the property allows for it); a signal that
is rejected changes nothing of this state, so it is no step; the rejections of
the live path (risk manager, balance, size) are subsumed by the signal that is
not accepted, `Risk(s) > 0` standing for a positive size; a subscribed coin has
a candle, so `latest is None` does not occur; of the settings only the position
limit changes. The timestamps are replaced by `stale`: the loop reads the clock
once, so `Expire` happens between two passes. Start-up, shutdown and alert
contents are not modelled.

### LiveExchange

`account[i]` is what the exchange knows of position `i`: orders resting, whether
it is held, and two notes for the properties (the stop was refused; a placement
raised). Each answered placement may have been accepted or refused; one that
raised may have arrived. A resting entry fills and a reduce-only leg triggers at
any time. Every other step of the bot leaves the account alone, which is the
code: nothing else in `main.py` sends an order. A leg acts on the position it
was placed for; netting of several positions of a coin is in `PositionManager`.

### PositionManager

`positions` is the dict, by the identity of the `ManagedPosition` (`pos[i]`)
it maps a coin to; an object lives on in the coroutine that holds it after its
key is gone or replaced. `net` and `book` are the account: the signed size of
each coin and the orders that rest. A step is the answer to a call, with its
effect on the account, and the code from there to the next await. An answer is
`ok`, `refused` (a status nobody reads), `raised`, or `lost` (it raises although
the exchange took the order); `MaxFaults` bounds the last three.

| Code | Actions |
|---|---|
| `open_position` | `OpenPosition`, `EntryAnswered`, `StopAnswered`, `TargetAnswered` (enters the dict) |
| `update_all` | `UpdateAll` (the snapshot), `UpdateVisits`, `UpdateEnds` |
| `check_trailing_sl` | decided in `UpdateVisits`; `OldStopCancelled`, `NewStopAnswered` |
| `check_timeout` | decided in `UpdateVisits`, and the close |
| `close_position` | `ClosePosition` (reads the order ids, once), `CloseCancels`, `CloseTrades`, `CloseDeletes`, `CloseMidsRaise` |
| `emergency_close_all` | `EmergencyStarts`, `EmergencyCloses`, `EmergencyFetches` (the second look, at the exchange), `EmergencyOrphan`, `EmergencyEnds` |
| the exchange, the clock | `Fill`, `Ages` |

All sizes are 1, so a partial fill does not occur. Ages and prices are reduced
to what `update_all` would find of a position (`due`): at the trigger, stale
below 0.5R, or neither. `clean` and `disturbed` are notes for the properties:
the coins on which no call failed, no order traded and no two coroutines met;
and whether anything interfered with the emergency close.

### RiskManager

One action per method, since none awaits after reading state. `Rolled` is
`_maybe_reset_periods`; `gate` holds the verdict of the latest
`can_open_trade`. `dayTotal` and `weekTotal` are not in the code: they record
what was realised per calendar period, for `LedgerMatches` to compare with.
Money is in whole units and fractions in percent; comparisons are multiplied
out. `Notional` rounds down where the code divides. The size in tokens is the
notional over the entry price and adds nothing.

### RateLimiter

`window[t]` is the weight recorded `t` ticks ago, the last index standing for
everything older. `queue` is the asyncio lock: its head holds it, the rest wait
in order. A caller is in `post_info`: acquiring (perhaps napping with the lock),
sent, backing off after a 429, or recording the extra weight of an answer.
`ledger` is the truth about the window whatever was pruned.

### MarketFeed

Two coroutines and the exchange. `feeder` is the feeder's: `down` (backing off
or connecting), `replay`, `listen`, or `signal` while it awaits `on_signal`.
`coinSubs` is `feeder._coin_subs`, `subscribed` is `pipeline._subscribed`;
`served` is what the exchange sends on the present connection, `"off"` meaning
that messages sent before an unsubscription may still be read. `held` are the
coins in the position table, which `TradeLoop` details.

| Code | Actions |
|---|---|
| `run`, `_connect_and_listen`, `_replay_subscriptions` | `Connect`, `Replay`, `Listen`, `Disconnect`; `LinkCloses` for the network |
| `_handle_message` to `_on_candle_update`, `_evaluate_coin`, `on_signal` | `Signal`, `SignalHandled` |
| `_run_scan_cycle` | `ScanStart` (reads the protected coins), `ScanDone`, `ScanRaises` |
| `update_candidates` | `Unsubscribe` / `Unsubscribed`, `StaleDone`, `NextCandidate`, `CandidatesDone`, `NextProtected` |
| `_bootstrap_and_subscribe` | `Subscribe` / `Subscribed`, after the `bootstrap` state in which candles are fetched |

A write suspends (two actions around it) and may raise when the connection
closes; the exception ends the cycle wherever it is. A feeder without a socket
(`_ws is None`) writes nothing. The frames for a coin are one. Candles and what
the strategy makes of them are a signal or none; `signals` bounds how many.

### Strategy and CandlePipeline

`Strategy` has no state. Swing points, staircase, volume trend, regime and
signal are operators over a window, a sequence of candles; a comparison of
floats in the code is one of exact fractions here, so what the code decides by
a rounding error is not covered. Scores are compared with their thresholds and
not returned. Pairs of neighbouring swings take the place of the loops. Left out
are the rounding of the levels to 6 decimals, which changes no whole price and no
half of one, and the 120 candles the signal engine looks back, which with the
shipped settings are no fewer than the window.

`CandlePipeline` is one coin from the exchange to the signal. `market` holds the
exchange's candles, the last one open; `store` is the deque. The window is the
last `MinCandles` of the store (`strategy.staircase.min_lookback_candles`).

| Code | Actions |
|---|---|
| `_bootstrap_and_subscribe`: `bootstrap_candles` | `Bootstrap` (with the candles there are, or none when the call fails) |
| the return of `subscribe_coin` | `Subscribe` |
| `update_candidates`, the coin gone | `Unsubscribe` (the store keeps its candles) |
| a message: `add_candle`, `_on_candle_update`, `_evaluate_coin` | `Receive`, in `Trade` (the open minute) and `Minute` (the next) |
| a message lost, or before the subscription | `Miss` |

Assumed: a message is processed before the next trade or is lost with the
connection (a backlog behind a fresh bootstrap is not modelled), and there are
trades in every minute. `whole` and `mixed` are notes for the properties: no
message is missing since a complete bootstrap; a bootstrap shorter than the
window was appended to candles of an earlier subscription.

### TradeStream, Detector and InsiderScanner

Each action is one callback of Node, up to its end or its await. Sockets have the
states and events of the `ws` library: a socket that is closing is still
`this.socket`, and its `close` is yet to come. After it `this.socket` goes on
referring to the closed socket (`OldSocket`), on which `send` does not throw;
there is none (`NoSocket`) before the first
connection and after `forceReconnect`.

| Code | Actions |
|---|---|
| the timer of `scheduleReconnect`, `connect` | `TimerFires`, `CoinsLoaded` (after the reload of the coins) |
| `on('open')`, `on('close')`, `on('message')` | `Opens`, `Closes`, `Message` |
| `reconnectIfNeeded`, `forceReconnect` | `HealthCheckDead`, `HealthCheckStale` |
| the exchange, the clock | `StartsClosing`, `FallsSilent`, `MinutePasses` |
| `bufferTrade`, `accumulateFill` | `BufferTrade`, part of `TradeArrives` |
| a buffer's timer, `flushBuffer` | `TimerFlushes` |
| `queueInspect`, `enqueue` | `QueueInspect`, part of what flushes |
| `processQueue` | `TaskEnds`, `SleepEnds` |
| the clock | `Tick` |

`hasty` counts the reconnects scheduled while the socket was closing;
`traded` and `flushed` count fills per key for `FillsKept`. One coin, fills of
size 1; `Threshold` is the notional above which a flush has its address
inspected.

## 3. The runs

| Run | Instance | Distinct states | Shows |
|---|---|---|---|
| `trade_loop` | 3 coins, a short and two longs, 3 prices, limits 1 and 2, 1 emergency request, 3 positions opened | 205,948 | `TypeOK`, `SlotLimit`, `TrailLocksProfit`, `HistoryMatches`, `DryRunTableClean`, `StopNeverLoosens`, `StaleIsClosed`, `ImplementsSlots` |
| `live_exchange` | 2 coins, 2 prices, limit 2, 1 request, 2 positions opened | 800,588 | `DryRunSendsNothing`, `TrackedIsGuarded`, `SoleEntryAccounted` |
| `position_manager` | a long and a short coin, 2 positions opened, no fault | 1,174,336 | `PMTypeOK`, `IdleCoinTallies`, `NeverNaked` |
| `position_faults` | 1 coin, 1 position: a market short or a limit long, 1 fault | 51,676 | `EmergencyFlattens`, `StaleIsClosed` |
| `risk_manager` | Friday to Tuesday, 3 profits and losses, 3 equities, 4 events | 532,839 | `TypeOK`, `LedgerMatches`, `GateRespectsLosses`, `DrawdownShutsGate`, `SizingBounded` |
| `rate_limiter` | 2 callers, weights 1 to 3, budget 4, window of 2 ticks | 49,840 | `TypeOK`, `AdmittedWithinBudget`, `OneNapIsEnough`, `CallersAreServed` |
| `market_feed` | 3 coins, 1 subscription, 1 position, 3 candidate lists, 2 signals | 71,729 | `TypeOK`, `SubscriptionBudget`, `ConnectedServesAll`, `ProtectedAreSubscribed`, `WantedIsSent` |
| `candle_pipeline` | 3 histories of up to 7 candles, 2 more at least, window 8 of 9 stored, 3 price changes, 1 message lost, 2 subscriptions | 192,108 | `CPTypeOK`, `WindowsOrdered`, `WindowsMirrorMarket`, `SignalsSane`, `SwingsStay` |
| `insider_scanner` | 2 sockets, 2 loads of the coins, 1 hasty reconnect, 2 traders, 4 trades, sliding window of 2 ticks, cap of 3 | 502,856 | `ScannerTypeOK`, `OneStream`, `FillsKept`, `QueueTells`, `StreamComesBack` |
| `open_tracked` | as `trade_loop` | | violates `OpenStaysTracked` |
| `slot_leak` | as `trade_loop`, no request | | violates `ClosedLeaves`, under fairness |
| `close_reverses` | 1 long coin, 1 position, no fault | | violates `CloseNeverReverses` |

### Bounds

*`trade_loop`, `live_exchange`.* Three positions and three coins allow a coin to
be reopened while another is closed and a third inserted, which is what the
aborted iterations and the deletions by name need; a second request adds only
another coroutine of the same kind. The prices put every position on its stop,
on its target, beyond its trailing trigger and one short of its mark. Two
accounts and two coins allow both a second position of one coin and positions
of two.

*`position_manager`, `position_faults`.* Two positions let a coin be opened
again while a coroutine holds its old object, and let the update and the
emergency close be at different coins or at the same one. Fills and time are
not bounded. With faults one position is enough: a fault meets every call of
every coroutine, and what it leaves behind meets all the others.

*`risk_manager`.* The days contain a weekend and a Monday, so that day and week
roll over together and apart; four events reach the daily limit, the weekly one
and a recovery.

*`rate_limiter`.* The weights allow a full window, one that needs a nap and an
answer that overdraws the budget.

*`market_feed`.* Three coins for one subscription and one position let a coin be
wanted, given up while it gets a position, and protected afterwards; the lists
name two candidates for the one subscription, another, and none. Reconnects and
cycles are not bounded.

*`candle_pipeline`.* The histories are a rising and a falling staircase, each one
trade from a breakout, so that signals of both directions occur, and a coin just
listed, whose bootstrap is shorter than the window. Two subscriptions meet the
store of the first; one more candle than the window fits into the store, so it
overflows. The thresholds (swings confirmed by 1 candle, 6 candles for a signal,
buckets of a minute, an ATR of 2) are scaled to the short window; the score
thresholds are the code's.

*`insider_scanner`.* Two sockets are the one that closes and the one that takes
over, and with the hasty reconnect both can be open. After a hasty reconnect
nothing in the code bounds the `connect` calls that await the coins at once;
`MaxLoads` does, and two is the first number at which they overlap. The cap is
less than two sliding windows, so that it is reached; four trades fill a buffer,
flush it by the timer or by the cap, and fill it again, so that an address is
found again while it is inspected; the threshold is met by some flushes and not
by others. Every trade has the two traders as buyer and seller: a trade with the
exchange itself does less of the same.

### Fairness

`TradeLoop`: the position loop and the emergency requests, once ready, are run.
asyncio's ready queue is FIFO, the loop's sleep is one second, and alert
deliveries have timeouts. Signals, requests and the exchange's answers are not
assumed to come.

`PositionManager`: `update_all` is called again and again, as its documentation
asks ("Call this periodically"), and a call to the exchange is answered or
times out.

`RateLimiter`: time passes, and a caller that holds the lock and is due goes on;
the lock is granted in order of arrival by `asyncio.Lock`, which is in the
model's `queue` and not assumed as fairness.

`MarketFeed`: the feeder and the scan, once ready, are run; a write ends, by the
connection's pings at the latest, and so do a REST call (it has a timeout) and
`on_signal`. That the exchange accepts a connection, keeps it or sends a candle
is not assumed.

`InsiderScanner`: timers and intervals fire, the REST call returns, a handshake
ends, and so does a socket that is closing (the library's timeout). Stronger, and
about the exchange: asked to connect again and again it accepts in the end the
connection of `this.socket` (strong fairness of `Accepted`; attempts that the
scanner has given up look the same to the exchange, and if only these succeeded
the stream would not come back), and on connections that open again and again a
trade comes in the end (of `TradeArrives`). Without that no code could bring the
stream back. What the property then says is that no state of timer, flag and
socket keeps the scanner from asking.

### Deadlock

It is checked in `trade_loop`, `live_exchange`, `risk_manager`, `rate_limiter`
and `market_feed`: there the environment can always act. It is not where a bound
or the program really ends the behaviour: `position_manager` and
`position_faults` (positions opened are bounded and the emergency close runs
once), `close_reverses` (as they), `candle_pipeline` (minutes, trades and
subscriptions are bounded), `insider_scanner` (an exception in the handler of
`open` ends the process).

### What the runs show of the code

The three violated properties are statements of the repository's own documents
and comments; `PROJECT.json` quotes each.

* `open_tracked`: a position opened for a coin while the loop awaits the exit
  alerts of the coin's previous position is deleted with it when the loop
  finishes.
* `slot_leak`: a coin inserted during such an await aborts the iteration; the
  coins already closed are then never deleted and keep their slots of the limit.
* `close_reverses`: the manager does not learn that a stop has traded. Its
  timeout closes the position again with an order that is not reduce-only, and
  the account is left with a position in the other direction.

Behaviours of the code that the modules contain and the properties except; they
take a step or two to see, and are given here so that nobody reads more into
the properties than they say:

* `main.py`'s emergency close sends no order, although its endpoint
  promises to close all positions at market (`web/server.py:402`). A refused stop goes
  unnoticed, its status being logged only. A signal for a coin that has a
  position replaces the entry, although the settings say one position per coin
  (`config/default.yaml:8`).
* In the feed, an unsubscription that raises leaves the coin in the pipeline's
  set and not in the feeder's. If it has a position by then, every later cycle
  protects it, believes it subscribed, and its candles never come again.
* A coin that comes back while it is younger than the window gets its bootstrap
  appended to its old candles (`mixed`): the window then repeats minutes.
* `_measure_moves` (`strategy/staircase.py:71`) takes the moves from low to high
  as impulses whatever the trend, so a falling staircase is measured mirrored.
* In the rate limiter of the insider scanner, the minimum delay between two tasks
  is kept only while tasks wait: one that arrives after the queue has emptied
  starts at once. Trades of an address that is being inspected are passed over.
* In the stream, a health check that falls between a socket's closing and its
  end schedules a connect, and the end schedules another. A second connection
  can then be open beside the first: each trade counts twice, and the handler of
  `open`, which sends on `this.socket`, throws if that one is still connecting.
  While the first socket is open and `this.socket` is one that has closed, every
  health check starts a further attempt.
  `OneStream` holds until such a check (`hasty = 0`); the run includes one.
* A first connection on which no trade ever comes is not found stale, since
  staleness is measured from the last message (`ws-scanner.service.ts:90`).
  `StreamComesBack` therefore starts with the first trade.

## 4. The theorems

All hold for every value of the constants that satisfies the named assumptions
of the modules: types of the constants; `Coins` finite, in `MarketFeed` not empty;
`Endpoints` not empty; requests distinct from `"none"` and `"loop"`; the window of the pipeline not
longer than the store nor than a full bootstrap; histories in ascending order;
the sliding window not longer than the cap; the zero address no trader.

*Position lifecycle* (`TradeLoopProofs`). Most steps disturb little, so
`StepCases` sorts the steps of `Next` into four kinds: quiet ones (entries only
looked at or removed), ones that close an entry, ones that insert, and the
acceptance of a signal. The later invariants are proved over these.

* `TypeCorrect`: `Spec => []TypeOK`.
* `SlotLimitHolds`: `SlotLimit` alone is not inductive, because the insertion
  does not look at the limit. `SlotInv` adds that while `on_signal` is between
  its check and its insertion, the table has room for one more; the other
  coroutines only remove.
* `SlotsImplemented`: `Spec` implements `SlotPool`. Each step of the table is one
  of the pool's or leaves it alone: the accepted signal reserves or takes, the
  insertion fills, an exception gives up, the deletions free.
* `TrailLocksProfitHolds`: inductive with `TypeOK`; rests on `LevelsBound`
  (rounded trigger and lock) and `LookTightens` (what one look at a price does).
* `HistoryMatchesHolds`: `IdInv` says that the table's numbers are distinct, have
  been handed out, and that the one in flight is fresh and not in the history.
* `StopNeverLoosensHolds`: the action property, from `TypeOK` and `IdInv`.
* `DryRunTableCleanHolds`: a dry run reaches none of the awaits, and `DryInv` says
  what follows from it: no coroutine is ever suspended halfway (`RunsThrough`), the
  one that runs finds the dict as it copied it (`Undisturbed`), and an entry that is
  not open is one the running coroutine is about to delete (`Removing`).

*Lifecycle and account* (`LiveExchangeProofs`). `LiveImplementsLoop` shows that
`LiveSpec` implements `Spec` with the account hidden, so `LiveLoopInvariants`
carries the results above over. `DryRunSendsNothingHolds` needs `DryRunInv`: in
a dry run `on_signal` is never suspended. `TrackedIsGuardedHolds` needs
`GuardInv`, which follows the account through a placement: nothing is exposed
before the entry is answered, and from the answer to the stop-loss on the
position is guarded or the stop was refused, whether it has reached the dict or
not. `SoleEntryAccountedHolds` has to know that a deletion does no harm. The loop
and the emergency closes delete by coin what they closed by position, so
`RemovalsRecorded` says that for a coin about to be deleted some position is in
the history; for a coin with one position only, it is that position.

*Position manager* (`PositionManagerProofs`). `IdleCoinsTally` and `NakedNever`
follow from one invariant, `IInv`. Between two operations dict and account agree
(`Tally`), but a proof has to know how far an operation under way has got:
`Status(c)` says, for each call a coroutine may be awaiting on a clean coin,
what is held and which orders rest. It holds for clean coins only, on which at
most one coroutine works. What keeps a step on one coin from disturbing another
is the ownership of order ids: an id in an object or in a coroutine was given
out before (`IdsFresh`) and never belongs to an order of a different coin
(`IdsOwned`, `TasksOwned`), so a cancellation removes the coin's own order.
`StepElsewhere` and `StepAt` split every step into the coin it is at and the
others. `EmergencyLeavesFlat` needs `Flattening`: undisturbed, what the dict still
holds is ahead of the emergency close or under its hands, and after its second
look at the exchange the account holds the sizes of the orphans that are left.

*Risk manager* (`RiskManagerProofs`). `LedgerMatchesHolds` from `LedgerInv`:
nothing is booked for periods after the current one, and the reset marks are
not ahead of the calendar. `GateRespectsLossesHolds` follows from it, because the
gate rolls over before it compares. `DrawdownShutsGateHolds` is inductive.
`SizingBoundedHolds` is the bound on a position's loss and leverage for the
initial and the peak equity and all prices, from `SizingHolds`, which states it
for every natural equity, and `DivisionBounds`.

*REST limiter* (`RateLimiterProofs`). The weights are added up with the library's
fold, a recursive function. The section on sums proves what the proofs need of
it: that the function exists and is the only one (`AdderExists`, `AddersAgree`),
and from that how a sum takes one more element, splits, and shifts when a tick
ages every entry (`SumTakes`, `SumSplits`, `SumShifts`, `SumTicks`). Each
induction is over a finite set and done by the smallest set that contradicts
the fact, since the library's induction theorems take an operator.

* `AdmittedWithinBudgetHolds`: by `RecordingInv` the pruned window of the code
  and the ledger agree at every age that counts, so that the sum the code
  compares is the true one.
* `OneNapIsEnoughHolds`: the property speaks of the end of a nap only.
  `NappingInv` says what is true during it: the sleeper holds the lock, so nothing
  is recorded, and what will be left in the window when the nap is over leaves
  room for its request.
* `QueueTellsWhoHolds`, `NobodyOvertakesHolds`: the lock is handed on in order.
  No run checks these two; together they are the safety part of
  `CallersAreServed`.

*Feed* (`MarketFeedProofs`). `ConnectedServesAllHolds` from `ReplayInv`: while
connected, what the feeder wants is sent or still to be replayed, which
`Connect` establishes because it sets the socket and copies the subscriptions
without an await. `SubscriptionBudgetHolds` from `BudgetInv`: while it
unsubscribes, the cycle has in view every coin that is neither among the best
nor protected (`StaleInv`); then the coins that are not protected respect the
subscription limit alone (`FillInv`), and the protected ones were at most as
many as positions are allowed (`HeldInv`). `TopBound` and `SplitBound` are the
facts about finite sets. `ProtectedAreSubscribedHolds` is inductive with `TypeOK`.

*Candles* (`CandlePipelineProofs`). The lemmas are about sequences: what the last
candles of a list are (`LatestHolds`), what storing a list does to the store
(`AddHolds`) and to the window (`WindowOfList`, `WindowReceived`).

* `SignalsAreSane`: `SignalInv` says that the signals are those of the evaluated
  window; `LongsSane` and `ShortsSane` then hold for every window, whatever the
  scores come to.
* `OneSignal`: a window gives at most one signal. A long asks for as many
  rising pairs of swings as falling ones, a short for more falling ones, and of
  the candidates for the stop only the most recent counts.
* `PullbackScoreGrows`: the score of the pullbacks, a fraction computed in pieces,
  never falls when the asymmetry rises, across the thresholds too, and lies
  within 0 and 100.
* `WindowsAreOrdered`: `OrderInv` adds that nothing stored is younger than the
  exchange's open candle. A full bootstrap replaces the window whatever was
  stored, a message is of the last minute or a later one.
* `WindowsAreTheMarkets`: `MirrorInv`; a message that is not missed does to the
  window what the trade did to the exchange's.
* `SwingsAreKept`: a step moves the closed part of the window by at most one
  candle at each end (`SwingsOfStep`), and a swing depends on its neighbours only.

*Insider scanner* (`ScannerProofs`). The invariant is `ScannerInv`: `StreamInv`
says that of connection, reload and timer there is at most one while no
reconnect was hasty, and what `isConnecting` then stands for; `DetectorInv` that
the fills of a buffer are bounded by the trades and that its age and the time
left on its timer stay within the cap together. `OneStreamHolds`, `FillsKeptHolds`
and `QueueTellsHolds` are parts of it or follow at once; `QueueInspectTells` is
the case of the queue.

**Only model-checked.** Every invariant and every action property of the runs is
a theorem, and so is the refinement of `SlotPool`. The liveness properties
(`StaleIsClosed` of both modules, `CallersAreServed`, `WantedIsSent`,
`ClosedLeaves`, `StreamComesBack`) are beyond the prover and stay with TLC, on the
instances of section 3. The scores of `Strategy` other than that of the pullbacks
have no theorem: those about signals hold for every value of them, and that they
are computed as the code does is a matter of reading.

## 5. Not modelled

* *Market scanner and screener, account poller.* Each polls the REST API and
  overwrites a container; the ranking and the filters are formulas. What reaches
  the other parts, the list of candidates and the equity, is left open in
  `MarketFeed` and `TradeLoop`.
* *Configuration and helpers.* A merge run once at start, and rounding: pure
  functions that no step can disturb.
* *Dashboard, alerts* of both programs. They render and post. The two handlers
  that change the bot are actions of `TradeLoop`.
* *Order book and CVD trackers.* The latter raises at every message it gets
  (`cvd_tracker.py:200` is given a list), so it never has data; the former only
  decorates signals.
* *Lengths of backoffs, pings, figures.* Reconnects happen at any time in the
  models. One observation: `forceReconnect` on a connection that never closed
  before leaves `stats.reconnects` at 0, so that `trackReconnectSuccess` is not
  called and the downtime figure later counts time connected.
* *Start and stop.* Cancellation can strike any await, and nothing survives a
  restart, since neither the bot nor the stream persists anything they read back.
* *Settings other than the position limit* are constants of a behaviour.
* *What an inspection finds* in the scanner's detector: scores, tiers, whitelists,
  the graph of transfers, correlated timing and their storage are arithmetic and
  containers over data fetched from elsewhere.
* *Data analytics.* The cache falls back from Redis to memory method by method,
  without any interleaving to explore; collectors and statistics keep no state
  that they read back.
* *Executor*: rounding, leverage, queries.
* *Agent framework, proposals, documents*: no program.
