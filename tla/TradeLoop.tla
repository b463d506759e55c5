----------------------------- MODULE TradeLoop -----------------------------
(***************************************************************************)
(* The position lifecycle of the momentum bot (main.py, MomentumBot).      *)
(*                                                                         *)
(* Three kinds of coroutine share the dict self._positions on one asyncio  *)
(* event loop: on_signal (called by the feeder, one message at a time),    *)
(* position_loop (once a second) and the emergency-close handler of the    *)
(* dashboard (one per HTTP request).  A coroutine keeps the event loop     *)
(* until it reaches an `await' that really suspends: the order placements  *)
(* and the alert deliveries, which happen in live mode only.  `cpu' names  *)
(* the coroutine that is between two such points, so the interleavings of  *)
(* this specification are exactly those the awaits permit.                 *)
(***************************************************************************)
EXTENDS Integers, FiniteSets, Sequences

CONSTANTS
  Coins,          \* tradable coins
  Requests,       \* emergency-close requests the dashboard receives
  Signals,        \* trading signals the strategy may emit
  Prices,         \* closes of the latest candle
  Infinity,       \* the initial low-water mark, float("inf")
  Limits,         \* values max_concurrent_positions is configured to
  MaxLimit,       \* their upper bound
  MinRrTenths,    \* risk.min_rr_ratio, in tenths
  TriggerTenths,  \* targets.trailing_trigger_r, in tenths of an R
  LockTenths,     \* targets.trailing_lock_r, in tenths of an R
  MaxOpens        \* bound: signals accepted in one behaviour

Direction == {"LONG", "SHORT"}

Signal == [coin : Coins, dir : Direction, entry : Nat, sl : Nat, tp : Nat]

ASSUME SignalsAssumption ==
  /\ Signals \subseteq Signal
  /\ Signals # {}

ASSUME PricesAssumption ==
  /\ Prices \subseteq Nat
  /\ Infinity \in Nat

ASSUME LimitsAssumption ==
  /\ MaxLimit \in Nat
  /\ Limits \subseteq 0 .. MaxLimit
  /\ IsFiniteSet(Coins)

ASSUME TargetsAssumption ==
  /\ MinRrTenths \in Nat
  /\ TriggerTenths \in Nat
  /\ LockTenths \in Nat
  /\ MaxOpens \in Nat

ASSUME RequestsAssumption ==
  /\ "none" \notin Requests
  /\ "loop" \notin Requests

VARIABLES
  dryRun,     \* self.dry_run
  limit,      \* config.risk.max_concurrent_positions, shared with RiskManager
  positions,  \* self._positions: an entry per coin, status "ABSENT" for no key
  opened,     \* positions opened so far: the identity of the newest one
  closes,     \* how often each position is in self._closed_positions
  sig,        \* the on_signal coroutine
  loop,       \* the position_loop coroutine, its dict iterator, and whether
              \* keys were popped under it
  emer,       \* the emergency-close coroutine of each request
  cpu         \* the coroutine that holds the event loop

vars == <<dryRun, limit, positions, opened, closes, sig, loop, emer, cpu>>

----------------------------------------------------------------------------
(* Positions                                                               *)

Abs(x) == IF x < 0 THEN -x ELSE x

Risk(s) == Abs(s.entry - s.sl)

Reward(s) == Abs(s.tp - s.entry)

AnySignal == CHOOSE s \in Signals : TRUE

\* A table entry with no levels: no entry at all, or a closed position.
Vacant(status, id) ==
  [status |-> status, id |-> id, signal |-> AnySignal, stop |-> 0, best |-> 0,
   trailed |-> FALSE, stale |-> FALSE]

Absent == Vacant("ABSENT", 0)

Position ==
  [status  : {"ABSENT", "OPEN", "CLOSED"},
   id      : 0 .. MaxOpens,
   signal  : Signals,
   stop    : Int,      \* stop_loss, moved by the trailing stop
   best    : Nat,      \* highest_price of a long, lowest_price of a short
   trailed : BOOLEAN,  \* trailing_stop is not None
   stale   : BOOLEAN]  \* older than stale_position_timeout_minutes

Tracked == {c \in Coins : positions[c].status # "ABSENT"}

IsLong(p) == p.signal.dir = "LONG"

\* Seeded fault: the status a limit order would have before its fill.
NewPositionPending(s, id) ==
  [Vacant("PENDING", id) EXCEPT !.signal = s, !.stop = s.sl]

NewPosition(s, id) ==
  [status |-> "OPEN", id |-> id, signal |-> s, stop |-> s.sl,
   best |-> IF s.dir = "LONG" THEN 0 ELSE Infinity,
   trailed |-> FALSE, stale |-> FALSE]

\* The high-water (low-water) mark after a look at the latest close.
Mark(p, price) ==
  LET further == IF IsLong(p) THEN price > p.best ELSE price < p.best
  IN  [p EXCEPT !.best = IF further THEN price ELSE p.best]

\* Seeded fault: the timeout check is missing.
ExitsOnPrice(p, price) ==
  IF IsLong(p) THEN price <= p.stop \/ price >= p.signal.tp
               ELSE price >= p.stop \/ price <= p.signal.tp

Exits(p, price) ==
  \/ p.stale
  \/ IF IsLong(p) THEN price <= p.stop \/ price >= p.signal.tp
                  ELSE price >= p.stop \/ price <= p.signal.tp

Trigger(s) == (TriggerTenths * Risk(s)) \div 10

\* Seeded fault: the stop trails by the trigger's distance.
LockByTrigger(s) == (TriggerTenths * Risk(s)) \div 10

Lock(s) == (LockTenths * Risk(s)) \div 10

\* Seeded fault: the stop follows the latest price, not the mark, unguarded.
TrailLatest(p, price) ==
  LET s == p.signal
  IN  CASE IsLong(p) /\ p.best >= s.entry + Trigger(s) ->
             [p EXCEPT !.stop = price - Lock(s), !.trailed = TRUE]
        [] ~IsLong(p) /\ p.best <= s.entry - Trigger(s) ->
             [p EXCEPT !.stop = price + Lock(s), !.trailed = TRUE]
        [] OTHER -> p

\* Where _update_trailing_stop moves the stop of a position marked at p.best.
Trail(p, price) ==
  LET s == p.signal
      triggered == IF IsLong(p) THEN p.best >= s.entry + Trigger(s)
                                ELSE p.best <= s.entry - Trigger(s)
      newStop == IF IsLong(p) THEN p.best - Lock(s) ELSE p.best + Lock(s)
      tighter == IF IsLong(p) THEN newStop > p.stop ELSE newStop < p.stop
  IN  IF Risk(s) > 0 /\ triggered /\ tighter
        THEN [p EXCEPT !.stop = newStop, !.trailed = TRUE]
        ELSE p

----------------------------------------------------------------------------
(* Initial state                                                           *)

SigIdle == [pc |-> "idle", s |-> AnySignal]

LoopAsleep == [pc |-> "sleep", size |-> 0, visited |-> {}, popped |-> FALSE,
               closed |-> <<>>]

EmerIdle == [pc |-> "idle", coins |-> {}, todo |-> {}]

Init ==
  /\ dryRun \in BOOLEAN
  /\ limit \in Limits
  /\ positions = [c \in Coins |-> Absent]
  /\ opened = 0
  /\ closes = [i \in 1 .. MaxOpens |-> 0]
  /\ sig = SigIdle
  /\ loop = LoopAsleep
  /\ emer = [r \in Requests |-> EmerIdle]
  /\ cpu = "none"

----------------------------------------------------------------------------
(* on_signal                                                               *)

\* Seeded fault: the limit compared with > instead of >=.
HasSlotOffByOne == Cardinality(Tracked) <= limit

HasSlot == Cardinality(Tracked) < limit

\* rr_ratio is 0 for a signal without risk.
RrTooLow(s) == IF Risk(s) > 0 THEN 10 * Reward(s) < MinRrTenths * Risk(s)
                              ELSE MinRrTenths > 0

\* Seeded fault: dry runs place orders too.
OnSignalAlwaysLive(s) ==
  /\ cpu = "none" /\ sig.pc = "idle"
  /\ opened < MaxOpens
  /\ HasSlot
  /\ ~RrTooLow(s)
  /\ opened' = opened + 1
  /\ sig' = [pc |-> "entry", s |-> s]
  /\ UNCHANGED <<dryRun, limit, positions, closes, loop, emer, cpu>>

\* The guards of on_signal up to its first await.  A rejected signal changes
\* no state of this module.  A dry run records a virtual position at once; a
\* live one either finds the polled equity or awaits get_equity first.
OnSignal(s) ==
  /\ cpu = "none" /\ sig.pc = "idle"
  /\ opened < MaxOpens
  /\ HasSlot
  /\ ~RrTooLow(s)
  /\ opened' = opened + 1
  /\ IF dryRun
       THEN /\ positions' = [positions EXCEPT ![s.coin] = NewPosition(s, opened')]
            /\ UNCHANGED sig
       ELSE /\ Risk(s) > 0
            /\ \E pc \in {"equity", "entry"} : sig' = [pc |-> pc, s |-> s]
            /\ UNCHANGED positions
  /\ UNCHANGED <<dryRun, limit, closes, loop, emer, cpu>>

\* get_equity returned enough balance, or raised or reported too little.
EquityReturned ==
  /\ cpu = "none" /\ sig.pc = "equity"
  /\ \/ sig' = [sig EXCEPT !.pc = "entry"]
     \/ sig' = SigIdle
  /\ UNCHANGED <<dryRun, limit, positions, opened, closes, loop, emer, cpu>>

\* Seeded fault: the stop-loss order is not sent.
OrderReturnedNoStop ==
  /\ cpu = "none"
  /\ sig.pc = "entry" /\ sig' = [sig EXCEPT !.pc = "tp"]
  /\ UNCHANGED <<dryRun, limit, positions, opened, closes, loop, emer, cpu>>

\* The entry order or the stop-loss order was answered: the next one is sent.
OrderReturned ==
  /\ cpu = "none"
  /\ \/ sig.pc = "entry" /\ sig' = [sig EXCEPT !.pc = "sl"]
     \/ sig.pc = "sl" /\ sig' = [sig EXCEPT !.pc = "tp"]
  /\ UNCHANGED <<dryRun, limit, positions, opened, closes, loop, emer, cpu>>

\* The take-profit order was answered: the position enters the dict, whatever
\* is there for the coin, and the entry alerts are sent.
TakeProfitReturned ==
  /\ cpu = "none" /\ sig.pc = "tp"
  /\ positions' = [positions EXCEPT ![sig.s.coin] = NewPosition(sig.s, opened)]
  /\ sig' = [sig EXCEPT !.pc = "alert"]
  /\ UNCHANGED <<dryRun, limit, opened, closes, loop, emer, cpu>>

\* One of the three orders raised: the handler logs it and gives up.
OrderRaised ==
  /\ cpu = "none" /\ sig.pc \in {"entry", "sl", "tp"}
  /\ sig' = SigIdle
  /\ UNCHANGED <<dryRun, limit, positions, opened, closes, loop, emer, cpu>>

EntryAlertsSent ==
  /\ cpu = "none" /\ sig.pc = "alert"
  /\ sig' = SigIdle
  /\ UNCHANGED <<dryRun, limit, positions, opened, closes, loop, emer, cpu>>

----------------------------------------------------------------------------
(* _close_position, up to its await                                        *)

\* Seeded fault: the position is recorded and stays OPEN.
ClosedLate(p) == [p EXCEPT !.stale = TRUE]

\* Nothing reads the levels of a position again once it is closed: only its
\* identity is kept.
Closed(p) == Vacant("CLOSED", p.id)

InHistory(i) == [closes EXCEPT ![i] = @ + 1]

----------------------------------------------------------------------------
(* position_loop and _update_positions                                     *)

\* sleep(1) is over: an iterator over the live dict is made, which remembers
\* the dict's size.
LoopWake ==
  /\ cpu = "none" /\ loop.pc = "sleep"
  /\ loop' = [pc |-> "iterate", size |-> Cardinality(Tracked),
              visited |-> {}, popped |-> FALSE, closed |-> <<>>]
  /\ cpu' = "loop"
  /\ UNCHANGED <<dryRun, limit, positions, opened, closes, sig, emer>>

SizeUnchanged == Cardinality(Tracked) = loop.size

\* No key is left that the iterator has not given.
AllVisited == Tracked \subseteq loop.visited

\* The next key of the iterator is c.
LoopVisit(c) ==
  /\ cpu = "loop" /\ loop.pc = "iterate"
  /\ SizeUnchanged
  /\ c \in Tracked \ loop.visited

LoopSkip(c) ==
  /\ LoopVisit(c)
  /\ positions[c].status # "OPEN"
  /\ loop' = [loop EXCEPT !.visited = @ \cup {c}]
  /\ UNCHANGED <<dryRun, limit, positions, opened, closes, sig, emer, cpu>>

LoopHold(c, price) ==
  LET p == Mark(positions[c], price)
  IN  /\ LoopVisit(c)
      /\ positions[c].status = "OPEN"
      /\ ~Exits(p, price)
      /\ positions' = [positions EXCEPT ![c] = Trail(p, price)]
      /\ loop' = [loop EXCEPT !.visited = @ \cup {c}]
      /\ UNCHANGED <<dryRun, limit, opened, closes, sig, emer, cpu>>

\* The position is marked closed and recorded.  A dry run goes on with the
\* iteration; in live mode the exit alerts are awaited first.
LoopClose(c, price) ==
  LET p == Mark(positions[c], price)
  IN  /\ LoopVisit(c)
      /\ positions[c].status = "OPEN"
      /\ Exits(p, price)
      /\ positions' = [positions EXCEPT ![c] = Closed(p)]
      /\ closes' = InHistory(p.id)
      /\ loop' = [loop EXCEPT !.visited = @ \cup {c},
                              !.closed = Append(@, c),
                              !.pc = IF dryRun THEN "iterate" ELSE "alert"]
      /\ cpu' = IF dryRun THEN "loop" ELSE "none"
      /\ UNCHANGED <<dryRun, limit, opened, sig, emer>>

LoopAlertsSent ==
  /\ cpu = "none" /\ loop.pc = "alert"
  /\ loop' = [loop EXCEPT !.pc = "iterate"]
  /\ cpu' = "loop"
  /\ UNCHANGED <<dryRun, limit, positions, opened, closes, sig, emer>>

\* "dictionary changed size during iteration", or, when as many keys came as
\* were popped, "dictionary keys changed during iteration": the exception leaves
\* _update_positions, the deletions at its end do not happen.
LoopRaises ==
  /\ cpu = "loop" /\ loop.pc = "iterate"
  /\ ~SizeUnchanged \/ (loop.popped /\ ~AllVisited)
  /\ loop' = LoopAsleep
  /\ cpu' = "none"
  /\ UNCHANGED <<dryRun, limit, positions, opened, closes, sig, emer>>

\* Seeded fault: only the coin closed last is deleted.
DeletableLast(closed) == IF closed = <<>> THEN {} ELSE {closed[Len(closed)]}

\* Seeded fault: every coin looked at is deleted.
DeletableVisited(closed) == IF closed = <<>> THEN {} ELSE loop.visited

\* The coins of `closed' that are deleted before the first KeyError.
Deletable(closed) ==
  {closed[i] : i \in {n \in DOMAIN closed :
      \A j \in 1 .. n : /\ closed[j] \in Tracked
                        /\ \A k \in 1 .. j - 1 : closed[k] # closed[j]}}

Without(coins) == [c \in Coins |-> IF c \in coins THEN Absent ELSE positions[c]]

\* The iterator is exhausted.  An insertion that closes up the holes popped
\* keys have left can carry keys past it.
LoopFinish ==
  /\ cpu = "loop" /\ loop.pc = "iterate"
  /\ SizeUnchanged
  /\ AllVisited \/ loop.popped
  /\ positions' = Without(Deletable(loop.closed))
  /\ loop' = LoopAsleep
  /\ cpu' = "none"
  /\ UNCHANGED <<dryRun, limit, opened, closes, sig, emer>>

LoopTurn ==
  \/ LoopWake
  \/ \E c \in Coins : LoopSkip(c)
  \/ \E c \in Coins, price \in Prices : LoopHold(c, price) \/ LoopClose(c, price)
  \/ LoopAlertsSent
  \/ LoopRaises
  \/ LoopFinish

----------------------------------------------------------------------------
(* _emergency_close_all, one coroutine per request                         *)

EmergencyStart(r) ==
  /\ cpu = "none" /\ emer[r].pc = "idle"
  /\ emer' = [emer EXCEPT ![r] = [pc |-> "next", coins |-> Tracked, todo |-> Tracked]]
  /\ cpu' = r
  /\ UNCHANGED <<dryRun, limit, positions, opened, closes, sig, loop>>

\* The next coin of the snapshot is still in the dict, whatever its status.
EmergencyClose(r, c) ==
  /\ cpu = r /\ emer[r].pc = "next"
  /\ c \in emer[r].todo \cap Tracked
  /\ positions' = [positions EXCEPT ![c] = Closed(@)]
  /\ closes' = InHistory(positions[c].id)
  /\ emer' = [emer EXCEPT ![r].todo = @ \ {c},
                          ![r].pc = IF dryRun THEN "next" ELSE "alert"]
  /\ cpu' = IF dryRun THEN r ELSE "none"
  /\ UNCHANGED <<dryRun, limit, opened, sig, loop>>

EmergencyAlertsSent(r) ==
  /\ cpu = "none" /\ emer[r].pc = "alert"
  /\ emer' = [emer EXCEPT ![r].pc = "next"]
  /\ cpu' = r
  /\ UNCHANGED <<dryRun, limit, positions, opened, closes, sig, loop>>

\* self._positions[coin] raises KeyError: the request fails with status 500.
EmergencyKeyError(r, c) ==
  /\ cpu = r /\ emer[r].pc = "next"
  /\ c \in emer[r].todo \ Tracked
  /\ emer' = [emer EXCEPT ![r] = [EmerIdle EXCEPT !.pc = "failed"]]
  /\ cpu' = "none"
  /\ UNCHANGED <<dryRun, limit, positions, opened, closes, sig, loop>>

\* Every coin of the snapshot is popped.  A key that is inserted again later
\* is a new entry to the position loop's iterator.  Whether that iterator gives
\* the new keys, raises or passes them over depends on their places in the hash
\* table, which this module leaves open.
EmergencyPop(r) ==
  /\ cpu = r /\ emer[r].pc = "next"
  /\ emer[r].todo = {}
  /\ positions' = Without(emer[r].coins)
  /\ loop' = [loop EXCEPT
                 !.visited = @ \ emer[r].coins,
                 !.popped = @ \/ (loop.pc # "sleep" /\ emer[r].coins \cap Tracked # {})]
  /\ emer' = [emer EXCEPT ![r] = [EmerIdle EXCEPT !.pc = "done"]]
  /\ cpu' = "none"
  /\ UNCHANGED <<dryRun, limit, opened, closes, sig>>

EmergencyTurn(r) ==
  \/ \E c \in Coins : EmergencyClose(r, c) \/ EmergencyKeyError(r, c)
  \/ EmergencyAlertsSent(r)
  \/ EmergencyPop(r)

----------------------------------------------------------------------------
(* The environment                                                         *)

\* POST /api/config sets max_concurrent_positions, unvalidated.
UpdateLimit(n) ==
  /\ cpu = "none"
  /\ n # limit
  /\ limit' = n
  /\ UNCHANGED <<dryRun, positions, opened, closes, sig, loop, emer, cpu>>

\* Time passes the timeout of a position.  _update_positions reads the clock
\* when it starts, so an expiry in the middle of it counts from the next one.
Expire(c) ==
  /\ cpu = "none" /\ loop.pc = "sleep"
  /\ positions[c].status = "OPEN" /\ ~positions[c].stale
  /\ positions' = [positions EXCEPT ![c].stale = TRUE]
  /\ UNCHANGED <<dryRun, limit, opened, closes, sig, loop, emer, cpu>>

----------------------------------------------------------------------------
(* Specification                                                           *)

Next ==
  \/ \E s \in Signals : OnSignal(s)
  \/ EquityReturned
  \/ OrderReturned
  \/ TakeProfitReturned
  \/ OrderRaised
  \/ EntryAlertsSent
  \/ LoopTurn
  \/ \E r \in Requests : EmergencyStart(r) \/ EmergencyTurn(r)
  \/ \E n \in Limits : UpdateLimit(n)
  \/ \E c \in Coins : Expire(c)

\* A coroutine that stays ready to run is run: the event loop's queue is
\* FIFO.  The position loop sleeps one second; its alerts come back or time
\* out.  Nothing makes signals, requests or answers of the exchange come.
Fairness ==
  /\ WF_vars(LoopTurn)
  /\ \A r \in Requests : WF_vars(EmergencyTurn(r))

Spec == Init /\ [][Next]_vars

FairSpec == Spec /\ Fairness

----------------------------------------------------------------------------
(* Properties                                                              *)

SigState == [pc : {"idle", "equity", "entry", "sl", "tp", "alert"}, s : Signals]

LoopState ==
  [pc : {"sleep", "iterate", "alert"}, size : Nat,
   visited : SUBSET Coins, popped : BOOLEAN, closed : Seq(Coins)]

EmerState ==
  [pc : {"idle", "next", "alert", "done", "failed"},
   coins : SUBSET Coins, todo : SUBSET Coins]

\* Every variable holds a value of the program's types; in particular no
\* position is in a status other than OPEN or CLOSED.
TypeOK ==
  /\ dryRun \in BOOLEAN
  /\ limit \in Limits
  /\ positions \in [Coins -> Position]
  /\ opened \in 0 .. MaxOpens
  /\ closes \in [1 .. MaxOpens -> Nat]
  /\ sig \in SigState
  /\ loop \in LoopState
  /\ emer \in [Requests -> EmerState]
  /\ cpu \in {"none", "loop"} \cup Requests

\* The dict never holds more positions than the largest limit configured:
\* the length on_signal reads before its awaits is still an upper bound when
\* it inserts after them, because signals are handled one at a time and the
\* other coroutines only remove.
SlotLimit == Cardinality(Tracked) <= MaxLimit

\* A signal between the check of the limit and the insertion into the dict
\* has reserved a slot for its coin.
Reserved == IF sig.pc \in {"equity", "entry", "sl", "tp"} THEN {sig.s.coin} ELSE {}

Slots == INSTANCE SlotPool WITH holders <- Tracked, reserved <- Reserved

\* The dict implements the pool of slots: on_signal checks the limit before
\* its awaits and inserts after them, the loop and the emergency close run
\* in between, and still no entry appears without a slot reserved for it.
ImplementsSlots == Slots!Spec

\* While a position is open its stop-loss moves only in its favour,
\* however the candle closes jump between two looks at it.
StopNeverLoosens ==
  [][\A c \in Coins :
       (/\ positions[c].status = "OPEN"
        /\ positions'[c].status = "OPEN"
        /\ positions'[c].id = positions[c].id)
       => IF IsLong(positions[c]) THEN positions'[c].stop >= positions[c].stop
                                  ELSE positions'[c].stop <= positions[c].stop]_vars

\* A stop that has trailed guarantees at least trigger - lock of the risk as
\* profit (to a tick of rounding), and stays on the near side of the best price.
LocksProfit(p) ==
  LET gain == IF IsLong(p) THEN p.stop - p.signal.entry ELSE p.signal.entry - p.stop
  IN  /\ 10 * gain >= (TriggerTenths - LockTenths) * Risk(p.signal) - 9
      /\ IF IsLong(p) THEN p.stop <= p.best ELSE p.stop >= p.best

TrailLocksProfit ==
  \A c \in Coins : positions[c].trailed => LocksProfit(positions[c])

\* The closed history and the status agree: a position that is open has never
\* been recorded as closed, one that is closed has been.
HistoryMatches ==
  \A c \in Coins :
    /\ positions[c].status = "OPEN" => closes[positions[c].id] = 0
    /\ positions[c].status = "CLOSED" => closes[positions[c].id] > 0

\* In a dry run, whenever no coroutine is running, the dict holds open
\* positions only and every closed one was recorded exactly once.
DryRunTableClean ==
  dryRun /\ cpu = "none" =>
    /\ \A c \in Tracked : positions[c].status = "OPEN"
    /\ \A i \in 1 .. MaxOpens : closes[i] <= 1

\* A position that has outlived the timeout does not stay open: the position
\* loop gets to it even when its iterations are aborted by other coroutines.
StaleIsClosed ==
  \A c \in Coins :
    (positions[c].status = "OPEN" /\ positions[c].stale)
      ~> ~(positions[c].status = "OPEN" /\ positions[c].stale)

----------------------------------------------------------------------------
(* What the documentation says, and the code does not keep                 *)

\* "Active positions tracked by the bot" (main.py): a position that is open
\* is not dropped from the dict without having been closed.
OpenStaysTracked ==
  [][\A c \in Coins : positions[c].status = "OPEN" =>
        positions'[c].status # "ABSENT"]_vars

\* "coin -> active position" (web/server.py): a closed position does not keep
\* its place, and a slot of the limit, for ever.
ClosedLeaves ==
  \A c \in Coins :
    positions[c].status = "CLOSED" ~> positions[c].status # "CLOSED"

=============================================================================
