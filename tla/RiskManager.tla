---------------------------- MODULE RiskManager ----------------------------
(***************************************************************************)
(* The risk gate of the momentum bot (execution/risk_mgr.py).  Its methods *)
(* run to completion, so each is one action.  Money is in whole units and  *)
(* the configured fractions in percent; the products the code compares are *)
(* compared here without the division.                                     *)
(*                                                                         *)
(* `pnl' are the counters the code keeps and resets lazily, when it is     *)
(* called.  dayTotal and weekTotal are the book-keeping of this            *)
(* specification: what was realised in which calendar period.              *)
(***************************************************************************)
EXTENDS Integers

CONSTANTS
  Equities,        \* account values the exchange may report
  Pnls,            \* realised profits and losses
  Levels,          \* entry and stop-loss prices of a sized position
  Counts,          \* numbers of open positions the gate is asked about
  MaxConcurrent,   \* max_concurrent_positions
  DailyPct,        \* daily_loss_limit_pct, in percent
  WeeklyPct,       \* weekly_loss_limit_pct, in percent
  DrawdownPct,     \* max_drawdown_pct, in percent
  RiskPct,         \* max_risk_per_trade_pct, in percent
  MaxLeverage,     \* max_leverage
  FirstDay,        \* bound: the days of a behaviour; day 0 is a Monday
  LastDay,
  MaxEvents        \* bound: profits and losses recorded in a behaviour

Days == FirstDay .. LastDay

WeekOf(d) == d - (d % 7)

Weeks == {WeekOf(d) : d \in Days}

ASSUME MoneyAssumption ==
  /\ Equities \subseteq Int
  /\ Pnls \subseteq Int
  /\ Levels \subseteq Int
  /\ Counts \subseteq Nat

ASSUME SettingsAssumption ==
  /\ MaxConcurrent \in Nat
  /\ DailyPct \in Nat /\ WeeklyPct \in Nat /\ DrawdownPct \in Nat
  /\ RiskPct \in Nat /\ MaxLeverage \in Nat

ASSUME DaysAssumption ==
  /\ FirstDay \in Nat /\ LastDay \in Nat /\ FirstDay <= LastDay
  /\ MaxEvents \in Nat

VARIABLES
  day,        \* the current UTC day
  pnl,        \* daily_pnl, weekly_pnl and the periods they were reset for
  initial,    \* initial_equity, 0 until initialise has succeeded
  peak,       \* peak_equity
  halted,     \* halted
  gate,       \* verdict of the latest call of can_open_trade
  dayTotal,   \* what was realised on each day
  weekTotal,  \* what was realised in each week
  drawdown,   \* whether a drawdown was reported and the halt not reset since
  events      \* profits and losses recorded so far

vars == <<day, pnl, initial, peak, halted, gate, dayTotal, weekTotal, drawdown, events>>

Init ==
  /\ day \in Days
  /\ pnl = [daily |-> 0, weekly |-> 0, dayMark |-> day, weekMark |-> WeekOf(day)]
  /\ initial = 0 /\ peak = 0
  /\ halted = FALSE
  /\ gate = "none"
  /\ dayTotal = [d \in Days |-> 0]
  /\ weekTotal = [w \in Weeks |-> 0]
  /\ drawdown = FALSE
  /\ events = 0

----------------------------------------------------------------------------
(* Helpers                                                                 *)

\* Seeded fault: a week starts on the day of the first call in it.
RolledAnyWeekday ==
  LET newWeek == WeekOf(day) > WeekOf(pnl.weekMark)
  IN  [daily    |-> IF day > pnl.dayMark THEN 0 ELSE pnl.daily,
       dayMark  |-> day,
       weekly   |-> IF newWeek THEN 0 ELSE pnl.weekly,
       weekMark |-> IF newWeek THEN day ELSE pnl.weekMark]

\* _maybe_reset_periods
Rolled ==
  LET newDay == day > pnl.dayMark
      newWeek == WeekOf(day) > pnl.weekMark
  IN  [daily    |-> IF newDay THEN 0 ELSE pnl.daily,
       dayMark  |-> IF newDay THEN day ELSE pnl.dayMark,
       weekly   |-> IF newWeek THEN 0 ELSE pnl.weekly,
       weekMark |-> IF newWeek THEN WeekOf(day) ELSE pnl.weekMark]

\* Whether a loss of `sum' has reached pct percent of the initial equity.
Reached(sum, pct) == initial > 0 /\ 100 * sum <= -(pct * initial)

\* Seeded fault: the weekly limit is not checked.
VerdictDailyOnly(n, p) ==
  CASE halted -> "halted"
    [] ~halted /\ n >= MaxConcurrent -> "full"
    [] ~halted /\ n < MaxConcurrent /\ Reached(p.daily, DailyPct) -> "daily"
    [] OTHER -> "allowed"

\* The checks of can_open_trade, in the order of the code.
Verdict(n, p) ==
  IF halted THEN "halted"
  ELSE IF n >= MaxConcurrent THEN "full"
  ELSE IF Reached(p.daily, DailyPct) THEN "daily"
  ELSE IF Reached(p.weekly, WeeklyPct) THEN "weekly"
  ELSE "allowed"

\* Whether the equity e is DrawdownPct below the high-water mark p.
Breached(e, p) == p > 0 /\ 100 * (p - e) >= DrawdownPct * p

\* Seeded fault: the leverage cap is missing.
NotionalUncapped(equity, entry, sl) ==
  IF entry <= 0 \/ sl <= 0 \/ entry = sl THEN 0
  ELSE (equity * RiskPct * entry)
         \div (100 * (IF entry > sl THEN entry - sl ELSE sl - entry))

\* The notional calculate_position_size settles on, rounded down; the size in
\* tokens is this divided by the entry price.
Notional(equity, entry, sl) ==
  LET distance == IF entry > sl THEN entry - sl ELSE sl - entry
      wanted == (equity * RiskPct * entry) \div (100 * distance)
      cap == equity * MaxLeverage
  IN  IF entry <= 0 \/ sl <= 0 \/ distance = 0 THEN 0
      ELSE IF wanted > cap THEN cap ELSE wanted

----------------------------------------------------------------------------
(* The methods                                                             *)

\* initialise fetched the equity.  (When the fetch fails, start() logs it and
\* goes on: no state changes, and initial_equity stays 0.)
Initialise(e) ==
  /\ initial' = e /\ peak' = e
  /\ gate' = "none"
  /\ UNCHANGED <<day, pnl, halted, dayTotal, weekTotal, drawdown, events>>

\* Seeded fault: a new day lifts the halt.
CanOpenTradeAnew(n) ==
  /\ pnl' = Rolled
  /\ gate' = IF day > pnl.dayMark THEN "allowed" ELSE Verdict(n, Rolled)
  /\ halted' = (gate' \in {"halted", "daily", "weekly"})
  /\ UNCHANGED <<day, initial, peak, dayTotal, weekTotal, drawdown, events>>

CanOpenTrade(n) ==
  /\ pnl' = Rolled
  /\ gate' = Verdict(n, Rolled)
  /\ halted' = (halted \/ gate' \in {"daily", "weekly"})
  /\ UNCHANGED <<day, initial, peak, dayTotal, weekTotal, drawdown, events>>

\* Seeded fault: the counters are not rolled over before the addition.
UpdatePnlLate(x) ==
  /\ events < MaxEvents
  /\ pnl' = [pnl EXCEPT !.daily = @ + x, !.weekly = @ + x]
  /\ dayTotal' = [dayTotal EXCEPT ![day] = @ + x]
  /\ weekTotal' = [weekTotal EXCEPT ![WeekOf(day)] = @ + x]
  /\ gate' = "none"
  /\ events' = events + 1
  /\ UNCHANGED <<day, initial, peak, halted, drawdown>>

UpdatePnl(x) ==
  /\ events < MaxEvents
  /\ pnl' = [Rolled EXCEPT !.daily = @ + x, !.weekly = @ + x]
  /\ dayTotal' = [dayTotal EXCEPT ![day] = @ + x]
  /\ weekTotal' = [weekTotal EXCEPT ![WeekOf(day)] = @ + x]
  /\ gate' = "none"
  /\ events' = events + 1
  /\ UNCHANGED <<day, initial, peak, halted, drawdown>>

CheckDrawdown(e) ==
  /\ peak' = IF e > peak THEN e ELSE peak
  /\ halted' = (halted \/ Breached(e, peak'))
  /\ drawdown' = (drawdown \/ Breached(e, peak'))
  /\ gate' = "none"
  /\ UNCHANGED <<day, pnl, initial, dayTotal, weekTotal, events>>

\* emergency_close_all halts before its first await; the rest of it acts on
\* the position manager and the exchange.
EmergencyHalt ==
  /\ halted' = TRUE
  /\ gate' = "none"
  /\ UNCHANGED <<day, pnl, initial, peak, dayTotal, weekTotal, drawdown, events>>

ResetHalt ==
  /\ halted' = FALSE
  /\ drawdown' = FALSE
  /\ gate' = "none"
  /\ UNCHANGED <<day, pnl, initial, peak, dayTotal, weekTotal, events>>

\* Time passes midnight; nothing of the manager runs.
NextDay ==
  /\ day < LastDay
  /\ day' = day + 1
  /\ gate' = "none"
  /\ UNCHANGED <<pnl, initial, peak, halted, dayTotal, weekTotal, drawdown, events>>

Next ==
  \/ \E e \in Equities : Initialise(e) \/ CheckDrawdown(e)
  \/ \E n \in Counts : CanOpenTrade(n)
  \/ \E x \in Pnls : UpdatePnl(x)
  \/ EmergencyHalt
  \/ ResetHalt
  \/ NextDay

Spec == Init /\ [][Next]_vars

----------------------------------------------------------------------------
(* Properties                                                              *)

Pnl == [daily : Int, weekly : Int, dayMark : Days, weekMark : Weeks]

TypeOK ==
  /\ day \in Days
  /\ pnl \in Pnl
  /\ initial \in Int /\ peak \in Int
  /\ halted \in BOOLEAN /\ drawdown \in BOOLEAN
  /\ gate \in {"none", "allowed", "halted", "full", "daily", "weekly"}
  /\ dayTotal \in [Days -> Int] /\ weekTotal \in [Weeks -> Int]
  /\ events \in Nat

\* The counters, reset only when a method happens to be called, are the sums
\* of the calendar periods they claim to be: no profit or loss is carried
\* over midnight, lost with the rollover, or booked into the wrong period.
LedgerMatches ==
  /\ pnl.daily = dayTotal[pnl.dayMark]
  /\ pnl.weekly = weekTotal[pnl.weekMark]

\* When the gate lets a trade through, neither the losses of this calendar
\* day nor those of this calendar week have reached their limit, even if the
\* period rolled over or the operator reset a halt since the last call.
\* (Without an initial equity the code checks no loss: Reached is false.)
GateRespectsLosses ==
  gate = "allowed" =>
    /\ ~Reached(dayTotal[day], DailyPct)
    /\ ~Reached(weekTotal[WeekOf(day)], WeeklyPct)

\* A drawdown that was reported keeps the gate shut until the operator resets
\* the halt, whatever rolls over and whatever equity is reported meanwhile.
DrawdownShutsGate == drawdown => halted /\ gate # "allowed"

\* A position stopped out at its stop-loss loses at most RiskPct percent of
\* the equity, is never larger than the leverage allows, and is not smaller
\* than both bounds permit (to a unit of rounding).
Sized(equity, entry, sl) ==
  LET size == Notional(equity, entry, sl)
      distance == IF entry > sl THEN entry - sl ELSE sl - entry
  IN  /\ 100 * size * distance <= equity * RiskPct * entry
      /\ size <= equity * MaxLeverage
      /\ \/ 100 * (size + 1) * distance > equity * RiskPct * entry
         \/ size = equity * MaxLeverage

SizingBounded ==
  \A equity \in {initial, peak}, entry, sl \in Levels :
    equity > 0 /\ entry > 0 /\ sl > 0 /\ entry # sl => Sized(equity, entry, sl)

=============================================================================
