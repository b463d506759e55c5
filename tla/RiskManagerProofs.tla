------------------------- MODULE RiskManagerProofs -------------------------
(* Proofs about RiskManager, for every set of equities, losses and days.   *)
EXTENDS RiskManager, TLAPS

(* Periods                                                                 *)

LEMMA WeekFacts ==
  ASSUME NEW d \in Days
  PROVE  /\ d \in Nat /\ WeekOf(d) \in Weeks /\ WeekOf(d) \in Nat
         /\ WeekOf(d) <= d
BY DaysAssumption DEF Days, Weeks, WeekOf

LEMMA WeeksGrow ==
  ASSUME NEW d \in Nat
  PROVE  WeekOf(d) <= WeekOf(d + 1)
BY DEF WeekOf

LEMMA WeeksAreNat == Weeks \subseteq Nat
BY WeekFacts DEF Weeks

LEMMA RolledIsPnl ==
  ASSUME day \in Days, pnl \in Pnl
  PROVE  Rolled \in Pnl
BY WeekFacts DEF Rolled, Pnl

----------------------------------------------------------------------------
(* Type correctness                                                        *)

LEMMA TypeStep == TypeOK /\ [Next]_vars => TypeOK'
<1> SUFFICES ASSUME TypeOK, [Next]_vars PROVE TypeOK'
  OBVIOUS
<1> USE MoneyAssumption, DaysAssumption DEF TypeOK
<1>1. Rolled \in Pnl /\ WeekOf(day) \in Weeks
  BY RolledIsPnl, WeekFacts
<1>2. ASSUME NEW e \in Equities, Initialise(e) PROVE TypeOK'
  BY <1>2 DEF Initialise
<1>3. ASSUME NEW e \in Equities, CheckDrawdown(e) PROVE TypeOK'
  <2>1. Breached(e, peak') \in BOOLEAN
    BY DEF Breached
  <2>2. peak' \in Int
    BY <1>3 DEF CheckDrawdown
  <2>3. halted' \in BOOLEAN /\ drawdown' \in BOOLEAN
    BY <1>3, <2>1 DEF CheckDrawdown
  <2> QED
    BY <1>3, <2>2, <2>3 DEF CheckDrawdown
<1>4. ASSUME NEW n \in Counts, CanOpenTrade(n) PROVE TypeOK'
  <2>1. gate' \in {"none", "allowed", "halted", "full", "daily", "weekly"}
    BY <1>4 DEF CanOpenTrade, Verdict
  <2>2. halted' \in BOOLEAN
    BY <1>4 DEF CanOpenTrade
  <2> QED
    BY <1>1, <1>4, <2>1, <2>2 DEF CanOpenTrade
<1>5. ASSUME NEW x \in Pnls, UpdatePnl(x) PROVE TypeOK'
  <2>1. pnl' \in Pnl
    <3>1. pnl' = [daily |-> Rolled.daily + x, weekly |-> Rolled.weekly + x,
                  dayMark |-> Rolled.dayMark, weekMark |-> Rolled.weekMark]
      BY <1>5, <1>1 DEF UpdatePnl, Rolled
    <3> QED
      BY <1>1, <3>1 DEF Pnl
  <2>2. dayTotal' \in [Days -> Int] /\ weekTotal' \in [Weeks -> Int]
    BY <1>1, <1>5 DEF UpdatePnl
  <2> QED
    BY <1>5, <2>1, <2>2 DEF UpdatePnl
<1>6. CASE EmergencyHalt
  BY <1>6 DEF EmergencyHalt
<1>7. CASE ResetHalt
  BY <1>7 DEF ResetHalt
<1>8. CASE NextDay
  BY <1>8 DEF NextDay, Days
<1>9. CASE UNCHANGED vars
  BY <1>9 DEF vars
<1> QED
  BY <1>2, <1>3, <1>4, <1>5, <1>6, <1>7, <1>8, <1>9 DEF Next

LEMMA TypeInit == Init => TypeOK
<1> SUFFICES ASSUME Init PROVE TypeOK
  OBVIOUS
<1>1. day \in Days /\ WeekOf(day) \in Weeks
  BY WeekFacts DEF Init
<1>2. pnl \in Pnl
  BY <1>1 DEF Init, Pnl
<1>3. dayTotal \in [Days -> Int] /\ weekTotal \in [Weeks -> Int]
  BY DEF Init
<1> QED
  BY <1>1, <1>2, <1>3 DEF Init, TypeOK

\* Type correctness of the risk gate.
THEOREM TypeCorrect == Spec => []TypeOK
BY TypeInit, TypeStep, PTL DEF Spec

----------------------------------------------------------------------------
(* The counters                                                            *)

\* LedgerMatches is not inductive: a rollover sets a counter to 0, which is
\* right because nothing was booked in a period the counter has not reached.
LedgerInv ==
  /\ LedgerMatches
  /\ pnl.dayMark <= day /\ pnl.weekMark <= WeekOf(day)
  /\ \A d \in Days : d > pnl.dayMark => dayTotal[d] = 0
  /\ \A w \in Weeks : w > pnl.weekMark => weekTotal[w] = 0

\* After _maybe_reset_periods the counters are those of today's periods.
LEMMA RolledMatches ==
  ASSUME TypeOK, LedgerInv
  PROVE  /\ Rolled.dayMark = day /\ Rolled.weekMark = WeekOf(day)
         /\ Rolled.daily = dayTotal[day] /\ Rolled.weekly = weekTotal[WeekOf(day)]
<1>1. /\ day \in Days /\ day \in Nat /\ WeekOf(day) \in Weeks /\ WeekOf(day) \in Nat
      /\ pnl.dayMark \in Nat /\ pnl.weekMark \in Nat
  BY WeekFacts, WeeksAreNat DEF TypeOK, Pnl
<1>2. /\ Rolled.dayMark = day
      /\ Rolled.daily = dayTotal[day]
  BY <1>1 DEF Rolled, LedgerInv, LedgerMatches
<1>3. /\ Rolled.weekMark = WeekOf(day)
      /\ Rolled.weekly = weekTotal[WeekOf(day)]
  BY <1>1 DEF Rolled, LedgerInv, LedgerMatches
<1> QED
  BY <1>2, <1>3

LEMMA LedgerStep == TypeOK /\ LedgerInv /\ [Next]_vars => LedgerInv'
<1> SUFFICES ASSUME TypeOK, LedgerInv, [Next]_vars PROVE LedgerInv'
  OBVIOUS
<1> USE DEF LedgerInv, LedgerMatches
<1>1. /\ day \in Days /\ day \in Nat /\ WeekOf(day) \in Weeks /\ WeekOf(day) \in Nat
      /\ pnl.dayMark \in Nat /\ pnl.weekMark \in Nat
  BY WeekFacts, WeeksAreNat DEF TypeOK, Pnl
<1>2. ASSUME UNCHANGED <<day, pnl, dayTotal, weekTotal>> PROVE LedgerInv'
  BY <1>2 DEF WeekOf
<1>3. ASSUME NEW e \in Equities, Initialise(e) \/ CheckDrawdown(e) PROVE LedgerInv'
  BY <1>2, <1>3 DEF Initialise, CheckDrawdown
<1>4. Days \subseteq Nat /\ Weeks \subseteq Nat
  BY WeekFacts, WeeksAreNat
<1>5. \A d \in Days : d > day => dayTotal[d] = 0
  BY <1>1, <1>4
<1>6. \A w \in Weeks : w > WeekOf(day) => weekTotal[w] = 0
  BY <1>1, <1>4
<1>7. ASSUME NEW n \in Counts, CanOpenTrade(n) PROVE LedgerInv'
  <2>1. pnl' = Rolled /\ UNCHANGED <<day, dayTotal, weekTotal>>
    BY <1>7 DEF CanOpenTrade
  <2>2. WeekOf(day)' = WeekOf(day)
    BY <2>1 DEF WeekOf
  <2> QED
    BY <1>1, <1>5, <1>6, <2>1, <2>2, RolledMatches
<1>8. ASSUME NEW x \in Pnls, UpdatePnl(x) PROVE LedgerInv'
  <2>1. /\ pnl'.daily = Rolled.daily + x /\ pnl'.weekly = Rolled.weekly + x
        /\ pnl'.dayMark = Rolled.dayMark /\ pnl'.weekMark = Rolled.weekMark
        /\ day' = day
    BY <1>8 DEF UpdatePnl, Rolled
  <2>2. /\ dayTotal'[day] = dayTotal[day] + x
        /\ \A d \in Days : d # day => dayTotal'[d] = dayTotal[d]
    BY <1>1, <1>8 DEF UpdatePnl, TypeOK
  <2>3. /\ weekTotal'[WeekOf(day)] = weekTotal[WeekOf(day)] + x
        /\ \A w \in Weeks : w # WeekOf(day) => weekTotal'[w] = weekTotal[w]
    BY <1>1, <1>8 DEF UpdatePnl, TypeOK
  <2>4. WeekOf(day)' = WeekOf(day)
    BY <2>1 DEF WeekOf
  <2>5. LedgerMatches' /\ pnl'.dayMark <= day' /\ pnl'.weekMark <= WeekOf(day)'
    BY <1>1, <2>1, <2>2, <2>3, <2>4, RolledMatches
  <2>6. \A d \in Days : d > pnl'.dayMark => dayTotal'[d] = 0
    BY <1>1, <1>4, <1>5, <2>1, <2>2, RolledMatches
  <2>7. \A w \in Weeks : w > pnl'.weekMark => weekTotal'[w] = 0
    BY <1>1, <1>4, <1>6, <2>1, <2>3, RolledMatches
  <2> QED
    BY <2>5, <2>6, <2>7
<1>9. CASE EmergencyHalt \/ ResetHalt \/ UNCHANGED vars
  BY <1>2, <1>9 DEF EmergencyHalt, ResetHalt, vars
<1>10. CASE NextDay
  <2>1. /\ day' = day + 1 /\ UNCHANGED <<pnl, dayTotal, weekTotal>>
        /\ WeekOf(day)' = WeekOf(day + 1)
    BY <1>10 DEF NextDay, WeekOf
  <2>2. WeekOf(day) <= WeekOf(day + 1) /\ WeekOf(day + 1) \in Int
    BY <1>1, WeeksGrow DEF WeekOf
  <2> QED
    BY <1>1, <2>1, <2>2
<1> QED
  BY <1>3, <1>7, <1>8, <1>9, <1>10 DEF Next

LEMMA LedgerInit == Init => LedgerInv
<1> SUFFICES ASSUME Init PROVE LedgerInv
  OBVIOUS
<1>1. day \in Days /\ day \in Nat /\ WeekOf(day) \in Weeks /\ WeekOf(day) \in Nat
  BY WeekFacts DEF Init
<1> QED
  BY <1>1 DEF Init, LedgerInv, LedgerMatches

\* The lazily reset counters are the sums of their calendar periods.
THEOREM LedgerMatchesHolds == Spec => []LedgerMatches
<1>1. TypeOK /\ LedgerInv /\ [Next]_vars => TypeOK' /\ LedgerInv'
  BY TypeStep, LedgerStep
<1>2. LedgerInv => LedgerMatches
  BY DEF LedgerInv
<1> QED
  BY <1>1, <1>2, TypeInit, LedgerInit, PTL DEF Spec

----------------------------------------------------------------------------
(* The gate                                                                *)

LEMMA GateStep ==
  TypeOK /\ LedgerInv /\ GateRespectsLosses /\ [Next]_vars => GateRespectsLosses'
<1> SUFFICES ASSUME TypeOK, LedgerInv, GateRespectsLosses, [Next]_vars, gate' = "allowed"
             PROVE  /\ ~Reached(dayTotal[day], DailyPct)'
                    /\ ~Reached(weekTotal[WeekOf(day)], WeeklyPct)'
  BY DEF GateRespectsLosses
<1>1. ASSUME NEW n \in Counts, CanOpenTrade(n)
      PROVE  /\ ~Reached(dayTotal[day], DailyPct)'
             /\ ~Reached(weekTotal[WeekOf(day)], WeeklyPct)'
  <2>1. UNCHANGED <<day, initial, dayTotal, weekTotal>>
    BY <1>1 DEF CanOpenTrade
  <2>2. ~Reached(Rolled.daily, DailyPct) /\ ~Reached(Rolled.weekly, WeeklyPct)
    BY <1>1 DEF CanOpenTrade, Verdict
  <2> QED
    BY <2>1, <2>2, RolledMatches DEF Reached, WeekOf
<1>2. CASE UNCHANGED vars
  BY <1>2 DEF vars, GateRespectsLosses, Reached, WeekOf
<1> QED
  BY <1>1, <1>2 DEF Next, Initialise, CheckDrawdown, UpdatePnl, EmergencyHalt,
     ResetHalt, NextDay

\* A trade is let through only below the limits of this day and this week.
THEOREM GateRespectsLossesHolds == Spec => []GateRespectsLosses
<1>1. Init => GateRespectsLosses
  BY DEF Init, GateRespectsLosses
<1>2. TypeOK /\ LedgerInv /\ GateRespectsLosses /\ [Next]_vars
        => TypeOK' /\ LedgerInv' /\ GateRespectsLosses'
  BY TypeStep, LedgerStep, GateStep
<1> QED
  BY <1>1, <1>2, TypeInit, LedgerInit, PTL DEF Spec

LEMMA DrawdownStep ==
  TypeOK /\ DrawdownShutsGate /\ [Next]_vars => DrawdownShutsGate'
<1> SUFFICES ASSUME TypeOK, DrawdownShutsGate, [Next]_vars, drawdown'
             PROVE  halted' /\ gate' # "allowed"
  BY DEF DrawdownShutsGate
<1>1. ASSUME NEW n \in Counts, CanOpenTrade(n) PROVE halted' /\ gate' # "allowed"
  BY <1>1 DEF CanOpenTrade, Verdict, DrawdownShutsGate
<1>2. ASSUME NEW e \in Equities, CheckDrawdown(e) PROVE halted' /\ gate' # "allowed"
  BY <1>2 DEF CheckDrawdown, DrawdownShutsGate
<1>3. ASSUME NEW e \in Equities, Initialise(e) PROVE halted' /\ gate' # "allowed"
  BY <1>3 DEF Initialise, DrawdownShutsGate
<1>4. ASSUME NEW x \in Pnls, UpdatePnl(x) PROVE halted' /\ gate' # "allowed"
  BY <1>4 DEF UpdatePnl, DrawdownShutsGate
<1>5. CASE EmergencyHalt \/ ResetHalt \/ NextDay \/ UNCHANGED vars
  BY <1>5 DEF EmergencyHalt, ResetHalt, NextDay, vars, DrawdownShutsGate
<1> QED
  BY <1>1, <1>2, <1>3, <1>4, <1>5 DEF Next

\* A reported drawdown shuts the gate until the operator resets the halt.
THEOREM DrawdownShutsGateHolds == Spec => []DrawdownShutsGate
<1>1. Init => DrawdownShutsGate
  BY DEF Init, DrawdownShutsGate
<1> QED
  BY <1>1, TypeInit, TypeStep, DrawdownStep, PTL DEF Spec

----------------------------------------------------------------------------
(* Position sizing                                                         *)

LEMMA DivisionBounds ==
  ASSUME NEW A \in Nat, NEW D \in Nat, D > 0
  PROVE  /\ A \div D \in Nat
         /\ D * (A \div D) <= A
         /\ A < D * (A \div D + 1)
OBVIOUS

\* What calculate_position_size returns, for all prices and settings: the
\* loss at the stop is at most the configured share of the equity, the
\* leverage is respected, and one of the two bounds is exhausted.
THEOREM SizingHolds ==
  ASSUME NEW equity \in Nat, NEW entry \in Nat, NEW sl \in Nat,
         entry > 0, sl > 0, entry # sl
  PROVE  Sized(equity, entry, sl)
<1> DEFINE d == IF entry > sl THEN entry - sl ELSE sl - entry
           cap == equity * MaxLeverage
<1>1. PICK A \in Nat : A = equity * RiskPct * entry
  BY SettingsAssumption
<1>2. PICK D \in Nat : D = 100 * d /\ D > 0
  BY DEF d
<1>3. PICK w \in Nat : w = A \div D /\ D * w <= A /\ A < D * (w + 1)
  BY <1>2, DivisionBounds
<1>4. cap \in Nat /\ d \in Nat
  BY SettingsAssumption
<1>5. Notional(equity, entry, sl) = IF w > cap THEN cap ELSE w
  BY <1>1, <1>2, <1>3 DEF Notional
<1>6. \A x \in Nat : 100 * x * d = D * x
  BY <1>2, <1>4
<1>7. CASE w > cap
  <2>1. D * cap <= D * w
    BY <1>2, <1>3, <1>4, <1>7
  <2>2. D * cap <= A
    BY <1>1, <1>2, <1>3, <1>4, <2>1
  <2>3. Notional(equity, entry, sl) = cap
    BY <1>5, <1>7
  <2>4. 100 * cap * d <= A
    BY <1>4, <1>6, <2>2
  <2>5. cap <= equity * MaxLeverage
    BY <1>4
  <2> QED
    BY <1>1, <2>3, <2>4, <2>5 DEF Sized
<1>8. CASE w <= cap
  <2>1. Notional(equity, entry, sl) = w
    BY <1>4, <1>5, <1>8
  <2>2. 100 * w * d <= A
    BY <1>3, <1>6
  <2>3. 100 * (w + 1) * d > A
    BY <1>3, <1>6
  <2> QED
    BY <1>1, <1>8, <2>1, <2>2, <2>3 DEF Sized
<1> QED
  BY <1>3, <1>4, <1>7, <1>8

\* In particular at every equity the manager has been initialised with or has
\* seen as its peak, for the price levels of an instance.
THEOREM SizingBoundedHolds == Spec => []SizingBounded
<1>1. TypeOK => SizingBounded
  <2> SUFFICES ASSUME TypeOK,
                      NEW equity \in {initial, peak}, NEW entry \in Levels, NEW sl \in Levels,
                      equity > 0, entry > 0, sl > 0, entry # sl
               PROVE  Sized(equity, entry, sl)
    BY DEF SizingBounded
  <2>1. equity \in Nat /\ entry \in Nat /\ sl \in Nat
    BY MoneyAssumption DEF TypeOK
  <2> QED
    BY <2>1, SizingHolds
<1> QED
  BY <1>1, TypeCorrect, PTL

=============================================================================
