-------------------------- MODULE TradeLoopProofs --------------------------
(* Proofs about TradeLoop, for every set of coins, signals and prices.     *)
EXTENDS TradeLoop, FiniteSetTheorems, TLAPS

(* Helper facts                                                            *)

LEMMA AnySignalInSignals == AnySignal \in Signals
BY SignalsAssumption DEF AnySignal

LEMMA SignalFields ==
  ASSUME NEW s \in Signals
  PROVE  /\ s.coin \in Coins /\ s.dir \in Direction
         /\ s.entry \in Nat /\ s.sl \in Nat /\ s.tp \in Nat
         /\ Risk(s) \in Nat
BY SignalsAssumption DEF Signal, Risk, Abs

LEMMA AbsentIsPosition == Absent \in Position
BY AnySignalInSignals, TargetsAssumption DEF Absent, Vacant, Position

LEMMA NewIsPosition ==
  ASSUME NEW s \in Signals, NEW id \in 0 .. MaxOpens
  PROVE  NewPosition(s, id) \in Position
BY SignalFields, PricesAssumption DEF NewPosition, Position

LEMMA ClosedIsPosition ==
  ASSUME NEW p \in Position
  PROVE  Closed(p) \in Position
BY AnySignalInSignals DEF Closed, Vacant, Position

LEMMA MarkIsPosition ==
  ASSUME NEW p \in Position, NEW price \in Prices
  PROVE  /\ Mark(p, price) \in Position
         /\ Mark(p, price) = [p EXCEPT !.best = Mark(p, price).best]
BY PricesAssumption DEF Mark, Position

LEMMA LevelsAreInt ==
  ASSUME NEW s \in Signals
  PROVE  Trigger(s) \in Int /\ Lock(s) \in Int
BY SignalFields, TargetsAssumption DEF Trigger, Lock

LEMMA TrailIsPosition ==
  ASSUME NEW p \in Position, NEW price \in Prices
  PROVE  Trail(p, price) \in Position
<1>1. p.signal \in Signals /\ p.best \in Nat /\ p.stop \in Int
  BY DEF Position
<1>2. Lock(p.signal) \in Int
  BY <1>1, LevelsAreInt
<1>3. ASSUME NEW x \in Int
      PROVE  [p EXCEPT !.stop = x, !.trailed = TRUE] \in Position
  BY DEF Position
<1>4. p.best - Lock(p.signal) \in Int /\ p.best + Lock(p.signal) \in Int
  BY <1>1, <1>2
<1> QED
  BY <1>3, <1>4 DEF Trail

LEMMA WithoutIsTable ==
  ASSUME positions \in [Coins -> Position], NEW S
  PROVE  Without(S) \in [Coins -> Position]
BY AbsentIsPosition DEF Without

LEMMA HistoryCounts ==
  ASSUME closes \in [1 .. MaxOpens -> Nat], NEW i \in 0 .. MaxOpens
  PROVE  /\ InHistory(i) \in [1 .. MaxOpens -> Nat]
         /\ \A j \in 1 .. MaxOpens :
              InHistory(i)[j] = IF j = i THEN closes[j] + 1 ELSE closes[j]
<1>1. ASSUME NEW j \in 1 .. MaxOpens
      PROVE  InHistory(i)[j] = IF j = i THEN closes[j] + 1 ELSE closes[j]
  BY DEF InHistory
<1>2. InHistory(i) = [j \in 1 .. MaxOpens |-> IF j = i THEN closes[j] + 1 ELSE closes[j]]
  BY DEF InHistory
<1> QED
  BY <1>1, <1>2

LEMMA TrackedFinite ==
  /\ Tracked \subseteq Coins
  /\ IsFiniteSet(Tracked)
  /\ Cardinality(Tracked) \in Nat
BY LimitsAssumption, FS_Subset, FS_CardinalityType DEF Tracked

----------------------------------------------------------------------------
(* Type correctness                                                        *)

LEMMA TypeInit == Init => TypeOK
BY AbsentIsPosition, AnySignalInSignals, TargetsAssumption
   DEF Init, TypeOK, SigIdle, SigState, LoopAsleep, LoopState, EmerIdle, EmerState

LEMMA TypeStep == TypeOK /\ [Next]_vars => TypeOK'
<1> SUFFICES ASSUME TypeOK, [Next]_vars PROVE TypeOK'
  OBVIOUS
<1> USE DEF TypeOK
<1>1. ASSUME NEW s \in Signals, OnSignal(s) PROVE TypeOK'
  <2>1. opened' \in 0 .. MaxOpens /\ s.coin \in Coins
    BY <1>1, TargetsAssumption, SignalFields DEF OnSignal
  <2>2. NewPosition(s, opened') \in Position
    BY <2>1, NewIsPosition
  <2>3. positions' \in [Coins -> Position] /\ sig' \in SigState
    BY <1>1, <2>1, <2>2 DEF OnSignal, SigState
  <2> QED
    BY <1>1, <2>1, <2>3 DEF OnSignal
<1>2. CASE EquityReturned
  BY <1>2, AnySignalInSignals DEF EquityReturned, SigState, SigIdle
<1>3. CASE OrderReturned
  BY <1>3 DEF OrderReturned, SigState
<1>4. CASE TakeProfitReturned
  <2>1. NewPosition(sig.s, opened) \in Position /\ sig' \in SigState
    BY <1>4, NewIsPosition DEF TakeProfitReturned, SigState
  <2> QED
    BY <1>4, <2>1 DEF TakeProfitReturned
<1>5. CASE OrderRaised
  BY <1>5, AnySignalInSignals DEF OrderRaised, SigState, SigIdle
<1>6. CASE EntryAlertsSent
  BY <1>6, AnySignalInSignals DEF EntryAlertsSent, SigState, SigIdle
<1>7. CASE LoopTurn
  <2>1. CASE LoopWake
    BY <2>1, TrackedFinite DEF LoopWake, LoopAsleep, LoopState
  <2>2. ASSUME NEW c \in Coins, LoopSkip(c) PROVE TypeOK'
    BY <2>2 DEF LoopSkip, LoopState
  <2>3. ASSUME NEW c \in Coins, NEW price \in Prices, LoopHold(c, price)
        PROVE  TypeOK'
    <3>1. Trail(Mark(positions[c], price), price) \in Position
      BY MarkIsPosition, TrailIsPosition
    <3>2. positions' \in [Coins -> Position] /\ loop' \in LoopState
      BY <2>3, <3>1 DEF LoopHold, LoopState
    <3> QED
      BY <2>3, <3>2 DEF LoopHold
  <2>4. ASSUME NEW c \in Coins, NEW price \in Prices, LoopClose(c, price)
        PROVE  TypeOK'
    <3>1. Closed(Mark(positions[c], price)) \in Position
      BY MarkIsPosition, ClosedIsPosition
    <3>2. closes' \in [1 .. MaxOpens -> Nat]
      <4>1. Mark(positions[c], price).id \in 0 .. MaxOpens
        BY MarkIsPosition DEF Position
      <4> QED
        BY <2>4, <4>1, HistoryCounts DEF LoopClose
    <3>3. loop' \in LoopState
      <4>1. Append(loop.closed, c) \in Seq(Coins)
        BY DEF LoopState
      <4>2. loop' = [pc |-> IF dryRun THEN "iterate" ELSE "alert",
                     size |-> loop.size, visited |-> loop.visited \cup {c},
                     popped |-> loop.popped, closed |-> Append(loop.closed, c)]
        BY <2>4 DEF LoopClose, LoopState
      <4> QED
        BY <4>1, <4>2 DEF LoopState
    <3>4. positions' \in [Coins -> Position]
      BY <2>4, <3>1 DEF LoopClose
    <3> QED
      BY <2>4, <3>2, <3>3, <3>4 DEF LoopClose
  <2>5. CASE LoopAlertsSent
    BY <2>5 DEF LoopAlertsSent, LoopState
  <2>6. CASE LoopRaises
    BY <2>6 DEF LoopRaises, LoopAsleep, LoopState
  <2>7. CASE LoopFinish
    BY <2>7, WithoutIsTable DEF LoopFinish, LoopAsleep, LoopState
  <2> QED
    BY <1>7, <2>1, <2>2, <2>3, <2>4, <2>5, <2>6, <2>7 DEF LoopTurn
<1>8. ASSUME NEW r \in Requests, EmergencyStart(r) PROVE TypeOK'
  BY <1>8, TrackedFinite DEF EmergencyStart, EmerState
<1>9. ASSUME NEW r \in Requests, EmergencyTurn(r) PROVE TypeOK'
  <2>1. ASSUME NEW c \in Coins, EmergencyClose(r, c) PROVE TypeOK'
    <3>1. Closed(positions[c]) \in Position
      BY ClosedIsPosition
    <3>2. closes' \in [1 .. MaxOpens -> Nat]
      <4>1. positions[c].id \in 0 .. MaxOpens
        BY DEF Position
      <4>2. InHistory(positions[c].id) \in [1 .. MaxOpens -> Nat]
        BY <4>1, HistoryCounts
      <4>3. closes' = InHistory(positions[c].id)
        BY <2>1 DEF EmergencyClose
      <4> QED
        BY <4>2, <4>3
    <3>3. emer' \in [Requests -> EmerState]
      <4> DEFINE e == [emer[r] EXCEPT !.todo = @ \ {c},
                                      !.pc = IF dryRun THEN "next" ELSE "alert"]
      <4>1. emer[r] \in EmerState
        OBVIOUS
      <4>2. e \in EmerState
        BY <4>1 DEF EmerState
      <4>3. emer' = [emer EXCEPT ![r] = e]
        BY <2>1 DEF EmergencyClose
      <4> HIDE DEF e
      <4> QED
        BY <4>2, <4>3
    <3>4. positions' \in [Coins -> Position]
      BY <2>1, <3>1 DEF EmergencyClose
    <3> QED
      BY <2>1, <3>2, <3>3, <3>4 DEF EmergencyClose
  <2>2. ASSUME NEW c \in Coins, EmergencyKeyError(r, c) PROVE TypeOK'
    BY <2>2 DEF EmergencyKeyError, EmerIdle, EmerState
  <2>3. CASE EmergencyAlertsSent(r)
    BY <2>3 DEF EmergencyAlertsSent, EmerState
  <2>4. CASE EmergencyPop(r)
    <3>1. positions' \in [Coins -> Position]
      BY <2>4, WithoutIsTable DEF EmergencyPop
    <3>2. loop' \in LoopState /\ emer' \in [Requests -> EmerState]
      BY <2>4 DEF EmergencyPop, EmerIdle, EmerState, LoopState
    <3> QED
      BY <2>4, <3>1, <3>2 DEF EmergencyPop
  <2> QED
    BY <1>9, <2>1, <2>2, <2>3, <2>4 DEF EmergencyTurn
<1>10. ASSUME NEW n \in Limits, UpdateLimit(n) PROVE TypeOK'
  BY <1>10 DEF UpdateLimit
<1>11. ASSUME NEW c \in Coins, Expire(c) PROVE TypeOK'
  BY <1>11 DEF Expire, Position
<1>12. CASE UNCHANGED vars
  BY <1>12 DEF vars
<1> QED
  BY <1>1, <1>2, <1>3, <1>4, <1>5, <1>6, <1>7, <1>8, <1>9, <1>10, <1>11, <1>12
     DEF Next

\* Type correctness of the position lifecycle.
THEOREM TypeCorrect == Spec => []TypeOK
BY TypeInit, TypeStep, PTL DEF Spec

----------------------------------------------------------------------------
(* What a step does to the entries of the dict                             *)

\* on_signal is between its slot check and its insertion.
InFlight == sig.pc \in {"equity", "entry", "sl", "tp"}

\* The entry of c stays as it was, grows stale, is looked at by the position
\* loop, or goes.
LookedAt(c) ==
  \/ positions'[c] = positions[c]
  \/ positions'[c] = [positions[c] EXCEPT !.stale = TRUE]
  \/ \E price \in Prices :
       positions'[c] = Trail(Mark(positions[c], price), price)
  \/ positions'[c] = Absent

\* The four ways a step treats the positions: it opens none, it closes one,
\* it hands out a new identity (and may insert it), it inserts the one that
\* on_signal is about to open.
Quiet ==
  /\ opened' = opened /\ closes' = closes
  /\ InFlight' => InFlight
  /\ \A c \in Coins : LookedAt(c)

ClosesOne ==
  /\ opened' = opened /\ sig' = sig
  /\ \E d \in Tracked :
       /\ positions' = [positions EXCEPT ![d] = Vacant("CLOSED", positions[d].id)]
       /\ closes' = InHistory(positions[d].id)

Inserts(s, id) ==
  /\ closes' = closes /\ ~InFlight'
  /\ s \in Signals
  /\ positions' = [positions EXCEPT ![s.coin] = NewPosition(s, id)]

\* The steps that neither look for a slot nor insert.
LEMMA TableCases ==
  ASSUME TypeOK,
         \/ EquityReturned \/ OrderReturned \/ OrderRaised \/ EntryAlertsSent \/ LoopTurn
         \/ \E r \in Requests : EmergencyStart(r) \/ EmergencyTurn(r)
         \/ \E n \in Limits : UpdateLimit(n)
         \/ \E c \in Coins : Expire(c)
         \/ UNCHANGED vars
  PROVE  Quiet \/ ClosesOne
<1> USE DEF TypeOK
<1>1. CASE EquityReturned \/ OrderReturned \/ OrderRaised \/ EntryAlertsSent
  BY <1>1 DEF EquityReturned, OrderReturned, OrderRaised, EntryAlertsSent,
       SigIdle, SigState, Quiet, LookedAt, InFlight
<1>2. ASSUME positions' = positions, opened' = opened, closes' = closes, sig' = sig
      PROVE  Quiet
  BY <1>2 DEF Quiet, LookedAt, InFlight
<1>3. ASSUME NEW S, positions' = Without(S), opened' = opened,
             closes' = closes, sig' = sig
      PROVE  Quiet
  BY <1>3 DEF Quiet, LookedAt, InFlight, Without
<1>4. CASE LoopTurn
  <2>1. ASSUME NEW d \in Coins, NEW price \in Prices, LoopHold(d, price)
        PROVE  Quiet
    <3>1. ASSUME NEW c \in Coins PROVE LookedAt(c)
      BY <2>1 DEF LoopHold, LookedAt
    <3> QED
      BY <2>1, <3>1 DEF LoopHold, Quiet, InFlight
  <2>2. ASSUME NEW d \in Coins, NEW price \in Prices, LoopClose(d, price)
        PROVE  ClosesOne
    <3>1. Mark(positions[d], price).id = positions[d].id
      BY MarkIsPosition DEF Position
    <3> QED
      BY <2>2, <3>1 DEF LoopClose, LoopVisit, Closed, ClosesOne
  <2>3. ASSUME NEW d \in Coins, LoopSkip(d) PROVE Quiet
    BY <2>3, <1>2 DEF LoopSkip
  <2>4. CASE LoopWake \/ LoopAlertsSent \/ LoopRaises
    BY <2>4, <1>2 DEF LoopWake, LoopAlertsSent, LoopRaises
  <2>5. CASE LoopFinish
    BY <2>5, <1>3 DEF LoopFinish
  <2> QED
    BY <1>4, <2>1, <2>2, <2>3, <2>4, <2>5 DEF LoopTurn
<1>5. ASSUME NEW r \in Requests, EmergencyStart(r) PROVE Quiet
  BY <1>2, <1>5 DEF EmergencyStart
<1>6. ASSUME NEW r \in Requests, EmergencyTurn(r) PROVE Quiet \/ ClosesOne
  <2>1. ASSUME NEW d \in Coins, EmergencyClose(r, d) PROVE ClosesOne
    BY <2>1 DEF EmergencyClose, Closed, ClosesOne
  <2>2. ASSUME NEW d \in Coins, EmergencyKeyError(r, d) PROVE Quiet
    BY <2>2, <1>2 DEF EmergencyKeyError
  <2>3. CASE EmergencyAlertsSent(r)
    BY <2>3, <1>2 DEF EmergencyAlertsSent
  <2>4. CASE EmergencyPop(r)
    BY <2>4, <1>3 DEF EmergencyPop
  <2> QED
    BY <1>6, <2>1, <2>2, <2>3, <2>4 DEF EmergencyTurn
<1>7. ASSUME NEW n \in Limits, UpdateLimit(n) PROVE Quiet
  BY <1>2, <1>7 DEF UpdateLimit
<1>8. ASSUME NEW d \in Coins, Expire(d) PROVE Quiet
  <2>1. ASSUME NEW c \in Coins PROVE LookedAt(c)
    BY <1>8 DEF Expire, LookedAt
  <2> QED
    BY <1>8, <2>1 DEF Expire, Quiet, InFlight
<1>9. CASE UNCHANGED vars
  BY <1>2, <1>9 DEF vars
<1> QED
  BY <1>1, <1>4, <1>5, <1>6, <1>7, <1>8, <1>9

LEMMA StepCases ==
  ASSUME TypeOK, [Next]_vars
  PROVE  \/ Quiet
         \/ ClosesOne
         \/ /\ opened' = opened + 1 /\ opened < MaxOpens /\ HasSlot
            /\ \/ \E s \in Signals : Inserts(s, opened')
               \/ UNCHANGED <<positions, closes>>
         \/ InFlight /\ opened' = opened /\ \E s \in Signals : Inserts(s, opened)
<1>1. ASSUME NEW s \in Signals, OnSignal(s)
      PROVE  /\ opened' = opened + 1 /\ opened < MaxOpens /\ HasSlot
             /\ Inserts(s, opened') \/ UNCHANGED <<positions, closes>>
  BY <1>1 DEF OnSignal, Inserts, InFlight
<1>2. CASE TakeProfitReturned
  <2>1. sig.s \in Signals /\ InFlight /\ ~InFlight'
    BY <1>2 DEF TakeProfitReturned, TypeOK, SigState, InFlight
  <2>2. opened' = opened /\ Inserts(sig.s, opened)
    BY <1>2, <2>1 DEF TakeProfitReturned, Inserts
  <2> QED
    BY <2>1, <2>2
<1> QED
  BY <1>1, <1>2, TableCases DEF Next

\* A look at an entry keeps its identity and its status, unless it goes.
LEMMA LookKeeps ==
  ASSUME TypeOK, NEW c \in Coins, LookedAt(c)
  PROVE  \/ positions'[c] = Absent
         \/ /\ positions'[c].id = positions[c].id
            /\ positions'[c].status = positions[c].status
<1>1. positions[c] \in Position
  BY DEF TypeOK
<1>2. ASSUME NEW price \in Prices,
             positions'[c] = Trail(Mark(positions[c], price), price)
      PROVE  /\ positions'[c].id = positions[c].id
             /\ positions'[c].status = positions[c].status
  <2>1. /\ Mark(positions[c], price) \in Position
        /\ Mark(positions[c], price).id = positions[c].id
        /\ Mark(positions[c], price).status = positions[c].status
    BY <1>1, MarkIsPosition DEF Position
  <2> QED
    BY <1>2, <2>1 DEF Trail, Position
<1>3. CASE positions'[c] = [positions[c] EXCEPT !.stale = TRUE]
  BY <1>1, <1>3 DEF Position
<1> QED
  BY <1>2, <1>3 DEF LookedAt

----------------------------------------------------------------------------
(* The slot limit                                                          *)

\* SlotLimit is not inductive: the insertion after the awaits relies on the
\* slot seen before them being still free.
SlotInv ==
  /\ SlotLimit
  /\ InFlight => Cardinality(Tracked) < MaxLimit

LEMMA FewerTracked ==
  ASSUME Tracked' \subseteq Tracked
  PROVE  /\ Cardinality(Tracked') <= Cardinality(Tracked)
         /\ Cardinality(Tracked') \in Nat
BY TrackedFinite, FS_Subset, FS_CardinalityType

LEMMA OneMoreTracked ==
  ASSUME NEW x, Tracked' \subseteq Tracked \cup {x}
  PROVE  /\ Cardinality(Tracked') <= Cardinality(Tracked) + 1
         /\ Cardinality(Tracked') \in Nat
<1>1. /\ IsFiniteSet(Tracked \cup {x})
      /\ Cardinality(Tracked \cup {x}) <= Cardinality(Tracked) + 1
  BY TrackedFinite, FS_AddElement
<1>2. /\ IsFiniteSet(Tracked')
      /\ Cardinality(Tracked') <= Cardinality(Tracked \cup {x})
  BY <1>1, FS_Subset
<1> QED
  BY <1>1, <1>2, FS_CardinalityType, TrackedFinite

\* What a step does to the keys of the dict: only an insertion adds one, and
\* it comes after a slot check.
LEMMA KeysStep ==
  ASSUME TypeOK, [Next]_vars
  PROVE  \/ /\ Tracked' \subseteq Tracked
            /\ InFlight' => InFlight \/ HasSlot
         \/ /\ \E x : Tracked' \subseteq Tracked \cup {x}
            /\ InFlight \/ HasSlot
            /\ ~InFlight'
<1>1. ASSUME Quiet PROVE Tracked' \subseteq Tracked /\ (InFlight' => InFlight)
  <2>1. ASSUME NEW c \in Tracked' PROVE c \in Tracked
    BY <1>1, <2>1, LookKeeps DEF Quiet, Tracked, Absent, Vacant
  <2> QED
    BY <1>1, <2>1 DEF Quiet
<1>2. ASSUME ClosesOne PROVE Tracked' \subseteq Tracked /\ (InFlight' => InFlight)
  BY <1>2 DEF ClosesOne, Tracked, InFlight, TypeOK
<1>3. ASSUME NEW s, NEW id, Inserts(s, id)
      PROVE  (\E x : Tracked' \subseteq Tracked \cup {x}) /\ ~InFlight'
  <2>1. Tracked' \subseteq Tracked \cup {s.coin}
    BY <1>3 DEF Inserts, Tracked, TypeOK
  <2> QED
    BY <1>3, <2>1 DEF Inserts
<1>4. ASSUME HasSlot, UNCHANGED <<positions, closes>>
      PROVE  Tracked' \subseteq Tracked /\ (InFlight' => HasSlot)
  BY <1>4 DEF Tracked
<1> QED
  BY <1>1, <1>2, <1>3, <1>4, StepCases

LEMMA SlotInit == Init => SlotInv
<1> SUFFICES ASSUME Init PROVE SlotInv
  OBVIOUS
<1>1. Tracked = {}
  BY DEF Init, Tracked, Absent, Vacant
<1>2. Cardinality(Tracked) = 0
  BY <1>1, FS_EmptySet
<1> QED
  BY <1>2, LimitsAssumption DEF Init, SlotInv, SlotLimit, InFlight, SigIdle

LEMMA SlotStep == TypeOK /\ SlotInv /\ [Next]_vars => SlotInv'
<1> SUFFICES ASSUME TypeOK, SlotInv, [Next]_vars PROVE SlotInv'
  OBVIOUS
<1>1. HasSlot => Cardinality(Tracked) < MaxLimit
  BY TrackedFinite, LimitsAssumption DEF HasSlot, TypeOK
<1>2. CASE Tracked' \subseteq Tracked /\ (InFlight' => InFlight \/ HasSlot)
  BY <1>1, <1>2, FewerTracked, TrackedFinite, LimitsAssumption
     DEF SlotInv, SlotLimit
<1>3. CASE /\ \E x : Tracked' \subseteq Tracked \cup {x}
           /\ InFlight \/ HasSlot
           /\ ~InFlight'
  BY <1>1, <1>3, OneMoreTracked, TrackedFinite, LimitsAssumption
     DEF SlotInv, SlotLimit
<1> QED
  BY <1>2, <1>3, KeysStep

\* The dict never outgrows the largest limit, whatever the awaits interleave.
THEOREM SlotLimitHolds == Spec => []SlotLimit
<1>1. TypeOK /\ SlotInv /\ [Next]_vars => TypeOK' /\ SlotInv'
  BY TypeStep, SlotStep
<1>2. SlotInv => SlotLimit
  BY DEF SlotInv
<1> QED
  BY <1>1, <1>2, TypeInit, SlotInit, PTL DEF Spec

----------------------------------------------------------------------------
(* The trailing stop                                                       *)

LEMMA LevelsBound ==
  ASSUME NEW s \in Signals
  PROVE  /\ Lock(s) \in Nat
         /\ 10 * (Trigger(s) - Lock(s)) >= (TriggerTenths - LockTenths) * Risk(s) - 9
<1>1. Risk(s) \in Nat
  BY SignalFields
<1>2. PICK R \in Nat : R = Risk(s)
  BY <1>1
<1>3. PICK T \in Nat : T = TriggerTenths * R
  BY <1>2, TargetsAssumption
<1>4. PICK L \in Nat : L = LockTenths * R
  BY <1>2, TargetsAssumption
<1>5. (TriggerTenths - LockTenths) * R = T - L
  BY <1>2, <1>3, <1>4, TargetsAssumption
<1>6. Trigger(s) = T \div 10 /\ Lock(s) = L \div 10
  BY <1>2, <1>3, <1>4 DEF Trigger, Lock
<1>7. 10 * (T \div 10) >= T - 9 /\ 10 * (L \div 10) <= L /\ L \div 10 \in Nat
  BY <1>3, <1>4
<1> QED
  BY <1>2, <1>5, <1>6, <1>7, LevelsAreInt

\* What a look at the position does to its stop: it tightens or stays, and a
\* stop that locks a profit still does.
LEMMA LookTightens ==
  ASSUME NEW p \in Position, NEW price \in Prices,
         p.trailed => LocksProfit(p)
  PROVE  LET q == Trail(Mark(p, price), price)
         IN  /\ q.status = p.status /\ q.id = p.id /\ q.signal = p.signal
             /\ IF IsLong(p) THEN q.stop >= p.stop ELSE q.stop <= p.stop
             /\ q.trailed => LocksProfit(q)
<1> DEFINE m == Mark(p, price)
           s == p.signal
           q == Trail(m, price)
<1>1. m \in Position /\ m = [p EXCEPT !.best = m.best]
  BY MarkIsPosition
<1>2. /\ m.status = p.status /\ m.id = p.id /\ m.signal = s
      /\ m.stop = p.stop /\ m.trailed = p.trailed
  BY <1>1 DEF Position
<1>3. IF IsLong(p) THEN m.best >= p.best ELSE m.best <= p.best
  <2>1. p.best \in Nat /\ price \in Nat
    BY PricesAssumption DEF Position
  <2>2. m.best = IF (IF IsLong(p) THEN price > p.best ELSE price < p.best)
                   THEN price ELSE p.best
    BY DEF Mark, Position
  <2> QED
    BY <2>1, <2>2
<1>4. /\ s \in Signals /\ p.stop \in Int /\ p.best \in Nat /\ m.best \in Nat
      /\ s.entry \in Nat /\ Risk(s) \in Nat
      /\ Lock(s) \in Nat /\ Trigger(s) \in Int
  <2>1. s \in Signals /\ p.stop \in Int /\ p.best \in Nat /\ m.best \in Nat
    BY <1>1 DEF Position
  <2> QED
    BY <2>1, SignalFields, LevelsBound, LevelsAreInt
<1>5. m.trailed => LocksProfit(m)
  BY <1>2, <1>3, <1>4, TargetsAssumption DEF LocksProfit, IsLong
<1>6. CASE q = m
  BY <1>2, <1>5, <1>6, <1>4 DEF IsLong
<1>7. ASSUME q # m
      PROVE  LET x == IF IsLong(p) THEN m.best - Lock(s) ELSE m.best + Lock(s)
             IN  /\ q = [m EXCEPT !.stop = x, !.trailed = TRUE]
                 /\ IF IsLong(p) THEN m.best >= s.entry + Trigger(s) /\ x > p.stop
                                 ELSE m.best <= s.entry - Trigger(s) /\ x < p.stop
  BY <1>2, <1>7 DEF Trail, IsLong
<1>8. CASE q # m
  <2>1. /\ q.status = p.status /\ q.id = p.id /\ q.signal = s /\ q.best = m.best
        /\ q.stop = IF IsLong(p) THEN m.best - Lock(s) ELSE m.best + Lock(s)
    BY <1>1, <1>2, <1>7, <1>8 DEF Position
  <2>2. IF IsLong(p) THEN q.stop >= p.stop ELSE q.stop <= p.stop
    BY <1>4, <1>7, <1>8, <2>1
  <2>3. (IF IsLong(p) THEN q.stop - s.entry ELSE s.entry - q.stop)
          >= Trigger(s) - Lock(s)
    BY <1>4, <1>7, <1>8, <2>1
  <2>4. /\ 10 * (Trigger(s) - Lock(s)) >= (TriggerTenths - LockTenths) * Risk(s) - 9
        /\ (TriggerTenths - LockTenths) * Risk(s) \in Int
    BY <1>4, LevelsBound, TargetsAssumption
  <2>5. LocksProfit(q)
    <3>1. q.signal = s /\ IsLong(q) = IsLong(p)
      BY <2>1 DEF IsLong
    <3>2. 10 * (IF IsLong(p) THEN q.stop - s.entry ELSE s.entry - q.stop)
            >= (TriggerTenths - LockTenths) * Risk(s) - 9
      BY <1>4, <2>1, <2>3, <2>4
    <3>3. IF IsLong(p) THEN q.stop <= q.best ELSE q.stop >= q.best
      BY <1>4, <2>1
    <3> QED
      BY <3>1, <3>2, <3>3 DEF LocksProfit
  <2> QED
    BY <2>1, <2>2, <2>5
<1> QED
  BY <1>6, <1>8

LEMMA TrailStep == TypeOK /\ TrailLocksProfit /\ [Next]_vars => TrailLocksProfit'
<1> SUFFICES ASSUME TypeOK, TrailLocksProfit, [Next]_vars, NEW c \in Coins,
                    positions'[c].trailed
             PROVE  LocksProfit(positions'[c])
  BY DEF TrailLocksProfit
<1> DEFINE p == positions[c]
           q == positions'[c]
<1>1. p \in Position /\ (p.trailed => LocksProfit(p))
  BY DEF TypeOK, TrailLocksProfit
<1>2. CASE q = p
  BY <1>1, <1>2
<1>3. CASE q = Absent \/ q = Vacant("CLOSED", p.id)
  BY <1>3 DEF Absent, Vacant
<1>4. ASSUME NEW s \in Signals, NEW id, Inserts(s, id)
      PROVE  q = p \/ ~q.trailed
  BY <1>4 DEF Inserts, NewPosition, TypeOK
<1>5. CASE q = [p EXCEPT !.stale = TRUE]
  <2>1. /\ q.trailed = p.trailed /\ q.signal = p.signal /\ q.stop = p.stop
        /\ q.best = p.best
    BY <1>1, <1>5 DEF Position
  <2> QED
    BY <1>1, <2>1 DEF LocksProfit, IsLong
<1>6. CASE \E price \in Prices : q = Trail(Mark(p, price), price)
  BY <1>1, <1>6, LookTightens
<1>7. CASE Quiet
  BY <1>2, <1>3, <1>5, <1>6, <1>7 DEF Quiet, LookedAt
<1>8. CASE ClosesOne
  <2>1. q = p \/ q = Vacant("CLOSED", p.id)
    BY <1>8 DEF ClosesOne, TypeOK
  <2> QED
    BY <1>2, <1>3, <2>1
<1> QED
  BY <1>2, <1>4, <1>7, <1>8, StepCases

\* A trailed stop locks its share of the risk, for all prices and settings.
THEOREM TrailLocksProfitHolds == Spec => []TrailLocksProfit
<1>1. Init => TrailLocksProfit
  BY DEF Init, TrailLocksProfit, Absent, Vacant
<1>2. TypeOK /\ TrailLocksProfit /\ [Next]_vars => TypeOK' /\ TrailLocksProfit'
  BY TypeStep, TrailStep
<1> QED
  BY <1>1, <1>2, TypeInit, PTL DEF Spec

----------------------------------------------------------------------------
(* Identities, the history and the stop-loss                               *)

\* The identities in the dict are those handed out so far and all different;
\* the one on_signal is about to insert is fresh, and nothing that was not
\* opened yet is in the history.
IdInv ==
  /\ \A c \in Tracked : positions[c].id \in 1 .. opened
  /\ \A c, d \in Tracked : c # d => positions[c].id # positions[d].id
  /\ \A i \in 1 .. MaxOpens : i > opened => closes[i] = 0
  /\ InFlight => /\ opened \in 1 .. MaxOpens
                 /\ closes[opened] = 0
                 /\ \A c \in Tracked : positions[c].id # opened

HistoryInv == IdInv /\ HistoryMatches

LEMMA HistoryStep == TypeOK /\ HistoryInv /\ [Next]_vars => HistoryInv'
<1> SUFFICES ASSUME TypeOK, HistoryInv, [Next]_vars PROVE HistoryInv'
  OBVIOUS
<1> USE DEF HistoryInv
<1>1. CASE Quiet
  <2>1. ASSUME NEW c \in Tracked'
        PROVE  /\ c \in Tracked
               /\ positions'[c].id = positions[c].id
               /\ positions'[c].status = positions[c].status
    BY <1>1, <2>1, LookKeeps DEF Quiet, Tracked, Absent, Vacant
  <2>2. IdInv'
    BY <1>1, <2>1 DEF Quiet, IdInv
  <2>3. ASSUME NEW c \in Coins, positions'[c].status \in {"OPEN", "CLOSED"}
        PROVE  c \in Tracked'
    BY <2>3 DEF Tracked
  <2>4. HistoryMatches'
    BY <1>1, <2>1, <2>3 DEF Quiet, HistoryMatches
  <2> QED
    BY <2>2, <2>4
<1>2. CASE ClosesOne
  <2>1. PICK d \in Tracked :
          /\ positions' = [positions EXCEPT ![d] = Vacant("CLOSED", positions[d].id)]
          /\ closes' = InHistory(positions[d].id)
    BY <1>2 DEF ClosesOne
  <2>2. /\ d \in Coins /\ positions[d].id \in 1 .. MaxOpens
        /\ opened' = opened /\ sig' = sig /\ opened \in 0 .. MaxOpens
    BY <1>2, TargetsAssumption DEF ClosesOne, IdInv, Tracked, TypeOK
  <2>3. \A j \in 1 .. MaxOpens :
          /\ closes[j] \in Nat
          /\ closes'[j] = IF j = positions[d].id THEN closes[j] + 1 ELSE closes[j]
    <3>1. closes \in [1 .. MaxOpens -> Nat]
      BY DEF TypeOK
    <3>2. positions[d].id \in 0 .. MaxOpens
      BY <2>2
    <3>3. \A j \in 1 .. MaxOpens : InHistory(positions[d].id)[j]
            = IF j = positions[d].id THEN closes[j] + 1 ELSE closes[j]
      BY <3>1, <3>2, HistoryCounts
    <3> QED
      BY <2>1, <3>1, <3>3
  <2>4. /\ positions'[d].status = "CLOSED" /\ positions'[d].id = positions[d].id
        /\ \A c \in Coins : c # d => positions'[c] = positions[c]
    BY <2>1, <2>2 DEF TypeOK, Vacant
  <2>5. Tracked' = Tracked /\ \A c \in Tracked : positions'[c].id = positions[c].id
    BY <2>2, <2>4 DEF Tracked
  <2>6. InFlight' => InFlight /\ positions[d].id # opened
    BY <2>2 DEF IdInv, InFlight
  <2>7. IdInv'
    BY <2>2, <2>3, <2>5, <2>6 DEF IdInv
  <2>8. ASSUME NEW c \in Coins, c # d, c \in Tracked
        PROVE  /\ positions[c].id \in 1 .. MaxOpens
               /\ positions[c].id # positions[d].id
    BY <2>2, <2>8, TargetsAssumption DEF IdInv
  <2>9. HistoryMatches'
    <3> SUFFICES ASSUME NEW c \in Coins
                 PROVE  /\ positions'[c].status = "OPEN" => closes'[positions'[c].id] = 0
                        /\ positions'[c].status = "CLOSED" => closes'[positions'[c].id] > 0
      BY DEF HistoryMatches
    <3>1. CASE c = d
      BY <2>2, <2>3, <2>4, <3>1
    <3>2. CASE c # d
      BY <2>3, <2>4, <2>8, <3>2 DEF HistoryMatches, Tracked
    <3> QED
      BY <3>1, <3>2
  <2> QED
    BY <2>7, <2>9
<1>3. ASSUME opened' = opened + 1, opened < MaxOpens, UNCHANGED <<positions, closes>>
      PROVE  HistoryInv'
  <2>1. /\ opened' \in 1 .. MaxOpens /\ opened \in Nat /\ opened' = opened + 1
        /\ Tracked' = Tracked
    BY <1>3, TargetsAssumption DEF TypeOK, Tracked
  <2>2. IdInv'
    BY <1>3, <2>1 DEF IdInv
  <2>3. HistoryMatches'
    BY <1>3 DEF HistoryMatches
  <2> QED
    BY <2>2, <2>3
<1>4. ASSUME NEW s \in Signals, NEW id \in 1 .. MaxOpens, Inserts(s, id),
             opened' = id, closes[id] = 0, opened \in Nat, opened <= id,
             \A c \in Tracked : positions[c].id # id
      PROVE  HistoryInv'
  <2>1. s.coin \in Coins
    BY SignalFields
  <2>2. /\ positions'[s.coin].id = id /\ positions'[s.coin].status = "OPEN"
        /\ \A c \in Coins : c # s.coin => positions'[c] = positions[c]
    BY <1>4, <2>1 DEF Inserts, TypeOK, NewPosition
  <2>3. \A c \in Tracked' : c = s.coin \/ (c \in Tracked /\ positions'[c] = positions[c])
    BY <2>2 DEF Tracked
  <2>4. IdInv'
    BY <1>4, <2>2, <2>3 DEF IdInv, Inserts
  <2>5. HistoryMatches'
    BY <1>4, <2>2 DEF HistoryMatches, Inserts
  <2> QED
    BY <2>4, <2>5
<1>5. ASSUME opened' = opened + 1, opened < MaxOpens,
             NEW s \in Signals, Inserts(s, opened')
      PROVE  HistoryInv'
  <2>1. opened' \in 1 .. MaxOpens /\ opened \in Nat /\ opened <= opened'
    BY <1>5, TargetsAssumption DEF TypeOK
  <2>2. closes[opened'] = 0 /\ \A c \in Tracked : positions[c].id # opened'
    BY <1>5, <2>1 DEF IdInv
  <2> QED
    BY <1>4, <1>5, <2>1, <2>2
<1>6. ASSUME InFlight, opened' = opened, NEW s \in Signals, Inserts(s, opened)
      PROVE  HistoryInv'
  BY <1>4, <1>6 DEF IdInv
<1> QED
  BY <1>1, <1>2, <1>3, <1>5, <1>6, StepCases

LEMMA HistoryInit == Init => HistoryInv
<1> SUFFICES ASSUME Init PROVE HistoryInv
  OBVIOUS
<1>1. Tracked = {} /\ ~InFlight
  BY DEF Init, Tracked, Absent, Vacant, InFlight, SigIdle
<1>2. IdInv
  BY <1>1 DEF Init, IdInv
<1>3. HistoryMatches
  BY DEF Init, HistoryMatches, Absent, Vacant
<1> QED
  BY <1>2, <1>3 DEF HistoryInv

\* The history and the status agree, for all interleavings: what is open was
\* never recorded as closed, what is closed was.
THEOREM HistoryMatchesHolds == Spec => []HistoryMatches
<1>1. TypeOK /\ HistoryInv /\ [Next]_vars => TypeOK' /\ HistoryInv'
  BY TypeStep, HistoryStep
<1>2. HistoryInv => HistoryMatches
  BY DEF HistoryInv
<1> QED
  BY <1>1, <1>2, TypeInit, HistoryInit, PTL DEF Spec

\* An entry that is open before and after a step and is the same position
\* has a stop at least as tight: an insertion has an identity of its own.
LEMMA StopStep ==
  ASSUME TypeOK, TrailLocksProfit, HistoryInv, [Next]_vars, NEW c \in Coins,
         positions[c].status = "OPEN", positions'[c].status = "OPEN",
         positions'[c].id = positions[c].id
  PROVE  IF IsLong(positions[c]) THEN positions'[c].stop >= positions[c].stop
                                 ELSE positions'[c].stop <= positions[c].stop
<1> DEFINE p == positions[c]
           q == positions'[c]
<1>1. p \in Position /\ p.stop \in Int /\ (p.trailed => LocksProfit(p))
  BY DEF TypeOK, TrailLocksProfit, Position
<1>2. CASE q = p
  BY <1>1, <1>2
<1>3. CASE q = Absent \/ q = Vacant("CLOSED", p.id)
  BY <1>3 DEF Absent, Vacant
<1>4. CASE q = [p EXCEPT !.stale = TRUE]
  <2>1. q.stop = p.stop
    BY <1>1, <1>4 DEF Position
  <2> QED
    BY <1>1, <2>1
<1>5. CASE \E price \in Prices : q = Trail(Mark(p, price), price)
  BY <1>1, <1>5, LookTightens
<1>6. CASE Quiet
  BY <1>2, <1>3, <1>4, <1>5, <1>6 DEF Quiet, LookedAt
<1>7. CASE ClosesOne
  <2>1. q = p \/ q = Vacant("CLOSED", p.id)
    BY <1>7 DEF ClosesOne, TypeOK
  <2> QED
    BY <1>2, <1>3, <2>1
<1>8. ASSUME NEW s \in Signals, NEW id, Inserts(s, id), p.id # id
      PROVE  q = p
  BY <1>8 DEF Inserts, NewPosition, TypeOK
<1>9. /\ c \in Tracked /\ opened \in Nat /\ p.id \in 1 .. opened
      /\ InFlight => p.id # opened
  <2>1. c \in Tracked
    BY DEF Tracked
  <2> QED
    BY <2>1, TargetsAssumption DEF HistoryInv, IdInv, TypeOK
<1>10. p.id # opened + 1
  BY <1>9
<1> QED
  BY <1>2, <1>6, <1>7, <1>8, <1>9, <1>10, StepCases

\* A stop-loss never loosens while its position is open, for all prices.
THEOREM StopNeverLoosensHolds == Spec => StopNeverLoosens
<1>1. TypeOK /\ HistoryInv /\ TrailLocksProfit /\ [Next]_vars
        => TypeOK' /\ HistoryInv' /\ TrailLocksProfit'
  BY TypeStep, HistoryStep, TrailStep
<1>2. TypeOK /\ HistoryInv /\ TrailLocksProfit /\ [Next]_vars =>
        \A c \in Coins :
          (/\ positions[c].status = "OPEN"
           /\ positions'[c].status = "OPEN"
           /\ positions'[c].id = positions[c].id)
          => IF IsLong(positions[c]) THEN positions'[c].stop >= positions[c].stop
                                     ELSE positions'[c].stop <= positions[c].stop
  BY StopStep
<1>3. Init => TrailLocksProfit
  BY DEF Init, TrailLocksProfit, Absent, Vacant
<1> QED
  BY <1>1, <1>2, <1>3, TypeInit, HistoryInit, PTL DEF Spec, StopNeverLoosens

----------------------------------------------------------------------------
(* The refinement of the pool of slots                                     *)

\* The pool counts as the dict does.
LEMMA SlotsCount == \A S : Slots!Cardinality(S) = Cardinality(S)
BY DEF Slots!Cardinality, Cardinality, Slots!IsFiniteSet, IsFiniteSet

LEMMA KeysGone ==
  ASSUME limit' = limit, sig' = sig, Tracked' \subseteq Tracked
  PROVE  Slots!Free
BY DEF Slots!Free, Reserved

LEMMA EntryKept ==
  ASSUME TypeOK, NEW d \in Tracked, NEW p, positions' = [positions EXCEPT ![d] = p]
  PROVE  Tracked' \subseteq Tracked
BY DEF TypeOK, Tracked

LEMMA WithoutShrinks ==
  ASSUME NEW S, positions' = Without(S)
  PROVE  Tracked' \subseteq Tracked
BY DEF Without, Tracked, Absent, Vacant

LEMMA EntryMade ==
  ASSUME TypeOK, NEW s \in Signals, NEW id,
         positions' = [positions EXCEPT ![s.coin] = NewPosition(s, id)]
  PROVE  Tracked' = Tracked \cup {s.coin}
BY SignalFields DEF TypeOK, Tracked, NewPosition

LEMMA SlotsInit == Init => Slots!Init
<1> SUFFICES ASSUME Init PROVE Slots!Init
  OBVIOUS
<1>1. Tracked = {} /\ Reserved = {}
  BY DEF Init, Tracked, Absent, Vacant, Reserved, SigIdle
<1> QED
  BY <1>1 DEF Init, Slots!Init

LEMMA SignalStep ==
  ASSUME TypeOK, NEW s \in Signals, OnSignal(s)
  PROVE  Slots!Next
<1>1. s.coin \in Coins /\ Reserved = {} /\ Slots!HasSlot
  BY SignalFields, SlotsCount DEF OnSignal, Reserved, HasSlot, Slots!HasSlot
<1>2. CASE dryRun
  <2>1. Tracked' = Tracked \cup {s.coin}
    BY <1>2, EntryMade DEF OnSignal
  <2>2. Slots!Take(s.coin)
    BY <1>1, <1>2, <2>1 DEF OnSignal, Slots!Take, Reserved
  <2> QED
    BY <1>1, <2>2 DEF Slots!Next
<1>3. CASE ~dryRun
  <2>1. Tracked' = Tracked /\ Reserved' = {s.coin}
    BY <1>3 DEF OnSignal, Tracked, Reserved
  <2>2. Slots!Reserve(s.coin)
    BY <1>1, <2>1 DEF OnSignal, Slots!Reserve
  <2> QED
    BY <1>1, <2>2 DEF Slots!Next
<1> QED
  BY <1>2, <1>3 DEF TypeOK

LEMMA OrderStep ==
  ASSUME TypeOK,
         EquityReturned \/ OrderReturned \/ TakeProfitReturned \/ OrderRaised \/ EntryAlertsSent
  PROVE  [Slots!Next]_(Slots!vars)
<1>1. CASE TakeProfitReturned
  <2>1. sig.s \in Signals /\ Reserved = {sig.s.coin} /\ Reserved' = {}
    BY <1>1 DEF TakeProfitReturned, TypeOK, SigState, Reserved
  <2>2. Tracked' = Tracked \cup {sig.s.coin}
    BY <1>1, <2>1, EntryMade DEF TakeProfitReturned
  <2>3. Slots!Fill
    BY <1>1, <2>1, <2>2 DEF TakeProfitReturned, Slots!Fill
  <2> QED
    BY <2>3 DEF Slots!Next
<1>2. CASE EquityReturned \/ OrderReturned \/ OrderRaised \/ EntryAlertsSent
  <2>1. limit' = limit /\ Tracked' = Tracked
    BY <1>2 DEF EquityReturned, OrderReturned, OrderRaised, EntryAlertsSent, Tracked
  <2>2. \/ sig' = SigIdle
        \/ /\ sig.pc \in {"equity", "entry", "sl"}
           /\ \E pc \in {"entry", "sl", "tp"} : sig' = [sig EXCEPT !.pc = pc]
    BY <1>2 DEF EquityReturned, OrderReturned, OrderRaised, EntryAlertsSent
  <2>3. ASSUME NEW pc \in {"entry", "sl", "tp"}, sig' = [sig EXCEPT !.pc = pc],
               sig.pc \in {"equity", "entry", "sl"}
        PROVE  Reserved' = Reserved
    BY <2>3 DEF Reserved, TypeOK, SigState
  <2>4. sig' = SigIdle => Reserved' = {}
    BY DEF Reserved, SigIdle
  <2>5. Reserved' = Reserved \/ Reserved' = {}
    BY <2>2, <2>3, <2>4
  <2> QED
    BY <2>1, <2>5 DEF Slots!GiveUp, Slots!Next, Slots!vars
<1> QED
  BY <1>1, <1>2

LEMMA LoopStep ==
  ASSUME TypeOK, LoopTurn
  PROVE  Slots!Free
<1>1. ASSUME NEW c \in Coins, LoopSkip(c) PROVE Slots!Free
  BY <1>1, KeysGone DEF LoopSkip, Tracked
<1>2. ASSUME NEW c \in Coins, NEW price \in Prices,
             LoopHold(c, price) \/ LoopClose(c, price)
      PROVE  Slots!Free
  <2>1. c \in Tracked /\ limit' = limit /\ sig' = sig
    BY <1>2 DEF LoopHold, LoopClose, LoopVisit
  <2>2. Tracked' \subseteq Tracked
    BY <1>2, <2>1, EntryKept DEF LoopHold, LoopClose
  <2> QED
    BY <2>1, <2>2, KeysGone
<1>3. CASE LoopWake \/ LoopAlertsSent \/ LoopRaises
  BY <1>3, KeysGone DEF LoopWake, LoopAlertsSent, LoopRaises, Tracked
<1>4. CASE LoopFinish
  BY <1>4, KeysGone, WithoutShrinks DEF LoopFinish
<1> QED
  BY <1>1, <1>2, <1>3, <1>4 DEF LoopTurn

LEMMA EmergencyStep ==
  ASSUME TypeOK, NEW r \in Requests, EmergencyStart(r) \/ EmergencyTurn(r)
  PROVE  Slots!Free
<1>1. ASSUME NEW c \in Coins, EmergencyClose(r, c) PROVE Slots!Free
  <2>1. c \in Tracked /\ limit' = limit /\ sig' = sig
    BY <1>1 DEF EmergencyClose
  <2>2. Tracked' \subseteq Tracked
    BY <1>1, <2>1, EntryKept DEF EmergencyClose
  <2> QED
    BY <2>1, <2>2, KeysGone
<1>2. ASSUME NEW c \in Coins, EmergencyKeyError(r, c) PROVE Slots!Free
  BY <1>2, KeysGone DEF EmergencyKeyError, Tracked
<1>3. CASE EmergencyStart(r) \/ EmergencyAlertsSent(r)
  BY <1>3, KeysGone DEF EmergencyStart, EmergencyAlertsSent, Tracked
<1>4. CASE EmergencyPop(r)
  BY <1>4, KeysGone, WithoutShrinks DEF EmergencyPop
<1> QED
  BY <1>1, <1>2, <1>3, <1>4 DEF EmergencyTurn

LEMMA SlotsStep == TypeOK /\ [Next]_vars => [Slots!Next]_(Slots!vars)
<1> SUFFICES ASSUME TypeOK, [Next]_vars PROVE [Slots!Next]_(Slots!vars)
  OBVIOUS
<1>1. ASSUME NEW n \in Limits, UpdateLimit(n) PROVE Slots!Configure
  BY <1>1 DEF UpdateLimit, Slots!Configure, Tracked, Reserved
<1>2. ASSUME NEW c \in Coins, Expire(c) PROVE Slots!Free
  <2>1. c \in Tracked /\ limit' = limit /\ sig' = sig
    BY <1>2 DEF Expire, Tracked
  <2>2. positions' = [positions EXCEPT ![c] = [positions[c] EXCEPT !.stale = TRUE]]
    BY <1>2 DEF Expire
  <2> QED
    BY <2>1, <2>2, EntryKept, KeysGone
<1>3. CASE UNCHANGED vars
  BY <1>3 DEF vars, Slots!vars, Tracked, Reserved
<1>4. ASSUME Slots!Free \/ Slots!Configure PROVE Slots!Next
  BY <1>4 DEF Slots!Next
<1> QED
  BY <1>1, <1>2, <1>3, <1>4, SignalStep, OrderStep, LoopStep, EmergencyStep DEF Next

\* The dict implements the abstract pool of slots: every step reserves, fills,
\* frees or reconfigures slots, or is none of the pool's business.
THEOREM SlotsImplemented == Spec => ImplementsSlots
<1>1. TypeOK /\ [Next]_vars => [Slots!Next]_(Slots!vars)
  BY SlotsStep
<1> QED
  BY SlotsInit, <1>1, TypeCorrect, PTL DEF Spec, Slots!Spec, ImplementsSlots

----------------------------------------------------------------------------
(* A dry run                                                               *)

\* The entry of c has been closed by the coroutine that holds the event loop,
\* which is going to remove it before it lets go.
Removing(c) ==
  \/ cpu = "loop" /\ \E n \in DOMAIN loop.closed : loop.closed[n] = c
  \/ cpu \in Requests /\ c \notin emer[cpu].todo

\* Nothing suspends in a dry run: a coroutine that is under way holds the event
\* loop.
RunsThrough ==
  /\ sig.pc = "idle"
  /\ loop.pc = (IF cpu = "loop" THEN "iterate" ELSE "sleep")
  /\ \A r \in Requests : emer[r].pc # "alert" /\ (emer[r].pc = "next" <=> cpu = r)

\* The coroutine at work has all of the dict to itself: the loop's list of
\* closed coins has each coin once, and a request's snapshot is the dict.
Undisturbed ==
  /\ cpu = "loop" =>
       /\ SizeUnchanged /\ ~loop.popped
       /\ \A n \in DOMAIN loop.closed :
            /\ positions[loop.closed[n]].status = "CLOSED"
            /\ \A k \in 1 .. n - 1 : loop.closed[k] # loop.closed[n]
  /\ cpu \in Requests =>
       /\ emer[cpu].coins = Tracked /\ emer[cpu].todo \subseteq Tracked
       /\ \A c \in emer[cpu].todo : positions[c].status = "OPEN"

DryInv ==
  dryRun =>
    /\ RunsThrough
    /\ Undisturbed
    /\ \A c \in Tracked : positions[c].status = "OPEN" \/ Removing(c)
    /\ \A i \in 1 .. MaxOpens : closes[i] <= 1

LEMMA DryInit == Init => DryInv
<1> SUFFICES ASSUME Init PROVE DryInv
  OBVIOUS
<1>1. Tracked = {}
  BY DEF Init, Tracked, Absent, Vacant
<1>2. RunsThrough /\ Undisturbed
  BY RequestsAssumption
     DEF Init, RunsThrough, Undisturbed, SigIdle, LoopAsleep, EmerIdle
<1> QED
  BY <1>1, <1>2 DEF Init, DryInv

LEMMA ModeFixed == [Next]_vars => dryRun' = dryRun
BY DEF Next, vars, OnSignal, EquityReturned, OrderReturned,
   TakeProfitReturned, OrderRaised, EntryAlertsSent, LoopTurn, LoopWake,
   LoopSkip, LoopHold, LoopClose, LoopAlertsSent, LoopRaises, LoopFinish,
   EmergencyStart, EmergencyTurn, EmergencyClose, EmergencyKeyError,
   EmergencyAlertsSent, EmergencyPop, UpdateLimit, Expire

\* One entry changes and is not removed.
LEMMA OneEntry ==
  ASSUME TypeOK, NEW c \in Tracked, NEW p, p.status # "ABSENT",
         positions' = [positions EXCEPT ![c] = p]
  PROVE  /\ Tracked' = Tracked /\ positions'[c] = p
         /\ \A d \in Coins : d # c => positions'[d] = positions[d]
BY DEF TypeOK, Tracked

\* An open position is closed: it is recorded for the first time.
LEMMA FirstClose ==
  ASSUME TypeOK, HistoryInv, \A i \in 1 .. MaxOpens : closes[i] <= 1,
         NEW c \in Tracked, positions[c].status = "OPEN",
         closes' = InHistory(positions[c].id)
  PROVE  \A i \in 1 .. MaxOpens : closes'[i] <= 1
<1>1. c \in Coins /\ positions[c].id \in 1 .. opened /\ opened \in 0 .. MaxOpens
  BY DEF HistoryInv, IdInv, Tracked, TypeOK
<1>2. positions[c].id \in 0 .. MaxOpens
  BY <1>1, TargetsAssumption
<1>3. closes[positions[c].id] = 0
  BY <1>1 DEF HistoryInv, HistoryMatches
<1>4. ASSUME NEW i \in 1 .. MaxOpens PROVE closes'[i] <= 1
  <2>1. closes'[i] = IF i = positions[c].id THEN closes[i] + 1 ELSE closes[i]
    BY <1>2, HistoryCounts DEF TypeOK
  <2>2. closes[i] \in Nat /\ closes[i] <= 1
    BY DEF TypeOK
  <2> QED
    BY <1>3, <2>1, <2>2
<1> QED
  BY <1>4

LEMMA DryLoopStep ==
  ASSUME TypeOK, HistoryInv, DryInv, dryRun, dryRun', LoopTurn
  PROVE  DryInv'
<1>1. /\ RunsThrough /\ Undisturbed
      /\ \A c \in Tracked : positions[c].status = "OPEN" \/ Removing(c)
      /\ \A i \in 1 .. MaxOpens : closes[i] <= 1
  BY DEF DryInv
<1>2. /\ "none" \notin Requests /\ "loop" \notin Requests
  BY RequestsAssumption
<1>3. loop \in LoopState
  BY DEF TypeOK
<1>4. CASE LoopWake
  <2>1. /\ UNCHANGED <<positions, closes, sig, emer>> /\ cpu = "none" /\ cpu' = "loop"
        /\ loop' = [pc |-> "iterate", size |-> Cardinality(Tracked),
                    visited |-> {}, popped |-> FALSE, closed |-> <<>>]
    BY <1>4 DEF LoopWake
  <2>2. RunsThrough'
    BY <1>1, <1>2, <2>1 DEF RunsThrough
  <2>3. Undisturbed'
    BY <1>2, <2>1 DEF Undisturbed, SizeUnchanged, Tracked
  <2>4. \A c \in Tracked' : positions'[c].status = "OPEN"
    BY <1>1, <1>2, <2>1 DEF Tracked, Removing
  <2> QED
    BY <1>1, <2>1, <2>2, <2>3, <2>4 DEF DryInv
<1>5. ASSUME NEW c \in Coins, LoopSkip(c) PROVE DryInv'
  <2>1. /\ UNCHANGED <<positions, closes, sig, emer, cpu>> /\ cpu = "loop"
        /\ loop'.pc = loop.pc /\ loop'.size = loop.size /\ loop'.closed = loop.closed
        /\ loop'.popped = loop.popped
    BY <1>3, <1>5 DEF LoopSkip, LoopVisit, LoopState
  <2>2. RunsThrough' /\ Undisturbed' /\ Tracked' = Tracked
    BY <1>1, <1>2, <2>1 DEF RunsThrough, Undisturbed, SizeUnchanged, Tracked
  <2>3. \A d : Removing(d) => Removing(d)'
    BY <2>1 DEF Removing
  <2> QED
    BY <1>1, <2>1, <2>2, <2>3 DEF DryInv
<1>6. ASSUME NEW c \in Coins, NEW price \in Prices, LoopHold(c, price) PROVE DryInv'
  <2>1. /\ UNCHANGED <<closes, sig, emer, cpu>> /\ cpu = "loop" /\ c \in Tracked
        /\ loop'.pc = loop.pc /\ loop'.size = loop.size /\ loop'.closed = loop.closed
        /\ loop'.popped = loop.popped
        /\ positions[c].status = "OPEN"
        /\ positions' = [positions EXCEPT ![c] = Trail(Mark(positions[c], price), price)]
    BY <1>3, <1>6 DEF LoopHold, LoopVisit, LoopState
  <2>2. Trail(Mark(positions[c], price), price).status = "OPEN"
    <3>1. /\ Mark(positions[c], price) \in Position
          /\ Mark(positions[c], price).status = "OPEN"
      BY <2>1, MarkIsPosition DEF TypeOK, Position
    <3> QED
      BY <3>1 DEF Trail, Position
  <2>3. /\ Tracked' = Tracked /\ positions'[c].status = "OPEN"
        /\ \A d \in Coins : d # c => positions'[d] = positions[d]
    BY <2>1, <2>2, OneEntry
  <2>4. RunsThrough'
    BY <1>1, <2>1 DEF RunsThrough
  <2>5. \A n \in DOMAIN loop.closed : loop.closed[n] \in Coins
    BY <1>3 DEF LoopState
  <2>6. Undisturbed'
    BY <1>1, <1>2, <2>1, <2>3, <2>5 DEF Undisturbed, SizeUnchanged
  <2>7. \A d : Removing(d) => Removing(d)'
    BY <2>1 DEF Removing
  <2>8. \A d \in Tracked' : positions'[d].status = "OPEN" \/ Removing(d)'
    BY <1>1, <2>3, <2>7 DEF Tracked
  <2> QED
    BY <1>1, <2>1, <2>4, <2>6, <2>8 DEF DryInv
<1>7. ASSUME NEW c \in Coins, NEW price \in Prices, LoopClose(c, price) PROVE DryInv'
  <2> DEFINE p == Mark(positions[c], price)
  <2>1. /\ UNCHANGED <<sig, emer>> /\ cpu = "loop" /\ cpu' = "loop" /\ c \in Tracked
        /\ positions[c].status = "OPEN"
        /\ positions' = [positions EXCEPT ![c] = Closed(p)] /\ closes' = InHistory(p.id)
    BY <1>7 DEF LoopClose, LoopVisit
  <2>2. /\ loop'.pc = "iterate" /\ loop'.size = loop.size /\ loop'.popped = loop.popped
        /\ loop'.closed = Append(loop.closed, c) /\ loop.closed \in Seq(Coins)
    BY <1>3, <1>7 DEF LoopClose, LoopState
  <2>3. p.id = positions[c].id
    BY <2>1, MarkIsPosition DEF TypeOK, Position
  <2>4. /\ Tracked' = Tracked /\ positions'[c].status = "CLOSED"
        /\ \A d \in Coins : d # c => positions'[d] = positions[d]
    <3>1. Closed(p).status = "CLOSED"
      BY DEF Closed, Vacant
    <3> QED
      BY <2>1, <3>1, OneEntry
  <2>5. RunsThrough'
    BY <1>1, <2>1, <2>2 DEF RunsThrough
  <2>6. /\ \A n \in DOMAIN loop.closed :
             loop'.closed[n] = loop.closed[n] /\ loop.closed[n] \in Coins
        /\ DOMAIN loop'.closed = DOMAIN loop.closed \cup {Len(loop.closed) + 1}
        /\ loop'.closed[Len(loop.closed) + 1] = c
        /\ DOMAIN loop.closed = 1 .. Len(loop.closed) /\ Len(loop.closed) \in Nat
    BY <2>2
  <2>7. \A n \in DOMAIN loop.closed :
          /\ positions[loop.closed[n]].status = "CLOSED"
          /\ \A k \in 1 .. n - 1 : loop.closed[k] # loop.closed[n]
    BY <1>1, <2>1 DEF Undisturbed
  <2>8. ASSUME NEW n \in DOMAIN loop'.closed
        PROVE  /\ positions'[loop'.closed[n]].status = "CLOSED"
               /\ \A k \in 1 .. n - 1 : loop'.closed[k] # loop'.closed[n]
    <3>1. CASE n \in DOMAIN loop.closed
      BY <2>1, <2>4, <2>6, <2>7, <3>1
    <3>2. CASE n = Len(loop.closed) + 1
      <4>1. \A k \in 1 .. n - 1 : k \in DOMAIN loop.closed
        BY <2>6, <3>2
      <4> QED
        BY <2>1, <2>4, <2>6, <2>7, <3>2, <4>1
    <3> QED
      BY <2>6, <3>1, <3>2
  <2>9. SizeUnchanged'
    BY <1>1, <2>1, <2>2, <2>4 DEF Undisturbed, SizeUnchanged
  <2>10. Undisturbed'
    BY <1>1, <1>2, <2>1, <2>2, <2>8, <2>9 DEF Undisturbed
  <2>11. \A d : Removing(d) \/ d = c => Removing(d)'
    BY <1>2, <2>1, <2>6 DEF Removing
  <2>12. \A d \in Tracked' : positions'[d].status = "OPEN" \/ Removing(d)'
    BY <1>1, <2>4, <2>11 DEF Tracked
  <2>13. \A i \in 1 .. MaxOpens : closes'[i] <= 1
    BY <1>1, <2>1, <2>3, FirstClose
  <2> QED
    BY <2>5, <2>10, <2>12, <2>13 DEF DryInv
<1>8. ~LoopAlertsSent /\ ~LoopRaises
  BY <1>1 DEF LoopAlertsSent, LoopRaises, RunsThrough, Undisturbed
<1>9. CASE LoopFinish
  <2>1. /\ UNCHANGED <<closes, sig, emer>> /\ cpu = "loop" /\ cpu' = "none"
        /\ loop' = LoopAsleep /\ positions' = Without(Deletable(loop.closed))
    BY <1>9 DEF LoopFinish
  <2>2. RunsThrough'
    BY <1>1, <1>2, <2>1 DEF RunsThrough, LoopAsleep
  <2>3. Undisturbed'
    BY <1>2, <2>1 DEF Undisturbed
  <2>4. ASSUME NEW n \in DOMAIN loop.closed PROVE loop.closed[n] \in Deletable(loop.closed)
    <3>1. DOMAIN loop.closed = 1 .. Len(loop.closed) /\ Len(loop.closed) \in Nat
          /\ \A j \in DOMAIN loop.closed : loop.closed[j] \in Coins
      BY <1>3 DEF LoopState
    <3>2. \A j \in 1 .. n : j \in DOMAIN loop.closed
      BY <3>1
    <3>3. \A j \in 1 .. n : /\ loop.closed[j] \in Tracked
                            /\ \A k \in 1 .. j - 1 : loop.closed[k] # loop.closed[j]
      BY <1>1, <2>1, <3>1, <3>2 DEF Undisturbed, Tracked
    <3> QED
      BY <3>3 DEF Deletable
  <2>5. \A c \in Tracked' : positions'[c].status = "OPEN"
    <3> SUFFICES ASSUME NEW c \in Tracked' PROVE positions'[c].status = "OPEN"
      OBVIOUS
    <3>1. c \in Tracked /\ positions'[c] = positions[c] /\ c \notin Deletable(loop.closed)
      BY <2>1 DEF Without, Tracked, Absent, Vacant
    <3>2. ~Removing(c)
      BY <1>2, <2>1, <2>4, <3>1 DEF Removing
    <3> QED
      BY <1>1, <3>1, <3>2
  <2> QED
    BY <1>1, <2>1, <2>2, <2>3, <2>5 DEF DryInv
<1> QED
  BY <1>4, <1>5, <1>6, <1>7, <1>8, <1>9 DEF LoopTurn

LEMMA DryEmergencyStep ==
  ASSUME TypeOK, HistoryInv, DryInv, dryRun, dryRun',
         NEW r \in Requests, EmergencyStart(r) \/ EmergencyTurn(r)
  PROVE  DryInv'
<1>1. /\ RunsThrough /\ Undisturbed
      /\ \A c \in Tracked : positions[c].status = "OPEN" \/ Removing(c)
      /\ \A i \in 1 .. MaxOpens : closes[i] <= 1
  BY DEF DryInv
<1>2. /\ "none" \notin Requests /\ "loop" \notin Requests
      /\ r # "none" /\ r # "loop"
  BY RequestsAssumption
<1>3. emer \in [Requests -> EmerState] /\ emer[r] \in EmerState
  BY DEF TypeOK
<1>4. CASE EmergencyStart(r)
  <2>1. /\ UNCHANGED <<positions, closes, sig, loop>> /\ cpu = "none" /\ cpu' = r
        /\ emer' = [emer EXCEPT ![r] = [pc |-> "next", coins |-> Tracked, todo |-> Tracked]]
    BY <1>4 DEF EmergencyStart
  <2>2. emer'[r] = [pc |-> "next", coins |-> Tracked, todo |-> Tracked]
        /\ \A q \in Requests : q # r => emer'[q] = emer[q]
    BY <1>3, <2>1
  <2>3. RunsThrough'
    BY <1>1, <1>2, <2>1, <2>2 DEF RunsThrough
  <2>4. \A c \in Tracked : positions[c].status = "OPEN"
    BY <1>1, <1>2, <2>1 DEF Removing
  <2>5. Undisturbed' /\ Tracked' = Tracked
    BY <1>2, <2>1, <2>2, <2>4 DEF Undisturbed, Tracked
  <2> QED
    BY <1>1, <2>1, <2>3, <2>4, <2>5 DEF DryInv
<1>5. ASSUME NEW c \in Coins, EmergencyClose(r, c) PROVE DryInv'
  <2>1. /\ UNCHANGED <<sig, loop>> /\ cpu = r /\ cpu' = r /\ emer[r].pc = "next"
        /\ c \in Tracked /\ c \in emer[r].todo
        /\ positions' = [positions EXCEPT ![c] = Closed(positions[c])]
        /\ closes' = InHistory(positions[c].id)
        /\ emer' = [emer EXCEPT ![r].todo = @ \ {c}, ![r].pc = "next"]
    BY <1>5 DEF EmergencyClose
  <2>2. /\ emer'[r].pc = "next" /\ emer'[r].coins = emer[r].coins
        /\ emer'[r].todo = emer[r].todo \ {c}
        /\ \A q \in Requests : q # r => emer'[q] = emer[q]
    BY <1>3, <2>1 DEF EmerState
  <2>3. positions[c].status = "OPEN" /\ emer[r].coins = Tracked /\ emer[r].todo \subseteq Tracked
        /\ \A d \in emer[r].todo : positions[d].status = "OPEN"
    BY <1>1, <2>1 DEF Undisturbed
  <2>4. /\ Tracked' = Tracked
        /\ \A d \in Coins : d # c => positions'[d] = positions[d]
    <3>1. Closed(positions[c]).status # "ABSENT"
      BY DEF Closed, Vacant
    <3> QED
      BY <2>1, <3>1, OneEntry
  <2>5. RunsThrough'
    BY <1>1, <1>2, <2>1, <2>2 DEF RunsThrough
  <2>6. Undisturbed'
    BY <1>2, <2>1, <2>2, <2>3, <2>4 DEF Undisturbed, Tracked
  <2>7. \A d : Removing(d) \/ d = c => Removing(d)'
    BY <1>2, <2>1, <2>2 DEF Removing
  <2>8. \A d \in Tracked' : positions'[d].status = "OPEN" \/ Removing(d)'
    BY <1>1, <2>4, <2>7 DEF Tracked
  <2>9. \A i \in 1 .. MaxOpens : closes'[i] <= 1
    BY <1>1, <2>1, <2>3, FirstClose
  <2> QED
    BY <2>5, <2>6, <2>8, <2>9 DEF DryInv
<1>6. ~EmergencyAlertsSent(r) /\ \A c \in Coins : ~EmergencyKeyError(r, c)
  BY <1>1 DEF EmergencyAlertsSent, EmergencyKeyError, RunsThrough, Undisturbed
<1>7. CASE EmergencyPop(r)
  <2>1. /\ UNCHANGED <<closes, sig>> /\ cpu = r /\ cpu' = "none"
        /\ positions' = Without(emer[r].coins)
        /\ emer'[r].pc = "done" /\ \A q \in Requests : q # r => emer'[q] = emer[q]
        /\ loop'.pc = loop.pc
    BY <1>3, <1>7 DEF EmergencyPop, EmerIdle, TypeOK, LoopState
  <2>2. emer[r].coins = Tracked
    BY <1>1, <2>1 DEF Undisturbed
  <2>3. Tracked' = {}
    BY <2>1, <2>2 DEF Without, Tracked, Absent, Vacant
  <2>4. RunsThrough'
    BY <1>1, <1>2, <2>1 DEF RunsThrough
  <2>5. Undisturbed'
    BY <1>2, <2>1 DEF Undisturbed
  <2> QED
    BY <1>1, <2>1, <2>3, <2>4, <2>5 DEF DryInv
<1> QED
  BY <1>4, <1>5, <1>6, <1>7 DEF EmergencyTurn

LEMMA DryStep == TypeOK /\ HistoryInv /\ DryInv /\ [Next]_vars => DryInv'
<1> SUFFICES ASSUME TypeOK, HistoryInv, DryInv, [Next]_vars, dryRun PROVE DryInv'
  BY ModeFixed DEF DryInv
<1>1. /\ RunsThrough /\ Undisturbed
      /\ \A c \in Tracked : positions[c].status = "OPEN" \/ Removing(c)
      /\ \A i \in 1 .. MaxOpens : closes[i] <= 1
  BY DEF DryInv
<1>2. dryRun' /\ "none" \notin Requests /\ "loop" # "none"
  BY ModeFixed, RequestsAssumption
<1>3. ASSUME cpu = "none", UNCHANGED <<closes, sig, loop, emer, cpu>>,
             \A c \in Tracked' : positions'[c].status = "OPEN"
      PROVE  DryInv'
  <2>1. RunsThrough'
    BY <1>1, <1>3 DEF RunsThrough
  <2>2. Undisturbed'
    BY <1>2, <1>3 DEF Undisturbed
  <2> QED
    BY <1>1, <1>3, <2>1, <2>2 DEF DryInv
<1>4. cpu = "none" => \A c \in Tracked : positions[c].status = "OPEN"
  BY <1>1, <1>2 DEF Removing
<1>5. ASSUME NEW s \in Signals, OnSignal(s) PROVE DryInv'
  <2>1. /\ cpu = "none" /\ UNCHANGED <<closes, sig, loop, emer, cpu>>
        /\ positions' = [positions EXCEPT ![s.coin] = NewPosition(s, opened')]
    BY <1>5 DEF OnSignal
  <2>2. \A c \in Tracked' : positions'[c].status = "OPEN"
    <3>1. NewPosition(s, opened').status = "OPEN"
      BY DEF NewPosition
    <3>2. \A c \in Coins : positions'[c] = IF c = s.coin THEN NewPosition(s, opened')
                                                         ELSE positions[c]
      BY <2>1 DEF TypeOK
    <3> QED
      BY <1>4, <2>1, <3>1, <3>2 DEF Tracked
  <2> QED
    BY <1>3, <2>1, <2>2
<1>6. ~(EquityReturned \/ OrderReturned \/ TakeProfitReturned \/ OrderRaised \/ EntryAlertsSent)
  BY <1>1 DEF EquityReturned, OrderReturned, TakeProfitReturned, OrderRaised,
       EntryAlertsSent, RunsThrough
<1>7. CASE LoopTurn
  BY <1>2, <1>7, DryLoopStep
<1>8. ASSUME NEW r \in Requests, EmergencyStart(r) \/ EmergencyTurn(r) PROVE DryInv'
  BY <1>2, <1>8, DryEmergencyStep
<1>9. ASSUME NEW n \in Limits, UpdateLimit(n) PROVE DryInv'
  <2>1. cpu = "none" /\ UNCHANGED <<positions, closes, sig, loop, emer, cpu>>
    BY <1>9 DEF UpdateLimit
  <2>2. Tracked' = Tracked
    BY <2>1 DEF Tracked
  <2> QED
    BY <1>3, <1>4, <2>1, <2>2
<1>10. ASSUME NEW c \in Coins, Expire(c) PROVE DryInv'
  <2>1. /\ cpu = "none" /\ UNCHANGED <<closes, sig, loop, emer, cpu>>
        /\ positions' = [positions EXCEPT ![c].stale = TRUE]
    BY <1>10 DEF Expire
  <2>2. \A d \in Coins : positions'[d].status = positions[d].status
    BY <2>1 DEF TypeOK, Position
  <2> QED
    BY <1>3, <1>4, <2>1, <2>2 DEF Tracked
<1>11. CASE UNCHANGED vars
  BY <1>1, <1>2, <1>11 DEF vars, DryInv, RunsThrough, Undisturbed, SizeUnchanged,
       Tracked, Removing
<1> QED
  BY <1>5, <1>6, <1>7, <1>8, <1>9, <1>10, <1>11 DEF Next

\* In a dry run the dict holds open positions only and every closed one was
\* recorded exactly once, whenever no coroutine is running: signals, the loop's
\* iterations with their deletions and the emergency closes have the dict to
\* themselves, as none of their awaits is reached.
THEOREM DryRunTableCleanHolds == Spec => []DryRunTableClean
<1>1. TypeOK /\ HistoryInv /\ DryInv /\ [Next]_vars => TypeOK' /\ HistoryInv' /\ DryInv'
  BY TypeStep, HistoryStep, DryStep
<1>2. DryInv => DryRunTableClean
  BY RequestsAssumption DEF DryInv, DryRunTableClean, Removing
<1> QED
  BY <1>1, <1>2, TypeInit, HistoryInit, DryInit, PTL DEF Spec

=============================================================================
