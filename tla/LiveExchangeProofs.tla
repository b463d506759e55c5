------------------------- MODULE LiveExchangeProofs -------------------------
(* Proofs about LiveExchange: it refines TradeLoop, so that what is proved *)
(* there carries over; a dry run leaves the account alone; of an entry in  *)
(* the table the account holds what the bot believes, and of an account    *)
(* that moves the bot has a record.                                        *)
EXTENDS LiveExchange, TradeLoopProofs

LEMMA LiveStepIsStep == [LiveNext]_liveVars => [Next]_vars
<1>1. ASSUME NEW i \in 1 .. MaxOpens,
             EntryFills(i) \/ LegTriggers(i, "sl") \/ LegTriggers(i, "tp")
      PROVE  UNCHANGED vars
  BY <1>1 DEF EntryFills, LegTriggers
<1>2. ASSUME NEW s \in Signals, LiveSignal(s) PROVE Next
  BY <1>2 DEF LiveSignal, Next
<1>3. LiveOrderReturned \/ LiveTakeProfitReturned \/ LiveOrderRaised => Next
  BY DEF LiveOrderReturned, LiveTakeProfitReturned, LiveOrderRaised, Next
<1>4. LocalStep => Next
  BY DEF LocalStep, Next
<1>5. UNCHANGED liveVars => UNCHANGED vars
  BY DEF liveVars, vars
<1> QED
  BY <1>1, <1>2, <1>3, <1>4, <1>5 DEF LiveNext

\* With the exchange, the bot behaves as TradeLoop says: the exchange adds no
\* step of its own to the position lifecycle.
THEOREM LiveImplementsLoop == LiveSpec => Spec
<1>1. LiveInit => Init
  BY DEF LiveInit
<1> QED
  BY <1>1, LiveStepIsStep, PTL DEF LiveSpec, Spec

\* The dict of the live system never outgrows the largest limit and implements
\* the pool of slots, its trailed stops lock a profit and never loosen, its
\* history matches, and in a dry run it keeps no entry that is closed.
THEOREM LiveLoopInvariants ==
  LiveSpec => /\ [](SlotLimit /\ TrailLocksProfit /\ HistoryMatches /\ DryRunTableClean)
              /\ StopNeverLoosens
              /\ ImplementsSlots
BY LiveImplementsLoop, SlotLimitHolds, TrailLocksProfitHolds, HistoryMatchesHolds,
   DryRunTableCleanHolds, StopNeverLoosensHolds, SlotsImplemented, PTL

----------------------------------------------------------------------------
(* A dry run and the account                                               *)

\* In a dry run no on_signal is ever suspended, so none can be placing orders.
DryRunInv ==
  dryRun => /\ sig.pc = "idle"
            /\ \A i \in 1 .. MaxOpens :
                 /\ account[i].held = FALSE /\ account[i].orders = {}
                 /\ account[i] \in Account

LEMMA DryRunStep == TypeOK /\ DryRunInv /\ [LiveNext]_liveVars => DryRunInv'
<1> SUFFICES ASSUME TypeOK, DryRunInv, [LiveNext]_liveVars, dryRun' PROVE DryRunInv'
  BY DEF DryRunInv
<1>1. ASSUME NEW s \in Signals, LiveSignal(s), dryRun PROVE DryRunInv'
  <2>1. /\ sig' = sig /\ account' = [account EXCEPT ![opened'].signal = s]
    BY <1>1 DEF LiveSignal, OnSignal
  <2> QED
    BY <1>1, <2>1 DEF DryRunInv, Account
<1>2. ASSUME NEW i \in 1 .. MaxOpens, dryRun
      PROVE  ~EntryFills(i) /\ ~LegTriggers(i, "sl") /\ ~LegTriggers(i, "tp")
  BY <1>2 DEF EntryFills, LegTriggers, DryRunInv
<1>3. CASE LiveOrderReturned \/ LiveTakeProfitReturned \/ LiveOrderRaised
  BY <1>3 DEF LiveOrderReturned, LiveTakeProfitReturned, LiveOrderRaised,
       OrderReturned, TakeProfitReturned, OrderRaised, DryRunInv
<1>4. ASSUME LocalStep, dryRun PROVE sig' = sig /\ account' = account
  <2>1. ~EquityReturned /\ ~EntryAlertsSent
    BY <1>4 DEF EquityReturned, EntryAlertsSent, DryRunInv
  <2>2. LoopTurn => sig' = sig
    BY DEF LoopTurn, LoopWake, LoopSkip, LoopHold, LoopClose, LoopAlertsSent,
       LoopRaises, LoopFinish
  <2>3. ASSUME NEW r \in Requests, EmergencyStart(r) \/ EmergencyTurn(r)
        PROVE  sig' = sig
    BY <2>3 DEF EmergencyStart, EmergencyTurn, EmergencyClose,
         EmergencyKeyError, EmergencyAlertsSent, EmergencyPop
  <2>4. \A n \in Limits : UpdateLimit(n) => sig' = sig
    BY DEF UpdateLimit
  <2>5. \A c \in Coins : Expire(c) => sig' = sig
    BY DEF Expire
  <2> QED
    BY <1>4, <2>1, <2>2, <2>3, <2>4, <2>5 DEF LocalStep
<1>5. CASE UNCHANGED liveVars
  BY <1>5 DEF liveVars, DryRunInv
<1>6. dryRun
  BY ModeFixed, LiveStepIsStep
<1> QED
  BY <1>1, <1>2, <1>3, <1>4, <1>5, <1>6 DEF LiveNext, DryRunInv

\* A dry run never has an order or a position on the exchange.
THEOREM DryRunSendsNothingHolds == LiveSpec => []DryRunSendsNothing
<1>1. LiveInit => DryRunInv
  BY AnySignalInSignals DEF LiveInit, Init, DryRunInv, SigIdle, NoAccount, Account
<1>2. DryRunInv => DryRunSendsNothing
  BY DEF DryRunInv, DryRunSendsNothing
<1>3. LiveInit => TypeOK
  BY TypeInit DEF LiveInit
<1>4. TypeOK /\ DryRunInv /\ [LiveNext]_liveVars => TypeOK' /\ DryRunInv'
  BY LiveStepIsStep, TypeStep, DryRunStep
<1> QED
  BY <1>1, <1>2, <1>3, <1>4, PTL DEF LiveSpec

----------------------------------------------------------------------------
(* What the account and the dict have in common                            *)

AccountOK == account \in [1 .. MaxOpens -> Account]

\* The entry was filled and not closed since, or can still be.
Guarded(i) == Exposed(i) => "sl" \in account[i].orders \/ account[i].refused

\* What the account holds of a position at each point of its placement: nothing
\* before the entry is answered, and a stop-loss, or its refusal, once the
\* stop-loss is;  an entry fills only once.
GuardInv ==
  /\ \A i \in 1 .. MaxOpens :
       /\ ~(account[i].held /\ "entry" \in account[i].orders)
       /\ i > opened \/ (i = opened /\ sig.pc \in {"equity", "entry"}) => ~Exposed(i)
  /\ sig.pc = "tp" => Guarded(opened)
  /\ \A c \in Tracked : Guarded(positions[c].id)

\* The record of the signals agrees with the dict and with on_signal.
OwnSignals ==
  /\ \A c \in Tracked : account[positions[c].id].signal.coin = c
  /\ InFlight => account[opened].signal.coin = sig.s.coin

\* A position of c is in the closed history.
Recorded(c) ==
  \E id \in 1 .. opened : closes[id] > 0 /\ account[id].signal.coin = c

\* What the loop and the emergency closes are going to delete they have closed
\* first, though another position may have taken the place since.
RemovalsRecorded ==
  /\ \A n \in DOMAIN loop.closed : Recorded(loop.closed[n])
  /\ \A r \in Requests : \A c \in emer[r].coins \ emer[r].todo : Recorded(c)

Sole(i) ==
  \A j \in 1 .. opened : account[j].signal.coin = account[i].signal.coin => j = i

Accounted(i) ==
  \/ positions[account[i].signal.coin].id = i
  \/ Placing(i)
  \/ closes[i] > 0
  \/ account[i].raised

LiveInv ==
  /\ AccountOK
  /\ GuardInv
  /\ OwnSignals
  /\ RemovalsRecorded
  /\ SoleEntryAccounted

LEMMA LiveInvInit == LiveInit => LiveInv
<1> SUFFICES ASSUME LiveInit PROVE LiveInv
  OBVIOUS
<1>1. /\ account = [i \in 1 .. MaxOpens |-> NoAccount] /\ Tracked = {} /\ sig.pc = "idle"
      /\ opened = 0 /\ loop.closed = <<>> /\ \A r \in Requests : emer[r].coins = {}
  BY DEF LiveInit, Init, Tracked, Absent, Vacant, SigIdle, LoopAsleep, EmerIdle
<1>2. AccountOK
  BY <1>1, AnySignalInSignals DEF AccountOK, NoAccount, Account
<1>3. GuardInv
  BY <1>1 DEF GuardInv, NoAccount, Exposed
<1>4. OwnSignals /\ RemovalsRecorded /\ SoleEntryAccounted
  BY <1>1 DEF OwnSignals, InFlight, RemovalsRecorded, SoleEntryAccounted
<1> QED
  BY <1>2, <1>3, <1>4 DEF LiveInv

\* The orders of one position: what an answer can make of them.
LEMMA AnswerIs ==
  ASSUME NEW a \in Account, NEW leg \in Legs, NEW acc \in Accepts(a, leg) \cup Refuses(a, leg)
  PROVE  /\ acc \in Account /\ acc.signal = a.signal /\ acc.raised = a.raised
         /\ a.refused => acc.refused
         /\ acc.held => a.held \/ leg = "entry"
         /\ a.orders \subseteq acc.orders /\ acc.orders \subseteq a.orders \cup {leg}
         /\ acc.held /\ "entry" \in acc.orders => a.held \/ "entry" \in a.orders
         /\ leg = "sl" => "sl" \in acc.orders \/ acc.refused
<1>1. CASE acc = [a EXCEPT !.orders = @ \cup {leg}]
  BY <1>1 DEF Account, Legs
<1>2. CASE leg = "entry" /\ acc = [a EXCEPT !.held = TRUE]
  BY <1>2 DEF Account, Legs
<1>3. CASE acc = [a EXCEPT !.refused = @ \/ leg = "sl"]
  BY <1>3 DEF Account, Legs
<1> QED
  BY <1>1, <1>2, <1>3 DEF Accepts, Refuses

\* Only the account of the position that is being placed changes.
LEMMA AnsweredIs ==
  ASSUME AccountOK, opened \in 1 .. MaxOpens, NEW leg \in Legs, Answered(leg)
  PROVE  LET a == account[opened]
             b == account'[opened]
         IN  /\ AccountOK' /\ \A i \in (1 .. MaxOpens) \ {opened} : account'[i] = account[i]
             /\ b.signal = a.signal /\ b.raised = a.raised
             /\ a.refused => b.refused
             /\ b.held => a.held \/ leg = "entry"
             /\ a.orders \subseteq b.orders /\ b.orders \subseteq a.orders \cup {leg}
             /\ b.held /\ "entry" \in b.orders => a.held \/ "entry" \in a.orders
             /\ leg = "sl" => "sl" \in b.orders \/ b.refused
<1>1. PICK acc \in Accepts(account[opened], leg) \cup Refuses(account[opened], leg) :
             account' = [account EXCEPT ![opened] = acc]
  BY DEF Answered
<1>2. account[opened] \in Account
  BY DEF AccountOK
<1>3. acc \in Account
  BY <1>2, AnswerIs
<1>4. /\ account'[opened] = acc /\ account' \in [1 .. MaxOpens -> Account]
      /\ \A i \in (1 .. MaxOpens) \ {opened} : account'[i] = account[i]
  BY <1>1, <1>3 DEF AccountOK
<1> QED
  BY <1>2, <1>4, AnswerIs DEF AccountOK

LEMMA RaisedIs ==
  ASSUME AccountOK, opened \in 1 .. MaxOpens, NEW leg \in Legs, Raised(leg)
  PROVE  LET a == account[opened]
             b == account'[opened]
         IN  /\ AccountOK' /\ \A i \in (1 .. MaxOpens) \ {opened} : account'[i] = account[i]
             /\ b.signal = a.signal /\ b.raised
             /\ b.held /\ "entry" \in b.orders => a.held \/ "entry" \in a.orders
             /\ b.held => a.held \/ leg = "entry"
             /\ b.orders \subseteq a.orders \cup {leg}
<1>1. PICK acc \in Accepts(account[opened], leg) \cup {account[opened]} :
             account' = [account EXCEPT ![opened] = [acc EXCEPT !.raised = TRUE]]
  BY DEF Raised
<1>2. account[opened] \in Account
  BY DEF AccountOK
<1>3. /\ acc \in Account /\ acc.signal = account[opened].signal
      /\ acc.held => account[opened].held \/ leg = "entry"
      /\ acc.held /\ "entry" \in acc.orders
           => account[opened].held \/ "entry" \in account[opened].orders
      /\ acc.orders \subseteq account[opened].orders \cup {leg}
  <2>1. CASE acc = account[opened]
    BY <1>2, <2>1
  <2>2. CASE acc \in Accepts(account[opened], leg)
    BY <1>2, <2>2, AnswerIs
  <2> QED
    BY <1>1, <2>1, <2>2
<1>4. [acc EXCEPT !.raised = TRUE] \in Account
  BY <1>3 DEF Account
<1>5. /\ account'[opened] = [acc EXCEPT !.raised = TRUE]
      /\ account' \in [1 .. MaxOpens -> Account]
      /\ \A i \in (1 .. MaxOpens) \ {opened} : account'[i] = account[i]
  BY <1>1, <1>4 DEF AccountOK
<1>6. LET b == account'[opened]
      IN  b.signal = acc.signal /\ b.raised /\ b.held = acc.held /\ b.orders = acc.orders
  BY <1>3, <1>5 DEF Account
<1> QED
  BY <1>3, <1>5, <1>6 DEF AccountOK

\* What is in the history stays there.
LEMMA RecordedStays ==
  ASSUME TypeOK, opened' \in {opened, opened + 1},
         \A i \in 1 .. opened : account'[i].signal = account[i].signal,
         \A i \in 1 .. opened : closes[i] > 0 => closes'[i] > 0
  PROVE  \A c : Recorded(c) => Recorded(c)'
<1>1. \A i \in 1 .. opened : i \in 1 .. opened'
  BY TargetsAssumption DEF TypeOK
<1> QED
  BY <1>1 DEF Recorded

\* A sole position that was accounted for stays so when its entry stays or has
\* been recorded, and its placement goes on or has come to an end.
LEMMA StaysAccounted ==
  ASSUME TypeOK, SoleEntryAccounted, opened' \in {opened, opened + 1},
         NEW i \in 1 .. opened, Exposed(i), Sole(i)',
         \A j \in 1 .. opened : account'[j].signal = account[j].signal,
         \A j \in 1 .. opened : closes[j] > 0 => closes'[j] > 0,
         account[i].raised => account'[i].raised,
         Placing(i) => Accounted(i)',
         LET c == account[i].signal.coin
         IN  positions'[c].id = positions[c].id \/ Recorded(c)
  PROVE  Accounted(i)'
<1>1. \A j \in 1 .. opened : j \in 1 .. opened'
  BY TargetsAssumption DEF TypeOK
<1>2. Sole(i)
  BY <1>1 DEF Sole
<1>3. Accounted(i)
  BY <1>2 DEF SoleEntryAccounted, Sole, Accounted
<1>4. Recorded(account[i].signal.coin) => closes[i] > 0
  BY <1>2 DEF Recorded, Sole
<1> QED
  BY <1>3, <1>4 DEF Accounted

LEMMA OpenedIs ==
  ASSUME TypeOK, HistoryInv
  PROVE  /\ opened \in Nat /\ 1 .. opened \subseteq 1 .. MaxOpens
         /\ InFlight => opened \in 1 .. MaxOpens
         /\ \A c \in Tracked : positions[c].id \in 1 .. MaxOpens
         /\ InFlight => \A c \in Tracked : positions[c].id # opened
<1>1. opened \in Nat /\ 1 .. opened \subseteq 1 .. MaxOpens
  BY TargetsAssumption DEF TypeOK
<1> QED
  BY <1>1 DEF HistoryInv, IdInv

\* A step that leaves the coroutines' lists of coins alone.
LEMMA ListsStay ==
  ASSUME TypeOK, RemovalsRecorded, opened' \in {opened, opened + 1},
         \A i \in 1 .. opened : account'[i].signal = account[i].signal,
         \A i \in 1 .. opened : closes[i] > 0 => closes'[i] > 0,
         loop'.closed = loop.closed, emer' = emer
  PROVE  RemovalsRecorded'
BY RecordedStays DEF RemovalsRecorded

----------------------------------------------------------------------------
(* The orders of on_signal                                                 *)

LEMMA LiveSignalInv ==
  ASSUME TypeOK, HistoryInv, LiveInv, NEW s \in Signals, LiveSignal(s)
  PROVE  LiveInv'
<1> USE DEF LiveInv
<1>1. /\ opened \in Nat /\ opened' = opened + 1 /\ opened' \in 1 .. MaxOpens
      /\ sig.pc = "idle" /\ UNCHANGED <<closes, loop, emer>>
      /\ \/ sig' = sig /\ positions' = [positions EXCEPT ![s.coin] = NewPosition(s, opened')]
         \/ sig'.s = s /\ sig'.pc \in {"equity", "entry"} /\ UNCHANGED positions
      /\ account' = [account EXCEPT ![opened'].signal = s]
  BY TargetsAssumption DEF LiveSignal, OnSignal, TypeOK
<1>2. AccountOK'
  BY <1>1 DEF AccountOK, Account
<1>3. \A i \in 1 .. MaxOpens :
        /\ account'[i].signal = IF i = opened' THEN s ELSE account[i].signal
        /\ account'[i].held = account[i].held /\ account'[i].orders = account[i].orders
        /\ account'[i].refused = account[i].refused
        /\ account'[i].raised = account[i].raised
  BY <1>1 DEF AccountOK, Account
<1>4. \A i \in 1 .. MaxOpens : (Exposed(i)' <=> Exposed(i)) /\ (Guarded(i)' <=> Guarded(i))
  BY <1>3 DEF Exposed, Guarded
<1>5. s.coin \in Coins /\ positions \in [Coins -> Position] /\ 1 .. opened \subseteq 1 .. MaxOpens
  BY SignalFields, OpenedIs DEF TypeOK
<1>6. \A c \in Tracked' : /\ positions'[c].id \in 1 .. MaxOpens
                          /\ \/ c = s.coin /\ positions'[c].id = opened'
                             \/ /\ c \in Tracked /\ positions'[c].id = positions[c].id
                                /\ positions[c].id \in 1 .. opened
  <2>1. CASE UNCHANGED positions
    BY <2>1, <1>1, <1>5 DEF Tracked, HistoryInv, IdInv
  <2>2. CASE positions' = [positions EXCEPT ![s.coin] = NewPosition(s, opened')]
    <3>1. positions'[s.coin].id = opened'
      BY <1>5, <2>2 DEF NewPosition
    <3>2. \A c \in Coins : c # s.coin => positions'[c] = positions[c]
      BY <1>5, <2>2
    <3> QED
      BY <1>1, <1>5, <3>1, <3>2 DEF Tracked, HistoryInv, IdInv
  <2> QED
    BY <1>1, <2>1, <2>2
<1>7. ~Exposed(opened')
  BY <1>1 DEF GuardInv
<1>8. GuardInv'
  <2>1. \A i \in 1 .. MaxOpens : i > opened' \/ i = opened' => i > opened
    BY <1>1
  <2>2. \A i \in 1 .. MaxOpens :
          /\ ~(account'[i].held /\ "entry" \in account'[i].orders)
          /\ i > opened' \/ (i = opened' /\ sig'.pc \in {"equity", "entry"}) => ~Exposed(i)'
    BY <1>3, <1>4, <2>1 DEF GuardInv
  <2>3. sig'.pc # "tp"
    BY <1>1
  <2>4. \A c \in Tracked' : Guarded(positions[c].id)'
    <3> SUFFICES ASSUME NEW c \in Tracked' PROVE Guarded(positions[c].id)'
      OBVIOUS
    <3>1. PICK i \in 1 .. MaxOpens : i = positions'[c].id
      BY <1>6
    <3>2. Guarded(i)
      BY <1>6, <1>7, <3>1 DEF GuardInv, Guarded
    <3>3. Guarded(i)'
      BY <1>4, <3>2
    <3> QED
      BY <3>1, <3>3 DEF Guarded, Exposed
  <2> QED
    BY <2>2, <2>3, <2>4 DEF GuardInv
<1>9. \A i \in 1 .. opened : account'[i].signal = account[i].signal /\ i # opened'
  BY <1>1, <1>3, <1>5
<1>10. OwnSignals'
  BY <1>1, <1>3, <1>5, <1>6, <1>9 DEF OwnSignals, InFlight
<1>11. RemovalsRecorded'
  BY <1>1, <1>9, ListsStay
<1>12. ASSUME NEW i \in 1 .. opened', Exposed(i)', Sole(i)' PROVE Accounted(i)'
  <2>1. i \in 1 .. opened /\ Exposed(i)
    BY <1>1, <1>4, <1>5, <1>7, <1>12
  <2>2. account'[i].signal.coin # s.coin
    <3>1. account'[opened'].signal.coin = s.coin /\ opened' \in 1 .. opened'
      BY <1>1, <1>3
    <3> QED
      BY <1>9, <1>12, <2>1, <3>1 DEF Sole
  <2>3. LET c == account[i].signal.coin IN positions'[c].id = positions[c].id
    <3>1. account[i].signal.coin \in Coins /\ account[i].signal.coin # s.coin
      BY <1>5, <1>9, <2>1, <2>2, SignalFields DEF AccountOK, Account
    <3> QED
      BY <1>1, <1>5, <3>1
  <2>4. ~Placing(i) /\ (account[i].raised => account'[i].raised)
    BY <1>1, <1>3, <1>5, <2>1 DEF Placing
  <2> QED
    BY <1>1, <1>9, <1>12, <2>1, <2>3, <2>4, StaysAccounted
<1>13. SoleEntryAccounted'
  BY <1>12 DEF SoleEntryAccounted, Sole, Accounted
<1> QED
  BY <1>2, <1>8, <1>10, <1>11, <1>13

\* A step of on_signal with the account of the position it places.
LEMMA PlacingInv ==
  ASSUME TypeOK, HistoryInv, LiveInv, InFlight, AccountOK',
         UNCHANGED <<opened, closes, loop, emer>>,
         \A i \in (1 .. MaxOpens) \ {opened} : account'[i] = account[i],
         account'[opened].signal = account[opened].signal,
         \/ positions' = positions
         \/ ~InFlight' /\ positions' = [positions EXCEPT ![sig.s.coin] = NewPosition(sig.s, opened)],
         ~(account'[opened].held /\ "entry" \in account'[opened].orders),
         sig'.pc # "equity", sig'.pc = "entry" => ~Exposed(opened)',
         sig'.pc = "tp" => Guarded(opened)',
         positions' # positions => Guarded(opened)',
         InFlight' => sig'.s = sig.s,
         Exposed(opened)' => Accounted(opened)'
  PROVE  LiveInv'
<1> USE DEF LiveInv
<1>1. /\ opened \in 1 .. MaxOpens /\ 1 .. opened \subseteq 1 .. MaxOpens
      /\ \A c \in Tracked : positions[c].id \in 1 .. MaxOpens /\ positions[c].id # opened
      /\ opened \in 1 .. opened
  BY OpenedIs
<1>2. sig.s.coin \in Coins /\ positions \in [Coins -> Position]
      /\ account[opened].signal.coin = sig.s.coin
  BY SignalFields DEF TypeOK, SigState, OwnSignals
<1>3. \A c \in Tracked' : \/ /\ c = sig.s.coin /\ positions'[c].id = opened
                             /\ positions' # positions /\ ~InFlight'
                          \/ /\ c \in Tracked /\ positions'[c].id = positions[c].id
                             /\ positions[c].id \in (1 .. MaxOpens) \ {opened}
  <2>1. CASE positions' = positions
    BY <1>1, <2>1 DEF Tracked
  <2>2. CASE positions' # positions
    <3>1. positions'[sig.s.coin].id = opened /\ ~InFlight'
      BY <1>2, <2>2 DEF NewPosition
    <3>2. \A c \in Coins : c # sig.s.coin => positions'[c] = positions[c]
      BY <1>2, <2>2
    <3> QED
      BY <1>1, <2>2, <3>1, <3>2 DEF Tracked
  <2> QED
    BY <2>1, <2>2
<1>4. \A i \in (1 .. MaxOpens) \ {opened} :
        (Exposed(i)' <=> Exposed(i)) /\ (Guarded(i)' <=> Guarded(i))
  BY DEF Exposed, Guarded
<1>5. GuardInv'
  <2>1. \A i \in 1 .. MaxOpens :
          /\ ~(account'[i].held /\ "entry" \in account'[i].orders)
          /\ i > opened' \/ (i = opened' /\ sig'.pc \in {"equity", "entry"}) => ~Exposed(i)'
    BY <1>1, <1>4 DEF GuardInv
  <2>2. sig'.pc = "tp" => Guarded(opened)'
    BY DEF Guarded, Exposed
  <2>3. \A c \in Tracked' : Guarded(positions[c].id)'
    <3> SUFFICES ASSUME NEW c \in Tracked' PROVE Guarded(positions[c].id)'
      OBVIOUS
    <3>1. CASE positions'[c].id = opened /\ positions' # positions
      BY <3>1 DEF Guarded, Exposed
    <3>2. CASE c \in Tracked /\ positions'[c].id = positions[c].id
               /\ positions[c].id \in (1 .. MaxOpens) \ {opened}
      <4>1. PICK i \in (1 .. MaxOpens) \ {opened} : i = positions'[c].id
        BY <3>2
      <4>2. Guarded(i)'
        BY <1>4, <3>2, <4>1 DEF GuardInv
      <4> QED
        BY <4>1, <4>2 DEF Guarded, Exposed
    <3> QED
      BY <1>3, <3>1, <3>2
  <2> QED
    BY <2>1, <2>2, <2>3 DEF GuardInv
<1>6. \A i \in 1 .. MaxOpens : account'[i].signal = account[i].signal
  BY <1>1
<1>7. OwnSignals'
  BY <1>1, <1>2, <1>3, <1>6 DEF OwnSignals
<1>8. RemovalsRecorded'
  BY <1>1, <1>6, ListsStay
<1>9. ASSUME NEW i \in 1 .. opened, Exposed(i)', Sole(i)' PROVE Accounted(i)'
  <2>1. CASE i = opened
    BY <1>9, <2>1
  <2>2. CASE i # opened
    <3>1. Exposed(i) /\ account'[i] = account[i] /\ ~Placing(i)
      BY <1>1, <1>4, <1>9, <2>2 DEF Placing
    <3>2. account[i].signal.coin # sig.s.coin
      BY <1>1, <1>2, <1>6, <1>9, <2>2 DEF Sole
    <3>3. LET c == account[i].signal.coin IN positions'[c].id = positions[c].id
      <4>1. account[i].signal.coin \in Coins
        BY <1>1, SignalFields DEF AccountOK, Account
      <4> QED
        BY <1>2, <3>2, <4>1
    <3> QED
      BY <1>1, <1>6, <1>9, <3>1, <3>3, StaysAccounted
  <2> QED
    BY <2>1, <2>2
<1>10. SoleEntryAccounted'
  BY <1>9 DEF SoleEntryAccounted, Sole, Accounted
<1> QED
  BY <1>5, <1>7, <1>8, <1>10

LEMMA LiveOrderInv ==
  ASSUME TypeOK, HistoryInv, LiveInv,
         LiveOrderReturned \/ LiveTakeProfitReturned \/ LiveOrderRaised
  PROVE  LiveInv'
<1>1. InFlight /\ UNCHANGED <<opened, closes, loop, emer>> /\ sig.pc \in Legs
  BY DEF LiveOrderReturned, LiveTakeProfitReturned, LiveOrderRaised, OrderReturned,
     TakeProfitReturned, OrderRaised, InFlight, Legs
<1>2. /\ opened \in 1 .. MaxOpens /\ AccountOK /\ sig \in SigState
      /\ ~(account[opened].held /\ "entry" \in account[opened].orders)
      /\ sig.pc = "entry" => ~Exposed(opened)
      /\ sig.pc = "tp" => Guarded(opened)
  BY <1>1, OpenedIs DEF LiveInv, GuardInv, TypeOK
<1>3. CASE LiveOrderReturned
  <2>1. /\ positions' = positions /\ Answered(sig.pc)
        /\ (sig.pc = "entry" /\ sig'.pc = "sl") \/ (sig.pc = "sl" /\ sig'.pc = "tp")
        /\ sig'.s = sig.s
    <3>1. positions' = positions /\ Answered(sig.pc)
      BY <1>3 DEF LiveOrderReturned, OrderReturned
    <3>2. \/ sig.pc = "entry" /\ sig' = [sig EXCEPT !.pc = "sl"]
          \/ sig.pc = "sl" /\ sig' = [sig EXCEPT !.pc = "tp"]
      BY <1>3 DEF LiveOrderReturned, OrderReturned
    <3>3. /\ (sig.pc = "entry" /\ sig'.pc = "sl") \/ (sig.pc = "sl" /\ sig'.pc = "tp")
          /\ sig'.s = sig.s
      <4>1. \A pc : [sig EXCEPT !.pc = pc].pc = pc /\ [sig EXCEPT !.pc = pc].s = sig.s
        BY <1>2 DEF SigState
      <4> QED
        BY <3>2, <4>1
    <3> QED
      BY <3>1, <3>3
  <2>2. /\ AccountOK' /\ \A i \in (1 .. MaxOpens) \ {opened} : account'[i] = account[i]
        /\ account'[opened].signal = account[opened].signal
        /\ ~(account'[opened].held /\ "entry" \in account'[opened].orders)
        /\ sig.pc = "sl" => "sl" \in account'[opened].orders \/ account'[opened].refused
    <3>1. sig.pc = "entry" => ~account[opened].held /\ "entry" \notin account[opened].orders
      BY <1>2 DEF Exposed
    <3> QED
      BY <1>1, <1>2, <2>1, <3>1, AnsweredIs
  <2>3. sig'.pc = "tp" => Guarded(opened)'
    BY <1>1, <2>1, <2>2 DEF Guarded, Exposed
  <2>4. Accounted(opened)'
    BY <1>1, <2>1 DEF Accounted, Placing
  <2> QED
    BY <1>1, <2>1, <2>2, <2>3, <2>4, PlacingInv
<1>4. CASE LiveTakeProfitReturned
  <2>1. /\ Answered("tp") /\ sig.pc = "tp" /\ sig'.pc = "alert"
        /\ positions' = [positions EXCEPT ![sig.s.coin] = NewPosition(sig.s, opened)]
    BY <1>2, <1>4 DEF LiveTakeProfitReturned, TakeProfitReturned, SigState
  <2>2. LET a == account[opened]
            b == account'[opened]
        IN  /\ AccountOK' /\ \A i \in (1 .. MaxOpens) \ {opened} : account'[i] = account[i]
            /\ b.signal = a.signal /\ (a.refused => b.refused) /\ (b.held => a.held)
            /\ a.orders \subseteq b.orders /\ b.orders \subseteq a.orders \cup {"tp"}
    BY <1>2, <2>1, AnsweredIs DEF Legs
  <2>3. /\ ~(account'[opened].held /\ "entry" \in account'[opened].orders)
        /\ Guarded(opened)'
    <3>1. Guarded(opened) /\ ~(account[opened].held /\ "entry" \in account[opened].orders)
      BY <1>2, <2>1
    <3> QED
      BY <1>1, <2>2, <3>1 DEF Guarded, Exposed
  <2>4. Accounted(opened)'
    <3>1. account'[opened].signal.coin = sig.s.coin /\ sig.s.coin \in Coins
      BY <1>1, <2>2, SignalFields DEF LiveInv, OwnSignals, TypeOK, SigState
    <3>2. positions'[sig.s.coin].id = opened
      BY <2>1, <3>1 DEF TypeOK, NewPosition
    <3> QED
      BY <1>1, <3>1, <3>2 DEF Accounted
  <2>5. ~InFlight'
    BY <2>1 DEF InFlight
  <2> QED
    BY <1>1, <2>1, <2>2, <2>3, <2>4, <2>5, PlacingInv
<1>5. CASE LiveOrderRaised
  <2>1. positions' = positions /\ Raised(sig.pc) /\ sig'.pc = "idle"
    BY <1>5 DEF LiveOrderRaised, OrderRaised, SigIdle
  <2>2. /\ AccountOK' /\ \A i \in (1 .. MaxOpens) \ {opened} : account'[i] = account[i]
        /\ account'[opened].signal = account[opened].signal /\ account'[opened].raised
        /\ ~(account'[opened].held /\ "entry" \in account'[opened].orders)
    <3>1. sig.pc = "entry" => ~account[opened].held /\ "entry" \notin account[opened].orders
      BY <1>2 DEF Exposed
    <3> QED
      BY <1>1, <1>2, <2>1, <3>1, RaisedIs
  <2>3. Accounted(opened)' /\ ~InFlight'
    BY <1>1, <2>1, <2>2 DEF Accounted, InFlight
  <2> QED
    BY <1>1, <2>1, <2>2, <2>3, PlacingInv
<1> QED
  BY <1>3, <1>4, <1>5

----------------------------------------------------------------------------
(* The steps that send no order                                            *)

\* The lists of the loop and of the emergency closes, and what they delete.
LEMMA LocalLists ==
  ASSUME TypeOK, HistoryInv, LiveInv, LocalStep
  PROVE  /\ RemovalsRecorded'
         /\ \A c \in Coins : positions'[c].id = positions[c].id \/ Recorded(c)
<1> USE DEF LiveInv
<1>1. /\ account' = account /\ opened' = opened /\ opened \in Nat
      /\ \A i \in 1 .. opened : closes[i] > 0 => closes'[i] > 0
      /\ closes' # closes => \E d \in Tracked : closes'[positions[d].id] > 0
                               /\ positions' = [positions EXCEPT ![d] = Vacant("CLOSED", positions[d].id)]
  <2>1. Quiet \/ ClosesOne
    BY TableCases DEF LocalStep
  <2>2. CASE Quiet
    BY <2>2, OpenedIs DEF Quiet, LocalStep
  <2>3. CASE ClosesOne
    <3>1. PICK d \in Tracked :
            /\ positions' = [positions EXCEPT ![d] = Vacant("CLOSED", positions[d].id)]
            /\ closes' = InHistory(positions[d].id)
      BY <2>3 DEF ClosesOne
    <3>2. positions[d].id \in 1 .. MaxOpens /\ positions[d].id \in 0 .. MaxOpens
      BY OpenedIs DEF TypeOK
    <3>3. \A j \in 1 .. MaxOpens :
            closes[j] \in Nat /\ closes'[j] = IF j = positions[d].id THEN closes[j] + 1 ELSE closes[j]
      BY <3>1, <3>2, HistoryCounts DEF TypeOK
    <3> QED
      <4>1. opened' = opened /\ account' = account /\ closes'[positions[d].id] > 0
        BY <2>3, <3>2, <3>3 DEF ClosesOne, LocalStep
      <4>2. \A i \in 1 .. opened : closes[i] > 0 => closes'[i] > 0
        BY <3>3, OpenedIs
      <4> QED
        BY <3>1, <4>1, <4>2, OpenedIs
  <2> QED
    BY <2>1, <2>2, <2>3
<1>2. \A c : Recorded(c) => Recorded(c)'
  BY <1>1, RecordedStays
<1>3. ASSUME NEW d \in Tracked, closes' = InHistory(positions[d].id) PROVE Recorded(d)'
  <2>1. positions[d].id \in 1 .. opened /\ positions[d].id \in 1 .. MaxOpens
        /\ positions[d].id \in 0 .. MaxOpens
    BY OpenedIs DEF HistoryInv, IdInv, TypeOK
  <2>2. closes'[positions[d].id] > 0
    BY <1>3, <2>1, HistoryCounts DEF TypeOK
  <2> QED
    BY <1>1, <2>1, <2>2 DEF Recorded, OwnSignals
<1>4. loop.closed \in Seq(Coins) /\ emer \in [Requests -> EmerState]
  BY DEF TypeOK, LoopState
<1>5. ASSUME loop'.closed = loop.closed \/ loop'.closed = <<>>,
             \A r \in Requests : \A c \in emer'[r].coins \ emer'[r].todo :
               c \in emer[r].coins \ emer[r].todo \/ Recorded(c)'
      PROVE  RemovalsRecorded'
  BY <1>2, <1>5 DEF RemovalsRecorded
<1>6. ASSUME emer' = emer, loop'.closed = loop.closed \/ loop'.closed = <<>>
      PROVE  RemovalsRecorded'
  BY <1>5, <1>6
<1>7. ASSUME NEW S, positions' = Without(S), \A c \in S : Recorded(c)
      PROVE  \A c \in Coins : positions'[c].id = positions[c].id \/ Recorded(c)
  BY <1>7 DEF Without
<1>8. CASE \/ EquityReturned \/ EntryAlertsSent
           \/ \E n \in Limits : UpdateLimit(n)
           \/ \E c \in Coins : Expire(c)
  <2>1. emer' = emer /\ loop' = loop
    BY <1>8 DEF EquityReturned, EntryAlertsSent, UpdateLimit, Expire
  <2>2. \A c \in Coins : positions'[c].id = positions[c].id
    BY <1>8 DEF EquityReturned, EntryAlertsSent, UpdateLimit, Expire, TypeOK, Position
  <2> QED
    BY <1>6, <2>1, <2>2
<1>9. CASE LoopTurn
  <2>1. CASE LoopWake \/ LoopAlertsSent \/ LoopRaises
    <3>1. emer' = emer /\ positions' = positions /\ (loop'.closed = loop.closed \/ loop'.closed = <<>>)
      BY <2>1 DEF LoopWake, LoopAlertsSent, LoopRaises, LoopAsleep, TypeOK, LoopState
    <3> QED
      BY <1>6, <3>1
  <2>2. ASSUME NEW c \in Coins, LoopSkip(c) PROVE RemovalsRecorded' /\ positions' = positions
    <3>1. emer' = emer /\ positions' = positions /\ loop'.closed = loop.closed
      BY <2>2 DEF LoopSkip, TypeOK, LoopState
    <3> QED
      BY <1>6, <3>1
  <2>3. ASSUME NEW c \in Coins, NEW price \in Prices, LoopHold(c, price)
        PROVE  RemovalsRecorded' /\ \A d \in Coins : positions'[d].id = positions[d].id
    <3>1. emer' = emer /\ loop'.closed = loop.closed
      BY <2>3 DEF LoopHold, TypeOK, LoopState
    <3>2. Trail(Mark(positions[c], price), price).id = positions[c].id
      <4>1. /\ Mark(positions[c], price) \in Position
            /\ Mark(positions[c], price).id = positions[c].id
        BY MarkIsPosition DEF TypeOK, Position
      <4> QED
        BY <4>1 DEF Trail, Position
    <3>3. \A d \in Coins : positions'[d].id = positions[d].id
      BY <2>3, <3>2 DEF LoopHold, TypeOK
    <3> QED
      BY <1>6, <3>1, <3>3
  <2>4. ASSUME NEW c \in Coins, NEW price \in Prices, LoopClose(c, price)
        PROVE  RemovalsRecorded' /\ \A d \in Coins : positions'[d].id = positions[d].id
    <3>1. /\ emer' = emer /\ loop'.closed = Append(loop.closed, c) /\ c \in Tracked
          /\ Mark(positions[c], price).id = positions[c].id
          /\ closes' = InHistory(positions[c].id)
          /\ positions' = [positions EXCEPT ![c] = Vacant("CLOSED", positions[c].id)]
      <4>1. Mark(positions[c], price).id = positions[c].id
        BY MarkIsPosition DEF TypeOK, Position
      <4> QED
        BY <2>4, <4>1 DEF LoopClose, LoopVisit, Closed, TypeOK, LoopState
    <3>2. \A d \in Coins : positions'[d].id = positions[d].id
      BY <3>1 DEF TypeOK, Vacant
    <3>3. \A n \in DOMAIN loop'.closed :
            loop'.closed[n] = c \/ \E k \in DOMAIN loop.closed : loop'.closed[n] = loop.closed[k]
      BY <1>4, <3>1
    <3>4. RemovalsRecorded'
      BY <1>2, <1>3, <3>1, <3>3 DEF RemovalsRecorded
    <3> QED
      BY <3>2, <3>4
  <2>5. CASE LoopFinish
    <3>1. /\ emer' = emer /\ loop'.closed = <<>> /\ positions' = Without(Deletable(loop.closed))
      BY <2>5 DEF LoopFinish, LoopAsleep
    <3>2. \A c \in Deletable(loop.closed) : Recorded(c)
      BY DEF Deletable, RemovalsRecorded
    <3> QED
      BY <1>6, <1>7, <3>1, <3>2
  <2> QED
    BY <1>9, <2>1, <2>2, <2>3, <2>4, <2>5 DEF LoopTurn
<1>10. ASSUME NEW r \in Requests, EmergencyStart(r) \/ EmergencyTurn(r)
       PROVE  /\ RemovalsRecorded'
              /\ \A c \in Coins : positions'[c].id = positions[c].id \/ Recorded(c)
  <2>1. CASE EmergencyStart(r)
    <3>1. /\ emer' = [emer EXCEPT ![r] = [pc |-> "next", coins |-> Tracked, todo |-> Tracked]]
          /\ loop' = loop /\ positions' = positions
      BY <2>1 DEF EmergencyStart
    <3> QED
      BY <1>4, <1>5, <3>1
  <2>2. ASSUME NEW c \in Coins, EmergencyClose(r, c)
        PROVE  RemovalsRecorded' /\ \A d \in Coins : positions'[d].id = positions[d].id
    <3>1. /\ c \in Tracked /\ loop' = loop /\ closes' = InHistory(positions[c].id)
          /\ positions' = [positions EXCEPT ![c] = Vacant("CLOSED", positions[c].id)]
      BY <2>2 DEF EmergencyClose, Closed
    <3>2. /\ emer'[r].coins = emer[r].coins /\ emer'[r].todo = emer[r].todo \ {c}
          /\ \A q \in Requests : q # r => emer'[q] = emer[q]
      BY <1>4, <2>2 DEF EmergencyClose, EmerState
    <3>3. Recorded(c)'
      BY <1>3, <3>1
    <3>4. \A d \in Coins : positions'[d].id = positions[d].id
      BY <3>1 DEF TypeOK, Vacant
    <3> QED
      BY <1>5, <3>1, <3>2, <3>3, <3>4
  <2>3. ASSUME NEW c \in Coins, EmergencyKeyError(r, c)
        PROVE  RemovalsRecorded' /\ positions' = positions
    <3>1. /\ emer' = [emer EXCEPT ![r] = [EmerIdle EXCEPT !.pc = "failed"]]
          /\ loop' = loop /\ positions' = positions
      BY <2>3 DEF EmergencyKeyError
    <3>2. [EmerIdle EXCEPT !.pc = "failed"].coins = {}
      BY DEF EmerIdle
    <3> QED
      BY <1>4, <1>5, <3>1, <3>2
  <2>4. CASE EmergencyAlertsSent(r)
    <3>1. /\ emer'[r].coins = emer[r].coins /\ emer'[r].todo = emer[r].todo
          /\ \A q \in Requests : q # r => emer'[q] = emer[q]
          /\ loop' = loop /\ positions' = positions
      BY <1>4, <2>4 DEF EmergencyAlertsSent, EmerState
    <3> QED
      BY <1>5, <3>1
  <2>5. CASE EmergencyPop(r)
    <3>1. /\ emer' = [emer EXCEPT ![r] = [EmerIdle EXCEPT !.pc = "done"]]
          /\ loop'.closed = loop.closed /\ positions' = Without(emer[r].coins)
          /\ emer[r].todo = {}
      BY <2>5 DEF EmergencyPop, TypeOK, LoopState
    <3>2. [EmerIdle EXCEPT !.pc = "done"].coins = {}
      BY DEF EmerIdle
    <3>3. RemovalsRecorded'
      BY <1>4, <1>5, <3>1, <3>2
    <3>4. \A c \in emer[r].coins : Recorded(c)
      BY <3>1 DEF RemovalsRecorded
    <3> QED
      BY <1>7, <3>1, <3>3, <3>4
  <2> QED
    BY <1>10, <2>1, <2>2, <2>3, <2>4, <2>5 DEF EmergencyTurn
<1> QED
  BY <1>8, <1>9, <1>10 DEF LocalStep

LEMMA LocalInv ==
  ASSUME TypeOK, HistoryInv, LiveInv, LocalStep PROVE LiveInv'
<1> USE DEF LiveInv
<1>1. account' = account
  BY DEF LocalStep
<1>2. /\ RemovalsRecorded'
      /\ \A c \in Coins : positions'[c].id = positions[c].id \/ Recorded(c)
  BY LocalLists
<1>3. /\ opened' = opened /\ opened \in Nat /\ 1 .. opened \subseteq 1 .. MaxOpens
      /\ \A i \in 1 .. opened : closes[i] > 0 => closes'[i] > 0
      /\ \A c \in Tracked' : c \in Tracked /\ positions'[c].id = positions[c].id
  <2>1. Quiet \/ ClosesOne
    BY TableCases DEF LocalStep
  <2>2. CASE Quiet
    <3>1. \A c \in Tracked' : c \in Tracked /\ positions'[c].id = positions[c].id
      BY <2>2, LookKeeps DEF Quiet, Tracked, Absent, Vacant
    <3> QED
      BY <2>2, <3>1, OpenedIs DEF Quiet
  <2>3. CASE ClosesOne
    <3>1. PICK d \in Tracked :
            /\ positions' = [positions EXCEPT ![d] = Vacant("CLOSED", positions[d].id)]
            /\ closes' = InHistory(positions[d].id)
      BY <2>3 DEF ClosesOne
    <3>2. \A j \in 1 .. MaxOpens :
            closes[j] \in Nat /\ closes'[j] = IF j = positions[d].id THEN closes[j] + 1 ELSE closes[j]
      <4>1. positions[d].id \in 0 .. MaxOpens
        BY DEF TypeOK, Position, Tracked
      <4> QED
        BY <3>1, <4>1, HistoryCounts DEF TypeOK
    <3>3. \A c \in Tracked' : c \in Tracked /\ positions'[c].id = positions[c].id
      BY <3>1 DEF TypeOK, Tracked, Vacant
    <3> QED
      BY <2>3, <3>2, <3>3, OpenedIs DEF ClosesOne
  <2> QED
    BY <2>1, <2>2, <2>3
<1>4. \/ sig' = sig
      \/ sig.pc = "equity" /\ sig' = [sig EXCEPT !.pc = "entry"]
      \/ sig.pc \in {"equity", "alert"} /\ sig' = SigIdle
  <2>1. LoopTurn => sig' = sig
    BY DEF LoopTurn, LoopWake, LoopSkip, LoopHold, LoopClose, LoopAlertsSent,
       LoopRaises, LoopFinish
  <2>2. \A r \in Requests : EmergencyStart(r) \/ EmergencyTurn(r) => sig' = sig
    BY DEF EmergencyStart, EmergencyTurn, EmergencyClose, EmergencyKeyError,
       EmergencyAlertsSent, EmergencyPop
  <2>3. /\ \A n \in Limits : UpdateLimit(n) => sig' = sig
        /\ \A c \in Coins : Expire(c) => sig' = sig
    BY DEF UpdateLimit, Expire
  <2> QED
    BY <2>1, <2>2, <2>3 DEF LocalStep, EquityReturned, EntryAlertsSent
<1>5. /\ sig'.pc \in {"equity", "entry"} => sig.pc \in {"equity", "entry"}
      /\ sig'.pc = "tp" => sig.pc = "tp"
      /\ InFlight' => InFlight /\ sig'.s = sig.s
      /\ InFlight => InFlight' \/ sig.pc = "equity"
  BY <1>4 DEF TypeOK, SigState, SigIdle, InFlight
<1>6. \A i : (Exposed(i)' <=> Exposed(i)) /\ (Guarded(i)' <=> Guarded(i))
  BY <1>1 DEF Exposed, Guarded
<1>7. GuardInv'
  <2>1. \A i \in 1 .. MaxOpens :
          /\ ~(account'[i].held /\ "entry" \in account'[i].orders)
          /\ i > opened' \/ (i = opened' /\ sig'.pc \in {"equity", "entry"}) => ~Exposed(i)'
    BY <1>1, <1>3, <1>5, <1>6 DEF GuardInv
  <2>2. sig'.pc = "tp" => Guarded(opened)'
    BY <1>1, <1>3, <1>5 DEF GuardInv, Guarded, Exposed
  <2>3. \A c \in Tracked' : Guarded(positions[c].id)'
    BY <1>1, <1>3 DEF GuardInv, Guarded, Exposed
  <2> QED
    BY <2>1, <2>2, <2>3 DEF GuardInv
<1>8. OwnSignals'
  BY <1>1, <1>3, <1>5 DEF OwnSignals
<1>9. ASSUME NEW i \in 1 .. opened, Exposed(i)', Sole(i)' PROVE Accounted(i)'
  <2>1. Exposed(i)
    BY <1>6, <1>9
  <2>2. Placing(i) => Placing(i)'
    <3>1. ~(i = opened /\ sig.pc = "equity")
      BY <1>3, <2>1 DEF GuardInv
    <3> QED
      BY <1>3, <1>5, <3>1 DEF Placing, InFlight
  <2>3. account[i].signal.coin \in Coins
    BY <1>3, SignalFields DEF AccountOK, Account
  <2> QED
    BY <1>1, <1>2, <1>3, <1>9, <2>1, <2>2, <2>3, StaysAccounted DEF Accounted
<1>10. SoleEntryAccounted'
  BY <1>3, <1>9 DEF SoleEntryAccounted, Sole, Accounted
<1> QED
  BY <1>1, <1>2, <1>7, <1>8, <1>10 DEF AccountOK

----------------------------------------------------------------------------
(* The exchange and the whole                                              *)

LEMMA ExchangeInv ==
  ASSUME TypeOK, HistoryInv, LiveInv, NEW i \in 1 .. MaxOpens,
         EntryFills(i) \/ LegTriggers(i, "sl") \/ LegTriggers(i, "tp")
  PROVE  LiveInv'
<1> USE DEF LiveInv
<1>1. UNCHANGED <<positions, opened, closes, sig, loop, emer>>
  BY DEF EntryFills, LegTriggers, vars
<1>2. account[i] \in Account
  BY DEF AccountOK
<1>3. PICK a \in Account :
        /\ account' = [account EXCEPT ![i] = a]
        /\ a.signal = account[i].signal /\ a.refused = account[i].refused
        /\ a.raised = account[i].raised /\ a.orders \subseteq account[i].orders
        /\ \/ a.held /\ "entry" \in account[i].orders /\ "entry" \notin a.orders
              /\ a.orders = account[i].orders \ {"entry"}
           \/ ~a.held /\ account[i].held
  <2>1. CASE EntryFills(i)
    <3>1. PICK a : a = [account[i] EXCEPT !.orders = @ \ {"entry"}, !.held = TRUE]
      OBVIOUS
    <3>2. account' = [account EXCEPT ![i] = a] /\ "entry" \in account[i].orders
      BY <2>1, <3>1 DEF EntryFills
    <3>3. /\ a \in Account /\ a.signal = account[i].signal /\ a.refused = account[i].refused
          /\ a.raised = account[i].raised /\ a.held
          /\ a.orders = account[i].orders \ {"entry"}
      BY <1>2, <3>1 DEF Account
    <3> QED
      BY <3>2, <3>3
  <2>2. ASSUME NEW leg \in {"sl", "tp"}, LegTriggers(i, leg)
        PROVE  \E a \in Account :
                 /\ account' = [account EXCEPT ![i] = a]
                 /\ a.signal = account[i].signal /\ a.refused = account[i].refused
                 /\ a.raised = account[i].raised /\ a.orders \subseteq account[i].orders
                 /\ ~a.held /\ account[i].held
    <3>1. PICK a : a = [account[i] EXCEPT !.orders = @ \ {leg}, !.held = FALSE]
      OBVIOUS
    <3>2. account' = [account EXCEPT ![i] = a] /\ account[i].held
      BY <2>2, <3>1 DEF LegTriggers
    <3>3. /\ a \in Account /\ a.signal = account[i].signal /\ a.refused = account[i].refused
          /\ a.raised = account[i].raised /\ ~a.held
          /\ a.orders = account[i].orders \ {leg}
      BY <1>2, <3>1 DEF Account
    <3> QED
      BY <3>2, <3>3
  <2> QED
    BY <2>1, <2>2
<1>4. /\ account' \in [1 .. MaxOpens -> Account] /\ account'[i] = a
      /\ \A j \in 1 .. MaxOpens : j # i => account'[j] = account[j]
  BY <1>3 DEF AccountOK
<1>5. \A j \in 1 .. MaxOpens :
        /\ ~(account[j].held /\ "entry" \in account[j].orders)
        /\ account'[j].signal = account[j].signal /\ account'[j].raised = account[j].raised
  BY <1>3, <1>4 DEF GuardInv
<1>6. \A j \in 1 .. MaxOpens :
        /\ ~(account'[j].held /\ "entry" \in account'[j].orders)
        /\ Exposed(j)' => Exposed(j)
        /\ Guarded(j) => Guarded(j)'
  <2>1. /\ ~(a.held /\ "entry" \in a.orders)
        /\ a.held \/ "entry" \in a.orders => Exposed(i) /\ a.orders = account[i].orders \ {"entry"}
    BY <1>3, <1>5 DEF Exposed
  <2> QED
    BY <1>3, <1>4, <1>5, <2>1 DEF Exposed, Guarded
<1>7. GuardInv'
  <2>1. \A j \in 1 .. MaxOpens :
          /\ ~(account'[j].held /\ "entry" \in account'[j].orders)
          /\ j > opened' \/ (j = opened' /\ sig'.pc \in {"equity", "entry"}) => ~Exposed(j)'
    BY <1>1, <1>6 DEF GuardInv
  <2>2. sig'.pc = "tp" => Guarded(opened)'
    <3>1. sig.pc = "tp" => opened \in 1 .. MaxOpens /\ Guarded(opened)
      BY OpenedIs DEF GuardInv, InFlight
    <3> QED
      BY <1>1, <1>6, <3>1 DEF Guarded, Exposed
  <2>3. \A c \in Tracked' : Guarded(positions[c].id)'
    <3>1. Tracked' = Tracked /\ \A c \in Tracked : positions'[c].id = positions[c].id
      BY <1>1 DEF Tracked
    <3>2. \A c \in Tracked : positions[c].id \in 1 .. MaxOpens /\ Guarded(positions[c].id)
      BY OpenedIs DEF GuardInv
    <3> QED
      BY <1>6, <3>1, <3>2 DEF Guarded, Exposed
  <2> QED
    BY <2>1, <2>2, <2>3 DEF GuardInv
<1>8. OwnSignals'
  BY <1>1, <1>5, OpenedIs DEF OwnSignals, InFlight, Tracked
<1>9. RemovalsRecorded'
  BY <1>1, <1>5, OpenedIs, ListsStay
<1>10. ASSUME NEW j \in 1 .. opened, Exposed(j)', Sole(j)' PROVE Accounted(j)'
  <2>1. j \in 1 .. MaxOpens /\ Exposed(j)
    BY <1>6, <1>10, OpenedIs
  <2>2. Placing(j) => Accounted(j)'
    BY <1>1 DEF Placing, Accounted
  <2> QED
    BY <1>1, <1>5, <1>10, <2>1, <2>2, OpenedIs, StaysAccounted
<1>11. SoleEntryAccounted'
  BY <1>1, <1>10 DEF SoleEntryAccounted, Sole, Accounted
<1> QED
  BY <1>4, <1>7, <1>8, <1>9, <1>11 DEF AccountOK

LEMMA LiveInvStep == TypeOK /\ HistoryInv /\ LiveInv /\ [LiveNext]_liveVars => LiveInv'
<1> SUFFICES ASSUME TypeOK, HistoryInv, LiveInv, [LiveNext]_liveVars PROVE LiveInv'
  OBVIOUS
<1>1. CASE UNCHANGED liveVars
  BY <1>1 DEF liveVars, LiveInv, AccountOK, GuardInv, Guarded, Exposed, OwnSignals,
       InFlight, RemovalsRecorded, Recorded, SoleEntryAccounted, Placing, Tracked
<1> QED
  BY <1>1, LiveSignalInv, LiveOrderInv, LocalInv, ExchangeInv DEF LiveNext

LEMMA LiveInvHolds == LiveSpec => []LiveInv
<1>1. LiveInit => TypeOK /\ HistoryInv
  BY TypeInit, HistoryInit DEF LiveInit
<1>2. TypeOK /\ HistoryInv /\ LiveInv /\ [LiveNext]_liveVars => TypeOK' /\ HistoryInv' /\ LiveInv'
  BY LiveStepIsStep, TypeStep, HistoryStep, LiveInvStep
<1> QED
  BY <1>1, <1>2, LiveInvInit, PTL DEF LiveSpec

\* An open entry that the account really holds has its stop-loss at the
\* exchange, or the exchange refused it: an entry is in the dict only once its
\* stop-loss was answered, and no fill brings a position back after a trigger.
THEOREM TrackedIsGuardedHolds == LiveSpec => []TrackedIsGuarded
<1>1. LiveInv => TrackedIsGuarded
  BY DEF LiveInv, GuardInv, Guarded, Exposed, TrackedIsGuarded, Tracked
<1> QED
  BY <1>1, LiveInvHolds, PTL

\* The only position of its coin is never exposed unaccounted: whatever the
\* loop and the emergency closes delete they have recorded, and on_signal gives
\* up a placement only before the exchange has seen it or after a call raised.
THEOREM SoleEntryAccountedHolds == LiveSpec => []SoleEntryAccounted
<1>1. LiveInv => SoleEntryAccounted
  BY DEF LiveInv
<1> QED
  BY <1>1, LiveInvHolds, PTL

=============================================================================
