---------------------------- MODULE LiveExchange ----------------------------
(***************************************************************************)
(* The position lifecycle of TradeLoop together with the account it trades *)
(* on.  The exchange is external: what it does is modelled from how        *)
(* on_signal and HyperliquidExecutor use it.  An order that is answered    *)
(* may have been accepted or refused, the answer is never looked at; one   *)
(* that raises may have arrived all the same (a timeout after the send).   *)
(* Nothing else in main.py sends an order: closing a position is           *)
(* bookkeeping.                                                            *)
(***************************************************************************)
EXTENDS TradeLoop

VARIABLE
  account   \* what the exchange knows of each position opened so far

liveVars == <<dryRun, limit, positions, opened, closes, sig, loop, emer, cpu, account>>

Legs == {"entry", "sl", "tp"}

Account ==
  [signal  : Signals,      \* the signal of this position, for the record
   orders  : SUBSET Legs,  \* its orders resting on the exchange
   held    : BOOLEAN,      \* its entry was filled and not closed since
   refused : BOOLEAN,      \* its stop-loss was answered with an error status
   raised  : BOOLEAN]      \* on_signal gave up: a placement raised

NoAccount ==
  [signal |-> AnySignal, orders |-> {}, held |-> FALSE, refused |-> FALSE,
   raised |-> FALSE]

LiveInit == Init /\ account = [i \in 1 .. MaxOpens |-> NoAccount]

----------------------------------------------------------------------------
(* Orders                                                                  *)

\* The exchange takes an order: a limit entry or a trigger order rests, an
\* immediate-or-cancel entry fills at once.
Accepts(acc, leg) ==
  {[acc EXCEPT !.orders = @ \cup {leg}]}
    \cup (IF leg = "entry" THEN {[acc EXCEPT !.held = TRUE]} ELSE {})

Refuses(acc, leg) == {[acc EXCEPT !.refused = @ \/ leg = "sl"]}

\* The call for this leg returned.
Answered(leg) ==
  \E acc \in Accepts(account[opened], leg) \cup Refuses(account[opened], leg) :
    account' = [account EXCEPT ![opened] = acc]

\* The call for this leg raised, before or after the exchange took the order.
Raised(leg) ==
  \E acc \in Accepts(account[opened], leg) \cup {account[opened]} :
    account' = [account EXCEPT ![opened] = [acc EXCEPT !.raised = TRUE]]

LiveSignal(s) ==
  /\ OnSignal(s)
  /\ account' = [account EXCEPT ![opened'].signal = s]

LiveOrderReturned == OrderReturned /\ Answered(sig.pc)

LiveTakeProfitReturned == TakeProfitReturned /\ Answered("tp")

LiveOrderRaised == OrderRaised /\ Raised(sig.pc)

\* The steps of the bot that send no order.
LocalStep ==
  /\ \/ EquityReturned
     \/ EntryAlertsSent
     \/ LoopTurn
     \/ \E r \in Requests : EmergencyStart(r) \/ EmergencyTurn(r)
     \/ \E n \in Limits : UpdateLimit(n)
     \/ \E c \in Coins : Expire(c)
  /\ UNCHANGED account

----------------------------------------------------------------------------
(* The exchange                                                            *)

\* A resting limit entry is filled.
EntryFills(i) ==
  /\ "entry" \in account[i].orders
  /\ account' = [account EXCEPT ![i].orders = @ \ {"entry"}, ![i].held = TRUE]
  /\ UNCHANGED vars

\* A reduce-only trigger order closes the position it was placed for.
LegTriggers(i, leg) ==
  /\ account[i].held /\ leg \in account[i].orders
  /\ account' = [account EXCEPT ![i].orders = @ \ {leg}, ![i].held = FALSE]
  /\ UNCHANGED vars

LiveNext ==
  \/ \E s \in Signals : LiveSignal(s)
  \/ LiveOrderReturned
  \/ LiveTakeProfitReturned
  \/ LiveOrderRaised
  \/ LocalStep
  \/ \E i \in 1 .. MaxOpens :
       EntryFills(i) \/ LegTriggers(i, "sl") \/ LegTriggers(i, "tp")

LiveSpec == LiveInit /\ [][LiveNext]_liveVars

----------------------------------------------------------------------------
(* Properties                                                              *)

Exposed(i) == account[i].held \/ "entry" \in account[i].orders

\* A dry run never has an order or a position on the exchange, not even from
\* a coroutine that was suspended in the middle of its placements.
DryRunSendsNothing ==
  dryRun => \A i \in 1 .. MaxOpens :
    ~account[i].held /\ account[i].orders = {}

\* An open entry of the dict that the account really holds has its stop-loss
\* order on the exchange, unless the exchange refused that order.
TrackedIsGuarded ==
  \A c \in Coins :
    LET acc == account[positions[c].id]
    IN  positions[c].status = "OPEN" /\ acc.held =>
          "sl" \in acc.orders \/ acc.refused

Placing(i) == i = opened /\ sig.pc \in {"equity", "entry", "sl", "tp"}

\* The only position of its coin so far is never exposed behind the bot's
\* back: it is in the dict, being placed, in the closed history, or a
\* placement raised.  (With a second position of the coin it can be: see
\* OpenStaysTracked.)
SoleEntryAccounted ==
  \A i \in 1 .. opened :
    LET sole == \A j \in 1 .. opened :
          account[j].signal.coin = account[i].signal.coin => j = i
    IN  Exposed(i) /\ sole =>
          \/ positions[account[i].signal.coin].id = i
          \/ Placing(i)
          \/ closes[i] > 0
          \/ account[i].raised

=============================================================================
