---------------------------- MODULE MCTradeLoop ----------------------------
(* TradeLoop with three coins, two long signals and a short one, for TLC.  *)
EXTENDS TradeLoop

CONSTANTS a, b, c

MCCoins == {a, b, c}

\* Risk 20: the trailing stop triggers 18 beyond the entry and trails by 2.
MCSignals ==
  {[coin |-> a, dir |-> "LONG", entry |-> 40, sl |-> 20, tp |-> 70],
   [coin |-> b, dir |-> "SHORT", entry |-> 40, sl |-> 60, tp |-> 10],
   [coin |-> c, dir |-> "LONG", entry |-> 40, sl |-> 20, tp |-> 60]}

\* 20 stops the longs out and trails the short, 60 stops the short out and
\* takes c's profit, 59 and 60 trail a and leave a mark one above the price.
MCPrices == {20, 59, 60}

=============================================================================
