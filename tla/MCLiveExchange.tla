--------------------------- MODULE MCLiveExchange ---------------------------
(* LiveExchange with two coins, for TLC.                                   *)
EXTENDS LiveExchange

CONSTANTS a, b

MCCoins == {a, b}

MCSignals ==
  {[coin |-> a, dir |-> "LONG", entry |-> 40, sl |-> 20, tp |-> 60],
   [coin |-> b, dir |-> "SHORT", entry |-> 40, sl |-> 60, tp |-> 20]}

\* Nothing happens at 40; at 20 the long stops out and the short profits.
MCPrices == {20, 40}

=============================================================================
