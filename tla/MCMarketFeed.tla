---------------------------- MODULE MCMarketFeed ----------------------------
(* MarketFeed with three coins and one slot for a candidate, for TLC.      *)
EXTENDS MarketFeed

CONSTANTS a, b, c

MCCoins == {a, b, c}

\* Two candidates for the one slot, one other, and none.
MCRankings == {<<a, b>>, <<c>>, <<>>}

=============================================================================
