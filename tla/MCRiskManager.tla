--------------------------- MODULE MCRiskManager ---------------------------
(* RiskManager over a weekend and a Monday, for TLC.                       *)
EXTENDS RiskManager

\* The limits of an initial equity of 100 are 5 a day and 10 a week, so that
\* one, two and three losses reach different ones; 86 is no drawdown of 100,
\* 85 is one exactly.
MCPnls == {-5, -4, 3}

MCEquities == {85, 86, 100}

MCLevels == {-1, 0, 97, 98, 100, 101}

=============================================================================
