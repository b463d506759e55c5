-------------------------- MODULE MCInsiderScanner --------------------------
(***************************************************************************)
(* The insider scanner with two traders, for TLC.                          *)
(***************************************************************************)
EXTENDS InsiderScanner

CONSTANTS x, y, none

\* x buys from y.
MCParties == {<<x, y>>}

=============================================================================
