-------------------------- MODULE MCPositionManager --------------------------
(***************************************************************************)
(* The position manager for TLC: what open_position is asked for.          *)
(***************************************************************************)
EXTENDS PositionManager

CONSTANTS a, b

Market(c, d) == [coin |-> c, dir |-> d, limit |-> FALSE]

OneLong == {Market(a, 1)}
LongAndShort == {Market(a, 1), Market(b, -1)}
MarketAndLimit == {Market(a, -1), [Market(a, 1) EXCEPT !.limit = TRUE]}

=============================================================================
