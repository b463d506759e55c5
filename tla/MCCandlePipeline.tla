-------------------------- MODULE MCCandlePipeline --------------------------
(***************************************************************************)
(* CandlePipeline with three histories: a rising and a falling staircase,  *)
(* each one trade away from a breakout, and a coin just listed.            *)
(***************************************************************************)
EXTENDS CandlePipeline

Bar(t, low, high, close, vol) ==
  [t |-> t, high |-> high, low |-> low, close |-> close, vol |-> vol, n |-> 2]

Rise == <<Bar(1, 199, 200, 199, 2), Bar(2, 198, 201, 200, 3), Bar(3, 200, 201, 200, 2),
          Bar(4, 199, 202, 202, 6), Bar(5, 201, 202, 201, 6), Bar(6, 200, 205, 204, 6),
          Bar(7, 202, 205, 203, 9)>>

Fall == <<Bar(1, 199, 200, 199, 1), Bar(2, 198, 202, 201, 1), Bar(3, 198, 201, 198, 1),
          Bar(4, 197, 198, 198, 4), Bar(5, 195, 199, 195, 6), Bar(6, 195, 196, 196, 2),
          Bar(7, 192, 197, 192, 6)>>

Listed == SubSeq(Rise, 5, 7)

MCHistories == {Rise, Fall, Listed}
MCTicks == {-3, 0, 3}

=============================================================================
