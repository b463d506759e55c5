--------------------------- MODULE MCRateLimiter ---------------------------
(* RateLimiter with two callers and a budget of four, for TLC.             *)
EXTENDS RateLimiter

MCEndpoints == {"allMids", "userFills", "userRole"}

MCWeight == [e \in MCEndpoints |->
  CASE e = "allMids" -> 1 [] e = "userFills" -> 2 [] e = "userRole" -> 3]

MCExtras == [e \in MCEndpoints |-> IF e = "userFills" THEN {0, 3} ELSE {0}]

=============================================================================
