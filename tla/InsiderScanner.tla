--------------------------- MODULE InsiderScanner ---------------------------
(***************************************************************************)
(* The insider scanner: the stream of trades and the detector it feeds.    *)
(* The handlers of a message run to their end before anything else does.   *)
(***************************************************************************)
EXTENDS TradeStream, Detector

vars == <<stream, detector>>

Init == StreamInit /\ DetectorInit

\* A message whose trades do not name their parties, or one that does.
TradeArrives ==
  /\ Message
  /\ \/ UNCHANGED detector
     \/ \E users \in Parties : BufferTrade(users)

\* Callbacks of the stream.
Handshake == \E s \in Sockets : Opens(s)
Accepted == socket \in Sockets /\ Opens(socket)
Ending == \E s \in Sockets : readyState[s] \in {"connecting", "closing"} /\ Closes(s)

StreamNext ==
  \/ TimerFires
  \/ CoinsLoaded
  \/ HealthCheck
  \/ Handshake
  \/ \E s \in Sockets : Closes(s) \/ StartsClosing(s) \/ FallsSilent(s)
  \/ MinutePasses

Next ==
  /\ ~crashed
  /\ \/ TradeArrives
     \/ StreamNext /\ UNCHANGED detector
     \/ DetectorNext /\ UNCHANGED stream

Spec == Init /\ [][Next]_vars

Runs(A) == ~crashed /\ A /\ UNCHANGED detector

\* Timers, intervals and the REST call come to their end; so does a handshake,
\* and a socket that is closing.  An exchange that is asked again and again to
\* connect accepts in the end, not only attempts the scanner has given up, which
\* look the same to it, and one that accepts again and again sends a trade in the
\* end.
Fairness ==
  /\ WF_vars(Runs(HealthCheck))
  /\ WF_vars(Runs(TimerFires))
  /\ WF_vars(Runs(CoinsLoaded))
  /\ WF_vars(Runs(Ending))
  /\ SF_vars(Runs(Accepted))
  /\ SF_vars(~crashed /\ TradeArrives)

FairSpec == Spec /\ Fairness

----------------------------------------------------------------------------
(* Properties                                                              *)

ScannerTypeOK == StreamTypeOK /\ DetectorTypeOK

\* Once a trade has come, trades come again and again: no failed handshake, no
\* closing, no connection that falls silent, and none that the health check
\* finds stale before its first trade, ends the stream.  (A first connection on
\* which no trade ever comes is not found stale.)
StreamComesBack == lastMessage # "never" ~> (lastMessage = "recent" \/ crashed)

=============================================================================
