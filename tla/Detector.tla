------------------------------ MODULE Detector ------------------------------
(***************************************************************************)
(* What the insider scanner does with trades: the buffers that merge the   *)
(* fills of one address, coin and side within a sliding window, and the    *)
(* queue of inspections (insider-scanner, scanner/                         *)
(* insider-detector.service.ts, scanner/rate-limiter.service.ts).  One     *)
(* coin; all fills have size 1.                                            *)
(***************************************************************************)
EXTENDS Integers, FiniteSets, Sequences

CONSTANTS
  Addresses,   \* traders
  NoAddress,   \* the zero address, of system fills
  SlideWindow, \* SLIDE_WINDOW_MS, in ticks
  MaxWindow,   \* MAX_WINDOW_MS
  Threshold,   \* notionalThreshold of the coin
  Parties,     \* buyer and seller of the trades there can be
  MaxTrades    \* bound: trades with the names of their parties

ASSUME DetectorAssumption ==
  /\ NoAddress \notin Addresses
  /\ SlideWindow \in Nat \ {0} /\ MaxWindow \in Nat \ {0} /\ SlideWindow <= MaxWindow
  /\ Threshold \in Nat /\ MaxTrades \in Nat
  /\ Parties \subseteq (Addresses \cup {NoAddress}) \X (Addresses \cup {NoAddress})

Sides == {"B", "A"}
Keys == Addresses \X Sides

VARIABLES
  buffers,   \* tradeBuffers: per key the number of fills (0 for no entry), the
             \* age of the first one, and the time left on the timer
  traded,    \* for the properties: fills received, per key
  flushed,   \* and fills that have left a buffer
  trades,    \* trades received that name their parties
  inspector  \* the set `inspecting', and the rate limiter: its queue, whether it
             \* is idle, at a task or asleep between two, and the task's address

detector == <<buffers, traded, flushed, trades, inspector>>

NoBuffer == [fills |-> 0, age |-> 0, left |-> 0]

DetectorInit ==
  /\ buffers = [k \in Keys |-> NoBuffer]
  /\ traded = [k \in Keys |-> 0] /\ flushed = [k \in Keys |-> 0]
  /\ trades = 0
  /\ inspector = [inspecting |-> {}, queue |-> <<>>, pc |-> "idle", address |-> NoAddress]

----------------------------------------------------------------------------
(* The queue of inspections                                                *)

\* Seeded fault: an address is queued again while it is being inspected.
QueueInspectAgain(i, a) ==
  LET queue == Append(i.queue, a)
  IN  IF i.pc = "idle"
        THEN [inspecting |-> i.inspecting \cup {a}, queue |-> Tail(queue),
              pc |-> "task", address |-> Head(queue)]
        ELSE [i EXCEPT !.inspecting = @ \cup {a}, !.queue = queue]

\* queueInspect: an address that is queued or being inspected is passed over.
\* enqueue starts the loop of processQueue unless it is running.
QueueInspect(i, a) ==
  LET queue == Append(i.queue, a)
  IN  IF a \in i.inspecting THEN i
      ELSE IF i.pc = "idle"
        THEN [inspecting |-> i.inspecting \cup {a}, queue |-> Tail(queue),
              pc |-> "task", address |-> Head(queue)]
        ELSE [i EXCEPT !.inspecting = @ \cup {a}, !.queue = queue]

\* inspectTrader returns, whatever it found; it catches all errors.  The loop
\* sleeps only if there is a task left.
TaskEnds ==
  /\ inspector.pc = "task"
  /\ inspector' = [inspector EXCEPT !.inspecting = @ \ {inspector.address},
                                    !.address = NoAddress,
                                    !.pc = IF inspector.queue = <<>> THEN "idle" ELSE "sleep"]
  /\ UNCHANGED <<buffers, traded, flushed, trades>>

SleepEnds ==
  /\ inspector.pc = "sleep"
  /\ inspector' = [inspector EXCEPT !.queue = Tail(@), !.pc = "task",
                                    !.address = Head(inspector.queue)]
  /\ UNCHANGED <<buffers, traded, flushed, trades>>

----------------------------------------------------------------------------
(* The buffers                                                             *)

\* Seeded fault: the timer is always set to the whole sliding window.
TimerUncapped(age) == SlideWindow

Timer(age) == IF MaxWindow - age < SlideWindow THEN MaxWindow - age ELSE SlideWindow

\* A fill finds the buffer open longer than the cap.
Overdue(b) == b.fills > 0 /\ b.age >= MaxWindow

\* accumulateFill: the buffer afterwards, and the fills it flushes on the way.
Accumulated(b) ==
  IF Overdue(b) THEN NoBuffer
  ELSE IF b.fills > 0 THEN [b EXCEPT !.fills = @ + 1, !.left = Timer(b.age)]
  ELSE [fills |-> 1, age |-> 0, left |-> SlideWindow]

\* Seeded fault: the fill that finds the buffer overdue is not added.
FlushesOld(b) == IF Overdue(b) THEN b.fills ELSE 0

Flushes(b) == IF Overdue(b) THEN b.fills + 1 ELSE 0

\* flushBuffer, processLargeTrade: fills that amount to the threshold have
\* their address inspected.
Flush(i, k, fills) ==
  IF fills > 0 /\ fills >= Threshold THEN QueueInspect(i, k[1]) ELSE i

\* bufferTrade: the buyer's fill, then the seller's.
BufferTrade(users) ==
  LET B == <<users[1], "B">>
      A == <<users[2], "A">>
      parties == {B, A} \cap Keys
      flushes(k) == IF k \in parties THEN Flushes(buffers[k]) ELSE 0
  IN  /\ trades < MaxTrades /\ trades' = trades + 1
      /\ buffers' = [k \in Keys |->
                       IF k \in parties THEN Accumulated(buffers[k]) ELSE buffers[k]]
      /\ traded' = [k \in Keys |-> IF k \in parties THEN traded[k] + 1 ELSE traded[k]]
      /\ flushed' = [k \in Keys |-> flushed[k] + flushes(k)]
      /\ inspector' = Flush(Flush(inspector, B, flushes(B)), A, flushes(A))

\* The buffer's timer.
TimerFlushes(k) ==
  /\ buffers[k].fills > 0 /\ buffers[k].left = 0
  /\ buffers' = [buffers EXCEPT ![k] = NoBuffer]
  /\ flushed' = [flushed EXCEPT ![k] = @ + buffers[k].fills]
  /\ inspector' = Flush(inspector, k, buffers[k].fills)
  /\ UNCHANGED <<traded, trades>>

Filled == {k \in Keys : buffers[k].fills > 0}

\* Time passes; a timer that is due runs first.
Tick ==
  /\ Filled # {} /\ \A k \in Filled : buffers[k].left > 0
  /\ buffers' = [k \in Keys |->
                   IF k \in Filled THEN [buffers[k] EXCEPT !.age = @ + 1, !.left = @ - 1]
                                   ELSE buffers[k]]
  /\ UNCHANGED <<traded, flushed, trades, inspector>>

DetectorNext ==
  \/ TaskEnds
  \/ SleepEnds
  \/ \E k \in Keys : TimerFlushes(k)
  \/ Tick

----------------------------------------------------------------------------
(* Properties                                                              *)

\* Types; no buffer stays open longer than the cap.
DetectorTypeOK ==
  /\ buffers \in [Keys -> [fills : 0 .. MaxTrades, age : 0 .. MaxWindow,
                           left : 0 .. SlideWindow]]
  /\ traded \in [Keys -> Nat] /\ flushed \in [Keys -> Nat]
  /\ trades \in 0 .. MaxTrades
  /\ inspector \in [inspecting : SUBSET Addresses, queue : Seq(Addresses),
                    pc : {"idle", "task", "sleep"}, address : Addresses \cup {NoAddress}]

\* No fill is lost and none is flushed twice, whatever arrives between the
\* timer, the cap and the flush: a fill is in the buffer of its key until it
\* is flushed with it.
FillsKept == \A k \in Keys : traded[k] = buffers[k].fills + flushed[k]

\* The set `inspecting', which the detector keeps, and the queue and the running
\* task, which the rate limiter keeps, tell the same: an address that is marked
\* is queued or at work, once, and while the loop is not running nothing waits.
Queued(i) == {i.queue[n] : n \in DOMAIN i.queue}

Tells(i) ==
  /\ \A m, n \in DOMAIN i.queue : i.queue[m] = i.queue[n] => m = n
  /\ i.address \notin Queued(i)
  /\ i.inspecting = Queued(i) \cup ({i.address} \cap Addresses)
  /\ i.pc = "task" <=> i.address \in Addresses
  /\ i.pc = "sleep" => i.queue # <<>>
  /\ i.pc = "idle" => i.queue = <<>>

QueueTells == Tells(inspector)

=============================================================================
