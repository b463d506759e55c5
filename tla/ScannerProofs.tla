---------------------------- MODULE ScannerProofs ----------------------------
(* Proofs about InsiderScanner: the fills are kept, the two records of      *)
(* inspections agree, and there is one stream.                              *)
EXTENDS InsiderScanner, SequenceTheorems, TLAPS

----------------------------------------------------------------------------
(* The queue of inspections                                                *)

Inspector == [inspecting : SUBSET Addresses, queue : Seq(Addresses),
              pc : {"idle", "task", "sleep"}, address : Addresses \cup {NoAddress}]

\* What `enqueue' leaves behind, and what takes the next task: the queue grows
\* at its end and shrinks at its head.
LEMMA AppendHolds ==
  ASSUME NEW q \in Seq(Addresses), NEW a \in Addresses
  PROVE  /\ Append(q, a) \in Seq(Addresses) /\ Append(q, a) # <<>>
         /\ DOMAIN Append(q, a) = 1 .. Len(q) + 1
         /\ \A n \in 1 .. Len(q) : Append(q, a)[n] = q[n]
         /\ Append(q, a)[Len(q) + 1] = a
BY AppendProperties, LenProperties

LEMMA TailHolds ==
  ASSUME NEW q \in Seq(Addresses), q # <<>>
  PROVE  /\ Head(q) \in Addresses /\ Head(q) = q[1] /\ Len(q) \in Nat \ {0}
         /\ Tail(q) \in Seq(Addresses) /\ DOMAIN Tail(q) = 1 .. Len(q) - 1
         /\ \A n \in 1 .. Len(q) - 1 : Tail(q)[n] = q[n + 1]
BY HeadTailProperties, LenProperties, EmptySeq

\* queueInspect keeps the agreement.
LEMMA QueueInspectTells ==
  ASSUME NEW i \in Inspector, Tells(i), NEW a \in Addresses
  PROVE  QueueInspect(i, a) \in Inspector /\ Tells(QueueInspect(i, a))
<1> DEFINE queue == Append(i.queue, a)
           j == QueueInspect(i, a)
<1>0. i.queue \in Seq(Addresses) /\ i.inspecting \in SUBSET Addresses
      /\ i.address \in Addresses \cup {NoAddress} /\ i.pc \in {"idle", "task", "sleep"}
      /\ Len(i.queue) \in Nat /\ DOMAIN i.queue = 1 .. Len(i.queue)
  BY LenProperties DEF Inspector
<1>1. CASE a \in i.inspecting
  BY <1>1 DEF QueueInspect
<1>2. CASE a \notin i.inspecting /\ i.pc = "idle"
  <2>1. i.queue = <<>> /\ Len(i.queue) = 0 /\ Queued(i) = {}
    BY <1>0, <1>2 DEF Tells, Queued
  <2>2. queue \in Seq(Addresses) /\ queue # <<>> /\ Len(queue) = 1 /\ queue[1] = a
    BY <1>0, <2>1, AppendHolds, LenProperties
  <2>3. Head(queue) = a /\ Tail(queue) = <<>>
    BY <2>2, TailHolds, EmptySeq, LenProperties
  <2>4. j = [inspecting |-> i.inspecting \cup {a}, queue |-> <<>>, pc |-> "task",
             address |-> a]
    BY <1>2, <2>3 DEF QueueInspect
  <2>5. i.inspecting = {}
    BY <1>0, <1>2, <2>1 DEF Tells
  <2>6. Queued(j) = {} /\ j.queue = <<>> /\ DOMAIN j.queue = {}
    BY <2>4 DEF Queued
  <2>7. j \in Inspector
    BY <1>0, <2>4 DEF Inspector
  <2>8. j.inspecting = {a} /\ j.address = a /\ j.pc = "task"
    BY <2>4, <2>5
  <2> HIDE DEF j
  <2>9. Tells(j)
    BY <2>6, <2>8 DEF Tells
  <2> QED
    BY <2>7, <2>9 DEF j
<1>3. CASE a \notin i.inspecting /\ i.pc # "idle"
  <2>1. j = [i EXCEPT !.inspecting = @ \cup {a}, !.queue = queue]
    BY <1>3 DEF QueueInspect
  <2>2. /\ j.inspecting = i.inspecting \cup {a} /\ j.queue = queue
        /\ j.pc = i.pc /\ j.address = i.address
    BY <2>1 DEF Inspector
  <2>3. /\ queue \in Seq(Addresses) /\ queue # <<>> /\ DOMAIN queue = 1 .. Len(i.queue) + 1
        /\ \A n \in 1 .. Len(i.queue) : queue[n] = i.queue[n]
        /\ queue[Len(i.queue) + 1] = a
    BY <1>0, AppendHolds
  <2>4. j \in Inspector
    <3>1. j = [inspecting |-> i.inspecting \cup {a}, queue |-> queue, pc |-> i.pc,
               address |-> i.address]
      BY <2>1 DEF Inspector
    <3> QED
      BY <1>0, <2>3, <3>1 DEF Inspector
  <2> HIDE DEF queue, j
  <2>5. Queued(j) = Queued(i) \cup {a}
    BY <1>0, <2>2, <2>3 DEF Queued
  <2>6. a \notin Queued(i) /\ a # i.address
    BY <1>3 DEF Tells
  <2>7. ASSUME NEW m \in DOMAIN j.queue, NEW n \in DOMAIN j.queue, j.queue[m] = j.queue[n]
        PROVE  m = n
    <3>1. \A k \in 1 .. Len(i.queue) : i.queue[k] # a
      BY <1>0, <2>6 DEF Queued
    <3>2. \A k \in DOMAIN j.queue : k \in 1 .. Len(i.queue) \/ k = Len(i.queue) + 1
      BY <1>0, <2>2, <2>3
    <3>3. \A k, l \in 1 .. Len(i.queue) : i.queue[k] = i.queue[l] => k = l
      BY <1>0 DEF Tells
    <3> QED
      BY <2>2, <2>3, <2>7, <3>1, <3>2, <3>3
  <2>8. Tells(j)
    BY <1>3, <2>2, <2>3, <2>5, <2>6, <2>7 DEF Tells
  <2> QED
    BY <2>4, <2>8 DEF j
<1> QED
  BY <1>1, <1>2, <1>3

LEMMA FlushTells ==
  ASSUME NEW i \in Inspector, Tells(i), NEW k, NEW fills \in Nat,
         fills > 0 => k \in Keys
  PROVE  Flush(i, k, fills) \in Inspector /\ Tells(Flush(i, k, fills))
<1>1. fills > 0 => k[1] \in Addresses
  BY DEF Keys
<1> QED
  BY <1>1, QueueInspectTells DEF Flush

----------------------------------------------------------------------------
(* The detector                                                            *)

\* What a fill leaves of its buffer, with the time it may still stay open.
Buffer == [fills : 0 .. MaxTrades, age : 0 .. MaxWindow, left : 0 .. SlideWindow]

DetectorInv ==
  /\ DetectorTypeOK
  /\ FillsKept
  /\ QueueTells
  /\ \A k \in Keys : /\ buffers[k].fills <= trades
                     /\ buffers[k].age + buffers[k].left <= MaxWindow

LEMMA TypesOfInspector == DetectorTypeOK => inspector \in Inspector
BY DEF DetectorTypeOK, Inspector

LEMMA DetectorInitInv == DetectorInit => DetectorInv
<1> SUFFICES ASSUME DetectorInit PROVE DetectorInv
  OBVIOUS
<1>1. buffers \in [Keys -> Buffer] /\ \A k \in Keys : buffers[k] = NoBuffer
  BY DetectorAssumption DEF DetectorInit, NoBuffer, Buffer
<1>2. inspector.queue = <<>> /\ inspector.address = NoAddress /\ inspector.pc = "idle"
      /\ inspector.inspecting = {} /\ inspector \in Inspector
  BY EmptySeq DEF DetectorInit, Inspector
<1>3. DetectorTypeOK
  BY <1>1, <1>2, DetectorAssumption DEF DetectorInit, DetectorTypeOK, Buffer, Inspector
<1>4. Tells(inspector)
  <2>1. DOMAIN inspector.queue = {} /\ Queued(inspector) = {}
    BY <1>2 DEF Queued
  <2> QED
    BY <1>2, <2>1, DetectorAssumption DEF Tells
<1> QED
  BY <1>1, <1>3, <1>4, DetectorAssumption DEF DetectorInv, FillsKept, QueueTells,
     DetectorInit, NoBuffer

\* One fill and its buffer.
LEMMA FillHolds ==
  ASSUME NEW b \in Buffer, b.age + b.left <= MaxWindow, b.fills < MaxTrades
  PROVE  /\ Accumulated(b) \in Buffer /\ Flushes(b) \in Nat
         /\ Accumulated(b).age + Accumulated(b).left <= MaxWindow
         /\ Accumulated(b).fills <= b.fills + 1
         /\ b.fills + 1 = Accumulated(b).fills + Flushes(b)
<1>1. /\ b.fills \in Nat /\ b.age \in Nat /\ b.left \in Nat /\ b.fills + 1 <= MaxTrades
      /\ b.age <= MaxWindow /\ b.left <= SlideWindow /\ MaxTrades \in Nat
      /\ SlideWindow \in Nat /\ MaxWindow \in Nat /\ SlideWindow <= MaxWindow
  BY DetectorAssumption DEF Buffer
<1>2. CASE Overdue(b)
  BY <1>1, <1>2 DEF Accumulated, Flushes, NoBuffer, Buffer
<1>3. CASE ~Overdue(b) /\ b.fills > 0
  <2>1. Timer(b.age) \in Nat /\ Timer(b.age) <= SlideWindow
        /\ b.age + Timer(b.age) <= MaxWindow
    BY <1>1, <1>3 DEF Overdue, Timer
  <2>2. Accumulated(b) = [fills |-> b.fills + 1, age |-> b.age, left |-> Timer(b.age)]
    BY <1>3 DEF Accumulated, Buffer
  <2>3. Flushes(b) = 0
    BY <1>3 DEF Flushes
  <2> QED
    BY <1>1, <2>1, <2>2, <2>3 DEF Buffer
<1>4. CASE ~Overdue(b) /\ ~(b.fills > 0)
  BY <1>1, <1>4 DEF Accumulated, Flushes, Buffer
<1> QED
  BY <1>2, <1>3, <1>4

LEMMA TradeKeeps ==
  ASSUME DetectorInv, NEW users \in Parties, BufferTrade(users)
  PROVE  DetectorInv'
<1> DEFINE B == <<users[1], "B">>
           A == <<users[2], "A">>
           parties == {B, A} \cap Keys
           flushes(k) == IF k \in parties THEN Flushes(buffers[k]) ELSE 0
<1>1. /\ trades \in Nat /\ trades < MaxTrades /\ trades' = trades + 1
      /\ buffers \in [Keys -> Buffer] /\ MaxTrades \in Nat
      /\ traded \in [Keys -> Nat] /\ flushed \in [Keys -> Nat]
      /\ inspector \in Inspector
  <2>1. trades < MaxTrades /\ trades' = trades + 1
    BY DEF BufferTrade
  <2>2. /\ trades \in 0 .. MaxTrades /\ buffers \in [Keys -> Buffer]
        /\ traded \in [Keys -> Nat] /\ flushed \in [Keys -> Nat]
    BY DEF DetectorInv, DetectorTypeOK, Buffer
  <2>3. inspector \in Inspector
    BY TypesOfInspector DEF DetectorInv
  <2> QED
    BY <2>1, <2>2, <2>3, DetectorAssumption
<1>2. /\ buffers' = [k \in Keys |->
                       IF k \in parties THEN Accumulated(buffers[k]) ELSE buffers[k]]
      /\ traded' = [k \in Keys |-> IF k \in parties THEN traded[k] + 1 ELSE traded[k]]
      /\ flushed' = [k \in Keys |-> flushed[k] + flushes(k)]
      /\ inspector' = Flush(Flush(inspector, B, flushes(B)), A, flushes(A))
  BY DEF BufferTrade
<1> HIDE DEF B, A, parties
<1>3. ASSUME NEW k \in Keys
      PROVE  /\ buffers[k] \in Buffer /\ buffers[k].fills \in Nat
             /\ buffers[k].age + buffers[k].left <= MaxWindow
             /\ buffers[k].fills <= trades /\ buffers[k].fills < MaxTrades
             /\ traded[k] = buffers[k].fills + flushed[k]
             /\ traded[k] \in Nat /\ flushed[k] \in Nat
  <2>1. buffers[k] \in Buffer
    BY <1>1
  <2>2. buffers[k].fills \in Nat
    BY <2>1 DEF Buffer
  <2>3. buffers[k].fills <= trades /\ buffers[k].age + buffers[k].left <= MaxWindow
        /\ traded[k] = buffers[k].fills + flushed[k]
    BY DEF DetectorInv, FillsKept
  <2> QED
    BY <1>1, <2>1, <2>2, <2>3
<1>4. ASSUME NEW k \in Keys
      PROVE  /\ Accumulated(buffers[k]) \in Buffer /\ Flushes(buffers[k]) \in Nat
             /\ Accumulated(buffers[k]).age + Accumulated(buffers[k]).left <= MaxWindow
             /\ Accumulated(buffers[k]).fills <= buffers[k].fills + 1
             /\ buffers[k].fills + 1 = Accumulated(buffers[k]).fills + Flushes(buffers[k])
  BY <1>3, FillHolds
<1>5. ASSUME NEW k \in Keys
      PROVE  /\ buffers'[k] \in Buffer /\ traded'[k] \in Nat /\ flushed'[k] \in Nat
             /\ buffers'[k].age + buffers'[k].left <= MaxWindow
             /\ buffers'[k].fills <= trades'
             /\ traded'[k] = buffers'[k].fills + flushed'[k]
  <2>1. CASE k \in parties
    <3>1. /\ buffers'[k] = Accumulated(buffers[k]) /\ traded'[k] = traded[k] + 1
          /\ flushed'[k] = flushed[k] + Flushes(buffers[k])
      BY <1>2, <2>1
    <3>2. Accumulated(buffers[k]).fills \in Nat
      BY <1>4 DEF Buffer
    <3>3. traded'[k] \in Nat /\ flushed'[k] \in Nat
      BY <1>3, <1>4, <3>1
    <3>4. buffers'[k].fills <= trades'
      BY <1>1, <1>3, <1>4, <3>1, <3>2
    <3>5. traded'[k] = buffers'[k].fills + flushed'[k]
      <4>1. traded[k] = buffers[k].fills + flushed[k] /\ buffers[k].fills \in Nat
            /\ flushed[k] \in Nat /\ Flushes(buffers[k]) \in Nat
            /\ buffers[k].fills + 1
                 = Accumulated(buffers[k]).fills + Flushes(buffers[k])
        BY <1>3, <1>4
      <4> QED
        BY <3>1, <3>2, <4>1
    <3> QED
      BY <1>4, <3>1, <3>3, <3>4, <3>5
  <2>2. CASE k \notin parties
    <3>1. buffers'[k] = buffers[k] /\ traded'[k] = traded[k] /\ flushed'[k] = flushed[k]
      BY <1>2, <1>3, <2>2
    <3> QED
      BY <1>1, <1>3, <3>1
  <2> QED
    BY <2>1, <2>2
<1>6. /\ buffers' \in [Keys -> Buffer] /\ traded' \in [Keys -> Nat]
      /\ flushed' \in [Keys -> Nat] /\ trades' \in 0 .. MaxTrades
  <2>1. /\ DOMAIN buffers' = Keys /\ DOMAIN traded' = Keys /\ DOMAIN flushed' = Keys
        /\ buffers' = [k \in Keys |-> buffers'[k]] /\ traded' = [k \in Keys |-> traded'[k]]
        /\ flushed' = [k \in Keys |-> flushed'[k]]
    BY <1>2
  <2> QED
    BY <1>1, <1>5, <2>1
<1>7. /\ flushes(B) \in Nat /\ flushes(A) \in Nat
      /\ flushes(B) > 0 => B \in Keys
      /\ flushes(A) > 0 => A \in Keys
  BY <1>4 DEF parties
<1> HIDE DEF flushes
<1>8. inspector' \in Inspector /\ Tells(inspector')
  <2>1. Tells(inspector)
    BY DEF DetectorInv, QueueTells
  <2>2. Flush(inspector, B, flushes(B)) \in Inspector
        /\ Tells(Flush(inspector, B, flushes(B)))
    BY <1>1, <1>7, <2>1, FlushTells
  <2> QED
    BY <1>2, <1>7, <2>2, FlushTells
<1>9. DetectorTypeOK'
  BY <1>6, <1>8 DEF DetectorTypeOK, Buffer, Inspector
<1>10. FillsKept' /\ QueueTells'
  BY <1>5, <1>8 DEF FillsKept, QueueTells
<1> QED
  BY <1>5, <1>9, <1>10 DEF DetectorInv

LEMMA DetectorKeeps == DetectorInv /\ DetectorNext => DetectorInv'
<1> SUFFICES ASSUME DetectorInv, DetectorNext PROVE DetectorInv'
  OBVIOUS
<1>1. inspector \in Inspector /\ Tells(inspector)
  BY TypesOfInspector DEF DetectorInv, QueueTells
<1>2. /\ buffers \in [Keys -> Buffer] /\ traded \in [Keys -> Nat]
      /\ flushed \in [Keys -> Nat] /\ trades \in 0 .. MaxTrades
  BY DEF DetectorInv, DetectorTypeOK, Buffer
<1>3. ASSUME UNCHANGED <<buffers, traded, flushed, trades>>, inspector' \in Inspector,
             Tells(inspector')
      PROVE  DetectorInv'
  <2>1. DetectorTypeOK'
    BY <1>2, <1>3 DEF DetectorTypeOK, Buffer, Inspector
  <2> QED
    BY <1>3, <2>1 DEF DetectorInv, FillsKept, QueueTells
<1>4. CASE TaskEnds
  <2>1. /\ inspector.pc = "task" /\ inspector.address \in Addresses
        /\ inspector.queue \in Seq(Addresses) /\ inspector.inspecting \in SUBSET Addresses
    BY <1>1, <1>4 DEF TaskEnds, Tells, Inspector
  <2>2. inspector' = [inspecting |-> inspector.inspecting \ {inspector.address},
                      queue |-> inspector.queue,
                      pc |-> IF inspector.queue = <<>> THEN "idle" ELSE "sleep",
                      address |-> NoAddress]
    BY <1>1, <1>4 DEF TaskEnds, Inspector
  <2>3. inspector' \in Inspector
    BY <2>1, <2>2 DEF Inspector
  <2>4. /\ inspector'.queue = inspector.queue /\ inspector'.address = NoAddress
        /\ inspector'.inspecting = inspector.inspecting \ {inspector.address}
        /\ inspector'.pc = IF inspector.queue = <<>> THEN "idle" ELSE "sleep"
    BY <2>2
  <2>5. Queued(inspector') = Queued(inspector) /\ Queued(inspector) \subseteq Addresses
    BY <2>1, <2>4 DEF Queued
  <2>6. inspector'.inspecting = Queued(inspector)
    BY <1>1, <2>1, <2>4 DEF Tells
  <2>7. Tells(inspector')
    BY <1>1, <2>4, <2>5, <2>6, DetectorAssumption DEF Tells
  <2> QED
    BY <1>3, <1>4, <2>3, <2>7 DEF TaskEnds
<1>5. CASE SleepEnds
  <2> DEFINE q == inspector.queue
             a == Head(q)
  <2>1. inspector.pc = "sleep" /\ q # <<>> /\ q \in Seq(Addresses)
        /\ inspector.address \notin Addresses /\ inspector.inspecting = Queued(inspector)
        /\ inspector.inspecting \in SUBSET Addresses
    BY <1>1, <1>5 DEF SleepEnds, Tells, Inspector
  <2>2. inspector' = [inspecting |-> inspector.inspecting, queue |-> Tail(q),
                      pc |-> "task", address |-> a]
    BY <1>1, <1>5 DEF SleepEnds, Inspector
  <2>3. /\ a \in Addresses /\ a = q[1] /\ Len(q) \in Nat \ {0} /\ DOMAIN q = 1 .. Len(q)
        /\ Tail(q) \in Seq(Addresses) /\ DOMAIN Tail(q) = 1 .. Len(q) - 1
        /\ \A n \in 1 .. Len(q) - 1 : Tail(q)[n] = q[n + 1]
    BY <2>1, TailHolds, LenProperties
  <2>4. inspector' \in Inspector
    BY <2>1, <2>2, <2>3 DEF Inspector
  <2>5. /\ inspector'.queue = Tail(q) /\ inspector'.address = a /\ inspector'.pc = "task"
        /\ inspector'.inspecting = Queued(inspector)
    BY <2>1, <2>2
  <2>6. \A m, n \in DOMAIN q : q[m] = q[n] => m = n
    BY <1>1 DEF Tells
  <2>7. Queued(inspector) = {q[n] : n \in DOMAIN q}
    BY DEF Queued
  <2>8. Queued(inspector') = {Tail(q)[n] : n \in DOMAIN Tail(q)}
    BY <2>5 DEF Queued
  <2> HIDE DEF q, a
  <2>9. \A m, n \in DOMAIN Tail(q) : Tail(q)[m] = Tail(q)[n] => m = n
    BY <2>3, <2>6
  <2>10. a \notin Queued(inspector')
    <3>1. \A n \in DOMAIN Tail(q) : n + 1 \in DOMAIN q /\ n + 1 # 1 /\ Tail(q)[n] = q[n + 1]
      BY <2>3
    <3> QED
      BY <2>3, <2>6, <2>8, <3>1
  <2>11. Queued(inspector) = Queued(inspector') \cup {a}
    <3>1. \A n \in DOMAIN q : n = 1 \/ (n - 1 \in DOMAIN Tail(q) /\ Tail(q)[n - 1] = q[n])
      BY <2>3
    <3>2. \A n \in DOMAIN Tail(q) : n + 1 \in DOMAIN q /\ Tail(q)[n] = q[n + 1]
      BY <2>3
    <3>3. a \in Queued(inspector)
      BY <2>3, <2>7
    <3>4. ASSUME NEW n \in DOMAIN q PROVE q[n] = a \/ q[n] \in Queued(inspector')
      BY <2>3, <2>8, <3>1
    <3>5. \A x \in Queued(inspector') : x \in Queued(inspector)
      BY <2>7, <2>8, <3>2
    <3> QED
      BY <2>7, <3>3, <3>4, <3>5
  <2>12. Tells(inspector')
    BY <2>3, <2>5, <2>9, <2>10, <2>11 DEF Tells
  <2> QED
    BY <1>3, <1>5, <2>4, <2>12 DEF SleepEnds
<1>6. ASSUME NEW k \in Keys, TimerFlushes(k) PROVE DetectorInv'
  <2>1. /\ buffers[k] \in Buffer /\ buffers[k].fills \in Nat
        /\ traded[k] = buffers[k].fills + flushed[k] /\ flushed[k] \in Nat
    BY <1>2 DEF DetectorInv, FillsKept, Buffer
  <2>2. NoBuffer \in Buffer
    BY DetectorAssumption DEF NoBuffer, Buffer
  <2>3. /\ buffers' = [buffers EXCEPT ![k] = NoBuffer]
        /\ flushed' = [flushed EXCEPT ![k] = @ + buffers[k].fills]
        /\ inspector' = Flush(inspector, k, buffers[k].fills)
        /\ traded' = traded /\ trades' = trades
    BY <1>6 DEF TimerFlushes
  <2>4. inspector' \in Inspector /\ Tells(inspector')
    BY <1>1, <2>1, <2>3, FlushTells
  <2>5. buffers' \in [Keys -> Buffer] /\ flushed' \in [Keys -> Nat]
    BY <1>2, <2>1, <2>2, <2>3
  <2>6. DetectorTypeOK'
    BY <1>2, <2>3, <2>4, <2>5 DEF DetectorTypeOK, Buffer, Inspector
  <2>7. ASSUME NEW l \in Keys
        PROVE  /\ traded'[l] = buffers'[l].fills + flushed'[l]
               /\ buffers'[l].fills <= trades'
               /\ buffers'[l].age + buffers'[l].left <= MaxWindow
    <3>1. CASE l = k
      <4>1. buffers'[l] = NoBuffer /\ flushed'[l] = flushed[k] + buffers[k].fills
        BY <1>2, <2>3, <3>1
      <4> QED
        BY <1>2, <2>1, <2>3, <3>1, <4>1, DetectorAssumption DEF NoBuffer
    <3>2. CASE l # k
      <4>1. buffers'[l] = buffers[l] /\ flushed'[l] = flushed[l]
        BY <1>2, <2>3, <3>2
      <4> QED
        BY <2>3, <4>1 DEF DetectorInv, FillsKept
    <3> QED
      BY <3>1, <3>2
  <2> QED
    BY <2>4, <2>6, <2>7 DEF DetectorInv, FillsKept, QueueTells
<1>7. CASE Tick
  <2>1. /\ buffers' = [l \in Keys |->
               IF l \in Filled THEN [buffers[l] EXCEPT !.age = @ + 1, !.left = @ - 1]
                               ELSE buffers[l]]
        /\ \A l \in Filled : buffers[l].left > 0
        /\ traded' = traded /\ flushed' = flushed /\ trades' = trades
        /\ inspector' = inspector
    BY <1>7 DEF Tick
  <2>2. ASSUME NEW l \in Keys
        PROVE  /\ buffers'[l] \in Buffer /\ buffers'[l].fills = buffers[l].fills
               /\ buffers'[l].age + buffers'[l].left <= MaxWindow
    <3>1. buffers[l] \in Buffer /\ buffers[l].age + buffers[l].left <= MaxWindow
      BY <1>2 DEF DetectorInv
    <3>2. CASE l \in Filled
      <4>1. buffers'[l] = [fills |-> buffers[l].fills, age |-> buffers[l].age + 1,
                           left |-> buffers[l].left - 1]
        BY <2>1, <3>1, <3>2 DEF Buffer
      <4>2. buffers[l].left > 0
        BY <2>1, <3>2
      <4> QED
        BY <3>1, <4>1, <4>2, DetectorAssumption DEF Buffer
    <3>3. CASE l \notin Filled
      BY <2>1, <3>1, <3>3
    <3> QED
      BY <3>2, <3>3
  <2>3. buffers' \in [Keys -> Buffer]
    <3>1. DOMAIN buffers' = Keys /\ buffers' = [l \in Keys |-> buffers'[l]]
      BY <2>1
    <3> QED
      BY <2>2, <3>1
  <2>4. DetectorTypeOK'
    BY <1>1, <1>2, <2>1, <2>3 DEF DetectorTypeOK, Buffer, Inspector
  <2> QED
    BY <1>1, <2>1, <2>2, <2>4 DEF DetectorInv, FillsKept, QueueTells
<1> QED
  BY <1>4, <1>5, <1>6, <1>7 DEF DetectorNext

----------------------------------------------------------------------------
(* The stream                                                              *)

\* While no reconnect was scheduled on a closing socket, whatever leads to a
\* connection is one thing at a time: the timer, the connect that awaits the
\* coins, the handshake, or the connection itself.
OneAtATime ==
  /\ Live \subseteq {socket}
  /\ ~crashed
  /\ refreshing \in {0, 1}
  /\ refreshing = 1 => Live = {} /\ ~timer
  /\ isConnecting => ~timer
  /\ isConnecting <=> refreshing = 1 \/ Current = "connecting"
  /\ timer => Live = {}
  /\ connected => Current \in {"open", "closing"}

StreamInv == StreamTypeOK /\ (hasty = 0 => OneAtATime)

LEMMA StreamInitInv == StreamInit => StreamInv
<1> SUFFICES ASSUME NEW s \in Sockets,
        readyState = [x \in Sockets |-> IF x = s THEN "connecting" ELSE "closed"],
        socket = s, isConnecting = TRUE, refreshing = 0, timer = FALSE, connected = FALSE,
        reconnected = FALSE, lastMessage = "never", silent = {}, crashed = FALSE, hasty = 0
      PROVE  StreamInv
  BY DEF StreamInit
<1>1. Live = {s} /\ Current = "connecting"
  BY SocketsAssumption DEF Live, Current
<1>2. readyState \in [Sockets -> {"closed", "connecting", "open", "closing"}]
  OBVIOUS
<1>3. StreamTypeOK
  <2>1. hasty \in 0 .. MaxHasty /\ refreshing \in Nat
    BY SocketsAssumption
  <2>2. socket \in Live \cup {NoSocket, OldSocket} /\ silent \subseteq Live
    BY <1>1
  <2>3. /\ isConnecting \in BOOLEAN /\ timer \in BOOLEAN /\ connected \in BOOLEAN
        /\ reconnected \in BOOLEAN /\ crashed \in BOOLEAN
        /\ lastMessage \in {"never", "recent", "old"}
    OBVIOUS
  <2> QED
    BY <1>2, <2>1, <2>2, <2>3 DEF StreamTypeOK
<1>4. OneAtATime
  BY <1>1 DEF OneAtATime
<1> QED
  BY <1>3, <1>4 DEF StreamInv

LEMMA StreamTypes == StreamTypeOK /\ (StreamNext \/ Message) => StreamTypeOK'
<1> SUFFICES ASSUME StreamTypeOK, StreamNext \/ Message PROVE StreamTypeOK'
  OBVIOUS
<1> USE SocketsAssumption DEF StreamTypeOK, Live
<1>1. CASE TimerFires
  <2>1. /\ timer' = FALSE /\ isConnecting' \in BOOLEAN /\ refreshing' \in Nat
        /\ UNCHANGED <<connected, reconnected, lastMessage, silent, crashed, hasty>>
    <3>1. refreshing + 1 \in Nat
      OBVIOUS
    <3>2. /\ timer' = FALSE
          /\ UNCHANGED <<connected, reconnected, lastMessage, silent, crashed, hasty>>
          /\ isConnecting' = TRUE \/ isConnecting' = isConnecting
          /\ refreshing' = refreshing + 1 \/ refreshing' = refreshing
      BY <1>1 DEF TimerFires
    <3> QED
      BY <3>1, <3>2
  <2>2. CASE NewSocket
    BY <2>1, <2>2 DEF NewSocket
  <2>3. CASE UNCHANGED <<readyState, socket>>
    BY <2>1, <2>3
  <2> QED
    BY <1>1, <2>2, <2>3 DEF TimerFires
<1>2. CASE CoinsLoaded
  BY <1>2 DEF CoinsLoaded, NewSocket
<1>3. CASE HealthCheckDead
  BY <1>3 DEF HealthCheckDead, Scheduled
<1>4. CASE HealthCheckStale
  BY <1>4 DEF HealthCheckStale, Scheduled, Current
<1>5. ASSUME NEW s \in Sockets, Opens(s) PROVE StreamTypeOK'
  BY <1>5 DEF Opens
<1>6. ASSUME NEW s \in Sockets, Closes(s) PROVE StreamTypeOK'
  BY <1>6 DEF Closes, AfterClose
<1>7. ASSUME NEW s \in Sockets, StartsClosing(s) PROVE StreamTypeOK'
  BY <1>7 DEF StartsClosing
<1>8. ASSUME NEW s \in Sockets, FallsSilent(s) PROVE StreamTypeOK'
  BY <1>8 DEF FallsSilent, Delivering
<1>9. CASE MinutePasses \/ Message
  BY <1>9 DEF MinutePasses, Message
<1> QED
  BY <1>1, <1>2, <1>3, <1>4, <1>5, <1>6, <1>7, <1>8, <1>9 DEF StreamNext, HealthCheck,
     Handshake

LEMMA StreamKeeps == StreamInv /\ (StreamNext \/ Message) => StreamInv'
<1> SUFFICES ASSUME StreamInv, StreamNext \/ Message, hasty' = 0 PROVE OneAtATime'
  BY StreamTypes DEF StreamInv
<1> USE SocketsAssumption DEF StreamTypeOK
<1>0. StreamTypeOK
  BY DEF StreamInv
<1>1. hasty = 0 => OneAtATime
  BY DEF StreamInv
<1> USE <1>0 DEF OneAtATime, Live, Current
<1>2. CASE TimerFires
  <2>1. OneAtATime /\ timer
    BY <1>1, <1>2 DEF TimerFires
  <2> QED
    BY <1>2, <2>1 DEF TimerFires, MayConnect, NewSocket
<1>3. CASE CoinsLoaded
  <2>1. OneAtATime /\ refreshing = 1 /\ refreshing' = 0
    BY <1>1, <1>3 DEF CoinsLoaded
  <2> QED
    BY <1>3, <2>1 DEF CoinsLoaded, NewSocket
<1>4. CASE HealthCheckDead
  <2>1. hasty = 0 /\ (Current = "closed" \/ timer' = timer)
    BY <1>4 DEF HealthCheckDead
  <2> QED
    BY <1>1, <1>4, <2>1 DEF HealthCheckDead, Scheduled
<1>5. CASE HealthCheckStale
  BY <1>1, <1>5 DEF HealthCheckStale, Scheduled
<1>6. ASSUME NEW s \in Sockets, Opens(s) PROVE OneAtATime'
  <2>1. OneAtATime /\ s = socket
    BY <1>1, <1>6 DEF Opens
  <2> QED
    BY <1>6, <2>1 DEF Opens
<1>7. ASSUME NEW s \in Sockets, Closes(s) PROVE OneAtATime'
  <2>1. OneAtATime /\ s = socket
    BY <1>1, <1>7 DEF Closes
  <2> QED
    BY <1>7, <2>1 DEF Closes, AfterClose
<1>8. ASSUME NEW s \in Sockets, StartsClosing(s) PROVE OneAtATime'
  <2>1. OneAtATime /\ s = socket
    BY <1>1, <1>8 DEF StartsClosing
  <2> QED
    BY <1>8, <2>1 DEF StartsClosing
<1>9. ASSUME NEW s \in Sockets, FallsSilent(s) PROVE OneAtATime'
  BY <1>1, <1>9 DEF FallsSilent
<1>10. CASE MinutePasses \/ Message
  BY <1>1, <1>10 DEF MinutePasses, Message
<1> QED
  BY <1>2, <1>3, <1>4, <1>5, <1>6, <1>7, <1>8, <1>9, <1>10 DEF StreamNext, HealthCheck,
     Handshake

----------------------------------------------------------------------------
(* The scanner                                                             *)

ScannerInv == StreamInv /\ DetectorInv

LEMMA ScannerKeeps == ScannerInv /\ [Next]_vars => ScannerInv'
<1> SUFFICES ASSUME ScannerInv, [Next]_vars PROVE ScannerInv'
  OBVIOUS
<1>1. ASSUME UNCHANGED stream PROVE StreamInv'
  BY <1>1 DEF ScannerInv, StreamInv, StreamTypeOK, OneAtATime, Live, Current, stream
<1>2. ASSUME UNCHANGED detector PROVE DetectorInv'
  BY <1>2 DEF ScannerInv, DetectorInv, DetectorTypeOK, FillsKept, QueueTells, Tells, Queued,
     detector
<1>3. CASE TradeArrives
  BY <1>2, <1>3, StreamKeeps, TradeKeeps DEF TradeArrives, ScannerInv
<1>4. CASE StreamNext /\ UNCHANGED detector
  BY <1>2, <1>4, StreamKeeps DEF ScannerInv
<1>5. CASE DetectorNext /\ UNCHANGED stream
  BY <1>1, <1>5, DetectorKeeps DEF ScannerInv
<1>6. CASE UNCHANGED vars
  BY <1>1, <1>2, <1>6 DEF vars, ScannerInv
<1> QED
  BY <1>3, <1>4, <1>5, <1>6 DEF Next

LEMMA ScannerInvariant == Spec => []ScannerInv
<1>1. Init => ScannerInv
  BY StreamInitInv, DetectorInitInv DEF Init, ScannerInv
<1> QED
  BY <1>1, ScannerKeeps, PTL DEF Spec

\* Types; no buffer outlives the cap of its window (bufferTrade's timers).
THEOREM TypeCorrect == Spec => []ScannerTypeOK
<1>1. ScannerInv => ScannerTypeOK
  BY DEF ScannerInv, StreamInv, DetectorInv, ScannerTypeOK
<1> QED
  BY <1>1, ScannerInvariant, PTL

\* There is one stream at most, unless a reconnect was scheduled on a closing
\* socket (scheduleReconnect, connect and the handlers of a socket).
THEOREM OneStreamHolds == Spec => []OneStream
<1>1. ScannerInv => OneStream
  BY DEF ScannerInv, StreamInv, OneAtATime, OneStream
<1> QED
  BY <1>1, ScannerInvariant, PTL

\* Each fill is flushed once, with its buffer (accumulateFill, flushBuffer).
THEOREM FillsKeptHolds == Spec => []FillsKept
<1>1. ScannerInv => FillsKept
  BY DEF ScannerInv, DetectorInv
<1> QED
  BY <1>1, ScannerInvariant, PTL

\* The detector's marks and the limiter's queue agree (queueInspect, enqueue,
\* processQueue).
THEOREM QueueTellsHolds == Spec => []QueueTells
<1>1. ScannerInv => QueueTells
  BY DEF ScannerInv, DetectorInv
<1> QED
  BY <1>1, ScannerInvariant, PTL

=============================================================================
