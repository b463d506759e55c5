------------------------ MODULE CandlePipelineProofs ------------------------
(* Proofs about CandlePipeline: the windows are ordered and mirror the      *)
(* exchange, and the signals made of them are sane and one at a time.       *)
EXTENDS CandlePipeline, SequenceTheorems, FiniteSetTheorems, TLAPS

----------------------------------------------------------------------------
(* The store                                                               *)

LEMMA LatestHolds ==
  ASSUME NEW s \in Seq(Candle), NEW n \in Nat
  PROVE  /\ Latest(s, n) \in Seq(Candle)
         /\ Len(Latest(s, n)) = IF Len(s) <= n THEN Len(s) ELSE n
         /\ \A i \in 1 .. Len(Latest(s, n)) :
              Latest(s, n)[i] = s[Len(s) - Len(Latest(s, n)) + i]
<1> DEFINE m == Larger(1, Len(s) - n + 1)
<1>1. Len(s) \in Nat /\ m \in 1 .. Len(s) + 1
      /\ Len(s) - m + 1 = IF Len(s) <= n THEN Len(s) ELSE n
  BY LenProperties DEF Larger
<1>2. \A i \in m .. Len(s) : s[i] \in Candle
  BY <1>1, ElementOfSeq
<1>3. /\ SubSeq(s, m, Len(s)) \in Seq(Candle)
      /\ Len(SubSeq(s, m, Len(s))) = IF m <= Len(s) THEN Len(s) - m + 1 ELSE 0
      /\ \A i \in 1 .. Len(s) - m + 1 : SubSeq(s, m, Len(s))[i] = s[m + i - 1]
  <2> HIDE DEF m
  <2>1. m \in Int /\ Len(s) \in Int
    BY <1>1
  <2> QED
    BY <2>1, <1>2, SubSeqProperties
<1>4. Latest(s, n) = SubSeq(s, m, Len(s))
  BY DEF Latest
<1> HIDE DEF m
<1>5. Len(Latest(s, n)) = Len(s) - m + 1
  BY <1>1, <1>3, <1>4
<1>6. ASSUME NEW i \in 1 .. Len(Latest(s, n))
      PROVE  Latest(s, n)[i] = s[Len(s) - Len(Latest(s, n)) + i]
  <2>1. i \in 1 .. Len(s) - m + 1 /\ m + i - 1 = Len(s) - Len(Latest(s, n)) + i
    BY <1>1, <1>5
  <2> QED
    BY <2>1, <1>3, <1>4
<1> QED
  BY <1>1, <1>3, <1>4, <1>5, <1>6

\* What is left of a buffer when a candle of minute t is to be stored.
LEMMA KeptHolds ==
  ASSUME NEW s \in Seq(Candle), NEW t
  PROVE  /\ KeptBefore(s, t) \in Seq(Candle)
         /\ Len(KeptBefore(s, t)) =
              IF s # <<>> /\ s[Len(s)].t = t THEN Len(s) - 1 ELSE Len(s)
         /\ \A i \in 1 .. Len(KeptBefore(s, t)) : KeptBefore(s, t)[i] = s[i]
<1>1. CASE s # <<>> /\ s[Len(s)].t = t
  <2>1. Len(s) \in Nat \ {0}
    BY <1>1, EmptySeq
  <2>2. \A i \in 1 .. Len(s) - 1 : s[i] \in Candle
    BY <2>1, ElementOfSeq
  <2> DEFINE k == Len(s) - 1
  <2>3. 1 \in Int /\ k \in Int /\ k >= 0
    BY <2>1
  <2>4. \A i \in 1 .. k : s[i] \in Candle
    BY <2>2
  <2> HIDE DEF k
  <2>5. /\ SubSeq(s, 1, k) \in Seq(Candle)
        /\ Len(SubSeq(s, 1, k)) = IF 1 <= k THEN k - 1 + 1 ELSE 0
        /\ \A i \in 1 .. k - 1 + 1 : SubSeq(s, 1, k)[i] = s[1 + i - 1]
    BY <2>3, <2>4, SubSeqProperties
  <2>6. /\ Len(SubSeq(s, 1, k)) = k
        /\ \A i \in 1 .. k : SubSeq(s, 1, k)[i] = s[i]
    BY <2>3, <2>5
  <2> QED
    BY <1>1, <2>5, <2>6 DEF KeptBefore, k
<1>2. CASE ~(s # <<>> /\ s[Len(s)].t = t)
  BY <1>2 DEF KeptBefore
<1> QED
  BY <1>1, <1>2

KeptLen(s, cs) == Len(KeptBefore(s, cs[1].t))

LEMMA AddHolds ==
  ASSUME NEW s \in Seq(Candle), NEW cs \in Seq(Candle), cs # <<>>
  PROVE  /\ KeptLen(s, cs) \in Nat /\ Len(cs) \in Nat \ {0}
         /\ AddCandles(s, cs) \in Seq(Candle)
         /\ Len(AddCandles(s, cs)) =
              IF KeptLen(s, cs) + Len(cs) <= MaxCandles
                THEN KeptLen(s, cs) + Len(cs) ELSE MaxCandles
         /\ \A i \in 1 .. Len(AddCandles(s, cs)), j \in Nat :
              j = KeptLen(s, cs) + Len(cs) - Len(AddCandles(s, cs)) + i =>
                /\ j <= KeptLen(s, cs) => AddCandles(s, cs)[i] = s[j]
                /\ KeptLen(s, cs) < j => AddCandles(s, cs)[i] = cs[j - KeptLen(s, cs)]
<1> DEFINE kept == KeptBefore(s, cs[1].t)
           all == kept \o cs
<1>1. kept \in Seq(Candle) /\ \A i \in 1 .. Len(kept) : kept[i] = s[i]
  BY KeptHolds
<1>2. Len(kept) \in Nat /\ Len(cs) \in Nat \ {0}
  BY <1>1, EmptySeq, LenProperties
<1>3. /\ all \in Seq(Candle)
      /\ Len(all) = Len(kept) + Len(cs)
      /\ \A i \in 1 .. Len(kept) + Len(cs) :
           all[i] = IF i <= Len(kept) THEN kept[i] ELSE cs[i - Len(kept)]
  BY <1>1, ConcatProperties
<1>4. MaxCandles \in Nat
  BY PipelineAssumption
<1>5. AddCandles(s, cs) = Latest(all, MaxCandles)
  BY DEF AddCandles
<1> HIDE DEF kept, all
<1>6. /\ Latest(all, MaxCandles) \in Seq(Candle)
      /\ Len(Latest(all, MaxCandles)) =
           IF Len(all) <= MaxCandles THEN Len(all) ELSE MaxCandles
      /\ \A i \in 1 .. Len(Latest(all, MaxCandles)) :
           Latest(all, MaxCandles)[i] =
             all[Len(all) - Len(Latest(all, MaxCandles)) + i]
  BY <1>3, <1>4, LatestHolds
<1>7. ASSUME NEW i \in 1 .. Len(Latest(all, MaxCandles)), NEW j \in Nat,
             j = Len(kept) + Len(cs) - Len(Latest(all, MaxCandles)) + i
      PROVE  /\ j <= Len(kept) => Latest(all, MaxCandles)[i] = s[j]
             /\ Len(kept) < j => Latest(all, MaxCandles)[i] = cs[j - Len(kept)]
  <2>1. j \in 1 .. Len(kept) + Len(cs)
    BY <1>2, <1>3, <1>4, <1>6, <1>7
  <2>2. Latest(all, MaxCandles)[i] = all[j]
    <3>1. Len(all) - Len(Latest(all, MaxCandles)) + i = j
      BY <1>3, <1>7
    <3>2. Latest(all, MaxCandles)[i] =
            all[Len(all) - Len(Latest(all, MaxCandles)) + i]
      BY <1>6
    <3> QED
      BY <3>1, <3>2
  <2>3. all[j] = IF j <= Len(kept) THEN kept[j] ELSE cs[j - Len(kept)]
    BY <1>3, <2>1
  <2>4. j <= Len(kept) => kept[j] = s[j]
    BY <1>1, <1>2, <2>1
  <2> QED
    BY <1>2, <2>1, <2>2, <2>3, <2>4
<1> QED
  BY <1>1, <1>2, <1>3, <1>4, <1>5, <1>6, <1>7 DEF kept, KeptLen

\* The window before and after one candle is stored: its last candle goes when
\* it is of the same minute, and the oldest one when the window is full.
LeftOf(s, c) ==
  IF s # <<>> /\ s[Len(s)].t = c.t
    THEN Len(Latest(s, MinCandles)) - 1 ELSE Len(Latest(s, MinCandles))

WindowStep(old, new, k, c) ==
  /\ old \in Seq(Candle) /\ new \in Seq(Candle) /\ k \in 0 .. Len(old)
  /\ Len(new) = IF k < MinCandles THEN k + 1 ELSE MinCandles
  /\ new[Len(new)] = c
  /\ \A i \in 1 .. Len(new) - 1 : new[i] = old[k + 1 - Len(new) + i]

\* Places in the older and in the newer window.
LEMMA PlaceInWindow ==
  ASSUME NEW a \in Nat, NEW n \in Nat, NEW k \in Nat, NEW i \in Nat,
         1 <= i, i <= n, n <= a, n <= k + 1
  PROVE  /\ a - n + i \in 1 .. a
         /\ k + 1 - n + i = k + 1 - a + (a - n + i)
         /\ k + 1 - n + i \in Nat
OBVIOUS

LEMMA NeitherLess ==
  ASSUME NEW a \in Int, NEW b \in Int, ~(a < b), ~(b < a)
  PROVE  a = b
OBVIOUS

LEMMA WindowAfter ==
  ASSUME NEW s \in Seq(Candle), NEW c \in Candle
  PROVE  /\ AddCandles(s, <<c>>) \in Seq(Candle)
         /\ Len(AddCandles(s, <<c>>)) \in 1 .. MaxCandles
         /\ WindowStep(Latest(s, MinCandles), Latest(AddCandles(s, <<c>>), MinCandles),
                       LeftOf(s, c), c)
<1> DEFINE one == <<c>>
           old == Latest(s, MinCandles)
           add == AddCandles(s, one)
           new == Latest(add, MinCandles)
           kept == Len(KeptBefore(s, c.t))
           k == LeftOf(s, c)
<1>1. MinCandles \in Nat \ {0} /\ MaxCandles \in Nat /\ MinCandles <= MaxCandles
  BY PipelineAssumption
<1>2. one \in Seq(Candle) /\ one # <<>> /\ Len(one) = 1 /\ one[1] = c
  OBVIOUS
<1> HIDE DEF one
<1>3. /\ add \in Seq(Candle) /\ kept \in Nat
      /\ Len(add) = IF kept + 1 <= MaxCandles THEN kept + 1 ELSE MaxCandles
      /\ \A i \in 1 .. Len(add), j \in Nat :
           j = kept + 1 - Len(add) + i =>
             /\ j <= kept => add[i] = s[j]
             /\ kept < j => add[i] = one[j - kept]
  <2>1. kept = KeptLen(s, one)
    BY <1>2 DEF KeptLen
  <2>2. /\ add \in Seq(Candle) /\ KeptLen(s, one) \in Nat
        /\ Len(add) = IF KeptLen(s, one) + Len(one) <= MaxCandles
                        THEN KeptLen(s, one) + Len(one) ELSE MaxCandles
    BY <1>2, AddHolds
  <2>3. \A i \in 1 .. Len(add), j \in Nat :
          j = KeptLen(s, one) + Len(one) - Len(add) + i =>
            /\ j <= KeptLen(s, one) => add[i] = s[j]
            /\ KeptLen(s, one) < j => add[i] = one[j - KeptLen(s, one)]
    BY <1>2, AddHolds, Zenon
  <2> HIDE DEF kept, add
  <2> QED
    BY <1>2, <2>1, <2>2, <2>3
<1>4. /\ kept \in Nat
      /\ Len(add) = IF kept + 1 <= MaxCandles THEN kept + 1 ELSE MaxCandles
  BY <1>3
<1>5. old \in Seq(Candle) /\ Len(old) = IF Len(s) <= MinCandles THEN Len(s) ELSE MinCandles
  BY <1>1, LatestHolds
<1>6. ASSUME NEW i \in 1 .. Len(old) PROVE old[i] = s[Len(s) - Len(old) + i]
  BY <1>1, LatestHolds
<1>7. new \in Seq(Candle) /\ Len(new) = IF Len(add) <= MinCandles THEN Len(add) ELSE MinCandles
  BY <1>1, <1>3, LatestHolds
<1>8. ASSUME NEW i \in 1 .. Len(new) PROVE new[i] = add[Len(add) - Len(new) + i]
  BY SMTT(30), <1>1, <1>3, LatestHolds
<1>9. Len(s) \in Nat /\ (s # <<>> => Len(s) # 0)
  BY EmptySeq, LenProperties
<1>10. kept = IF s # <<>> /\ s[Len(s)].t = c.t THEN Len(s) - 1 ELSE Len(s)
  BY KeptHolds
<1>11. k = Len(old) - Len(s) + kept /\ kept \in {Len(s), Len(s) - 1}
  BY <1>5, <1>9, <1>10 DEF LeftOf
<1> HIDE DEF old, add, new, kept, k
<1>12. /\ Len(add) \in 1 .. MaxCandles
       /\ k \in 0 .. Len(old)
       /\ Len(new) = IF k < MinCandles THEN k + 1 ELSE MinCandles
       /\ Len(new) \in 1 .. kept + 1 /\ Len(new) <= Len(add) /\ Len(new) <= k + 1
       /\ Len(add) <= kept + 1 /\ kept \in Nat /\ Len(old) \in Nat
       /\ Len(new) <= kept + 1 /\ Len(new) \in Nat /\ Len(add) \in Nat
  BY <1>1, <1>4, <1>5, <1>7, <1>9, <1>11
<1>13. ASSUME NEW i \in 1 .. Len(new)
       PROVE  new[i] = IF i = Len(new) THEN c ELSE s[kept + 1 - Len(new) + i]
  <2> DEFINE m == Len(add) - Len(new) + i
             j == kept + 1 - Len(new) + i
  <2>1. m \in 1 .. Len(add) /\ j = kept + 1 - Len(add) + m /\ j \in Nat
    <3>1. i \in Nat /\ 1 <= i /\ i <= Len(new) /\ Len(new) \in Nat /\ Len(add) \in Nat
      BY <1>12
    <3>2. Len(new) <= Len(add) /\ Len(new) <= kept + 1 /\ kept \in Nat
      BY <1>12
    <3> QED
      BY <3>1, <3>2, PlaceInWindow
  <2>2. new[i] = add[m]
    BY <1>8
  <2> HIDE DEF m
  <2>3. /\ j <= kept => add[m] = s[j]
        /\ kept < j => add[m] = one[j - kept]
    <3> HIDE DEF j
    <3> QED
      BY <1>3, <2>1
  <2>4. i = Len(new) => kept < j /\ j - kept = 1
    BY <1>12
  <2>5. i # Len(new) => j <= kept
    BY <1>12
  <2> QED
    BY <1>2, <2>2, <2>3, <2>4, <2>5
<1>14. ASSUME NEW i \in 1 .. Len(new) - 1
       PROVE  new[i] = old[k + 1 - Len(new) + i]
  <2> DEFINE j == k + 1 - Len(new) + i
  <2>1. j \in 1 .. Len(old) /\ Len(s) - Len(old) + j = kept + 1 - Len(new) + i
    <3>1. k \in Int /\ kept \in Int /\ Len(s) \in Int /\ Len(old) \in Int
          /\ Len(new) \in Int /\ i \in Int
      BY <1>9, <1>12
    <3>2. i <= Len(new) - 1 /\ i >= 1
      BY <3>1
    <3>3. Len(new) <= k + 1
      BY <1>12
    <3>4. k <= Len(old)
      BY <1>12
    <3> QED
      BY <3>1, <3>2, <3>3, <3>4, <1>11
  <2>2. old[j] = s[Len(s) - Len(old) + j]
    BY <1>6, <2>1
  <2>3. i \in 1 .. Len(new) /\ i # Len(new)
    BY <1>12
  <2> QED
    BY <2>1, <2>2, <2>3, <1>13
<1>15. new[Len(new)] = c
  BY <1>12, <1>13
<1>16. WindowStep(old, new, k, c)
  BY <1>5, <1>7, <1>12, <1>14, <1>15 DEF WindowStep
<1> QED
  BY <1>3, <1>12, <1>16 DEF old, add, new, k, one

----------------------------------------------------------------------------
(* Types                                                                   *)

LEMMA OpenIsCandle == CPTypeOK => Open \in Candle /\ Len(market) \in Nat \ {0}
BY LenProperties, ElementOfSeq DEF CPTypeOK, Open

\* What a trade does to the market: the open candle is replaced by one of its
\* minute, or a candle of the next minute is appended.
Grows(c) ==
  \/ c.t = Open.t /\ market' = [market EXCEPT ![Len(market)] = c]
  \/ c.t = Open.t + 1 /\ market' = Append(market, c)

LEMMA MessageSent ==
  ASSUME CPTypeOK, NEW d \in Ticks, Trade(d) \/ Minute(d)
  PROVE  \E c \in Candle : Grows(c) /\ (Receive(c) \/ Miss)
<1>1. Open \in Candle /\ d \in Int
  BY OpenIsCandle, PipelineAssumption
<1>2. ASSUME NEW c \in Traded(d) PROVE c \in Candle /\ c.t = Open.t
  <2>1. c = [Open EXCEPT !.high = Larger(@, Open.close + d),
                         !.low = -Larger(-@, -(Open.close + d)),
                         !.close = Open.close + d, !.vol = @ + 1, !.n = @ + 1]
        /\ Open.close + d > 0
    BY <1>2 DEF Traded
  <2>2. /\ Larger(Open.high, Open.close + d) \in Nat
        /\ -Larger(-Open.low, -(Open.close + d)) \in Nat
        /\ Open.close + d \in Nat
    BY <1>1, <2>1 DEF Larger, Candle
  <2>3. Open = [t |-> Open.t, high |-> Open.high, low |-> Open.low,
                close |-> Open.close, vol |-> Open.vol, n |-> Open.n]
        /\ Open.t \in Nat /\ Open.vol + 1 \in Nat /\ Open.n + 1 \in Nat
    BY <1>1 DEF Candle
  <2>4. c = [t |-> Open.t, high |-> Larger(Open.high, Open.close + d),
             low |-> -Larger(-Open.low, -(Open.close + d)),
             close |-> Open.close + d, vol |-> Open.vol + 1, n |-> Open.n + 1]
    BY <2>1, <2>3, Zenon
  <2> QED
    BY <2>2, <2>3, <2>4 DEF Candle
<1>3. ASSUME NEW c \in Opened(d) PROVE c \in Candle /\ c.t = Open.t + 1
  BY <1>1, <1>3 DEF Opened, Candle
<1> QED
  BY <1>2, <1>3 DEF Trade, Minute, Grows

LEMMA MarketStep ==
  ASSUME CPTypeOK, NEW c \in Candle, Grows(c)
  PROVE  /\ market' \in Seq(Candle) /\ Len(market') > 0 /\ Ascending(market')
         /\ Open' = c
         /\ Len(market') = IF c.t = Open.t THEN Len(market) ELSE Len(market) + 1
         /\ \A i \in 1 .. Len(market') - 1 : market'[i] = market[i]
<1> DEFINE n == Len(market)
<1>1. /\ market \in Seq(Candle) /\ n \in Nat \ {0} /\ Open \in Candle /\ Open = market[n]
      /\ \A i, j \in 1 .. n : i < j => market[i].t < market[j].t
  BY OpenIsCandle, LenProperties DEF CPTypeOK, Ascending, Open
<1>2. \A i \in 1 .. n : market[i] \in Candle
  BY <1>1, ElementOfSeq
<1>3. CASE c.t = Open.t /\ market' = [market EXCEPT ![n] = c]
  <2>1. /\ market' \in Seq(Candle) /\ Len(market') = n
        /\ \A j \in 1 .. n : market'[j] = IF j = n THEN c ELSE market[j]
    BY <1>1, <1>3, ExceptSeq
  <2>2. \A j \in 1 .. n : market'[j].t = market[j].t
    BY <1>1, <1>3, <2>1
  <2>3. Ascending(market')
    BY <1>1, <2>1, <2>2, LenProperties DEF Ascending
  <2>4. Open' = c
    BY <1>1, <2>1 DEF Open
  <2> QED
    BY <1>1, <1>3, <2>1, <2>3, <2>4
<1>4. CASE c.t = Open.t + 1 /\ market' = Append(market, c)
  <2>1. /\ market' \in Seq(Candle) /\ Len(market') = n + 1
        /\ \A j \in 1 .. n : market'[j] = market[j]
        /\ market'[n + 1] = c
    BY <1>1, <1>4
  <2>2. ASSUME NEW i \in 1 .. n + 1, NEW j \in 1 .. n + 1, i < j
        PROVE  market'[i].t < market'[j].t
    <3>1. i \in 1 .. n
      BY <1>1, <2>2
    <3>2. market[i] \in Candle /\ market[n] \in Candle
      BY <1>1, <1>2, <3>1
    <3>3. market[i].t \in Nat /\ market[n].t \in Nat
      BY <3>2 DEF Candle
    <3>4. i = n \/ market[i].t < market[n].t
      BY <1>1, <3>1
    <3>5. market'[i] = market[i]
      BY <2>1, <3>1
    <3>6. CASE j = n + 1
      BY <1>1, <1>4, <2>1, <3>3, <3>4, <3>5, <3>6
    <3>7. CASE j # n + 1
      <4>1. j \in 1 .. n
        BY <1>1, <3>7
      <4> QED
        BY <1>1, <2>1, <2>2, <3>1, <3>5, <4>1
    <3> QED
      BY <3>6, <3>7
  <2>3. Ascending(market')
    BY <2>1, <2>2, LenProperties DEF Ascending
  <2>4. Open' = c
    BY <1>1, <2>1 DEF Open
  <2>5. c.t # Open.t
    <3>1. Open.t \in Nat
      BY <1>1 DEF Candle
    <3> QED
      BY <1>4, <3>1
  <2> QED
    BY <1>1, <2>1, <2>3, <2>4, <2>5
<1> QED
  BY <1>3, <1>4 DEF Grows

LEMMA SignalDirections == \A w : \A x \in Signals(w) : x.dir \in {1, -1}
BY DEF Signals, Longs, Shorts, SignalOf

LEMMA TypeInit == Init => CPTypeOK
<1> SUFFICES ASSUME Init PROVE CPTypeOK
  OBVIOUS
<1>1. market \in Seq(Candle) /\ Len(market) > 0 /\ Ascending(market)
  BY PipelineAssumption DEF Init
<1>2. <<>> \in Seq(Candle) /\ Len(<<>>) = 0 /\ MaxCandles \in Nat
  BY PipelineAssumption
<1>3. store \in Seq(Candle) /\ Len(store) <= MaxCandles /\ evaluated \in Seq(Candle)
  BY <1>2 DEF Init
<1> QED
  BY <1>1, <1>3 DEF Init, CPTypeOK

LEMMA ReceiveTypes ==
  ASSUME CPTypeOK, NEW c \in Candle, Receive(c)
  PROVE  /\ store' \in Seq(Candle) /\ Len(store') <= MaxCandles
         /\ lastT' \in Nat
         /\ evaluated' \in Seq(Candle)
         /\ \A x \in signals' : x.dir \in {1, -1}
<1> DEFINE add == AddCandles(store, <<c>>)
<1>0. store \in Seq(Candle) /\ store' = add /\ MaxCandles \in Nat
  BY PipelineAssumption DEF Receive, CPTypeOK
<1>1. store' \in Seq(Candle) /\ Len(store') <= MaxCandles
  <2>1. add \in Seq(Candle) /\ Len(add) \in 1 .. MaxCandles
    BY <1>0, WindowAfter
  <2> HIDE DEF add
  <2> QED
    BY <1>0, <2>1
<1>2. Window' \in Seq(Candle)
  BY <1>1, LatestHolds, PipelineAssumption DEF Window
<1>3. lastT' \in Nat
  BY DEF Receive, CPTypeOK, Candle
<1> QED
  BY <1>1, <1>2, <1>3, SignalDirections DEF Receive, CPTypeOK

LEMMA BootstrapTypes ==
  ASSUME CPTypeOK, NEW count \in Nat, Bootstrap(count)
  PROVE  store' \in Seq(Candle) /\ Len(store') <= MaxCandles
<1> DEFINE cs == Latest(market, count)
<1>1. cs \in Seq(Candle) /\ MaxCandles \in Nat
  BY LatestHolds, PipelineAssumption DEF CPTypeOK
<1>2. store' = AddCandles(store, cs)
  BY DEF Bootstrap
<1> HIDE DEF cs
<1>3. CASE cs = <<>>
  BY <1>2, <1>3 DEF AddCandles, CPTypeOK
<1>4. CASE cs # <<>>
  <2> DEFINE add == AddCandles(store, cs)
             kept == KeptLen(store, cs)
  <2>1. store \in Seq(Candle)
    BY DEF CPTypeOK
  <2>2. /\ add \in Seq(Candle) /\ kept \in Nat /\ Len(cs) \in Nat
        /\ Len(add) = IF kept + Len(cs) <= MaxCandles THEN kept + Len(cs) ELSE MaxCandles
    BY <1>1, <1>4, <2>1, AddHolds
  <2> HIDE DEF add, kept
  <2>3. Len(add) <= MaxCandles
    BY <1>1, <2>2
  <2> QED
    BY <1>2, <2>2, <2>3 DEF add
<1> QED
  BY <1>3, <1>4

LEMMA TypeStep == CPTypeOK /\ [Next]_vars => CPTypeOK'
<1> SUFFICES ASSUME CPTypeOK, [Next]_vars PROVE CPTypeOK'
  OBVIOUS
<1>1. ASSUME NEW count \in {0, BootstrapCount}, Bootstrap(count) PROVE CPTypeOK'
  <2>1. count \in Nat
    BY PipelineAssumption
  <2>2. store' \in Seq(Candle) /\ Len(store') <= MaxCandles
    BY <1>1, <2>1, BootstrapTypes
  <2> QED
    BY <1>1, <2>2 DEF Bootstrap, CPTypeOK
<1>2. Subscribe \/ Unsubscribe => CPTypeOK'
  BY DEF Subscribe, Unsubscribe, CPTypeOK
<1>3. ASSUME NEW d \in Ticks, Trade(d) \/ Minute(d) PROVE CPTypeOK'
  <2>1. PICK c \in Candle : Grows(c) /\ (Receive(c) \/ Miss)
    BY <1>3, MessageSent
  <2>2. market' \in Seq(Candle) /\ Len(market') > 0 /\ Ascending(market')
    BY <2>1, MarketStep
  <2>3. CASE Receive(c)
    <3>1. /\ store' \in Seq(Candle) /\ Len(store') <= MaxCandles /\ lastT' \in Nat
          /\ evaluated' \in Seq(Candle) /\ \A x \in signals' : x.dir \in {1, -1}
      BY <2>3, ReceiveTypes
    <3> QED
      BY <2>2, <2>3, <3>1 DEF Receive, link, CPTypeOK
  <2>4. CASE Miss
    <3>1. lost' \in Nat
      BY <2>4 DEF Miss, CPTypeOK
    <3> QED
      BY <2>2, <2>4, <3>1 DEF Miss, CPTypeOK
  <2> QED
    BY <2>1, <2>3, <2>4
<1>4. CASE UNCHANGED vars
  BY <1>4 DEF vars, link, CPTypeOK, Ascending
<1> QED
  BY <1>1, <1>2, <1>3, <1>4 DEF Next

\* Every variable keeps its type, the deque its bound, and the candles of the
\* exchange their order.
THEOREM TypeCorrect == Spec => []CPTypeOK
BY TypeInit, TypeStep, PTL DEF Spec

----------------------------------------------------------------------------
(* The signals                                                             *)

LEMMA TargetFar ==
  ASSUME NEW e \in Nat, NEW s \in Nat, NEW dir \in {1, -1}, NEW score
  PROVE  /\ dir = 1 /\ s < e => Target2(e, s, dir, score) - 2 * e >= 2 * (e - s)
         /\ dir = -1 /\ s > e => 2 * e - Target2(e, s, dir, score) >= 2 * (s - e)
<1>1. Target2(e, s, dir, score)
        = 2 * e + dir * (IF score >= 3 THEN 3 ELSE 2) * Abs(e - s)
  BY DEF Target2
<1>2. CASE score >= 3
  <2>1. Target2(e, s, dir, score) = 2 * e + dir * 3 * Abs(e - s)
    BY <1>1, <1>2
  <2> QED
    BY <2>1 DEF Abs
<1>3. CASE ~(score >= 3)
  <2>1. Target2(e, s, dir, score) = 2 * e + dir * 2 * Abs(e - s)
    BY <1>1, <1>3
  <2> QED
    BY <2>1 DEF Abs
<1> QED
  BY <1>2, <1>3

\* The candle a stop is taken from lies before the last one.
LEMMA SwingInside ==
  ASSUME NEW w \in Seq(Candle), NEW i \in SwingLows(w) \cup SwingHighs(w)
  PROVE  i \in 1 .. Len(w) - 1 /\ w[i] \in Candle /\ w[Len(w)] \in Candle
<1>1. Len(w) \in Nat /\ MinBars \in Nat \ {0}
  BY LenProperties, StrategyAssumption
<1>2. i \in MinBars + 1 .. Len(w) - MinBars
  BY DEF SwingLows, SwingHighs
<1>3. i \in 1 .. Len(w) - 1 /\ i \in 1 .. Len(w) /\ Len(w) \in 1 .. Len(w)
  BY <1>1, <1>2
<1> QED
  BY <1>3, ElementOfSeq

LEMMA LongsSane ==
  ASSUME NEW w \in Seq(Candle), NEW x \in Longs(w) PROVE SaneSignal(x, w)
<1> DEFINE e == w[Len(w)].close
<1>1. LongEntry(w)
  BY DEF Longs
<1>2. PICK i \in StopLows(w) : StopWithin(e, w[i].low, 5, 50) /\ x = SignalOf(w, 1, w[i].low)
  BY <1>1 DEF Longs, MostRecent
<1>3. i \in SwingLows(w) /\ w[i].low < e
  BY DEF StopLows
<1>4. i \in 1 .. Len(w) - 1 /\ w[i] \in Candle /\ w[Len(w)] \in Candle
  BY <1>3, SwingInside
<1>5. e \in Nat /\ w[i].low \in Nat
  BY <1>4 DEF Candle
<1>6. /\ x.dir = 1 /\ x.entry = e /\ x.stop = w[i].low
      /\ x.target2 = Target2(e, w[i].low, 1, RegimeScore(w))
  BY <1>2 DEF SignalOf
<1>7. ASSUME NEW k \in 1 .. Len(w) - 1 PROVE w[k].high < e
  <2>1. e > w[k].high
    BY <1>1 DEF LongEntry, AboveMajorHigh
  <2>2. k \in 1 .. Len(w)
    BY LenProperties
  <2>3. w[k] \in Candle
    BY <2>2, ElementOfSeq
  <2>4. w[k].high \in Nat
    BY <2>3 DEF Candle
  <2> QED
    BY <1>5, <2>1, <2>4
<1> HIDE DEF e
<1>8. x.target2 - 2 * e >= 2 * (e - x.stop)
  BY <1>3, <1>5, <1>6, TargetFar
<1>9. \A k \in 1 .. Len(w) - 1 : w[k].high < x.entry
  BY <1>6, <1>7
<1>10. \E k \in 1 .. Len(w) - 1 : w[k].low = x.stop
  BY <1>4, <1>6
<1>11. /\ x.dir = 1 /\ x.stop < x.entry
       /\ x.target2 - 2 * x.entry >= 2 * (x.entry - x.stop)
       /\ StopWithin(x.entry, x.stop, 5, 50)
  BY <1>2, <1>3, <1>6, <1>8
<1> QED
  BY <1>9, <1>10, <1>11, 1 # -1 DEF SaneSignal

LEMMA ShortsSane ==
  ASSUME NEW w \in Seq(Candle), NEW x \in Shorts(w) PROVE SaneSignal(x, w)
<1> DEFINE e == w[Len(w)].close
<1>1. ShortEntry(w)
  BY DEF Shorts
<1>2. PICK i \in StopHighs(w) : StopWithin(e, w[i].high, 5, 50) /\ x = SignalOf(w, -1, w[i].high)
  BY <1>1 DEF Shorts, MostRecent
<1>3. i \in SwingHighs(w) /\ w[i].high > e
  BY DEF StopHighs
<1>4. i \in 1 .. Len(w) - 1 /\ w[i] \in Candle /\ w[Len(w)] \in Candle
  BY <1>3, SwingInside
<1>5. e \in Nat /\ w[i].high \in Nat
  BY <1>4 DEF Candle
<1>6. /\ x.dir = -1 /\ x.entry = e /\ x.stop = w[i].high
      /\ x.target2 = Target2(e, w[i].high, -1, RegimeScore(w))
  BY <1>2 DEF SignalOf
<1>7. ASSUME NEW k \in 1 .. Len(w) - 1 PROVE w[k].low > e
  <2>1. e < w[k].low
    BY <1>1 DEF ShortEntry, BelowMajorLow
  <2>2. k \in 1 .. Len(w)
    BY LenProperties
  <2>3. w[k] \in Candle
    BY <2>2, ElementOfSeq
  <2>4. w[k].low \in Nat
    BY <2>3 DEF Candle
  <2> QED
    BY <1>5, <2>1, <2>4
<1> HIDE DEF e
<1>8. 2 * e - x.target2 >= 2 * (x.stop - e)
  BY <1>3, <1>5, <1>6, TargetFar
<1>9. \A k \in 1 .. Len(w) - 1 : w[k].low > x.entry
  BY <1>6, <1>7
<1>10. \E k \in 1 .. Len(w) - 1 : w[k].high = x.stop
  BY <1>4, <1>6
<1>11. /\ x.dir = -1 /\ x.stop > x.entry
       /\ 2 * x.entry - x.target2 >= 2 * (x.stop - x.entry)
       /\ StopWithin(x.entry, x.stop, 5, 50)
  BY <1>2, <1>3, <1>6, <1>8
<1> QED
  BY <1>9, <1>10, <1>11, 1 # -1 DEF SaneSignal

\* The signals at hand are those of the window evaluated last.
SignalInv == CPTypeOK /\ signals = Signals(evaluated)

LEMMA SignalInit == Init => SignalInv
<1> SUFFICES ASSUME Init PROVE signals = Signals(evaluated)
  BY TypeInit DEF SignalInv
<1>1. ~(Len(<<>>) >= MinSignal)
  BY StrategyAssumption
<1>2. Signals(<<>>) = {}
  BY <1>1 DEF Signals, Longs, Shorts, LongEntry, ShortEntry
<1> QED
  BY <1>2 DEF Init

LEMMA SignalStep == SignalInv /\ [Next]_vars => SignalInv'
<1> SUFFICES ASSUME SignalInv, [Next]_vars PROVE (signals = Signals(evaluated))'
  BY TypeStep DEF SignalInv
<1>1. CASE UNCHANGED <<evaluated, signals>>
  BY <1>1 DEF SignalInv
<1>2. ASSUME NEW c, Receive(c) PROVE (signals = Signals(evaluated))'
  BY <1>2 DEF Receive, SignalInv
<1> QED
  BY <1>1, <1>2 DEF Next, vars, Bootstrap, Subscribe, Unsubscribe, Trade, Minute, Miss

\* Every signal of every window, whatever the thresholds: the entry breaks out of
\* the window, the stop is on the far side of a candle of it, and the target at
\* least as far away as the stop.
THEOREM SignalsAreSane == Spec => []SignalsSane
<1>1. SignalInv => SignalsSane
  BY LongsSane, ShortsSane DEF SignalInv, CPTypeOK, SignalsSane, Signals
<1> QED
  BY <1>1, SignalInit, SignalStep, PTL DEF Spec

LEMMA PairsFinite ==
  ASSUME NEW S, IsFiniteSet(S), NEW T \in SUBSET Pairs(S)
  PROVE IsFiniteSet(T)
<1>1. IsFiniteSet(S \X S)
  BY FS_Product
<1> QED
  BY <1>1, FS_Subset DEF Pairs

LEMMA CountsAreNatural ==
  ASSUME NEW w \in Seq(Candle)
  PROVE Rising(w) \in Nat /\ Falling(w) \in Nat
<1>1. IsFiniteSet(SwingHighs(w)) /\ IsFiniteSet(SwingLows(w))
  <2>1. MinBars + 1 \in Int /\ Len(w) - MinBars \in Int
    BY LenProperties, StrategyAssumption
  <2>2. IsFiniteSet(MinBars + 1 .. Len(w) - MinBars)
    BY <2>1, FS_Interval
  <2> QED
    BY <2>2, FS_Subset DEF SwingHighs, SwingLows
<1>2. /\ IsFiniteSet({p \in Pairs(SwingHighs(w)) : w[p[2]].high > w[p[1]].high})
      /\ IsFiniteSet({p \in Pairs(SwingHighs(w)) : w[p[2]].high < w[p[1]].high})
      /\ IsFiniteSet({p \in Pairs(SwingLows(w)) : w[p[2]].low > w[p[1]].low})
      /\ IsFiniteSet({p \in Pairs(SwingLows(w)) : w[p[2]].low < w[p[1]].low})
  BY <1>1, PairsFinite
<1> QED
  BY <1>2, FS_CardinalityType DEF Rising, Falling

\* No window is rising and falling.
LEMMA OneDirection ==
  ASSUME NEW w \in Seq(Candle), Bullish(w), Bearish(w)
  PROVE FALSE
<1>1. Rising(w) >= Falling(w) /\ Falling(w) > Rising(w)
  BY DEF Bullish, Bearish
<1> QED
  BY <1>1, CountsAreNatural

LEMMA MostRecentIsOne ==
  ASSUME NEW S \in SUBSET Int, NEW i \in MostRecent(S), NEW j \in MostRecent(S)
  PROVE i = j
BY DEF MostRecent

LEMMA OneSignalAtMost ==
  ASSUME NEW w \in Seq(Candle), NEW x \in Signals(w), NEW y \in Signals(w)
  PROVE x = y
<1>1. StopLows(w) \in SUBSET Int /\ StopHighs(w) \in SUBSET Int
  <2>1. MinBars + 1 \in Int /\ Len(w) - MinBars \in Int
    BY LenProperties, StrategyAssumption
  <2> QED
    BY <2>1 DEF StopLows, StopHighs, SwingLows, SwingHighs
<1>2. ASSUME LongEntry(w) PROVE x = y
  <2>1. ~ShortEntry(w)
    BY <1>2, OneDirection DEF LongEntry, ShortEntry
  <2>2. x \in Longs(w) /\ y \in Longs(w)
    BY <2>1 DEF Signals, Shorts
  <2>3. PICK i \in MostRecent(StopLows(w)) : x = SignalOf(w, 1, w[i].low)
    BY <1>2, <2>2 DEF Longs
  <2>4. PICK j \in MostRecent(StopLows(w)) : y = SignalOf(w, 1, w[j].low)
    BY <1>2, <2>2 DEF Longs
  <2>5. i = j
    BY <1>1, MostRecentIsOne
  <2> QED
    BY <2>3, <2>4, <2>5
<1>3. ASSUME ~LongEntry(w) PROVE x = y
  <2>1. x \in Shorts(w) /\ y \in Shorts(w)
    BY <1>3 DEF Signals, Longs
  <2>2. ShortEntry(w)
    BY <2>1 DEF Shorts
  <2>3. PICK i \in MostRecent(StopHighs(w)) : x = SignalOf(w, -1, w[i].high)
    BY <2>1, <2>2 DEF Shorts
  <2>4. PICK j \in MostRecent(StopHighs(w)) : y = SignalOf(w, -1, w[j].high)
    BY <2>1, <2>2 DEF Shorts
  <2>5. i = j
    BY <1>1, MostRecentIsOne
  <2> QED
    BY <2>3, <2>4, <2>5
<1> QED
  BY <1>2, <1>3

\* generate_signal gives at most one signal for a window, and no window both a
\* long and a short one.
THEOREM OneSignal == Spec => [](\A x, y \in signals : x = y)
<1>1. SignalInv => \A x, y \in signals : x = y
  BY OneSignalAtMost DEF SignalInv, CPTypeOK
<1> QED
  BY <1>1, SignalInit, SignalStep, PTL DEF Spec

----------------------------------------------------------------------------
(* The score of the pullbacks                                              *)

\* The fraction n / d is at most m / k.
AtMost(n, d, m, k) == n * k <= m * d

\* The pullback score lies between 0 and 100, and where a threshold on the
\* asymmetry is passed it has the same value on both sides.
LEMMA PullbackScoreLevels ==
  ASSUME NEW n \in Nat, NEW d \in Nat \ {0}
  PROVE LET p == PullbackScore(n, d)[1]
            q == PullbackScore(n, d)[2]
        IN  /\ p \in Nat /\ q \in Nat \ {0} /\ p <= 100 * q
            /\ n >= 2 * d => p = 100 * q
            /\ 5 * n >= 6 * d => p >= 50 * q
            /\ 5 * n < 6 * d => p <= 50 * q
            /\ n >= d => p >= 30 * q
            /\ n < d => p <= 30 * q
BY DEF PullbackScore

\* What is at most a level is at most what is at least that level.
LEMMA ThroughLevel ==
  ASSUME NEW c \in Nat, NEW p \in Nat, NEW q \in Nat, NEW r \in Nat, NEW s \in Nat,
         p <= c * q, r >= c * s
  PROVE AtMost(p, q, r, s)
<1>1. p * s <= (c * q) * s
  OBVIOUS
<1>2. (c * s) * q <= r * q
  OBVIOUS
<1>3. (c * q) * s = (c * s) * q
  OBVIOUS
<1>4. p * s \in Nat /\ (c * q) * s \in Nat /\ (c * s) * q \in Nat /\ r * q \in Nat
  OBVIOUS
<1> QED
  BY <1>1, <1>2, <1>3, <1>4 DEF AtMost

\* A larger fraction passes a threshold the smaller one passes.
LEMMA ThresholdPassed ==
  ASSUME NEW n \in Nat, NEW d \in Nat \ {0}, NEW m \in Nat, NEW k \in Nat \ {0},
         AtMost(n, d, m, k), NEW a \in Nat, NEW b \in Nat, b * n >= a * d
  PROVE b * m >= a * k
<1>1. (b * n) * k >= (a * d) * k
  OBVIOUS
<1>2. b * (n * k) <= b * (m * d)
  <2>1. n * k \in Nat /\ m * d \in Nat /\ n * k <= m * d
    BY DEF AtMost
  <2> HIDE DEF AtMost
  <2> QED
    BY <2>1
<1>3. (b * n) * k = b * (n * k) /\ (a * d) * k = (a * k) * d /\ b * (m * d) = (b * m) * d
  OBVIOUS
<1>4. (a * k) * d <= (b * m) * d
  BY <1>1, <1>2, <1>3
<1>5. a * k \in Nat /\ b * m \in Nat
  OBVIOUS
<1>6. ASSUME NEW x \in Nat, NEW y \in Nat, x * d <= y * d PROVE x <= y
  BY <1>6
<1> QED
  BY <1>4, <1>5, <1>6

\* A better ratio of impulses to pullbacks never scores less.
LEMMA PullbackScoreOrder ==
  ASSUME NEW n \in Nat, NEW d \in Nat \ {0}, NEW m \in Nat, NEW k \in Nat \ {0},
         AtMost(n, d, m, k)
  PROVE AtMost(PullbackScore(n, d)[1], PullbackScore(n, d)[2],
               PullbackScore(m, k)[1], PullbackScore(m, k)[2])
<1> DEFINE p == PullbackScore(n, d)[1]
           q == PullbackScore(n, d)[2]
           r == PullbackScore(m, k)[1]
           s == PullbackScore(m, k)[2]
<1>1. n * k \in Nat /\ m * d \in Nat /\ d * k \in Nat /\ n * k <= m * d
  BY DEF AtMost
<1>2. /\ p \in Nat /\ q \in Nat \ {0} /\ p <= 100 * q
      /\ r \in Nat /\ s \in Nat \ {0} /\ r <= 100 * s
  BY PullbackScoreLevels
<1>3. CASE m >= 2 * k
  <2>1. r >= 100 * s
    BY <1>2, <1>3, PullbackScoreLevels
  <2> HIDE DEF p, q, r, s
  <2>2. AtMost(p, q, r, s)
    BY <1>2, <2>1, ThroughLevel
  <2> QED
    BY <2>2 DEF p, q, r, s
<1>4. CASE m < 2 * k /\ 5 * m >= 6 * k
  <2>1. ~(n >= 2 * d)
    <3>1. 1 * n >= 2 * d => 1 * m >= 2 * k
      BY ThresholdPassed
    <3> QED
      BY <1>4, <3>1
  <2>2. CASE 5 * n >= 6 * d
    <3>1. p = 125 * n - 50 * d /\ q = 2 * d /\ r = 125 * m - 50 * k /\ s = 2 * k
      BY <1>4, <2>1, <2>2 DEF PullbackScore
    <3>2. /\ (125 * n - 50 * d) * (2 * k) = 250 * (n * k) - 100 * (d * k)
          /\ (125 * m - 50 * k) * (2 * d) = 250 * (m * d) - 100 * (d * k)
      OBVIOUS
    <3>3. 250 * (n * k) - 100 * (d * k) <= 250 * (m * d) - 100 * (d * k)
      BY <1>1
    <3> QED
      BY <3>1, <3>2, <3>3 DEF AtMost
  <2>3. CASE 5 * n < 6 * d
    <3>1. p <= 50 * q /\ r >= 50 * s
      BY <1>4, <2>3, PullbackScoreLevels
    <3> HIDE DEF p, q, r, s
    <3>2. AtMost(p, q, r, s)
      BY <1>2, <3>1, ThroughLevel
    <3> QED
      BY <3>2 DEF p, q, r, s
  <2> QED
    BY <2>2, <2>3
<1>5. CASE 5 * m < 6 * k /\ m >= k
  <2>1. ~(5 * n >= 6 * d)
    <3>1. PICK a \in Nat, b \in Nat : a = 6 /\ b = 5
      OBVIOUS
    <3>2. b * n >= a * d => b * m >= a * k
      BY ThresholdPassed
    <3> QED
      BY <1>5, <3>1, <3>2
  <2>2. CASE n >= d
    <3>1. p = 100 * n - 70 * d /\ q = d /\ r = 100 * m - 70 * k /\ s = k
      BY <1>5, <2>1, <2>2 DEF PullbackScore
    <3>2. /\ (100 * n - 70 * d) * k = 100 * (n * k) - 70 * (d * k)
          /\ (100 * m - 70 * k) * d = 100 * (m * d) - 70 * (d * k)
      OBVIOUS
    <3>3. 100 * (n * k) - 70 * (d * k) <= 100 * (m * d) - 70 * (d * k)
      BY <1>1
    <3> QED
      BY <3>1, <3>2, <3>3 DEF AtMost
  <2>3. CASE n < d
    <3>1. p <= 30 * q /\ r >= 30 * s
      BY <1>5, <2>3, PullbackScoreLevels
    <3> HIDE DEF p, q, r, s
    <3>2. AtMost(p, q, r, s)
      BY <1>2, <3>1, ThroughLevel
    <3> QED
      BY <3>2 DEF p, q, r, s
  <2> QED
    BY <2>2, <2>3
<1>6. CASE m < k
  <2>1. n < d
    <3>1. 1 * n >= 1 * d => 1 * m >= 1 * k
      BY ThresholdPassed
    <3> QED
      BY <1>6, <3>1
  <2>2. p = 30 * n /\ q = d /\ r = 30 * m /\ s = k
    BY <1>6, <2>1 DEF PullbackScore
  <2>3. (30 * n) * k = 30 * (n * k) /\ (30 * m) * d = 30 * (m * d)
    OBVIOUS
  <2> QED
    BY <1>1, <2>2, <2>3 DEF AtMost
<1> QED
  BY <1>3, <1>4, <1>5, <1>6

\* The pullback score of detect_staircase (staircase.py), of every ratio n / d of
\* impulses to pullbacks is a fraction between 0 and 100, and a better ratio
\* m / k never scores less, on whichever sides of the thresholds the two lie.
THEOREM PullbackScoreGrows ==
  ASSUME NEW n \in Nat, NEW d \in Nat \ {0}, NEW m \in Nat, NEW k \in Nat \ {0}
  PROVE LET low == PullbackScore(n, d)
            high == PullbackScore(m, k)
        IN  /\ low[1] \in Nat /\ low[2] \in Nat \ {0}
            /\ AtMost(0, 1, low[1], low[2])
            /\ AtMost(low[1], low[2], 100, 1)
            /\ AtMost(n, d, m, k) => AtMost(low[1], low[2], high[1], high[2])
<1> DEFINE p == PullbackScore(n, d)[1]
           q == PullbackScore(n, d)[2]
<1>1. p \in Nat /\ q \in Nat \ {0} /\ p <= 100 * q
  BY PullbackScoreLevels
<1> HIDE DEF p, q
<1>2. AtMost(0, 1, p, q) /\ AtMost(p, q, 100, 1)
  BY <1>1 DEF AtMost
<1>3. AtMost(n, d, m, k) =>
        AtMost(p, q, PullbackScore(m, k)[1], PullbackScore(m, k)[2])
  BY PullbackScoreOrder DEF p, q
<1> QED
  BY <1>1, <1>2, <1>3 DEF p, q

----------------------------------------------------------------------------
(* Ordered windows                                                         *)

\* What a store holds after candles were added was in it, or was added.
LEMMA AddElements ==
  ASSUME NEW s \in Seq(Candle), NEW cs \in Seq(Candle), cs # <<>>,
         NEW i \in 1 .. Len(AddCandles(s, cs))
  PROVE  \/ \E j \in 1 .. Len(s) : AddCandles(s, cs)[i] = s[j]
         \/ \E j \in 1 .. Len(cs) : AddCandles(s, cs)[i] = cs[j]
<1> DEFINE add == AddCandles(s, cs)
           kept == KeptLen(s, cs)
           j == kept + Len(cs) - Len(add) + i
<1>1. /\ kept \in Nat /\ Len(cs) \in Nat \ {0}
      /\ Len(add) = IF kept + Len(cs) <= MaxCandles THEN kept + Len(cs) ELSE MaxCandles
  BY AddHolds
<1>2. \A x \in 1 .. Len(add), y \in Nat :
        y = kept + Len(cs) - Len(add) + x =>
          /\ y <= kept => add[x] = s[y]
          /\ kept < y => add[x] = cs[y - kept]
  BY AddHolds, Zenon
<1>3. Len(s) \in Nat
  BY LenProperties
<1>4. kept <= Len(s)
  BY <1>3, KeptHolds DEF KeptLen
<1>5. MaxCandles \in Nat
  BY PipelineAssumption
<1> HIDE DEF add, kept
<1>6. i \in 1 .. Len(add)
  BY DEF add
<1>7. j \in 1 .. kept + Len(cs)
  BY <1>1, <1>5, <1>6
<1>8. j <= kept \/ kept < j
  BY <1>1, <1>7
<1> HIDE DEF j
<1>9. j \in Nat /\ j = kept + Len(cs) - Len(add) + i
  BY <1>1, <1>7 DEF j
<1>10. CASE j <= kept
  <2>1. add[i] = s[j]
    BY <1>2, <1>6, <1>9, <1>10
  <2>2. j \in 1 .. Len(s)
    BY <1>1, <1>3, <1>4, <1>7, <1>10
  <2> QED
    BY <2>1, <2>2 DEF add
<1>11. CASE kept < j
  <2>1. add[i] = cs[j - kept]
    BY <1>2, <1>6, <1>9, <1>11
  <2>2. j - kept \in 1 .. Len(cs)
    BY <1>1, <1>7, <1>11
  <2> QED
    BY <2>1, <2>2 DEF add
<1> QED
  BY <1>8, <1>10, <1>11

\* A part at the end of an ascending sequence ascends.
LEMMA LatestAscends ==
  ASSUME NEW s \in Seq(Candle), NEW n \in Nat, Ascending(s)
  PROVE  Ascending(Latest(s, n))
<1> DEFINE l == Latest(s, n)
           off == Len(s) - Len(l)
<1>1. /\ l \in Seq(Candle) /\ Len(l) = IF Len(s) <= n THEN Len(s) ELSE n
      /\ Len(s) \in Nat
  BY LatestHolds, LenProperties
<1>2. \A i \in 1 .. Len(l) : l[i] = s[Len(s) - Len(l) + i]
  BY LatestHolds
<1>3. \A i, j \in 1 .. Len(s) : i < j => s[i].t < s[j].t
  BY LenProperties DEF Ascending
<1> HIDE DEF l
<1>4. ASSUME NEW i \in 1 .. Len(l), NEW j \in 1 .. Len(l), i < j
      PROVE  l[i].t < l[j].t
  <2>1. off + i \in 1 .. Len(s) /\ off + j \in 1 .. Len(s) /\ off + i < off + j
    <3>1. Len(l) \in Nat /\ Len(s) \in Nat /\ Len(l) <= Len(s)
      BY <1>1
    <3>2. i \in Nat /\ j \in Nat /\ 1 <= i /\ i <= Len(l) /\ 1 <= j /\ j <= Len(l)
      BY <3>1
    <3>3. off \in Nat /\ off + Len(l) = Len(s)
      BY <3>1
    <3> HIDE DEF off
    <3> QED
      BY <1>4, <3>1, <3>2, <3>3
  <2>2. l[i] = s[off + i] /\ l[j] = s[off + j]
    BY <1>2
  <2> QED
    BY <1>3, <2>1, <2>2
<1>5. DOMAIN l = 1 .. Len(l)
  BY <1>1, LenProperties
<1>6. Ascending(l)
  BY <1>4, <1>5 DEF Ascending
<1> QED
  BY <1>6 DEF l

\* A list that fills the window, or meets an empty store, determines the window.
LEMMA WindowOfList ==
  ASSUME NEW s \in Seq(Candle), NEW cs \in Seq(Candle), cs # <<>>,
         Len(cs) >= MinCandles \/ s = <<>>
  PROVE  Latest(AddCandles(s, cs), MinCandles) = Latest(cs, MinCandles)
<1> DEFINE add == AddCandles(s, cs)
           kept == KeptLen(s, cs)
           new == Latest(add, MinCandles)
           lst == Latest(cs, MinCandles)
<1>1. MinCandles \in Nat \ {0} /\ MaxCandles \in Nat /\ MinCandles <= MaxCandles
  BY PipelineAssumption
<1>2. /\ add \in Seq(Candle) /\ kept \in Nat /\ Len(cs) \in Nat \ {0}
      /\ Len(add) = IF kept + Len(cs) <= MaxCandles THEN kept + Len(cs) ELSE MaxCandles
  BY AddHolds
<1>3. \A x \in 1 .. Len(add), y \in Nat :
        y = kept + Len(cs) - Len(add) + x =>
          /\ y <= kept => add[x] = s[y]
          /\ kept < y => add[x] = cs[y - kept]
  BY AddHolds, Zenon
<1>4. Len(cs) >= MinCandles \/ kept = 0
  <2>1. CASE s = <<>>
    <3>1. Len(s) = 0
      BY <2>1
    <3>2. Len(KeptBefore(s, cs[1].t)) = Len(s)
      BY <2>1, KeptHolds
    <3> QED
      BY <3>1, <3>2 DEF KeptLen
  <2> QED
    BY <2>1
<1>5. /\ new \in Seq(Candle)
      /\ Len(new) = IF Len(add) <= MinCandles THEN Len(add) ELSE MinCandles
  BY <1>1, <1>2, LatestHolds
<1>6. \A i \in 1 .. Len(new) : new[i] = add[Len(add) - Len(new) + i]
  BY <1>1, <1>2, LatestHolds
<1>7. /\ lst \in Seq(Candle)
      /\ Len(lst) = IF Len(cs) <= MinCandles THEN Len(cs) ELSE MinCandles
  BY <1>1, LatestHolds
<1>8. \A i \in 1 .. Len(lst) : lst[i] = cs[Len(cs) - Len(lst) + i]
  BY <1>1, LatestHolds
<1> HIDE DEF add, kept, new, lst
<1>9. Len(new) = Len(lst) /\ Len(new) <= Len(cs) /\ Len(new) <= Len(add)
      /\ Len(add) <= kept + Len(cs) /\ Len(new) \in Nat /\ Len(add) \in Nat
  BY <1>1, <1>2, <1>4, <1>5, <1>7, SMTT(20)
<1>10. ASSUME NEW i \in 1 .. Len(new) PROVE new[i] = lst[i]
  <2> DEFINE m == Len(add) - Len(new) + i
             j == kept + Len(cs) - Len(new) + i
             r == Len(cs) - Len(new) + i
  <2>0. i \in Nat /\ 1 <= i /\ i <= Len(new)
    BY <1>9
  <2>1. m \in 1 .. Len(add) /\ j \in Nat /\ kept < j /\ j - kept = r
        /\ j = kept + Len(cs) - Len(add) + m
    <3>1. Len(cs) - Len(new) \in Nat /\ Len(add) - Len(new) \in Nat
      BY <1>2, <1>9
    <3>2. m \in 1 .. Len(add)
      BY <2>0, <1>9, <3>1
    <3>3. j \in Nat /\ kept < j
      BY <2>0, <1>2, <1>9, <3>1
    <3>4. kept \in Int /\ Len(cs) \in Int /\ Len(new) \in Int /\ Len(add) \in Int
      BY <1>2, <1>9
    <3>5. j - kept = r
      BY <2>0, <3>4
    <3>6. j = kept + Len(cs) - Len(add) + m
      BY <2>0, <3>4
    <3> QED
      BY <3>2, <3>3, <3>5, <3>6, Zenon
  <2>2. new[i] = add[m]
    BY <1>6
  <2>3. lst[i] = cs[r]
    BY <1>8, <1>9
  <2> HIDE DEF m, j, r
  <2>4. add[m] = cs[j - kept]
    BY <1>3, <2>1
  <2> QED
    BY <2>1, <2>2, <2>3, <2>4
<1>11. new = lst
  BY <1>5, <1>7, <1>9, <1>10, SeqEqual
<1> QED
  BY <1>11 DEF new, lst, add

\* No stored candle is of a later minute than the open one; and the property.
OrderInv ==
  /\ CPTypeOK
  /\ \A i \in 1 .. Len(store) : store[i].t <= Open.t
  /\ WindowsOrdered

LEMMA OrderInit == Init => OrderInv
<1> SUFFICES ASSUME Init PROVE OrderInv
  OBVIOUS
<1>1. store = <<>> /\ CPTypeOK /\ MinCandles \in Nat
  BY TypeInit, PipelineAssumption DEF Init
<1>2. Ascending(<<>>)
  BY DEF Ascending
<1>3. <<>> \in Seq(Candle)
  OBVIOUS
<1>4. Ascending(Latest(<<>>, MinCandles))
  BY <1>1, <1>2, <1>3, LatestAscends
<1> QED
  BY <1>1, <1>4 DEF OrderInv, WindowsOrdered, Window

\* The candles a bootstrap answers with are the exchange's.
LEMMA OrderBootstrap ==
  ASSUME OrderInv, NEW count \in Nat, Bootstrap(count)
  PROVE  /\ \A i \in 1 .. Len(store') : store'[i].t <= Open.t
         /\ WindowsOrdered'
<1> DEFINE cs == Latest(market, count)
<1>1. /\ market \in Seq(Candle) /\ store \in Seq(Candle) /\ Ascending(market)
      /\ cs \in Seq(Candle) /\ MinCandles \in Nat
  BY LatestHolds, PipelineAssumption DEF OrderInv, CPTypeOK
<1>2. store' = AddCandles(store, cs) /\ UNCHANGED market
      /\ mixed' = (Len(cs) < MinCandles /\ (mixed \/ (cs # <<>> /\ store # <<>>)))
  BY DEF Bootstrap
<1>3. Ascending(cs)
  BY <1>1, LatestAscends
<1>4. ASSUME NEW j \in 1 .. Len(cs) PROVE cs[j].t <= Open.t
  <2> DEFINE x == Len(market) - Len(cs) + j
  <2>1. Len(market) \in Nat /\ Len(cs) \in Nat /\ Len(cs) <= Len(market)
        /\ cs[j] = market[x]
    <3>1. count \in Nat /\ j \in 1 .. Len(Latest(market, count))
      OBVIOUS
    <3>2. Len(Latest(market, count)) = IF Len(market) <= count THEN Len(market) ELSE count
      BY <1>1, LatestHolds
    <3>3. Latest(market, count)[j] = market[Len(market) - Len(Latest(market, count)) + j]
      BY <1>1, <3>1, LatestHolds
    <3>4. Len(market) \in Nat
      BY <1>1, LenProperties
    <3>5. Len(cs) \in Nat /\ Len(cs) <= Len(market)
      BY <3>1, <3>2, <3>4
    <3> QED
      BY <3>3, <3>4, <3>5
  <2> HIDE DEF cs
  <2>2. x \in 1 .. Len(market)
    BY <2>1
  <2>3. Len(market) \in 1 .. Len(market)
    BY <2>1, <2>2
  <2> HIDE DEF x
  <2>4. x = Len(market) \/ market[x].t < market[Len(market)].t
    BY <1>1, <2>1, <2>2, <2>3, LenProperties DEF Ascending
  <2>5. market[x] \in Candle /\ market[Len(market)] \in Candle
    BY <1>1, <2>2, <2>3, ElementOfSeq
  <2>6. market[x].t \in Nat /\ market[Len(market)].t \in Nat
    BY <2>5 DEF Candle
  <2> QED
    BY <2>1, <2>4, <2>6 DEF Open
<1> HIDE DEF cs
<1>5. CASE cs = <<>>
  <2>1. store' = store
    BY <1>2, <1>5 DEF AddCandles
  <2>2. Len(cs) < MinCandles
    BY <1>5, PipelineAssumption
  <2>3. mixed' = mixed
    BY <1>2, <1>5, <2>2, <1>1 DEF OrderInv, CPTypeOK
  <2> QED
    BY <2>1, <2>3 DEF OrderInv, WindowsOrdered, Window
<1>6. CASE cs # <<>>
  <2>1. ASSUME NEW i \in 1 .. Len(store') PROVE store'[i].t <= Open.t
    <3>1. \/ \E j \in 1 .. Len(store) : store'[i] = store[j]
          \/ \E j \in 1 .. Len(cs) : store'[i] = cs[j]
      BY <1>1, <1>2, <1>6, AddElements
    <3> QED
      BY <3>1, <1>4 DEF OrderInv
  <2>2. ASSUME ~mixed' PROVE Ascending(Window')
    <3>1. CASE Len(cs) >= MinCandles \/ store = <<>>
      <4>1. Window' = Latest(cs, MinCandles)
        BY <1>1, <1>2, <1>6, <3>1, WindowOfList DEF Window
      <4> QED
        BY <1>1, <1>3, <4>1, LatestAscends
    <3>2. CASE Len(cs) < MinCandles /\ store # <<>>
      BY <1>2, <1>6, <2>2, <3>2
    <3>3. Len(cs) \in Nat
      BY <1>1, LenProperties
    <3> QED
      BY <1>1, <3>1, <3>2, <3>3
  <2> QED
    BY <2>1, <2>2 DEF WindowsOrdered, Ascending
<1> QED
  BY <1>5, <1>6

\* WindowAfter for the window of the pipeline.
LEMMA WindowReceived ==
  ASSUME CPTypeOK, NEW c \in Candle, Receive(c)
  PROVE  WindowStep(Window, Window', LeftOf(store, c), c)
<1>1. store \in Seq(Candle) /\ store' = AddCandles(store, <<c>>)
  BY DEF Receive, CPTypeOK
<1>2. Window = Latest(store, MinCandles)
      /\ Window' = Latest(AddCandles(store, <<c>>), MinCandles)
  BY <1>1 DEF Window
<1> QED
  BY <1>1, <1>2, WindowAfter

\* The stored candle that is last in the window.
LEMMA LastOfWindow ==
  ASSUME CPTypeOK
  PROVE  /\ Window \in Seq(Candle) /\ Len(Window) \in Nat /\ Len(Window) <= Len(store)
         /\ store # <<>> => Len(Window) # 0 /\ Window[Len(Window)] = store[Len(store)]
         /\ \A i \in 1 .. Len(Window) : \E j \in 1 .. Len(store) : Window[i] = store[j]
<1>1. store \in Seq(Candle) /\ MinCandles \in Nat \ {0} /\ Len(store) \in Nat
      /\ (store # <<>> => Len(store) # 0)
  BY PipelineAssumption, LenProperties, EmptySeq DEF CPTypeOK
<1>2. /\ Window \in Seq(Candle)
      /\ Len(Window) = IF Len(store) <= MinCandles THEN Len(store) ELSE MinCandles
      /\ \A i \in 1 .. Len(Window) : Window[i] = store[Len(store) - Len(Window) + i]
  BY <1>1, LatestHolds DEF Window
<1>3. Len(Window) \in Nat /\ Len(Window) <= Len(store) /\ (store # <<>> => Len(Window) # 0)
  BY <1>1, <1>2
<1>4. ASSUME store # <<>> PROVE Window[Len(Window)] = store[Len(store)]
  <2>1. Len(Window) \in 1 .. Len(Window)
    BY <1>3, <1>4
  <2>2. Len(store) - Len(Window) + Len(Window) = Len(store)
    BY <1>1, <1>3
  <2> QED
    BY <1>2, <2>1, <2>2
<1>5. ASSUME NEW i \in 1 .. Len(Window)
      PROVE  \E j \in 1 .. Len(store) : Window[i] = store[j]
  <2>1. Len(store) - Len(Window) + i \in 1 .. Len(store)
    BY <1>1, <1>3
  <2> QED
    BY <1>2, <2>1
<1> QED
  BY <1>2, <1>3, <1>4, <1>5

\* What stays of an ordered window is older than the candle that arrives.
LEMMA OlderLeft ==
  ASSUME OrderInv, NEW c \in Candle, Grows(c), Receive(c)
  PROVE  /\ \A i \in 1 .. Len(store) : store[i].t <= c.t
         /\ LeftOf(store, c) >= Len(Window) - 1
         /\ ~mixed => \A x \in 1 .. LeftOf(store, c) : Window[x].t < c.t
<1> DEFINE replaced == store # <<>> /\ store[Len(store)].t = c.t
           k == LeftOf(store, c)
<1>1. /\ CPTypeOK /\ store \in Seq(Candle)
      /\ Open \in Candle /\ Open.t \in Nat /\ c.t \in Nat
  BY OpenIsCandle DEF OrderInv, CPTypeOK, Candle
<1>2. c.t \in {Open.t, Open.t + 1}
  BY DEF Grows
<1>3. \A i \in 1 .. Len(store) : store[i] \in Candle /\ store[i].t \in Nat
  <2>1. \A i \in 1 .. Len(store) : store[i] \in Candle
    BY <1>1, ElementOfSeq
  <2> QED
    BY <2>1 DEF Candle
<1>4. \A i \in 1 .. Len(store) : store[i].t <= c.t
  BY <1>1, <1>2, <1>3 DEF OrderInv
<1>5. Window \in Seq(Candle) /\ Len(Window) \in Nat /\ k \in 0 .. Len(Window)
  BY <1>1, LastOfWindow, WindowReceived DEF WindowStep
<1>6. k = IF replaced THEN Len(Window) - 1 ELSE Len(Window)
  BY DEF LeftOf, Window
<1> HIDE DEF k
<1>7. ASSUME ~mixed, NEW x \in 1 .. k PROVE Window[x].t < c.t
  <2>1. \A i, j \in 1 .. Len(Window) : i < j => Window[i].t < Window[j].t
    BY <1>5, <1>7, LenProperties DEF OrderInv, WindowsOrdered, Ascending
  <2>2. \A i \in 1 .. Len(Window) : Window[i].t <= c.t /\ Window[i].t \in Nat
    BY <1>1, <1>3, <1>4, LastOfWindow
  <2>3. x \in 1 .. Len(Window) /\ Len(Window) \in 1 .. Len(Window)
    BY <1>5
  <2>4. store # <<>>
    <3>1. Len(Window) <= Len(store) /\ Len(<<>>) = 0
      BY <1>1, LastOfWindow
    <3> QED
      BY <1>5, <2>3, <3>1
  <2>5. Window[Len(Window)] = store[Len(store)]
    BY <1>1, <2>4, LastOfWindow
  <2>6. CASE replaced
    <3>1. x < Len(Window)
      BY <1>5, <1>6, <2>6
    <3> QED
      BY <2>1, <2>3, <2>5, <2>6, <3>1
  <2>7. CASE ~replaced
    <3>1. Window[Len(Window)].t # c.t
      BY <2>4, <2>5, <2>7
    <3>2. x = Len(Window) \/ x < Len(Window)
      BY <1>5, <2>3
    <3> QED
      BY <1>1, <2>1, <2>2, <2>3, <3>1, <3>2
  <2> QED
    BY <2>6, <2>7
<1>8. k >= Len(Window) - 1
  BY <1>5, <1>6
<1> QED
  BY <1>4, <1>7, <1>8 DEF k

LEMMA OrderReceive ==
  ASSUME OrderInv, NEW c \in Candle, Grows(c), Receive(c)
  PROVE  /\ \A i \in 1 .. Len(store') : store'[i].t <= Open'.t
         /\ WindowsOrdered'
<1> DEFINE k == LeftOf(store, c)
           n == Len(Window')
<1>1. /\ CPTypeOK /\ store \in Seq(Candle) /\ mixed' = mixed
      /\ store' = AddCandles(store, <<c>>) /\ Open' = c /\ c.t \in Nat
  BY MarketStep DEF OrderInv, CPTypeOK, Receive, Candle
<1>2. ASSUME NEW i \in 1 .. Len(store') PROVE store'[i].t <= Open'.t
  <2> DEFINE one == <<c>>
  <2>1. one \in Seq(Candle) /\ one # <<>> /\ Len(one) = 1 /\ one[1] = c
    OBVIOUS
  <2> HIDE DEF one
  <2>2. store' = AddCandles(store, one)
    BY <1>1 DEF one
  <2>3. \/ \E j \in 1 .. Len(store) : store'[i] = store[j]
        \/ \E j \in 1 .. Len(one) : store'[i] = one[j]
    BY <1>1, <2>1, <2>2, AddElements
  <2>4. \A j \in 1 .. Len(store) : store[j].t <= c.t
    BY OlderLeft
  <2> QED
    BY <1>1, <2>1, <2>3, <2>4
<1>3. /\ Window \in Seq(Candle) /\ Len(Window) \in Nat
      /\ Window' \in Seq(Candle) /\ k \in 0 .. Len(Window)
      /\ n = IF k < MinCandles THEN k + 1 ELSE MinCandles
      /\ Window'[n] = c
      /\ \A i \in 1 .. n - 1 : Window'[i] = Window[k + 1 - n + i]
  BY <1>1, LastOfWindow, WindowReceived DEF WindowStep
<1>4. ASSUME ~mixed' PROVE Ascending(Window')
  <2>1. \A i, j \in 1 .. Len(Window) : i < j => Window[i].t < Window[j].t
    BY <1>1, <1>3, <1>4, LenProperties DEF OrderInv, WindowsOrdered, Ascending
  <2>2. \A x \in 1 .. k : Window[x].t < c.t
    BY <1>1, <1>4, OlderLeft
  <2> HIDE DEF k
  <2>3. ASSUME NEW i \in 1 .. n, NEW j \in 1 .. n, i < j
        PROVE  Window'[i].t < Window'[j].t
    <3>1. n \in Nat /\ n <= k + 1 /\ k \in Nat /\ MinCandles \in Nat
      BY <1>3, PipelineAssumption
    <3> HIDE DEF n
    <3>2. i \in 1 .. n - 1 /\ k + 1 - n + i \in 1 .. k /\ k + 1 - n + i \in 1 .. Len(Window)
      BY <1>3, <2>3, <3>1
    <3>3. Window'[i] = Window[k + 1 - n + i]
      BY <1>3, <3>2
    <3>4. CASE j = n
      BY <1>3, <2>2, <3>2, <3>3, <3>4
    <3>5. CASE j # n
      <4>1. j \in 1 .. n - 1 /\ k + 1 - n + j \in 1 .. Len(Window)
            /\ k + 1 - n + i < k + 1 - n + j
        BY <1>3, <2>3, <3>1, <3>5
      <4>2. Window'[j] = Window[k + 1 - n + j]
        BY <1>3, <4>1
      <4> QED
        BY <2>1, <3>2, <3>3, <4>1, <4>2
    <3> QED
      BY <3>4, <3>5
  <2> QED
    BY <1>3, <2>3, LenProperties DEF Ascending
<1> QED
  BY <1>2, <1>4 DEF WindowsOrdered, Ascending

LEMMA OrderStep == OrderInv /\ [Next]_vars => OrderInv'
<1> SUFFICES ASSUME OrderInv, [Next]_vars
             PROVE  (\A i \in 1 .. Len(store) : store[i].t <= Open.t)' /\ WindowsOrdered'
  BY TypeStep DEF OrderInv
<1>1. CPTypeOK
  BY DEF OrderInv
<1>2. ASSUME NEW count \in {0, BootstrapCount}, Bootstrap(count)
      PROVE  (\A i \in 1 .. Len(store) : store[i].t <= Open.t)' /\ WindowsOrdered'
  <2>1. count \in Nat /\ Open' = Open
    BY <1>2, PipelineAssumption DEF Bootstrap, Open
  <2> QED
    BY <1>2, <2>1, OrderBootstrap
<1>3. CASE UNCHANGED <<market, store, mixed>>
  BY <1>3 DEF OrderInv, WindowsOrdered, Window, Open, Ascending
<1>4. ASSUME NEW d \in Ticks, Trade(d) \/ Minute(d)
      PROVE  (\A i \in 1 .. Len(store) : store[i].t <= Open.t)' /\ WindowsOrdered'
  <2>1. PICK c \in Candle : Grows(c) /\ (Receive(c) \/ Miss)
    BY <1>1, <1>4, MessageSent
  <2>2. CASE Receive(c)
    BY <2>1, <2>2, OrderReceive
  <2>3. CASE Miss
    <3>1. Open' = c /\ c.t \in {Open.t, Open.t + 1} /\ store' = store /\ mixed' = mixed
      BY <1>1, <2>1, <2>3, MarketStep DEF Grows, Miss
    <3>2. Open \in Candle /\ store \in Seq(Candle)
      BY <1>1, OpenIsCandle DEF CPTypeOK
    <3>3. Open.t \in Nat
      BY <3>2 DEF Candle
    <3>4. ASSUME NEW i \in 1 .. Len(store) PROVE store[i].t <= c.t
      <4>1. store[i] \in Candle
        BY <3>2, ElementOfSeq
      <4>2. store[i].t \in Nat
        BY <4>1 DEF Candle
      <4> QED
        BY <3>1, <3>3, <4>2 DEF OrderInv
    <3> QED
      BY <3>1, <3>4 DEF OrderInv, WindowsOrdered, Window, Ascending
  <2> QED
    BY <2>1, <2>2, <2>3
<1> QED
  BY <1>2, <1>3, <1>4 DEF Next, vars, Subscribe, Unsubscribe

\* Whatever messages are lost and however often the coin comes and goes, a window
\* holds each minute at most once and in order, unless a short bootstrap met
\* older candles.
THEOREM WindowsAreOrdered == Spec => []WindowsOrdered
<1>1. OrderInv => WindowsOrdered
  BY DEF OrderInv
<1> QED
  BY <1>1, OrderInit, OrderStep, PTL DEF Spec

----------------------------------------------------------------------------
(* The window and the exchange                                             *)

\* The window of the exchange's own candles moves as the one of the store does.
Grown(c) ==
  IF c.t = Open.t THEN Len(Latest(market, MinCandles)) - 1
  ELSE Len(Latest(market, MinCandles))

LEMMA MarketWindow ==
  ASSUME CPTypeOK, NEW c \in Candle, Grows(c)
  PROVE  WindowStep(Latest(market, MinCandles), Latest(market', MinCandles), Grown(c), c)
<1> DEFINE old == Latest(market, MinCandles)
           new == Latest(market', MinCandles)
           k == Grown(c)
           n == Len(market)
           m == Len(market')
<1>1. MinCandles \in Nat \ {0}
  BY PipelineAssumption
<1>2. /\ market \in Seq(Candle) /\ n \in Nat \ {0}
      /\ market' \in Seq(Candle) /\ market'[m] = c
      /\ m = IF c.t = Open.t THEN n ELSE n + 1
  BY OpenIsCandle, MarketStep DEF CPTypeOK, Open
<1>3. \A i \in 1 .. m - 1 : market'[i] = market[i]
  BY MarketStep
<1>4. old \in Seq(Candle) /\ Len(old) = IF n <= MinCandles THEN n ELSE MinCandles
  BY <1>1, <1>2, LatestHolds
<1>5. \A i \in 1 .. Len(old) : old[i] = market[n - Len(old) + i]
  BY <1>1, <1>2, LatestHolds
<1>6. new \in Seq(Candle) /\ Len(new) = IF m <= MinCandles THEN m ELSE MinCandles
  BY <1>1, <1>2, LatestHolds
<1>7. \A i \in 1 .. Len(new) : new[i] = market'[m - Len(new) + i]
  BY <1>1, <1>2, LatestHolds
<1>8. k = IF c.t = Open.t THEN Len(old) - 1 ELSE Len(old)
  BY DEF Grown
<1> HIDE DEF old, new, k, n, m
<1>9. k + n - Len(old) = m - 1 /\ k \in 0 .. Len(old) /\ Len(new) \in 1 .. m
      /\ Len(new) <= k + 1 /\ m \in Nat /\ Len(old) \in Nat /\ Len(old) <= n
  BY <1>1, <1>2, <1>4, <1>6, <1>8
<1>10. Len(new) = IF k < MinCandles THEN k + 1 ELSE MinCandles
  BY <1>1, <1>2, <1>4, <1>6, <1>8
<1>11. new[Len(new)] = c
  <2>1. Len(new) \in 1 .. Len(new) /\ m - Len(new) + Len(new) = m
    BY <1>9
  <2> QED
    BY <1>2, <1>7, <2>1
<1>12. ASSUME NEW i \in 1 .. Len(new) - 1 PROVE new[i] = old[k + 1 - Len(new) + i]
  <2> DEFINE x == k + 1 - Len(new) + i
             y == m - Len(new) + i
  <2>1. i \in Nat /\ 1 <= i /\ i + 1 <= Len(new)
    BY <1>9
  <2>2. y \in 1 .. m - 1
    BY <1>9, <2>1
  <2>3. x \in 1 .. Len(old)
    BY <1>9, <2>1
  <2>4. n - Len(old) + x = y
    BY SMTT(30), <1>2, <1>9, <2>1
  <2>5. new[i] = market'[y]
    BY <1>7, <1>9, <2>1
  <2> HIDE DEF x, y
  <2>6. old[x] = market[y]
    BY <1>5, <2>3, <2>4
  <2>7. market'[y] = market[y]
    BY <1>3, <2>2
  <2> QED
    BY <2>5, <2>6, <2>7 DEF x
<1>13. WindowStep(old, new, k, c)
  BY <1>4, <1>6, <1>9, <1>10, <1>11, <1>12 DEF WindowStep
<1> QED
  BY <1>13 DEF old, new, k

LEMMA StepUnique ==
  ASSUME NEW old, NEW new1, NEW new2, NEW k, NEW c,
         WindowStep(old, new1, k, c), WindowStep(old, new2, k, c)
  PROVE  new1 = new2
<1>1. /\ new1 \in Seq(Candle) /\ new2 \in Seq(Candle) /\ k \in Int
      /\ Len(new1) = Len(new2)
  BY DEF WindowStep
<1>2. ASSUME NEW i \in 1 .. Len(new1) PROVE new1[i] = new2[i]
  <2>1. Len(new1) \in Nat
    BY <1>1, LenProperties
  <2>2. CASE i = Len(new1)
    BY <1>1, <2>2 DEF WindowStep
  <2>3. CASE i # Len(new1)
    <3>1. i \in 1 .. Len(new1) - 1
      BY <2>1, <2>3
    <3>2. new1[i] = old[k + 1 - Len(new1) + i]
      BY <3>1 DEF WindowStep
    <3>3. new2[i] = old[k + 1 - Len(new1) + i]
      BY <1>1, <3>1 DEF WindowStep
    <3> QED
      BY <3>2, <3>3
  <2> QED
    BY <2>2, <2>3
<1> QED
  BY <1>1, <1>2, SeqEqual

MirrorInv == CPTypeOK /\ WindowsMirrorMarket

LEMMA MirrorReceive ==
  ASSUME MirrorInv, whole, pc # "off", NEW c \in Candle, Grows(c), Receive(c)
  PROVE  Window' = Latest(market', MinCandles)
<1> DEFINE old == Latest(market, MinCandles)
<1>1. CPTypeOK /\ Window = old
  BY DEF MirrorInv, WindowsMirrorMarket
<1>2. /\ market \in Seq(Candle) /\ Len(market) \in Nat \ {0} /\ Open \in Candle
      /\ MinCandles \in Nat \ {0} /\ Open = market[Len(market)]
  BY <1>1, OpenIsCandle, PipelineAssumption DEF CPTypeOK, Open
<1>3. /\ Len(old) = IF Len(market) <= MinCandles THEN Len(market) ELSE MinCandles
      /\ \A i \in 1 .. Len(old) : old[i] = market[Len(market) - Len(old) + i]
  BY <1>2, LatestHolds
<1>4. Len(old) \in Nat \ {0}
  BY <1>2, <1>3
<1>5. old[Len(old)] = Open
  <2>1. Len(old) \in 1 .. Len(old) /\ Len(market) - Len(old) + Len(old) = Len(market)
    BY <1>2, <1>4
  <2> QED
    BY <1>2, <1>3, <2>1
<1> HIDE DEF old
<1>6. store # <<>>
  <2>1. Len(Window) <= Len(store) /\ Len(<<>>) = 0
    BY <1>1, LastOfWindow
  <2> QED
    BY <1>1, <1>4, <2>1
<1>7. store[Len(store)] = Open
  BY <1>1, <1>5, <1>6, LastOfWindow
<1>8. LeftOf(store, c) = Grown(c)
  BY <1>1, <1>6, <1>7 DEF LeftOf, Grown, Window, old
<1>9. WindowStep(old, Window', Grown(c), c)
  BY <1>1, <1>8, WindowReceived
<1>10. WindowStep(old, Latest(market', MinCandles), Grown(c), c)
  BY <1>1, MarketWindow DEF old
<1> QED
  BY <1>9, <1>10, StepUnique

LEMMA MirrorBootstrap ==
  ASSUME CPTypeOK, NEW count \in Nat, Bootstrap(count), whole'
  PROVE  Window' = Latest(market', MinCandles)
<1> DEFINE cs == Latest(market, count)
           lst == Latest(cs, MinCandles)
           top == Latest(market, MinCandles)
           n == Len(market)
<1>1. /\ market \in Seq(Candle) /\ n \in Nat \ {0} /\ store \in Seq(Candle)
      /\ MinCandles \in Nat \ {0}
  BY OpenIsCandle, PipelineAssumption DEF CPTypeOK
<1>2. cs \in Seq(Candle) /\ Len(cs) = IF n <= count THEN n ELSE count
  BY <1>1, LatestHolds
<1>3. \A i \in 1 .. Len(cs) : cs[i] = market[n - Len(cs) + i]
  BY <1>1, LatestHolds
<1>4. Len(cs) >= MinCandles \/ (store = <<>> /\ cs = market)
  BY DEF Bootstrap
<1>5. store' = AddCandles(store, cs) /\ market' = market
  BY DEF Bootstrap
<1> HIDE DEF cs
<1>6. cs # <<>>
  <2>1. Len(<<>>) = 0
    OBVIOUS
  <2> QED
    BY <1>1, <1>4, <2>1
<1>7. Window' = lst
  BY <1>1, <1>2, <1>4, <1>5, <1>6, WindowOfList DEF Window
<1>8. lst \in Seq(Candle) /\ Len(lst) = IF Len(cs) <= MinCandles THEN Len(cs) ELSE MinCandles
  BY <1>1, <1>2, LatestHolds
<1>9. \A i \in 1 .. Len(lst) : lst[i] = cs[Len(cs) - Len(lst) + i]
  BY <1>1, <1>2, LatestHolds
<1>10. top \in Seq(Candle) /\ Len(top) = IF n <= MinCandles THEN n ELSE MinCandles
  BY <1>1, LatestHolds
<1>11. \A i \in 1 .. Len(top) : top[i] = market[n - Len(top) + i]
  BY <1>1, LatestHolds
<1> HIDE DEF lst, top, n
<1>12. Len(cs) >= MinCandles \/ Len(cs) = n
  BY <1>4 DEF n
<1>13. Len(lst) = Len(top) /\ Len(lst) <= Len(cs) /\ Len(lst) \in Nat /\ Len(cs) \in Nat
       /\ Len(cs) <= n
  BY <1>1, <1>2, <1>8, <1>10, <1>12
<1>14. ASSUME NEW i \in 1 .. Len(lst) PROVE lst[i] = top[i]
  <2> DEFINE x == Len(cs) - Len(lst) + i
  <2>1. x \in 1 .. Len(cs) /\ n - Len(cs) + x = n - Len(top) + i
    BY <1>1, <1>13
  <2>2. lst[i] = cs[x]
    BY <1>9
  <2> HIDE DEF x
  <2>3. cs[x] = market[n - Len(cs) + x]
    BY <1>3, <2>1
  <2>4. top[i] = market[n - Len(top) + i]
    BY <1>11, <1>13
  <2> QED
    BY <2>1, <2>2, <2>3, <2>4
<1>15. lst = top
  BY <1>8, <1>10, <1>13, <1>14, SeqEqual
<1> QED
  BY <1>5, <1>7, <1>15 DEF top

LEMMA MirrorStep == MirrorInv /\ [Next]_vars => MirrorInv'
<1> SUFFICES ASSUME MirrorInv, [Next]_vars, whole', pc' # "off"
             PROVE  Window' = Latest(market', MinCandles)
  BY TypeStep DEF MirrorInv, WindowsMirrorMarket
<1>1. CPTypeOK
  BY DEF MirrorInv
<1>2. ASSUME NEW count \in {0, BootstrapCount}, Bootstrap(count)
      PROVE  Window' = Latest(market', MinCandles)
  <2>1. count \in Nat
    BY PipelineAssumption
  <2> QED
    BY <1>1, <1>2, <2>1, MirrorBootstrap
<1>3. CASE Subscribe \/ Unsubscribe \/ UNCHANGED vars
  <2>1. market' = market /\ store' = store /\ whole /\ pc # "off"
    BY <1>3 DEF Subscribe, Unsubscribe, vars, link
  <2>2. Window' = Window
    BY <2>1 DEF Window
  <2> QED
    BY <2>1, <2>2 DEF MirrorInv, WindowsMirrorMarket
<1>4. ASSUME NEW d \in Ticks, Trade(d) \/ Minute(d)
      PROVE  Window' = Latest(market', MinCandles)
  <2>1. PICK c \in Candle : Grows(c) /\ (Receive(c) \/ Miss)
    BY <1>1, <1>4, MessageSent
  <2>2. CASE Receive(c)
    <3>1. whole /\ pc # "off"
      BY <2>2 DEF Receive
    <3> QED
      BY <2>1, <2>2, <3>1, MirrorReceive
  <2>3. CASE Miss
    BY <2>3 DEF Miss
  <2> QED
    BY <2>1, <2>2, <2>3
<1> QED
  BY <1>2, <1>3, <1>4 DEF Next

\* While no message is missing since a complete bootstrap the pipeline evaluates
\* the exchange's candles and nothing else.
THEOREM WindowsAreTheMarkets == Spec => []WindowsMirrorMarket
<1>1. Init => MirrorInv
  BY TypeInit DEF Init, MirrorInv, WindowsMirrorMarket
<1>2. MirrorInv => WindowsMirrorMarket
  BY DEF MirrorInv
<1> QED
  BY <1>1, <1>2, MirrorStep, PTL DEF Spec

----------------------------------------------------------------------------
(* No repainting                                                           *)

\* A closed swing of the old window, at index i of it, is one of the new window,
\* at index i - shift, when it is confirmable there.
LEMMA SwingsOfStep ==
  ASSUME NEW old, NEW new, NEW k, NEW c, WindowStep(old, new, k, c),
         k >= Len(old) - 1, Ascending(new),
         NEW i \in MinBars + 1 .. Len(old) - 1 - MinBars,
         old[i].t \in {new[j].t : j \in MinBars + 1 .. Len(new)},
         \A x \in 1 .. k : old[x].t < c.t,
         Ascending(old)
  PROVE  \E j \in MinBars + 1 .. Len(new) - 1 - MinBars :
           \A d \in -MinBars .. MinBars : new[j + d] = old[i + d]
<1> DEFINE shift == k + 1 - Len(new)
           j == i - shift
<1>1. /\ MinBars \in Nat \ {0} /\ MinCandles \in Nat \ {0}
      /\ old \in Seq(Candle) /\ new \in Seq(Candle) /\ k \in 0 .. Len(old)
      /\ Len(new) = IF k < MinCandles THEN k + 1 ELSE MinCandles
      /\ Len(old) \in Nat
  BY StrategyAssumption, PipelineAssumption, LenProperties DEF WindowStep
<1>2. \A x \in 1 .. Len(new) - 1 : new[x] = old[k + 1 - Len(new) + x]
  BY DEF WindowStep
<1>3. /\ \A x, y \in 1 .. Len(old) : x < y => old[x].t < old[y].t
      /\ \A x, y \in 1 .. Len(new) : x < y => new[x].t < new[y].t
  BY <1>1, LenProperties DEF Ascending
<1>4. \A x \in 1 .. Len(old) : old[x].t \in Nat
  <2>1. \A x \in 1 .. Len(old) : old[x] \in Candle
    BY <1>1, ElementOfSeq
  <2> QED
    BY <2>1 DEF Candle
<1>5. /\ shift \in Nat /\ Len(new) \in Nat /\ i \in Nat /\ k \in Nat
      /\ MinBars + 1 <= i /\ i <= Len(old) - 1 - MinBars
      /\ shift + Len(new) = k + 1 /\ k <= Len(old)
      /\ i + MinBars <= k /\ i \in 1 .. k
  BY <1>1
<1>6. PICK y \in MinBars + 1 .. Len(new) : old[i].t = new[y].t
  OBVIOUS
<1>7. y \in 1 .. Len(new) /\ MinBars + 1 <= y /\ y \in Nat
  BY <1>1, <1>5
<1>8. y # Len(new)
  <2>1. new[Len(new)] = c
    BY DEF WindowStep
  <2>2. old[i].t < c.t /\ old[i].t \in Nat
    BY <1>1, <1>4, <1>5
  <2> QED
    BY <1>6, <2>1, <2>2
<1>9. new[y] = old[shift + y] /\ shift + y \in 1 .. Len(old)
  <2>1. y \in 1 .. Len(new) - 1
    BY <1>5, <1>7, <1>8
  <2>2. shift + y \in 1 .. Len(old)
    BY <1>1, <1>5, <2>1
  <2> QED
    BY <1>2, <2>1, <2>2
<1>10. shift + y = i
  <2>1. i \in 1 .. Len(old) /\ old[i].t = old[shift + y].t /\ old[i].t \in Nat
    BY SMTT(30), <1>1, <1>4, <1>5, <1>6, <1>9
  <2>2. ~(old[i].t < old[i].t)
    BY <2>1
  <2>3. ~(i < shift + y) /\ ~(shift + y < i)
    BY <1>3, <1>9, <2>1, <2>2
  <2>4. i \in Int /\ shift + y \in Int
    BY <1>9, <2>1
  <2> QED
    BY <2>3, <2>4, NeitherLess
<1> HIDE DEF shift
<1>11. y \in MinBars + 1 .. Len(new) - 1 - MinBars
  BY <1>1, <1>5, <1>7, <1>10
<1>12. ASSUME NEW d \in -MinBars .. MinBars PROVE new[y + d] = old[i + d]
  <2>1. y + d \in 1 .. Len(new) - 1
    BY <1>1, <1>5, <1>11
  <2>2. shift + (y + d) = i + d
    BY <1>1, <1>5, <1>7, <1>10
  <2> QED
    BY <1>2, <2>1, <2>2 DEF shift
<1> QED
  BY <1>11, <1>12

\* The closed candles of a window.
LEMMA ClosedPart ==
  ASSUME NEW w \in Seq(Candle)
  PROVE  LET closed == SubSeq(w, 1, Len(w) - 1)
         IN  /\ Len(closed) = IF w = <<>> THEN 0 ELSE Len(w) - 1
             /\ \A i \in 1 .. Len(w) - 1 : closed[i] = w[i]
<1>1. CASE w = <<>>
  <2>1. Len(w) = 0 /\ SubSeq(w, 1, 0 - 1) = <<>>
    BY <1>1, SubSeqEmpty
  <2> QED
    BY <1>1, <2>1
<1>2. CASE w # <<>>
  <2>1. Len(w) \in Nat \ {0}
    BY <1>2, EmptySeq, LenProperties
  <2> DEFINE m == Len(w) - 1
  <2>2. m \in Nat /\ \A i \in 1 .. m : w[i] \in Candle
    BY <2>1, ElementOfSeq
  <2> HIDE DEF m
  <2>3. /\ Len(SubSeq(w, 1, m)) = IF 1 <= m THEN m - 1 + 1 ELSE 0
        /\ \A i \in 1 .. m - 1 + 1 : SubSeq(w, 1, m)[i] = w[1 + i - 1]
    BY <2>2, SubSeqProperties
  <2>4. Len(SubSeq(w, 1, m)) = m /\ \A i \in 1 .. m : SubSeq(w, 1, m)[i] = w[i]
    BY <2>2, <2>3
  <2> QED
    BY <1>2, <2>4 DEF m
<1> QED
  BY <1>1, <1>2

\* A swing at index i of a window, which the window's last candle is not part of.
IsHigh(w, i) ==
  /\ i \in MinBars + 1 .. Len(w) - 1 - MinBars
  /\ \A k \in 1 .. MinBars : w[i].high > w[i - k].high /\ w[i].high > w[i + k].high

IsLow(w, i) ==
  /\ i \in MinBars + 1 .. Len(w) - 1 - MinBars
  /\ \A k \in 1 .. MinBars : w[i].low < w[i - k].low /\ w[i].low < w[i + k].low

SwingsOf(w) ==
  {<<w[i].t, "high", w[i].high>> : i \in {x \in 1 .. Len(w) : IsHigh(w, x)}}
    \cup {<<w[i].t, "low", w[i].low>> : i \in {x \in 1 .. Len(w) : IsLow(w, x)}}

LEMMA ClosedAre ==
  ASSUME NEW w \in Seq(Candle)
  PROVE  LET closed == SubSeq(w, 1, Len(w) - 1)
         IN  {<<closed[i].t, "high", closed[i].high>> : i \in SwingHighs(closed)}
               \cup {<<closed[i].t, "low", closed[i].low>> : i \in SwingLows(closed)}
               = SwingsOf(w)
<1> DEFINE closed == SubSeq(w, 1, Len(w) - 1)
<1>1. /\ Len(closed) = IF w = <<>> THEN 0 ELSE Len(w) - 1
      /\ \A i \in 1 .. Len(w) - 1 : closed[i] = w[i]
      /\ Len(w) \in Nat /\ MinBars \in Nat \ {0} /\ (w = <<>> => Len(w) = 0)
  BY ClosedPart, LenProperties, StrategyAssumption
<1> HIDE DEF closed
<1>2. MinBars + 1 .. Len(closed) - MinBars = MinBars + 1 .. Len(w) - 1 - MinBars
  BY <1>1
<1>3. ASSUME NEW i \in MinBars + 1 .. Len(w) - 1 - MinBars
      PROVE  /\ i \in 1 .. Len(w) /\ closed[i] = w[i]
             /\ \A k \in 1 .. MinBars : closed[i - k] = w[i - k] /\ closed[i + k] = w[i + k]
  <2>1. i \in 1 .. Len(w) - 1 /\ i \in 1 .. Len(w)
    BY <1>1
  <2>2. ASSUME NEW k \in 1 .. MinBars
        PROVE  i - k \in 1 .. Len(w) - 1 /\ i + k \in 1 .. Len(w) - 1
    BY <1>1
  <2> QED
    BY <1>1, <2>1, <2>2
<1>4. ASSUME NEW i PROVE i \in SwingHighs(closed) <=> i \in 1 .. Len(w) /\ IsHigh(w, i)
  BY <1>2, <1>3 DEF SwingHighs, IsHigh
<1>5. ASSUME NEW i PROVE i \in SwingLows(closed) <=> i \in 1 .. Len(w) /\ IsLow(w, i)
  BY <1>2, <1>3 DEF SwingLows, IsLow
<1>6. /\ \A i \in SwingHighs(closed) : closed[i] = w[i]
      /\ \A i \in SwingLows(closed) : closed[i] = w[i]
  BY <1>3, <1>4, <1>5 DEF IsHigh, IsLow
<1>7. {<<closed[i].t, "high", closed[i].high>> : i \in SwingHighs(closed)}
        = {<<w[i].t, "high", w[i].high>> : i \in {x \in 1 .. Len(w) : IsHigh(w, x)}}
  BY <1>4, <1>6
<1>8. {<<closed[i].t, "low", closed[i].low>> : i \in SwingLows(closed)}
        = {<<w[i].t, "low", w[i].low>> : i \in {x \in 1 .. Len(w) : IsLow(w, x)}}
  BY <1>5, <1>6
<1> QED
  BY <1>7, <1>8 DEF SwingsOf, closed

LEMMA SwingsKept ==
  ASSUME NEW old, NEW new, NEW k, NEW c, WindowStep(old, new, k, c),
         k >= Len(old) - 1, Ascending(new), Ascending(old),
         \A x \in 1 .. k : old[x].t < c.t,
         NEW s \in SwingsOf(old),
         s[1] \in {new[j].t : j \in MinBars + 1 .. Len(new)}
  PROVE  s \in SwingsOf(new)
<1>0. MinBars \in Nat \ {0} /\ Len(new) \in Nat
  BY StrategyAssumption, LenProperties DEF WindowStep
<1>1. ASSUME NEW i, IsHigh(old, i), s = <<old[i].t, "high", old[i].high>>
      PROVE  s \in SwingsOf(new)
  <2>1. i \in MinBars + 1 .. Len(old) - 1 - MinBars
    BY <1>1 DEF IsHigh
  <2>2. old[i].t \in {new[j].t : j \in MinBars + 1 .. Len(new)}
    BY <1>1
  <2>3. PICK j \in MinBars + 1 .. Len(new) - 1 - MinBars :
          \A d \in -MinBars .. MinBars : new[j + d] = old[i + d]
    BY <2>1, <2>2, SwingsOfStep
  <2>4. new[j] = old[i]
    <3>1. 0 \in -MinBars .. MinBars /\ j + 0 = j /\ i + 0 = i
      BY <1>0, <2>1
    <3> QED
      BY <2>3, <3>1
  <2>5. ASSUME NEW x \in 1 .. MinBars
        PROVE  new[j - x] = old[i - x] /\ new[j + x] = old[i + x]
    <3>1. x \in -MinBars .. MinBars /\ -x \in -MinBars .. MinBars
          /\ j + (-x) = j - x /\ i + (-x) = i - x
      BY <1>0, <2>1
    <3> QED
      BY <2>3, <3>1
  <2>6. IsHigh(new, j) /\ j \in 1 .. Len(new)
    <3>1. j \in 1 .. Len(new)
      BY <1>0
    <3>2. ASSUME NEW x \in 1 .. MinBars
          PROVE  new[j].high > new[j - x].high /\ new[j].high > new[j + x].high
      BY <1>1, <2>4, <2>5 DEF IsHigh
    <3> QED
      BY <3>1, <3>2 DEF IsHigh
  <2> QED
    BY <1>1, <2>4, <2>6 DEF SwingsOf
<1>2. ASSUME NEW i, IsLow(old, i), s = <<old[i].t, "low", old[i].low>>
      PROVE  s \in SwingsOf(new)
  <2>1. i \in MinBars + 1 .. Len(old) - 1 - MinBars
    BY <1>2 DEF IsLow
  <2>2. old[i].t \in {new[j].t : j \in MinBars + 1 .. Len(new)}
    BY <1>2
  <2>3. PICK j \in MinBars + 1 .. Len(new) - 1 - MinBars :
          \A d \in -MinBars .. MinBars : new[j + d] = old[i + d]
    BY <2>1, <2>2, SwingsOfStep
  <2>4. new[j] = old[i]
    <3>1. 0 \in -MinBars .. MinBars /\ j + 0 = j /\ i + 0 = i
      BY <1>0, <2>1
    <3> QED
      BY <2>3, <3>1
  <2>5. ASSUME NEW x \in 1 .. MinBars
        PROVE  new[j - x] = old[i - x] /\ new[j + x] = old[i + x]
    <3>1. x \in -MinBars .. MinBars /\ -x \in -MinBars .. MinBars
          /\ j + (-x) = j - x /\ i + (-x) = i - x
      BY <1>0, <2>1
    <3> QED
      BY <2>3, <3>1
  <2>6. IsLow(new, j) /\ j \in 1 .. Len(new)
    <3>1. j \in 1 .. Len(new)
      BY <1>0
    <3>2. ASSUME NEW x \in 1 .. MinBars
          PROVE  new[j].low < new[j - x].low /\ new[j].low < new[j + x].low
      BY <1>2, <2>4, <2>5 DEF IsLow
    <3> QED
      BY <3>1, <3>2 DEF IsLow
  <2> QED
    BY <1>2, <2>4, <2>6 DEF SwingsOf
<1> QED
  BY <1>1, <1>2 DEF SwingsOf

LEMMA SwingsStep ==
  ASSUME OrderInv, OrderInv', [Next]_vars, subs' = subs, ~mixed,
         NEW s \in ClosedSwings, s[1] \in Confirmable'
  PROVE  s \in ClosedSwings'
<1>1. CPTypeOK
  BY DEF OrderInv
<1>2. CASE store' = store
  <2>1. Window' = Window
    BY <1>2 DEF Window
  <2> QED
    BY <2>1 DEF ClosedSwings
<1>3. ASSUME NEW d \in Ticks, Trade(d) \/ Minute(d), store' # store
      PROVE  s \in ClosedSwings'
  <2>1. PICK c \in Candle : Grows(c) /\ Receive(c)
    BY <1>1, <1>3, MessageSent DEF Miss
  <2>2. WindowStep(Window, Window', LeftOf(store, c), c)
    BY <1>1, <2>1, WindowReceived
  <2>3. Window \in Seq(Candle) /\ Window' \in Seq(Candle)
    BY <2>2 DEF WindowStep
  <2>4. /\ LeftOf(store, c) >= Len(Window) - 1
        /\ \A x \in 1 .. LeftOf(store, c) : Window[x].t < c.t
    BY <2>1, OlderLeft
  <2>5. Ascending(Window) /\ Ascending(Window')
    <3>1. mixed' = mixed
      BY <2>1 DEF Receive
    <3> QED
      BY <3>1 DEF OrderInv, WindowsOrdered, Ascending
  <2>6. s \in SwingsOf(Window)
    BY <2>3, ClosedAre DEF ClosedSwings
  <2>7. s[1] \in {Window'[j].t : j \in MinBars + 1 .. Len(Window')}
    BY DEF Confirmable
  <2>8. s \in SwingsOf(Window')
    BY <2>2, <2>4, <2>5, <2>6, <2>7, SwingsKept
  <2> QED
    BY <2>3, <2>8, ClosedAre DEF ClosedSwings
<1>4. ASSUME NEW count, Bootstrap(count) PROVE FALSE
  BY <1>1, <1>4 DEF Bootstrap, CPTypeOK
<1> QED
  BY <1>2, <1>3, <1>4 DEF Next, vars, Subscribe, Unsubscribe

\* No repainting: what the detector has found among closed candles it finds again
\* after every message, until the window has moved past it.
THEOREM SwingsAreKept == Spec => SwingsStay
<1>1. /\ OrderInv /\ OrderInv' /\ [Next]_vars
      => [subs' = subs /\ ~mixed =>
            \A s \in ClosedSwings : s[1] \in Confirmable' => s \in ClosedSwings']_vars
  BY SwingsStep
<1> QED
  BY <1>1, OrderInit, OrderStep, PTL DEF Spec, SwingsStay

=============================================================================
