------------------------- MODULE MarketFeedProofs -------------------------
(* Proofs about MarketFeed, for every set of coins and candidate lists.    *)
EXTENDS MarketFeed, FiniteSetTheorems, TLAPS

(* Type correctness                                                        *)

LEMMA AnyCoinType == AnyCoin \in Coins
BY RankingsAssumption DEF AnyCoin

LEMMA ScanIdleType ==
  ASSUME NEW protected \in SUBSET Coins, NEW ok \in BOOLEAN
  PROVE  ScanIdle(protected, ok) \in ScanState
BY AnyCoinType DEF ScanIdle, ScanState

LEMMA FeederType ==
  ASSUME TypeOK, Connect \/ FeederTurn \/ SignalHandled \/ \E c \in Coins : Signal(c)
  PROVE  TypeOK'
<1> USE AnyCoinType DEF TypeOK, FeederAt
<1>1. CASE Connect
  BY <1>1 DEF Connect
<1>2. ASSUME NEW c \in Coins, Replay(c) PROVE TypeOK'
  BY <1>2 DEF Replay, Serve
<1>3. CASE Listen
  BY <1>3 DEF Listen
<1>4. CASE Disconnect
  BY <1>4 DEF Disconnect, Nothing
<1>5. CASE SignalHandled
  BY <1>5 DEF SignalHandled
<1>6. ASSUME NEW c \in Coins, Signal(c) PROVE TypeOK'
  <2>1. signals' \in Nat
    <3>1. signals \in Nat /\ signals' = signals + 1
      BY <1>6 DEF Signal
    <3> QED
      BY <3>1
  <2>2. feeder' \in [pc : {"down", "replay", "listen", "signal"},
                    todo : SUBSET Coins, coin : Coins]
    BY <1>6 DEF Signal
  <2> QED
    BY <1>6, <2>1, <2>2 DEF Signal
<1> QED
  BY <1>1, <1>2, <1>3, <1>4, <1>5, <1>6 DEF FeederTurn

LEMMA ScanType ==
  ASSUME TypeOK, ScanTurn \/ \E r \in Rankings : ScanStart(r)
  PROVE  TypeOK'
<1>1. scan \in ScanState /\ scan.protected \in SUBSET Coins
  BY DEF TypeOK, ScanState
<1>2. ASSUME NEW r \in Rankings, ScanStart(r) PROVE TypeOK'
  <2>1. ScanIdle(held, FALSE) \in ScanState
    BY ScanIdleType DEF TypeOK
  <2>2. Stale(r, held) \in SUBSET Coins /\ r \in Seq(Coins)
    BY RankingsAssumption DEF Stale, TypeOK
  <2>3. scan' \in ScanState
    BY <1>2, <2>1, <2>2 DEF ScanStart, ScanState
  <2> QED
    BY <1>2, <2>3 DEF ScanStart, TypeOK
<1>3. ASSUME ScanRaises PROVE scan' \in ScanState
  BY <1>1, <1>3, ScanIdleType DEF ScanRaises
<1>4. ASSUME NEW c \in Coins, Unsubscribe(c) PROVE TypeOK'
  <2>1. scan' \in ScanState
    BY <1>1, <1>3, <1>4 DEF Unsubscribe, ScanState
  <2>2. served' \in [Coins -> {"never", "on", "off"}]
    BY <1>4 DEF Unsubscribe, TypeOK
  <2> QED
    BY <1>4, <2>1, <2>2 DEF Unsubscribe, TypeOK
<1>5. ASSUME NEW c \in Coins, NextProtected(c) PROVE TypeOK'
  <2>1. scan' \in ScanState
    BY <1>1, <1>5 DEF NextProtected, ScanState
  <2> QED
    BY <1>5, <2>1 DEF NextProtected, TypeOK
<1>6. CASE Unsubscribed
  <2>1. scan' \in ScanState
    BY <1>1, <1>6, AnyCoinType DEF Unsubscribed, ScanState
  <2> QED
    BY <1>6, <2>1 DEF Unsubscribed, TypeOK
<1>7. CASE WriteRaises
  BY <1>3, <1>7 DEF WriteRaises, TypeOK
<1>8. CASE StaleDone
  <2>1. scan' \in ScanState
    BY <1>1, <1>8 DEF StaleDone, ScanState
  <2> QED
    BY <1>8, <2>1 DEF StaleDone, TypeOK
<1>9. CASE NextCandidate
  <2>1. scan.ranking \in Seq(Coins) /\ scan.ranking # <<>>
    BY <1>1, <1>9 DEF NextCandidate, ScanState
  <2>2. Head(scan.ranking) \in Coins /\ Tail(scan.ranking) \in Seq(Coins)
    BY <2>1
  <2>3. scan' \in ScanState
    BY <1>1, <1>9, <2>2 DEF NextCandidate, ScanState
  <2> QED
    BY <1>9, <2>3 DEF NextCandidate, TypeOK
<1>10. CASE CandidatesDone
  <2>1. <<>> \in Seq(Coins)
    OBVIOUS
  <2>2. scan' \in ScanState
    BY <1>1, <1>10, <2>1 DEF CandidatesDone, ScanState
  <2> QED
    BY <1>10, <2>2 DEF CandidatesDone, TypeOK
<1>11. CASE ScanDone
  BY <1>1, <1>11, ScanIdleType DEF ScanDone, TypeOK
<1>12. CASE Subscribe
  <2>1. scan' \in ScanState
    BY <1>1, <1>3, <1>12 DEF Subscribe, ScanState
  <2>2. served' \in [Coins -> {"never", "on", "off"}] /\ scan.coin \in Coins
    BY <1>1, <1>12 DEF Subscribe, Serve, ScanState, TypeOK
  <2> QED
    BY <1>12, <2>1, <2>2 DEF Subscribe, TypeOK
<1>13. CASE Subscribed
  <2>1. scan' \in ScanState /\ scan.coin \in Coins
    BY <1>1, <1>13, AnyCoinType DEF Subscribed, ScanState
  <2> QED
    BY <1>13, <2>1 DEF Subscribed, TypeOK
<1> QED
  BY <1>2, <1>4, <1>5, <1>6, <1>7, <1>8, <1>9, <1>10, <1>11, <1>12, <1>13
     DEF ScanTurn

\* Every variable keeps its type.
THEOREM TypeCorrect == Spec => []TypeOK
<1>1. Init => TypeOK
  <2> SUFFICES ASSUME Init PROVE TypeOK
    OBVIOUS
  <2>1. scan \in ScanState
    BY ScanIdleType DEF Init
  <2>2. feeder \in [pc : {"down", "replay", "listen", "signal"},
                   todo : SUBSET Coins, coin : Coins]
    BY AnyCoinType DEF Init, FeederAt
  <2> QED
    BY <2>1, <2>2 DEF Init, TypeOK, Nothing
<1>2. TypeOK /\ [Next]_vars => TypeOK'
  <2> SUFFICES ASSUME TypeOK, [Next]_vars PROVE TypeOK'
    OBVIOUS
  <2>1. CASE LinkCloses
    BY <2>1 DEF LinkCloses, TypeOK
  <2>2. ASSUME NEW c \in Coins, PositionCloses(c) PROVE TypeOK'
    BY <2>2 DEF PositionCloses, TypeOK
  <2>3. CASE UNCHANGED vars
    BY <2>3 DEF vars, TypeOK
  <2> QED
    BY <2>1, <2>2, <2>3, FeederType, ScanType DEF Next
<1> QED
  BY <1>1, <1>2, PTL DEF Spec

----------------------------------------------------------------------------
(* What a connection serves                                                *)

\* While connected, what the feeder wants is sent or still to be replayed.
ReplayInv ==
  link = "up" /\ feeder.pc # "down" =>
    \A c \in coinSubs :
      served[c] = "on" \/ (feeder.pc = "replay" /\ c \in feeder.todo)

LEMMA ReplayStep == TypeOK /\ ReplayInv /\ [Next]_vars => ReplayInv'
<1> SUFFICES ASSUME TypeOK, ReplayInv, [Next]_vars PROVE ReplayInv'
  OBVIOUS
<1> USE DEF ReplayInv
<1>0. served \in [Coins -> {"never", "on", "off"}] /\ coinSubs \subseteq Coins
      /\ feeder \in [pc : {"down", "replay", "listen", "signal"},
                     todo : SUBSET Coins, coin : Coins]
  BY DEF TypeOK
<1>1. CASE Connect
  BY <1>1 DEF Connect, FeederAt
<1>2. ASSUME NEW c \in Coins, Replay(c) PROVE ReplayInv'
  BY <1>0, <1>2 DEF Replay, Serve
<1>3. CASE Listen
  BY <1>3 DEF Listen, FeederAt
<1>4. CASE Disconnect
  BY <1>4 DEF Disconnect
<1>5. CASE SignalHandled
  BY <1>5 DEF SignalHandled, FeederAt
<1>6. ASSUME NEW c \in Coins, Signal(c) PROVE ReplayInv'
  BY <1>0, <1>6 DEF Signal
<1>7. ASSUME NEW c \in Coins, Unsubscribe(c) PROVE ReplayInv'
  BY <1>0, <1>7 DEF Unsubscribe, HasSocket
<1>8. CASE Subscribe
  <2>0. scan.coin \in Coins
    BY DEF TypeOK, ScanState
  <2>1. CASE ~HasSocket
    BY <1>8, <2>1 DEF Subscribe, HasSocket
  <2>2. CASE link = "closed"
    BY <1>8, <2>2 DEF Subscribe
  <2>3. CASE HasSocket /\ link # "closed"
    <3>1. served' = [served EXCEPT ![scan.coin] = "on"] /\ feeder' = feeder
          /\ coinSubs' = coinSubs \cup {scan.coin} /\ link' = link
      BY <1>8, <2>3 DEF Subscribe, Serve
    <3> QED
      BY <1>0, <2>0, <3>1
  <2> QED
    BY <2>1, <2>2, <2>3
<1>9. CASE LinkCloses
  BY <1>9 DEF LinkCloses
<1>10. ASSUME UNCHANGED <<link, served, coinSubs, feeder>> PROVE ReplayInv'
  BY <1>10
<1>11. CASE UNCHANGED vars
  BY <1>10, <1>11 DEF vars
<1>12. ASSUME NEW c \in Coins, NextProtected(c) \/ PositionCloses(c)
       PROVE ReplayInv'
  BY <1>10, <1>12 DEF NextProtected, PositionCloses
<1>13. ASSUME NEW r \in Rankings, ScanStart(r) PROVE ReplayInv'
  BY <1>10, <1>13 DEF ScanStart
<1>14. CASE Unsubscribed \/ WriteRaises \/ StaleDone \/ NextCandidate
            \/ CandidatesDone \/ ScanDone \/ Subscribed
  BY <1>10, <1>14 DEF Unsubscribed, WriteRaises, StaleDone, NextCandidate,
     CandidatesDone, ScanDone, Subscribed
<1> QED
  BY <1>1, <1>2, <1>3, <1>4, <1>5, <1>6, <1>7, <1>8, <1>9, <1>11, <1>12,
     <1>13, <1>14 DEF Next, FeederTurn, ScanTurn

\* After the replay of a connection the exchange sends everything the feeder
\* wants, whatever the pipeline changes while the replay is suspended
\* (feeder.py, _replay_subscriptions against subscribe_coin).
THEOREM ConnectedServesAllHolds == Spec => []ConnectedServesAll
<1>1. Init => ReplayInv
  BY DEF Init, ReplayInv
<1>2. ReplayInv => ConnectedServesAll
  BY DEF ReplayInv, ConnectedServesAll
<1> QED
  BY <1>1, <1>2, TypeCorrect, ReplayStep, PTL DEF Spec

----------------------------------------------------------------------------
(* How many coins the pipeline holds                                       *)

\* The first MaxSubs of a list are MaxSubs at most.
LEMMA TopBound ==
  ASSUME NEW r \in Seq(Coins)
  PROVE  IsFiniteSet(Top(r)) /\ Cardinality(Top(r)) <= MaxSubs
<1> DEFINE I == {n \in DOMAIN r : n <= MaxSubs}
           f == [i \in I |-> r[i]]
<1>1. IsFiniteSet(1 .. MaxSubs) /\ Cardinality(1 .. MaxSubs) = MaxSubs
  BY FS_Interval, BoundsAssumption
<1>2. DOMAIN r = 1 .. Len(r) /\ Len(r) \in Nat
  OBVIOUS
<1>3. I \in SUBSET (1 .. MaxSubs)
  BY <1>2, BoundsAssumption
<1>4. IsFiniteSet(I) /\ Cardinality(I) <= MaxSubs
  BY <1>1, <1>3, FS_Subset
<1>5. f \in Surjection(I, Top(r))
  <2>1. f \in [I -> Top(r)]
    BY DEF Top
  <2>2. \A x \in Top(r) : \E i \in I : f[i] = x
    BY DEF Top
  <2> QED
    BY <2>1, <2>2 DEF Surjection
<1>6. IsFiniteSet(Top(r)) /\ Cardinality(Top(r)) <= Cardinality(I)
  BY <1>4, <1>5, FS_Surjection
<1>7. Cardinality(Top(r)) \in Nat /\ Cardinality(I) \in Nat
  BY <1>4, <1>6, FS_CardinalityType
<1> QED
  BY <1>4, <1>6, <1>7, BoundsAssumption

\* Sets of coins are finite; a smaller one has no more members.
LEMMA CoinSets ==
  ASSUME NEW S \in SUBSET Coins
  PROVE  /\ IsFiniteSet(S) /\ Cardinality(S) \in Nat
         /\ \A T \in SUBSET S : Cardinality(T) <= Cardinality(S)
<1>1. IsFiniteSet(S)
  BY FS_Subset, RankingsAssumption
<1> QED
  BY <1>1, FS_Subset, FS_CardinalityType

\* A set is no larger than its members outside P and P together.
LEMMA SplitBound ==
  ASSUME NEW S \in SUBSET Coins, NEW P \in SUBSET Coins,
         NEW m \in Nat, NEW n \in Nat,
         Cardinality(S \ P) <= m, Cardinality(P) <= n
  PROVE  Cardinality(S) <= m + n
<1>1. (S \ P) \in SUBSET Coins /\ ((S \ P) \cup P) \in SUBSET Coins
      /\ S \in SUBSET ((S \ P) \cup P) /\ ((S \ P) \cap P) \in SUBSET Coins
  OBVIOUS
<1>2. Cardinality((S \ P) \cup P)
        = Cardinality(S \ P) + Cardinality(P) - Cardinality((S \ P) \cap P)
  BY <1>1, CoinSets, FS_Union
<1>3. Cardinality(S) <= Cardinality((S \ P) \cup P)
  BY <1>1, CoinSets
<1>4. /\ Cardinality(S) \in Nat /\ Cardinality(S \ P) \in Nat
      /\ Cardinality(P) \in Nat /\ Cardinality((S \ P) \cap P) \in Nat
  BY <1>1, CoinSets
<1> QED
  BY <1>2, <1>3, <1>4

Filling == scan.pc \in {"next", "bootstrap", "subscribing"}

\* The positions respect their limit, those the cycle protects too.
HeldInv ==
  /\ Cardinality(held) <= MaxHeld
  /\ Cardinality(scan.protected) <= MaxHeld

\* While it unsubscribes, the cycle has in view every coin it will not keep.
StaleInv ==
  scan.pc \in {"unsub", "unsubscribing"} =>
    /\ scan.ranking \in Rankings
    /\ subscribed \subseteq Top(scan.ranking) \cup scan.protected \cup scan.stale

\* Then only coins that are not protected count for the limit of subscriptions.
FillInv ==
  /\ Filling => Cardinality(subscribed \ scan.protected) <= MaxSubs
  /\ scan.pc \in {"bootstrap", "subscribing"} =>
       IF scan.phase = "fill" THEN HasRoom ELSE scan.coin \in scan.protected

BudgetInv == HeldInv /\ StaleInv /\ FillInv /\ SubscriptionBudget

\* What the coins of the state are.
LEMMA CoinFacts ==
  ASSUME TypeOK
  PROVE  /\ scan \in ScanState /\ scan.protected \in SUBSET Coins
         /\ scan.coin \in Coins /\ subscribed \in SUBSET Coins
         /\ held \in SUBSET Coins
BY DEF TypeOK, ScanState

\* Steps that leave the cycle and the pipeline's set alone.
LEMMA QuietBudget ==
  ASSUME BudgetInv, UNCHANGED <<scan, subscribed>>, Cardinality(held') <= MaxHeld
  PROVE  BudgetInv'
BY DEF BudgetInv, HeldInv, StaleInv, FillInv, SubscriptionBudget, Filling, HasRoom

\* A cycle that ends leaves no obligation but the sizes.
LEMMA IdleBudget ==
  ASSUME BudgetInv, TypeOK, UNCHANGED <<subscribed, held>>, NEW ok \in BOOLEAN,
         scan' = ScanIdle(scan.protected, ok)
  PROVE  BudgetInv'
<1>1. scan'.pc = "idle" /\ scan'.protected = scan.protected
  BY DEF ScanIdle
<1> QED
  BY <1>1 DEF BudgetInv, HeldInv, StaleInv, FillInv, SubscriptionBudget, Filling

LEMMA StartBudget ==
  ASSUME BudgetInv, TypeOK, NEW r \in Rankings, ScanStart(r)
  PROVE  BudgetInv'
<1>1. /\ scan'.pc = "unsub" /\ scan'.protected = held /\ scan'.ranking = r
      /\ scan'.stale = Stale(r, held) /\ UNCHANGED <<subscribed, held>>
  BY DEF ScanStart, ScanIdle
<1>2. subscribed \subseteq Top(r) \cup held \cup Stale(r, held)
  BY DEF Stale
<1>3. StaleInv'
  BY <1>1, <1>2 DEF StaleInv, Top
<1> QED
  BY <1>1, <1>3 DEF BudgetInv, HeldInv, FillInv, SubscriptionBudget, Filling

LEMMA UnsubscribeBudget ==
  ASSUME BudgetInv, TypeOK, (\E c \in Coins : Unsubscribe(c)) \/ Unsubscribed
  PROVE  BudgetInv'
<1> USE DEF BudgetInv, HeldInv, StaleInv, FillInv, SubscriptionBudget, Filling
<1>0. scan \in ScanState
  BY CoinFacts
<1>1. ASSUME NEW c \in Coins, Unsubscribe(c), ScanRaises PROVE BudgetInv'
  BY <1>1, IdleBudget DEF Unsubscribe, ScanRaises
<1>2. ASSUME NEW c \in Coins, Unsubscribe(c), ~ScanRaises PROVE BudgetInv'
  <2>1. /\ scan.pc = "unsub" /\ scan'.pc = "unsubscribing"
        /\ scan'.protected = scan.protected /\ scan'.ranking = scan.ranking
        /\ scan'.stale = scan.stale /\ UNCHANGED <<subscribed, held>>
    BY <1>0, <1>2 DEF Unsubscribe, ScanState
  <2> QED
    BY <2>1 DEF Top
<1>3. CASE Unsubscribed
  <2>1. /\ scan.pc = "unsubscribing" /\ scan'.pc = "unsub"
        /\ scan'.protected = scan.protected /\ scan'.ranking = scan.ranking
        /\ scan'.stale = scan.stale \ {scan.coin}
        /\ subscribed' = subscribed \ {scan.coin} /\ held' = held
    BY <1>0, <1>3 DEF Unsubscribed, ScanState
  <2>2. Cardinality(subscribed') <= Cardinality(subscribed)
        /\ Cardinality(subscribed) \in Nat /\ Cardinality(subscribed') \in Nat
    BY <2>1, CoinFacts, CoinSets
  <2>3. Cardinality(subscribed') <= MaxSubs + MaxHeld
    BY <2>2, BoundsAssumption
  <2>4. StaleInv'
    BY <2>1 DEF Top
  <2> QED
    BY <2>1, <2>3, <2>4
<1> QED
  BY <1>1, <1>2, <1>3

\* The hand-over from unsubscribing to subscribing.
LEMMA StaleDoneBudget ==
  ASSUME BudgetInv, TypeOK, StaleDone
  PROVE  BudgetInv'
<1> USE DEF BudgetInv, HeldInv, StaleInv, FillInv, SubscriptionBudget, Filling
<1>0. scan \in ScanState /\ subscribed \in SUBSET Coins
  BY CoinFacts
<1>1. /\ scan.pc = "unsub" /\ scan.stale = {} /\ scan'.pc = "next"
      /\ scan'.protected = scan.protected /\ UNCHANGED <<subscribed, held>>
  BY <1>0 DEF StaleDone, ScanState
<1>2. scan.ranking \in Seq(Coins)
  BY <1>0 DEF ScanState
<1>3. subscribed \ scan.protected \in SUBSET Top(scan.ranking)
  BY <1>1
<1>4. IsFiniteSet(Top(scan.ranking)) /\ Cardinality(Top(scan.ranking)) <= MaxSubs
  BY <1>2, TopBound
<1>5. Cardinality(subscribed \ scan.protected) <= Cardinality(Top(scan.ranking))
  BY <1>3, <1>4, FS_Subset
<1>6. /\ Cardinality(subscribed \ scan.protected) \in Nat
      /\ Cardinality(Top(scan.ranking)) \in Nat
  BY <1>0, <1>4, CoinSets, FS_CardinalityType
<1>7. Cardinality(subscribed \ scan.protected) <= MaxSubs
  BY <1>4, <1>5, <1>6, BoundsAssumption
<1> QED
  BY <1>1, <1>7

LEMMA ChooseBudget ==
  ASSUME BudgetInv, TypeOK,
         NextCandidate \/ CandidatesDone \/ \E c \in Coins : NextProtected(c)
  PROVE  BudgetInv'
<1> USE DEF BudgetInv, HeldInv, StaleInv, FillInv, SubscriptionBudget, Filling
<1>0. scan \in ScanState
  BY CoinFacts
<1>1. CASE NextCandidate
  <2>1. /\ scan.pc = "next" /\ scan'.pc \in {"next", "bootstrap"} /\ HasRoom
        /\ scan'.protected = scan.protected /\ scan'.phase = "fill"
        /\ UNCHANGED <<subscribed, held>>
    BY <1>0, <1>1 DEF NextCandidate, ScanState
  <2>2. HasRoom'
    BY <2>1 DEF HasRoom
  <2> QED
    BY <2>1, <2>2
<1>2. CASE CandidatesDone
  <2>1. /\ scan.pc = "next" /\ scan'.pc = "next"
        /\ scan'.protected = scan.protected /\ UNCHANGED <<subscribed, held>>
    BY <1>0, <1>2 DEF CandidatesDone, ScanState
  <2> QED
    BY <2>1
<1>3. ASSUME NEW c \in Coins, NextProtected(c) PROVE BudgetInv'
  <2>1. /\ scan.pc = "next" /\ scan'.pc = "bootstrap" /\ scan'.phase = "protect"
        /\ scan'.protected = scan.protected /\ scan'.coin = c
        /\ c \in scan.protected /\ UNCHANGED <<subscribed, held>>
    BY <1>0, <1>3 DEF NextProtected, UnservedProtected, ScanState
  <2> QED
    BY <2>1
<1> QED
  BY <1>1, <1>2, <1>3

LEMMA SubscribeBudget ==
  ASSUME BudgetInv, TypeOK, Subscribe \/ Subscribed
  PROVE  BudgetInv'
<1> USE DEF BudgetInv, HeldInv, StaleInv, FillInv, SubscriptionBudget, Filling
<1>0. scan \in ScanState /\ scan.protected \in SUBSET Coins
      /\ scan.coin \in Coins /\ subscribed \in SUBSET Coins
  BY CoinFacts
<1>1. CASE Subscribe /\ ScanRaises
  BY <1>1, IdleBudget DEF Subscribe, ScanRaises
<1>2. CASE Subscribe /\ ~ScanRaises
  <2>1. /\ scan.pc = "bootstrap" /\ scan'.pc = "subscribing"
        /\ scan'.protected = scan.protected /\ scan'.phase = scan.phase
        /\ scan'.coin = scan.coin /\ UNCHANGED <<subscribed, held>>
    BY <1>0, <1>2 DEF Subscribe, ScanState
  <2>2. HasRoom' = HasRoom
    BY <2>1 DEF HasRoom
  <2> QED
    BY <2>1, <2>2
<1>3. CASE Subscribed
  <2> DEFINE new == subscribed \cup {scan.coin}
  <2>1. /\ scan.pc = "subscribing" /\ scan'.pc = "next"
        /\ scan'.protected = scan.protected
        /\ subscribed' = new /\ held' = held
    BY <1>0, <1>3 DEF Subscribed, ScanState
  <2>2. Cardinality(new \ scan.protected) <= MaxSubs
    <3>1. CASE scan.phase = "fill"
      <4>1. Cardinality(subscribed) < MaxSubs
        BY <2>1, <3>1 DEF HasRoom
      <4>2. Cardinality(new) <= Cardinality(subscribed) + 1
        <5>1. IsFiniteSet(subscribed) /\ Cardinality(subscribed) \in Nat
          BY <1>0, CoinSets
        <5>2. Cardinality(new) = IF scan.coin \in subscribed
                                 THEN Cardinality(subscribed)
                                 ELSE Cardinality(subscribed) + 1
          BY <5>1, FS_AddElement
        <5> HIDE DEF new
        <5> QED
          BY <5>1, <5>2
      <4>3. new \in SUBSET Coins /\ (new \ scan.protected) \in SUBSET new
            /\ (new \ scan.protected) \in SUBSET Coins
        BY <1>0
      <4>4. Cardinality(new \ scan.protected) <= Cardinality(new)
        BY <4>3, CoinSets
      <4>5. Cardinality(new) \in Nat /\ Cardinality(subscribed) \in Nat
            /\ Cardinality(new \ scan.protected) \in Nat
        BY <1>0, <4>3, CoinSets
      <4> HIDE DEF new
      <4> QED
        BY <4>1, <4>2, <4>4, <4>5, BoundsAssumption
    <3>2. CASE scan.phase # "fill"
      <4>1. scan.coin \in scan.protected
        BY <2>1, <3>2
      <4>2. new \ scan.protected = subscribed \ scan.protected
        BY <4>1
      <4> QED
        BY <2>1, <4>2
    <3> QED
      BY <3>1, <3>2
  <2>3. Cardinality(new) <= MaxSubs + MaxHeld
    <3>1. new \in SUBSET Coins /\ Cardinality(scan.protected) <= MaxHeld
      BY <1>0
    <3> HIDE DEF new
    <3> QED
      BY <1>0, <2>2, <3>1, SplitBound, BoundsAssumption
  <2> HIDE DEF new
  <2> QED
    BY <2>1, <2>2, <2>3
<1> QED
  BY <1>1, <1>2, <1>3

LEMMA BudgetStep == TypeOK /\ BudgetInv /\ [Next]_vars => BudgetInv'
<1> SUFFICES ASSUME TypeOK, BudgetInv, [Next]_vars PROVE BudgetInv'
  OBVIOUS
<1>0. Cardinality(held) <= MaxHeld /\ IsFiniteSet(held) /\ Cardinality(held) \in Nat
  BY CoinFacts, CoinSets DEF BudgetInv, HeldInv
<1>1. ASSUME UNCHANGED <<scan, subscribed, held>> PROVE BudgetInv'
  BY <1>0, <1>1, QuietBudget
<1>2. CASE Connect \/ FeederTurn \/ LinkCloses \/ \E c \in Coins : Signal(c)
  BY <1>1, <1>2 DEF Connect, FeederTurn, Replay, Listen, Disconnect, LinkCloses,
     Signal
<1>3. CASE SignalHandled
  <2>1. CASE held' = held
    BY <1>1, <1>3, <2>1 DEF SignalHandled
  <2>2. CASE Cardinality(held) < MaxHeld /\ held' = held \cup {feeder.coin}
    <3>1. Cardinality(held') <= MaxHeld
      BY <1>0, <2>2, FS_AddElement, BoundsAssumption
    <3> QED
      BY <1>3, <3>1, QuietBudget DEF SignalHandled
  <2>3. held' = held \/ (Cardinality(held) < MaxHeld /\ held' = held \cup {feeder.coin})
    BY <1>3 DEF SignalHandled
  <2> QED
    BY <2>1, <2>2, <2>3
<1>4. ASSUME NEW c \in Coins, PositionCloses(c) PROVE BudgetInv'
  <2>1. Cardinality(held') <= MaxHeld
    <3>1. held' = held \ {c}
      BY <1>4 DEF PositionCloses
    <3>2. Cardinality(held \ {c}) = IF c \in held THEN Cardinality(held) - 1
                                                 ELSE Cardinality(held)
      BY <1>0, FS_RemoveElement
    <3> QED
      BY <1>0, <3>1, <3>2, BoundsAssumption
  <2> QED
    BY <1>4, <2>1, QuietBudget DEF PositionCloses
<1>5. ASSUME NEW r \in Rankings, ScanStart(r) PROVE BudgetInv'
  BY <1>5, StartBudget
<1>6. CASE ScanTurn
  <2>1. CASE WriteRaises
    BY <2>1, IdleBudget DEF WriteRaises, ScanRaises
  <2>2. CASE ScanDone
    BY <2>2, IdleBudget DEF ScanDone
  <2> QED
    BY <1>6, <2>1, <2>2, UnsubscribeBudget, StaleDoneBudget, ChooseBudget,
       SubscribeBudget DEF ScanTurn
<1>7. CASE UNCHANGED vars
  BY <1>1, <1>7 DEF vars
<1> QED
  BY <1>2, <1>3, <1>4, <1>5, <1>6, <1>7 DEF Next

\* The pipeline never has more coins than subscriptions and positions are
\* allowed together, although cycles end in the middle and protected coins are
\* subscribed without regard to the limit (candle_pipeline.py,
\* update_candidates).
THEOREM SubscriptionBudgetHolds == Spec => []SubscriptionBudget
<1>1. Init => BudgetInv
  <2> SUFFICES ASSUME Init PROVE BudgetInv
    OBVIOUS
  <2>1. /\ scan.pc = "idle" /\ scan.protected = {}
        /\ held = {} /\ subscribed = {}
    BY DEF Init, ScanIdle
  <2> QED
    BY <2>1, FS_EmptySet, BoundsAssumption
       DEF BudgetInv, HeldInv, StaleInv, FillInv, SubscriptionBudget, Filling
<1>2. BudgetInv => SubscriptionBudget
  BY DEF BudgetInv
<1> QED
  BY <1>1, <1>2, TypeCorrect, BudgetStep, PTL DEF Spec

----------------------------------------------------------------------------
(* What a cycle leaves behind                                              *)

LEMMA ProtectedStep ==
  TypeOK /\ ProtectedAreSubscribed /\ [Next]_vars => ProtectedAreSubscribed'
<1> SUFFICES ASSUME TypeOK, ProtectedAreSubscribed, [Next]_vars
             PROVE  ProtectedAreSubscribed'
  OBVIOUS
<1> USE DEF ProtectedAreSubscribed
<1>0. scan \in ScanState
  BY CoinFacts
<1>1. ASSUME UNCHANGED <<scan, subscribed>> PROVE ProtectedAreSubscribed'
  BY <1>1
<1>2. ASSUME scan'.pc # "idle" PROVE ProtectedAreSubscribed'
  BY <1>2
<1>3. ASSUME ScanRaises PROVE ProtectedAreSubscribed'
  BY <1>3 DEF ScanRaises, ScanIdle
<1>4. CASE ScanDone
  BY <1>4 DEF ScanDone, ScanIdle, UnservedProtected
<1>5. ASSUME NEW c \in Coins, Unsubscribe(c) PROVE ProtectedAreSubscribed'
  <2>1. ScanRaises \/ scan'.pc = "unsubscribing"
    BY <1>0, <1>5 DEF Unsubscribe, ScanState
  <2> QED
    BY <1>2, <1>3, <2>1
<1>6. CASE Subscribe
  <2>1. ScanRaises \/ scan'.pc = "subscribing"
    BY <1>0, <1>6 DEF Subscribe, ScanState
  <2> QED
    BY <1>2, <1>3, <2>1
<1>7. CASE Unsubscribed \/ StaleDone \/ CandidatesDone \/ Subscribed
  <2>1. scan'.pc \in {"unsub", "next"}
    BY <1>0, <1>7 DEF Unsubscribed, StaleDone, CandidatesDone, Subscribed, ScanState
  <2> QED
    BY <1>2, <2>1
<1>8. CASE NextCandidate
  <2>1. scan'.pc \in {"next", "bootstrap"}
    BY <1>0, <1>8 DEF NextCandidate, ScanState
  <2> QED
    BY <1>2, <2>1
<1>9. ASSUME NEW c \in Coins, NextProtected(c) PROVE ProtectedAreSubscribed'
  <2>1. scan'.pc = "bootstrap"
    BY <1>0, <1>9 DEF NextProtected, ScanState
  <2> QED
    BY <1>2, <2>1
<1>10. ASSUME NEW r \in Rankings, ScanStart(r) PROVE ProtectedAreSubscribed'
  <2>1. scan'.pc = "unsub"
    BY <1>10 DEF ScanStart, ScanIdle
  <2> QED
    BY <1>2, <2>1
<1>11. CASE WriteRaises
  BY <1>3, <1>11 DEF WriteRaises
<1>12. CASE Connect \/ FeederTurn \/ LinkCloses \/ SignalHandled
            \/ \E c \in Coins : Signal(c) \/ PositionCloses(c)
  BY <1>1, <1>12 DEF Connect, FeederTurn, Replay, Listen, Disconnect, LinkCloses,
     SignalHandled, Signal, PositionCloses
<1>13. CASE UNCHANGED vars
  BY <1>1, <1>13 DEF vars
<1> QED
  BY <1>4, <1>5, <1>6, <1>7, <1>8, <1>9, <1>10, <1>11, <1>12, <1>13
     DEF Next, ScanTurn

\* A cycle without an exception leaves every coin it protects in the pipeline's
\* set, although that set changes while the cycle is suspended
\* (candle_pipeline.py, update_candidates).
THEOREM ProtectedAreSubscribedHolds == Spec => []ProtectedAreSubscribed
<1>1. Init => ProtectedAreSubscribed
  BY DEF Init, ScanIdle, ProtectedAreSubscribed
<1> QED
  BY <1>1, TypeCorrect, ProtectedStep, PTL DEF Spec

=============================================================================
