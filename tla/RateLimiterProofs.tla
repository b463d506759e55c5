------------------------ MODULE RateLimiterProofs ------------------------
(***************************************************************************)
(* Proofs about RateLimiter, for every set of callers and endpoints, every *)
(* budget and window.  Weights are added up by the library's fold.  The    *)
(* first section proves what such a sum is: the fold is a recursive        *)
(* function, which exists and is the only one, and each fact about it that *)
(* takes an induction is proved from a smallest set that contradicts it.   *)
(***************************************************************************)
EXTENDS RateLimiter, FiniteSetTheorems, WellFoundedInduction, TLAPS

----------------------------------------------------------------------------
(* Sums                                                                    *)

\* A set of subsets of a finite set has one that includes no other.
LEMMA SmallestSubset ==
  ASSUME NEW S, IsFiniteSet(S), NEW T \in SUBSET SUBSET S, T # {}
  PROVE \E s \in T : \A u \in T : u \subseteq s => u = s
<1>1. IsWellFoundedOn(StrictSubsetOrdering(S), SUBSET S)
  BY FS_StrictSubsetOrderingWellFounded, FS_FiniteSubsetsOfFinite
<1>2. PICK s \in T : \A u \in T : <<u, s>> \notin StrictSubsetOrdering(S)
  BY <1>1, WFMin
<1> QED
  BY <1>2 DEF StrictSubsetOrdering

\* A set of natural numbers has a least element.
LEMMA LeastNatural ==
  ASSUME NEW T \in SUBSET Nat, T # {}
  PROVE \E n \in T : \A m \in T : n <= m
<1> DEFINE R == {ss \in Nat \X Nat : ss[1] < ss[2]}
<1>1. IsWellFoundedOn(R, Nat)
  BY NatLessThanWellFounded, Zenon DEF OpToRel
<1>2. PICK n \in T : \A m \in T : <<m, n>> \notin R
  <2> HIDE DEF R
  <2> QED
    BY <1>1, WFMin
<1>3. ASSUME NEW m \in T, m < n
      PROVE <<m, n>> \in R
  BY <1>3
<1>4. \A m \in T : ~(m < n)
  <2> HIDE DEF R
  <2> QED
    BY <1>2, <1>3
<1> QED
  BY <1>4

Pick(s) == CHOOSE x \in s : TRUE

\* g is the recursive function by which SumFunctionOnSet(f, S) is defined.
Adds(f, S, g) ==
  g = [s \in SUBSET S |-> IF s = {} THEN 0 ELSE f[Pick(s)] + g[s \ {Pick(s)}]]

LEMMA SumIsChosen ==
  ASSUME NEW f, NEW S
  PROVE SumFunctionOnSet(f, S) = (CHOOSE g : Adds(f, S, g))[S]
BY DEF SumFunctionOnSet, FoldFunctionOnSet, MapThenFoldSet, Adds, Pick

LEMMA PickIn ==
  ASSUME NEW s, s # {}
  PROVE Pick(s) \in s
BY DEF Pick

\* Two such functions agree on the finite sets both are defined for.
LEMMA AddersAgree ==
  ASSUME NEW f, NEW S, NEW g, NEW T, NEW h, Adds(f, S, g), Adds(f, T, h),
         NEW s, s \subseteq S, s \subseteq T, IsFiniteSet(s)
  PROVE g[s] = h[s]
<1> DEFINE Bad == {u \in SUBSET s : g[u] # h[u]}
<1> SUFFICES ASSUME g[s] # h[s] PROVE FALSE
  OBVIOUS
<1>1. s \in Bad /\ Bad \in SUBSET SUBSET s
  OBVIOUS
<1>2. PICK u \in Bad : \A v \in Bad : v \subseteq u => v = u
  <2> HIDE DEF Bad
  <2> QED
    BY <1>1, SmallestSubset
<1>3. /\ u \in SUBSET S /\ u \in SUBSET T
      /\ g[u] = IF u = {} THEN 0 ELSE f[Pick(u)] + g[u \ {Pick(u)}]
      /\ h[u] = IF u = {} THEN 0 ELSE f[Pick(u)] + h[u \ {Pick(u)}]
  BY DEF Adds
<1>4. u # {}
  BY <1>3
<1>5. Pick(u) \in u
  BY <1>4, PickIn
<1>6. u \ {Pick(u)} \notin Bad
  BY <1>2, <1>5
<1>7. g[u \ {Pick(u)}] = h[u \ {Pick(u)}]
  BY <1>6
<1> QED
  BY <1>3, <1>4, <1>7

\* There is such a function for every finite set.
LEMMA AdderExists ==
  ASSUME NEW f, NEW S, IsFiniteSet(S)
  PROVE \E g : Adds(f, S, g)
<1> DEFINE Bad == {u \in SUBSET S : ~\E g : Adds(f, u, g)}
<1> SUFFICES ASSUME S \in Bad PROVE FALSE
  OBVIOUS
<1>1. Bad \in SUBSET SUBSET S
  OBVIOUS
<1>2. PICK u \in Bad : \A v \in Bad : v \subseteq u => v = u
  <2> HIDE DEF Bad
  <2> QED
    BY <1>1, SmallestSubset
<1> DEFINE A(v) == (CHOOSE g : Adds(f, v, g))[v]
           h == [v \in SUBSET u |-> IF v = {} THEN 0 ELSE f[Pick(v)] + A(v \ {Pick(v)})]
<1>3. ASSUME NEW v \in SUBSET u, v # u
      PROVE Adds(f, v, CHOOSE g : Adds(f, v, g))
  <2>1. v \notin Bad
    BY <1>2, <1>3
  <2>2. \E g : Adds(f, v, g)
    BY <2>1
  <2> QED
    BY <2>2
<1>4. ASSUME NEW v \in SUBSET u, v # u
      PROVE A(v) = h[v]
  <2> DEFINE gv == CHOOSE g : Adds(f, v, g)
  <2>1. Adds(f, v, gv)
    BY <1>3, <1>4
  <2>2. gv[v] = IF v = {} THEN 0 ELSE f[Pick(v)] + gv[v \ {Pick(v)}]
    <3> HIDE DEF gv
    <3> QED
      BY <2>1 DEF Adds
  <2>3. CASE v = {}
    BY <2>2, <2>3
  <2>4. CASE v # {}
    <3> DEFINE w == v \ {Pick(v)}
               gw == CHOOSE g : Adds(f, w, g)
    <3>1. w \in SUBSET u /\ w # u /\ w \subseteq v
      BY <2>4, PickIn, <1>4
    <3>2. Adds(f, w, gw)
      BY <3>1, <1>3
    <3>3. IsFiniteSet(w)
      BY <3>1, FS_Subset
    <3>4. gv[w] = gw[w]
      <4> HIDE DEF gv, gw, w
      <4> QED
        BY <2>1, <3>1, <3>2, <3>3, AddersAgree
    <3> QED
      BY <2>2, <2>4, <3>4
  <2> QED
    BY <2>3, <2>4
<1>5. Adds(f, u, h)
  <2>1. ASSUME NEW v \in SUBSET u, v # {}
        PROVE A(v \ {Pick(v)}) = h[v \ {Pick(v)}]
    <3>1. v \ {Pick(v)} \in SUBSET u /\ v \ {Pick(v)} # u
      BY <2>1, PickIn
    <3> HIDE DEF A, h
    <3> QED
      BY <3>1, <1>4
  <2>2. h = [v \in SUBSET u |-> IF v = {} THEN 0 ELSE f[Pick(v)] + h[v \ {Pick(v)}]]
    <3>1. \A v \in SUBSET u : h[v] = IF v = {} THEN 0 ELSE f[Pick(v)] + A(v \ {Pick(v)})
      OBVIOUS
    <3>2. h = [v \in SUBSET u |-> h[v]]
      OBVIOUS
    <3> HIDE DEF h, A
    <3>3. \A v \in SUBSET u : h[v] = IF v = {} THEN 0 ELSE f[Pick(v)] + h[v \ {Pick(v)}]
      BY <2>1, <3>1
    <3> QED
      BY <3>2, <3>3
  <2> HIDE DEF h
  <2> QED
    BY <2>2 DEF Adds
<1> QED
  BY <1>2, <1>5
LEMMA SumEmpty ==
  ASSUME NEW f
  PROVE SumFunctionOnSet(f, {}) = 0
<1> DEFINE g == CHOOSE g : Adds(f, {}, g)
<1>1. Adds(f, {}, g)
  BY AdderExists, FS_EmptySet
<1>2. g[{}] = 0
  <2> HIDE DEF g
  <2> QED
    BY <1>1 DEF Adds
<1> QED
  BY <1>2, SumIsChosen

\* The sum over a set takes the element that is picked first.
LEMMA SumPicks ==
  ASSUME NEW f, NEW S, IsFiniteSet(S), S # {}
  PROVE SumFunctionOnSet(f, S) = f[Pick(S)] + SumFunctionOnSet(f, S \ {Pick(S)})
<1> DEFINE T == S \ {Pick(S)}
           g == CHOOSE g : Adds(f, S, g)
           h == CHOOSE h : Adds(f, T, h)
<1>1. IsFiniteSet(T) /\ T \subseteq S
  BY FS_Subset
<1>2. Adds(f, S, g) /\ Adds(f, T, h)
  BY <1>1, AdderExists
<1>3. g[S] = f[Pick(S)] + g[T]
  <2> HIDE DEF g
  <2> QED
    BY <1>2 DEF Adds
<1>4. g[T] = h[T]
  <2> HIDE DEF g, h, T
  <2> QED
    BY <1>1, <1>2, AddersAgree
<1>5. SumFunctionOnSet(f, S) = g[S] /\ SumFunctionOnSet(f, T) = h[T]
  BY SumIsChosen
<1> QED
  BY <1>3, <1>4, <1>5

\* A sum of natural numbers is one.
LEMMA SumIsNatural ==
  ASSUME NEW f, NEW S, IsFiniteSet(S), \A x \in S : f[x] \in Nat
  PROVE SumFunctionOnSet(f, S) \in Nat
<1> DEFINE Bad == {u \in SUBSET S : SumFunctionOnSet(f, u) \notin Nat}
<1> SUFFICES ASSUME Bad # {} PROVE FALSE
  OBVIOUS
<1>1. PICK u \in Bad : \A v \in Bad : v \subseteq u => v = u
  <2>1. Bad \in SUBSET SUBSET S
    OBVIOUS
  <2> HIDE DEF Bad
  <2> QED
    BY <2>1, SmallestSubset
<1>2. u # {}
  BY SumEmpty
<1>3. Pick(u) \in u /\ IsFiniteSet(u)
  BY <1>2, PickIn, FS_Subset
<1>4. u \ {Pick(u)} \notin Bad
  BY <1>1, <1>3
<1>5. SumFunctionOnSet(f, u \ {Pick(u)}) \in Nat
  BY <1>4
<1>6. SumFunctionOnSet(f, u) = f[Pick(u)] + SumFunctionOnSet(f, u \ {Pick(u)})
  BY <1>2, <1>3, SumPicks
<1>7. f[Pick(u)] \in Nat
  BY <1>3
<1> QED
  BY <1>5, <1>6, <1>7

\* The sum may take any element first.
LEMMA SumTakes ==
  ASSUME NEW f, NEW S, IsFiniteSet(S), \A y \in S : f[y] \in Nat, NEW x \in S
  PROVE SumFunctionOnSet(f, S) = f[x] + SumFunctionOnSet(f, S \ {x})
<1> DEFINE Sum(u) == SumFunctionOnSet(f, u)
           Bad == {u \in SUBSET S : \E y \in u : Sum(u) # f[y] + Sum(u \ {y})}
<1> SUFFICES ASSUME Bad # {} PROVE FALSE
  OBVIOUS
<1>1. PICK u \in Bad : \A v \in Bad : v \subseteq u => v = u
  <2>1. Bad \in SUBSET SUBSET S
    OBVIOUS
  <2> HIDE DEF Bad
  <2> QED
    BY <2>1, SmallestSubset
<1>2. PICK y \in u : u \in SUBSET S /\ Sum(u) # f[y] + Sum(u \ {y})
  OBVIOUS
<1> DEFINE p == Pick(u)
<1>3. p \in u
  BY <1>2, PickIn
<1>4. \A v \in SUBSET u : IsFiniteSet(v) /\ Sum(v) \in Nat
  <2> TAKE v \in SUBSET u
  <2>1. IsFiniteSet(v)
    BY FS_Subset
  <2> QED
    BY <2>1, SumIsNatural
<1>5. Sum(u) = f[p] + Sum(u \ {p})
  BY <1>3, <1>4, SumPicks
<1>6. \A v \in SUBSET u : v # u => \A z \in v : Sum(v) = f[z] + Sum(v \ {z})
  <2> HIDE DEF Sum
  <2> QED
    BY <1>1
<1>7. y # p
  BY <1>2, <1>5
<1> HIDE DEF Sum, p, Bad
<1>8. Sum(u \ {p}) = f[y] + Sum((u \ {p}) \ {y})
  <2>1. u \ {p} \in SUBSET u /\ u \ {p} # u /\ y \in u \ {p}
    BY <1>3, <1>2, <1>7
  <2> QED
    BY <2>1, <1>6
<1>9. (u \ {y}) \ {p} = (u \ {p}) \ {y}
  OBVIOUS
<1>10. Sum(u \ {y}) = f[p] + Sum((u \ {p}) \ {y})
  <2>1. u \ {y} \in SUBSET u /\ u \ {y} # u /\ p \in u \ {y}
    BY <1>3, <1>2, <1>7
  <2>2. Sum(u \ {y}) = f[p] + Sum((u \ {y}) \ {p})
    BY <2>1, <1>6
  <2> QED
    BY <2>2, <1>9
<1>11. f[y] \in Nat /\ f[p] \in Nat /\ Sum((u \ {p}) \ {y}) \in Nat
  <2>1. (u \ {p}) \ {y} \in SUBSET u
    OBVIOUS
  <2> QED
    BY <1>2, <1>3, <1>4, <2>1
<1> QED
  BY <1>2, <1>5, <1>8, <1>10, <1>11

\* A sum depends only on the values it adds.
LEMMA SumOfSame ==
  ASSUME NEW f, NEW g, NEW S, IsFiniteSet(S), \A x \in S : f[x] = g[x]
  PROVE SumFunctionOnSet(f, S) = SumFunctionOnSet(g, S)
<1> DEFINE Bad == {u \in SUBSET S : SumFunctionOnSet(f, u) # SumFunctionOnSet(g, u)}
<1> SUFFICES ASSUME Bad # {} PROVE FALSE
  OBVIOUS
<1>1. PICK u \in Bad : \A v \in Bad : v \subseteq u => v = u
  <2>1. Bad \in SUBSET SUBSET S
    OBVIOUS
  <2> HIDE DEF Bad
  <2> QED
    BY <2>1, SmallestSubset
<1>2. u # {}
  BY SumEmpty
<1>3. Pick(u) \in u /\ IsFiniteSet(u)
  BY <1>2, PickIn, FS_Subset
<1>4. u \ {Pick(u)} \notin Bad
  BY <1>1, <1>3
<1>5. /\ SumFunctionOnSet(f, u) = f[Pick(u)] + SumFunctionOnSet(f, u \ {Pick(u)})
      /\ SumFunctionOnSet(g, u) = g[Pick(u)] + SumFunctionOnSet(g, u \ {Pick(u)})
  BY <1>2, <1>3, SumPicks
<1> QED
  BY <1>3, <1>4, <1>5

\* The sum over an interval takes its last element.
LEMMA SumToNext ==
  ASSUME NEW f, NEW a \in Nat, NEW b \in Nat, a <= b, \A t \in a .. b : f[t] \in Nat
  PROVE SumFunctionOnSet(f, a .. b) = f[b] + SumFunctionOnSet(f, a .. b - 1)
<1>1. IsFiniteSet(a .. b)
  BY FS_Interval
<1>2. (a .. b) \ {b} = a .. b - 1
  OBVIOUS
<1> QED
  BY <1>1, <1>2, SumTakes

\* A sum over an interval is the sum of the sums over its parts.
LEMMA SumSplits ==
  ASSUME NEW f, NEW a \in Nat, NEW b \in Nat, NEW m \in Nat, m <= b, a <= m,
         \A t \in a .. b : f[t] \in Nat
  PROVE SumFunctionOnSet(f, a .. b)
          = SumFunctionOnSet(f, a .. m - 1) + SumFunctionOnSet(f, m .. b)
<1> DEFINE Lower(n) == SumFunctionOnSet(f, a .. n - 1)
           Mid(n) == SumFunctionOnSet(f, m .. n - 1)
           Bad == {n \in m .. b + 1 : Lower(n) # Lower(m) + Mid(n)}
<1> SUFFICES ASSUME Bad # {} PROVE FALSE
  <2>1. SUFFICES ASSUME Bad = {} PROVE Lower(b + 1) = Lower(m) + Mid(b + 1)
    <3>1. b + 1 - 1 = b
      OBVIOUS
    <3> QED
      BY <3>1
  <2> HIDE DEF Lower, Mid
  <2> QED
    BY <2>1
<1>1. PICK n \in Bad : \A k \in Bad : n <= k
  <2>1. Bad \in SUBSET Nat
    OBVIOUS
  <2> HIDE DEF Bad
  <2> QED
    BY <2>1, LeastNatural
<1>2. Lower(m) \in Nat
  <2>1. IsFiniteSet(a .. m - 1)
    BY FS_Interval
  <2> QED
    BY <2>1, SumIsNatural
<1>3. n # m
  <2>1. m .. m - 1 = {}
    OBVIOUS
  <2>2. Mid(m) = 0
    BY <2>1, SumEmpty
  <2> HIDE DEF Lower, Mid
  <2> QED
    BY <2>2, <1>2
<1>4. n - 1 \in m .. b /\ n - 1 \notin Bad
  BY <1>1, <1>3
<1>5. Lower(n - 1) = Lower(m) + Mid(n - 1)
  <2> HIDE DEF Lower, Mid
  <2> QED
    BY <1>4
<1>6. Lower(n) = f[n - 1] + Lower(n - 1)
  BY <1>4, SumToNext
<1>7. Mid(n) = f[n - 1] + Mid(n - 1)
  BY <1>4, SumToNext
<1>8. f[n - 1] \in Nat /\ Mid(n - 1) \in Nat
  <2>1. IsFiniteSet(m .. n - 1 - 1) /\ f[n - 1] \in Nat
    BY <1>4, FS_Interval
  <2>2. \A t \in m .. n - 1 - 1 : f[t] \in Nat
    BY <1>4
  <2> QED
    BY <2>1, <2>2, SumIsNatural
<1> QED
  <2> HIDE DEF Lower, Mid
  <2> QED
    BY <1>2, <1>5, <1>6, <1>7, <1>8

\* Moved up by one, the values have the same sum.
LEMMA SumShifts ==
  ASSUME NEW f, NEW g, NEW b \in Nat, \A t \in 0 .. b - 1 : f[t] \in Nat,
         \A t \in 1 .. b : g[t] = f[t - 1]
  PROVE SumFunctionOnSet(g, 1 .. b) = SumFunctionOnSet(f, 0 .. b - 1)
<1> DEFINE Bad == {n \in 0 .. b :
             SumFunctionOnSet(g, 1 .. n) # SumFunctionOnSet(f, 0 .. n - 1)}
<1> SUFFICES ASSUME Bad # {} PROVE FALSE
  OBVIOUS
<1>1. PICK n \in Bad : \A m \in Bad : n <= m
  <2>1. Bad \in SUBSET Nat
    OBVIOUS
  <2> HIDE DEF Bad
  <2> QED
    BY <2>1, LeastNatural
<1>2. n # 0
  <2>1. 1 .. 0 = {} /\ 0 .. 0 - 1 = {}
    OBVIOUS
  <2> QED
    BY <2>1, SumEmpty
<1>3. n \in 1 .. b /\ n - 1 \in 0 .. b
  BY <1>2
<1>4. n - 1 \notin Bad
  BY <1>1, <1>3
<1>5. SumFunctionOnSet(g, 1 .. n - 1) = SumFunctionOnSet(f, 0 .. n - 2)
  BY <1>3, <1>4
<1>6. SumFunctionOnSet(g, 1 .. n) = g[n] + SumFunctionOnSet(g, 1 .. n - 1)
  BY <1>3, SumToNext
<1>7. SumFunctionOnSet(f, 0 .. n - 1) = f[n - 1] + SumFunctionOnSet(f, 0 .. n - 2)
  BY <1>3, SumToNext
<1> QED
  BY <1>3, <1>5, <1>6, <1>7

\* Adding to the first value adds to the sum.
LEMMA SumRecords ==
  ASSUME NEW f, NEW g, NEW b \in Nat, NEW w \in Nat,
         \A t \in 0 .. b : f[t] \in Nat,
         g[0] = f[0] + w, \A t \in 1 .. b : g[t] = f[t]
  PROVE SumFunctionOnSet(g, 0 .. b) = SumFunctionOnSet(f, 0 .. b) + w
<1> DEFINE S == 0 .. b
           rest == S \ {0}
<1>1. 0 \in S /\ f[0] \in Nat
  OBVIOUS
<1>2. IsFiniteSet(S)
  BY FS_Interval
<1>3. IsFiniteSet(rest)
  <2> HIDE DEF S
  <2> QED
    BY <1>2, FS_RemoveElement
<1>4. \A t \in rest : f[t] \in Nat /\ f[t] = g[t]
  OBVIOUS
<1>5. \A t \in S : f[t] \in Nat /\ g[t] \in Nat
  <2> TAKE t \in S
  <2>1. t = 0 \/ (t \in 1 .. b /\ f[t] \in Nat)
    OBVIOUS
  <2> QED
    BY <1>1, <2>1
<1> HIDE DEF S
<1>6. SumFunctionOnSet(f, S) = f[0] + SumFunctionOnSet(f, rest)
  BY <1>1, <1>2, <1>5, SumTakes
<1>7. SumFunctionOnSet(g, S) = g[0] + SumFunctionOnSet(g, rest)
  BY <1>1, <1>2, <1>5, SumTakes
<1> HIDE DEF rest
<1>8. SumFunctionOnSet(f, rest) = SumFunctionOnSet(g, rest)
  BY <1>3, <1>4, SumOfSame
<1>9. SumFunctionOnSet(f, rest) \in Nat
  BY <1>3, <1>4, SumIsNatural
<1>10. SumFunctionOnSet(g, S) = SumFunctionOnSet(f, S) + w
  BY <1>1, <1>6, <1>7, <1>8, <1>9
<1> QED
  BY <1>10 DEF S

\* Moved up by one from age 0, where nothing is left, the values have the same sum.
LEMMA SumTicks ==
  ASSUME NEW f, NEW g, NEW b \in Nat, \A t \in 0 .. b - 1 : f[t] \in Nat,
         g[0] = 0, \A t \in 1 .. b : g[t] = f[t - 1]
  PROVE SumFunctionOnSet(g, 0 .. b) = SumFunctionOnSet(f, 0 .. b - 1)
<1>1. SumFunctionOnSet(g, 1 .. b) = SumFunctionOnSet(f, 0 .. b - 1)
  BY SumShifts
<1> DEFINE S == 0 .. b
<1>2. IsFiniteSet(S)
  BY FS_Interval
<1>3. 0 \in S /\ S \ {0} = 1 .. b
  OBVIOUS
<1>4. \A t \in 1 .. b : g[t] \in Nat
  <2> TAKE t \in 1 .. b
  <2>1. t - 1 \in 0 .. b - 1
    OBVIOUS
  <2> QED
    BY <2>1
<1>5. \A t \in S : g[t] \in Nat
  <2> TAKE t \in S
  <2>1. t = 0 \/ t \in 1 .. b
    OBVIOUS
  <2> QED
    BY <1>4, <2>1
<1> HIDE DEF S
<1>6. SumFunctionOnSet(g, S) = g[0] + SumFunctionOnSet(g, S \ {0})
  BY <1>2, <1>3, <1>5, SumTakes
<1>7. SumFunctionOnSet(g, 1 .. b) \in Nat
  <2>1. IsFiniteSet(1 .. b)
    BY FS_Interval
  <2> QED
    BY <1>4, <2>1, SumIsNatural
<1>8. SumFunctionOnSet(g, S) = 0 + SumFunctionOnSet(g, 1 .. b)
  BY <1>3, <1>6
<1> QED
  BY <1>1, <1>7, <1>8 DEF S

\* Max is the greatest element.
LEMMA MaxIsGreatest ==
  ASSUME NEW n \in Nat, NEW S \in SUBSET (0 .. n), S # {}
  PROVE Max(S) \in S /\ \A t \in S : t <= Max(S)
<1> DEFINE D == {n - t : t \in S}
<1>1. D \in SUBSET Nat /\ D # {}
  <2>1. \A t \in S : n - t \in Nat
    OBVIOUS
  <2> QED
    BY <2>1
<1>2. PICK d \in D : \A e \in D : d <= e
  <2> HIDE DEF D
  <2> QED
    BY <1>1, LeastNatural
<1>3. PICK x \in S : d = n - x
  BY <1>2
<1>4. \A t \in S : x >= t
  <2> TAKE t \in S
  <2>1. n - t \in D
    OBVIOUS
  <2>2. d <= n - t
    <3> HIDE DEF D
    <3> QED
      BY <1>2, <2>1
  <2>3. x \in Nat /\ t \in Nat
    OBVIOUS
  <2> QED
    BY <1>3, <2>2, <2>3
<1> QED
  BY <1>4 DEF Max

----------------------------------------------------------------------------
(* The invariant                                                           *)

\* The code's window holds, at every age within it, what was recorded.
RecordingInv == \A t \in 0 .. Window : window[t] = ledger[t]

\* When the nap of a caller at the lock is over, what is then left in the
\* window leaves room for its request.
RoomAfterNap(c) ==
  /\ Holds(c)
  /\ caller[c].nap <= Window + 1
  /\ SumFunctionOnSet(window, 0 .. Window - caller[c].nap)
       + Weight[caller[c].endpoint] <= Budget

\* OneNapIsEnough speaks of the end of a nap; during it, the sleeper is the
\* holder of the lock, so that nothing is recorded, and the entries that will
\* still be in the window at the end leave room.
NappingInv ==
  \A c \in Callers :
    caller[c].pc = "acquire" /\ caller[c].nap > 0 => RoomAfterNap(c)

LimiterInv ==
  /\ TypeOK
  /\ queue \in Seq(Callers)
  /\ RecordingInv
  /\ NappingInv

LEMMA PrunedType ==
  ASSUME TypeOK
  PROVE /\ Pruned \in [0 .. Window + 1 -> Nat]
        /\ \A t \in 0 .. Window : Pruned[t] = window[t]
        /\ Pruned[Window + 1] = 0
BY WeightAssumption DEF TypeOK, Pruned

LEMMA RecordedType ==
  ASSUME NEW b \in Nat, NEW f \in [0 .. b -> Nat], NEW w \in Nat
  PROVE /\ Recorded(f, w) \in [0 .. b -> Nat]
        /\ Recorded(f, w)[0] = f[0] + w
        /\ \A t \in 1 .. b : Recorded(f, w)[t] = f[t]
BY DEF Recorded

LEMMA PrunedSums ==
  ASSUME TypeOK, NEW b \in Int, b <= Window
  PROVE SumFunctionOnSet(Pruned, 0 .. b) = SumFunctionOnSet(window, 0 .. b)
<1> DEFINE S == 0 .. b
<1>1. IsFiniteSet(S)
  BY FS_Interval
<1>2. \A t \in S : Pruned[t] = window[t]
  <2>1. \A t \in S : t \in 0 .. Window
    BY WeightAssumption
  <2> QED
    BY <2>1, PrunedType
<1> HIDE DEF S
<1>3. SumFunctionOnSet(Pruned, S) = SumFunctionOnSet(window, S)
  BY <1>1, <1>2, SumOfSame
<1> QED
  BY <1>3 DEF S

\* What is left of the window after _prune.
LEMMA OlderPruned ==
  ASSUME TypeOK, NEW t \in 0 .. Window
  PROVE /\ Older(Pruned, t) = SumFunctionOnSet(window, t .. Window)
        /\ Older(Pruned, t) \in Nat
<1>1. Window \in Nat /\ Window + 1 \in Nat /\ Window + 1 - 1 = Window
  BY WeightAssumption
<1>2. \A k \in t .. Window + 1 : Pruned[k] \in Nat
  BY PrunedType, <1>1
<1>3. Older(Pruned, t) = 0 + SumFunctionOnSet(Pruned, t .. Window)
  <2>1. t \in Nat /\ t <= Window + 1
    BY <1>1
  <2>2. SumFunctionOnSet(Pruned, t .. Window + 1)
          = Pruned[Window + 1] + SumFunctionOnSet(Pruned, t .. Window + 1 - 1)
    BY <1>1, <1>2, <2>1, SumToNext
  <2> QED
    BY <1>1, <2>2, PrunedType DEF Older
<1>4. \A k \in t .. Window : Pruned[k] = window[k] /\ Pruned[k] \in Nat
  BY PrunedType, <1>1
<1>5. IsFiniteSet(t .. Window)
  BY <1>1, FS_Interval
<1>6. SumFunctionOnSet(Pruned, t .. Window) \in Nat
  BY <1>4, <1>5, SumIsNatural
<1>7. SumFunctionOnSet(Pruned, t .. Window) = SumFunctionOnSet(window, t .. Window)
  BY <1>4, <1>5, SumOfSame
<1> QED
  BY <1>3, <1>6, <1>7

\* _wait_for_budget sleeps until enough of the window has passed.
LEMMA NapFrees ==
  ASSUME TypeOK, NEW e \in Endpoints, NEW needed,
         needed = Older(Pruned, 0) + Weight[e] - Budget, needed > 0
  PROVE /\ NapFor(needed) \in 1 .. Window + 1
        /\ SumFunctionOnSet(window, 0 .. Window - NapFor(needed)) + Weight[e] <= Budget
<1> DEFINE ages == {t \in 0 .. Window : Older(Pruned, t) >= needed}
           m == Max(ages)
<1>1. /\ Window \in Nat /\ Budget \in Nat /\ 0 \in 0 .. Window
      /\ Weight[e] \in Nat /\ Weight[e] <= Budget
  BY WeightAssumption
<1>2. Older(Pruned, 0) \in Nat
  BY <1>1, OlderPruned
<1>3. 0 \in ages
  BY <1>1, <1>2
<1>4. m \in ages
  <2>1. ages \in SUBSET (0 .. Window) /\ ages # {}
    BY <1>3
  <2> HIDE DEF ages
  <2> QED
    BY <1>1, <2>1, MaxIsGreatest
<1>5. m \in 0 .. Window /\ Older(Pruned, m) >= needed
  BY <1>4
<1>6. NapFor(needed) = Window - m + 1
  BY DEF NapFor
<1> HIDE DEF m
<1>7. NapFor(needed) \in 1 .. Window + 1 /\ Window - NapFor(needed) = m - 1
  BY <1>1, <1>5, <1>6
<1>8. \A t \in 0 .. Window : window[t] \in Nat
  BY <1>1 DEF TypeOK
<1>9. SumFunctionOnSet(window, 0 .. Window)
        = SumFunctionOnSet(window, 0 .. m - 1) + SumFunctionOnSet(window, m .. Window)
  BY <1>1, <1>5, <1>8, SumSplits
<1>10. SumFunctionOnSet(window, 0 .. m - 1) \in Nat
  <2>1. \A t \in 0 .. m - 1 : t \in 0 .. Window
    BY <1>1, <1>5
  <2>2. m - 1 \in Int
    BY <1>1, <1>5
  <2>3. IsFiniteSet(0 .. m - 1)
    BY <2>2, FS_Interval
  <2> QED
    BY <1>8, <2>1, <2>3, SumIsNatural
<1>11. /\ SumFunctionOnSet(window, 0 .. Window) = Older(Pruned, 0)
       /\ SumFunctionOnSet(window, m .. Window) = Older(Pruned, m)
       /\ Older(Pruned, m) \in Nat
  BY <1>1, <1>5, OlderPruned
<1>12. SumFunctionOnSet(window, 0 .. m - 1) + Weight[e] <= Budget
  <2> DEFINE x == SumFunctionOnSet(window, 0 .. m - 1)
             y == SumFunctionOnSet(window, m .. Window)
             z == SumFunctionOnSet(window, 0 .. Window)
  <2>1. z = x + y /\ x \in Nat /\ y \in Nat /\ y >= z + Weight[e] - Budget
    BY <1>5, <1>9, <1>10, <1>11
  <2> HIDE DEF x, y, z
  <2>2. x + Weight[e] <= Budget
    BY <1>1, <2>1
  <2> QED
    BY <2>2 DEF x
<1> QED
  BY <1>7, <1>12

----------------------------------------------------------------------------
(* Type correctness                                                        *)

\* The queue for the lock is a sequence of callers.
TypeInv == TypeOK /\ queue \in Seq(Callers)

Coroutine ==
  [pc : {"idle", "acquire", "sent", "backoff", "extra"}, endpoint : Endpoints,
   retry : BOOLEAN, nap : Nat, extra : Nat]

LEMMA IdleType == Idle.pc = "idle" /\ Idle.nap = 0 /\ Idle \in Coroutine
BY WeightAssumption DEF Idle, Coroutine

\* What TypeInv says, of a state and of the next one.
LEMMA TypeInvIs ==
  TypeInv <=> /\ window \in [0 .. Window + 1 -> Nat]
              /\ queue \in Seq(Callers)
              /\ caller \in [Callers -> Coroutine]
              /\ ledger \in [0 .. Window -> Nat]
BY DEF TypeInv, TypeOK, Coroutine

LEMMA TypeInvNext ==
  TypeInv' <=> /\ window' \in [0 .. Window + 1 -> Nat]
               /\ queue' \in Seq(Callers)
               /\ caller' \in [Callers -> Coroutine]
               /\ ledger' \in [0 .. Window -> Nat]
BY DEF TypeInv, TypeOK, Coroutine

\* A coroutine that changes leaves the others as they are.
LEMMA CallerMoves ==
  ASSUME caller \in [Callers -> Coroutine], NEW c \in Callers, NEW r \in Coroutine,
         caller' = [caller EXCEPT ![c] = r]
  PROVE caller' \in [Callers -> Coroutine]
OBVIOUS

LEMMA TypeInit == Init => TypeInv
<1> SUFFICES ASSUME Init PROVE TypeInv
  OBVIOUS
<1> QED
  BY IdleType, TypeInvIs, WeightAssumption DEF Init

\* The callers only ever put themselves at the end of the queue.
LEMMA AskKeeps ==
  ASSUME queue \in Seq(Callers), NEW c \in Callers, Ask(c)
  PROVE /\ queue' \in Seq(Callers)
        /\ queue # <<>> => queue' # <<>> /\ Head(queue') = Head(queue)
BY DEF Ask

LEMMA AcquiringTypes ==
  ASSUME TypeInv, NEW c \in Callers, Acquiring(c)
  PROVE TypeInv'
<1>1. /\ TypeOK /\ window \in [0 .. Window + 1 -> Nat]
      /\ queue \in Seq(Callers)
      /\ caller \in [Callers -> Coroutine]
      /\ ledger \in [0 .. Window -> Nat]
  BY TypeInvIs DEF TypeInv
<1>2. /\ Window \in Nat /\ Window + 1 \in Nat
      /\ Weight[caller[c].endpoint] \in Nat /\ caller[c].endpoint \in Endpoints
      /\ caller[c].extra \in Nat
  BY <1>1, WeightAssumption DEF Coroutine
<1>3. queue # <<>> => Tail(queue) \in Seq(Callers)
  BY <1>1
<1>4. CASE Admit(c)
  <2>1. window' \in [0 .. Window + 1 -> Nat] /\ ledger' \in [0 .. Window -> Nat]
    BY <1>1, <1>2, <1>4, PrunedType, RecordedType DEF Admit, Book
  <2>2. queue' \in Seq(Callers)
    BY <1>3, <1>4 DEF Admit, Checks, Holds
  <2>3. [caller[c] EXCEPT !.pc = "sent"] \in Coroutine
    BY <1>1 DEF Coroutine
  <2>4. caller' \in [Callers -> Coroutine]
    BY <1>1, <1>4, <2>3, CallerMoves DEF Admit
  <2> QED
    BY <2>1, <2>2, <2>4, TypeInvNext
<1>5. CASE Sleep(c)
  <2>1. NapFor(Need(c)) \in Nat
    <3>1. NapFor(Need(c)) \in 1 .. Window + 1
      BY <1>1, <1>2, <1>5, NapFrees DEF Sleep, Need
    <3> QED
      BY <1>2, <3>1
  <2>2. window' \in [0 .. Window + 1 -> Nat]
    BY <1>1, <1>5, PrunedType DEF Sleep
  <2>3. [caller[c] EXCEPT !.nap = NapFor(Need(c))] \in Coroutine
    BY <1>1, <2>1 DEF Coroutine
  <2>4. caller' \in [Callers -> Coroutine]
    BY <1>1, <1>5, <2>3, CallerMoves DEF Sleep
  <2>5. queue' \in Seq(Callers) /\ ledger' \in [0 .. Window -> Nat]
    BY <1>1, <1>5 DEF Sleep
  <2> QED
    BY <2>2, <2>4, <2>5, TypeInvNext
<1>6. CASE RecordExtra(c)
  <2>1. window' \in [0 .. Window + 1 -> Nat] /\ ledger' \in [0 .. Window -> Nat]
    BY <1>1, <1>2, <1>6, RecordedType DEF RecordExtra, Book
  <2>2. queue' \in Seq(Callers)
    BY <1>3, <1>6 DEF RecordExtra, Holds
  <2>3. caller' \in [Callers -> Coroutine]
    BY <1>1, <1>6, IdleType, CallerMoves DEF RecordExtra
  <2> QED
    BY <2>1, <2>2, <2>3, TypeInvNext
<1> QED
  BY <1>4, <1>5, <1>6 DEF Acquiring

LEMMA TypeStep == TypeInv /\ [Next]_vars => TypeInv'
<1> SUFFICES ASSUME TypeInv, [Next]_vars PROVE TypeInv'
  OBVIOUS
<1>1. /\ window \in [0 .. Window + 1 -> Nat]
      /\ queue \in Seq(Callers)
      /\ caller \in [Callers -> Coroutine]
      /\ ledger \in [0 .. Window -> Nat]
  BY TypeInvIs
<1>2. ASSUME UNCHANGED <<window, ledger>>, queue' \in Seq(Callers),
             NEW c \in Callers, NEW r \in Coroutine, caller' = [caller EXCEPT ![c] = r]
      PROVE TypeInv'
  <2>1. caller' \in [Callers -> Coroutine]
    BY <1>1, <1>2, CallerMoves
  <2>2. window' \in [0 .. Window + 1 -> Nat] /\ ledger' \in [0 .. Window -> Nat]
    BY <1>1, <1>2
  <2> QED
    BY <1>2, <2>1, <2>2, TypeInvNext
<1>3. ASSUME NEW c \in Callers, NEW e \in Endpoints, PostInfo(c, e) PROVE TypeInv'
  <2>1. [Idle EXCEPT !.pc = "acquire", !.endpoint = e] \in Coroutine
    BY IdleType DEF Coroutine
  <2> QED
    BY <1>1, <1>2, <1>3, <2>1, AskKeeps DEF PostInfo
<1>4. ASSUME NEW c \in Callers, Acquiring(c) PROVE TypeInv'
  BY <1>4, AcquiringTypes
<1>5. ASSUME NEW c \in Callers, RateLimited(c) PROVE TypeInv'
  <2>1. [caller[c] EXCEPT !.pc = "backoff", !.retry = TRUE, !.nap = Backoff] \in Coroutine
    BY <1>1, WeightAssumption DEF Coroutine
  <2>2. caller' = [caller EXCEPT ![c] =
                     [caller[c] EXCEPT !.pc = "backoff", !.retry = TRUE, !.nap = Backoff]]
    BY <1>1, <1>5 DEF RateLimited
  <2> QED
    BY <1>1, <1>2, <1>5, <2>1, <2>2 DEF RateLimited
<1>6. ASSUME NEW c \in Callers, Retry(c) PROVE TypeInv'
  <2>1. [caller[c] EXCEPT !.pc = "acquire"] \in Coroutine
    BY <1>1 DEF Coroutine
  <2> QED
    BY <1>1, <1>2, <1>6, <2>1, AskKeeps DEF Retry
<1>7. ASSUME NEW c \in Callers, Done(c) PROVE TypeInv'
  BY <1>1, <1>2, <1>7, IdleType DEF Done
<1>8. ASSUME NEW c \in Callers, NEW extra \in Extras[caller[c].endpoint],
             Outweighs(c, extra)
      PROVE TypeInv'
  <2>1. extra \in Nat
    <3>1. caller[c].endpoint \in Endpoints
      BY <1>1 DEF Coroutine
    <3> QED
      BY <3>1, WeightAssumption
  <2>2. [caller[c] EXCEPT !.pc = "extra", !.extra = extra] \in Coroutine
    BY <1>1, <2>1 DEF Coroutine
  <2>3. caller' = [caller EXCEPT ![c] = [caller[c] EXCEPT !.pc = "extra", !.extra = extra]]
    BY <1>1, <1>8 DEF Outweighs
  <2> QED
    BY <1>1, <1>2, <1>8, <2>2, <2>3, AskKeeps DEF Outweighs
<1>9. ASSUME Tick PROVE TypeInv'
  <2>1. Window \in Nat
    BY WeightAssumption
  <2>2. window' \in [0 .. Window + 1 -> Nat]
    BY <1>1, <1>9, <2>1 DEF Tick
  <2>3. ledger' \in [0 .. Window -> Nat]
    BY <1>1, <1>9, <2>1 DEF Tick
  <2>4. caller' \in [Callers -> Coroutine]
    <3>1. \A c \in Callers :
            [caller[c] EXCEPT !.nap = IF @ > 0 THEN @ - 1 ELSE 0] \in Coroutine
      <4> TAKE c \in Callers
      <4>1. caller[c] \in Coroutine
        BY <1>1
      <4>2. PICK n \in Nat : n = IF caller[c].nap > 0 THEN caller[c].nap - 1 ELSE 0
        <5>1. caller[c].nap \in Nat
          BY <4>1 DEF Coroutine
        <5> QED
          BY <5>1
      <4>3. [caller[c] EXCEPT !.nap = n] \in Coroutine
        BY <4>1 DEF Coroutine
      <4> QED
        BY <4>2, <4>3
    <3> QED
      BY <1>9, <3>1 DEF Tick
  <2>5. queue' \in Seq(Callers)
    BY <1>1, <1>9 DEF Tick
  <2> QED
    BY <2>2, <2>3, <2>4, <2>5, TypeInvNext
<1>10. CASE UNCHANGED vars
  <2>1. /\ window' \in [0 .. Window + 1 -> Nat] /\ queue' \in Seq(Callers)
        /\ caller' \in [Callers -> Coroutine] /\ ledger' \in [0 .. Window -> Nat]
    BY <1>1, <1>10 DEF vars
  <2> QED
    BY <2>1, TypeInvNext
<1> QED
  BY <1>3, <1>4, <1>5, <1>6, <1>7, <1>8, <1>9, <1>10 DEF Next

\* The state has its types: in particular every sleep lasts a number of ticks,
\* because the entries older than some age always free the weight it needs.
THEOREM TypeCorrect == Spec => []TypeOK
<1>1. TypeInv => TypeOK
  BY DEF TypeInv
<1> QED
  BY <1>1, TypeInit, TypeStep, PTL DEF Spec

----------------------------------------------------------------------------
(* The window is what was recorded                                         *)

LEMMA BothRecorded ==
  ASSUME RecordingInv, NEW entries \in [0 .. Window + 1 -> Nat],
         ledger \in [0 .. Window -> Nat], NEW w \in Nat,
         \A t \in 0 .. Window : entries[t] = window[t],
         window' = Recorded(entries, w), Book(w)
  PROVE RecordingInv'
<1>1. Window \in Nat /\ Window + 1 \in Nat /\ 0 \in 0 .. Window
  BY WeightAssumption
<1>2. /\ window'[0] = entries[0] + w
      /\ \A t \in 1 .. Window + 1 : window'[t] = entries[t]
  <2>1. 0 \in 0 .. Window + 1 /\ \A t \in 1 .. Window + 1 : t \in 0 .. Window + 1 /\ t # 0
    BY <1>1
  <2> QED
    BY <2>1 DEF Recorded
<1>3. /\ ledger'[0] = ledger[0] + w
      /\ \A t \in 1 .. Window : ledger'[t] = ledger[t]
  <2>1. \A t \in 1 .. Window : t \in 0 .. Window /\ t # 0
    BY <1>1
  <2> QED
    BY <1>1, <2>1 DEF Recorded, Book
<1>4. \A t \in 0 .. Window : entries[t] = ledger[t]
  BY DEF RecordingInv
<1>5. window'[0] = ledger'[0]
  BY <1>1, <1>2, <1>3, <1>4
<1>6. ASSUME NEW t \in 1 .. Window PROVE window'[t] = ledger'[t]
  <2>1. t \in 1 .. Window + 1 /\ t \in 0 .. Window
    BY <1>1
  <2> QED
    BY <1>2, <1>3, <1>4, <2>1
<1>7. \A t \in 0 .. Window : t = 0 \/ t \in 1 .. Window
  BY <1>1
<1> QED
  BY <1>5, <1>6, <1>7 DEF RecordingInv

LEMMA RecordingStep == TypeInv /\ RecordingInv /\ [Next]_vars => RecordingInv'
<1> SUFFICES ASSUME TypeInv, RecordingInv, [Next]_vars PROVE RecordingInv'
  OBVIOUS
<1>1. /\ TypeOK /\ window \in [0 .. Window + 1 -> Nat]
      /\ caller \in [Callers -> Coroutine]
      /\ ledger \in [0 .. Window -> Nat]
  BY TypeInvIs DEF TypeInv
<1>2. ASSUME NEW c \in Callers, Acquiring(c) PROVE RecordingInv'
  <2>1. caller[c] \in Coroutine
    BY <1>1
  <2>2. Weight[caller[c].endpoint] \in Nat /\ caller[c].extra \in Nat
    BY <2>1, WeightAssumption DEF Coroutine
  <2>3. CASE Admit(c)
    BY <1>1, <2>2, <2>3, PrunedType, BothRecorded DEF Admit
  <2>4. CASE Sleep(c)
    BY <1>1, <2>4, PrunedType DEF Sleep, RecordingInv
  <2>5. CASE RecordExtra(c)
    BY <1>1, <2>2, <2>5, BothRecorded DEF RecordExtra
  <2> QED
    BY <1>2, <2>3, <2>4, <2>5 DEF Acquiring
<1>3. ASSUME Tick PROVE RecordingInv'
  <2>1. Window \in Nat
    BY WeightAssumption
  <2>2. window'[0] = 0 /\ ledger'[0] = 0
    BY <1>3, <2>1 DEF Tick
  <2>3. ASSUME NEW t \in 1 .. Window PROVE window'[t] = ledger'[t]
    <3>1. window'[t] = window[t - 1] /\ ledger'[t] = ledger[t - 1]
      BY <1>3, <2>1 DEF Tick
    <3>2. t - 1 \in 0 .. Window
      BY <2>1
    <3> QED
      BY <3>1, <3>2 DEF RecordingInv
  <2>4. \A t \in 0 .. Window : t = 0 \/ t \in 1 .. Window
    BY <2>1
  <2> QED
    BY <2>2, <2>3, <2>4 DEF RecordingInv
<1>4. CASE window' = window /\ ledger' = ledger
  BY <1>4 DEF RecordingInv
<1> QED
  BY <1>2, <1>3, <1>4
  DEF Next, vars, PostInfo, RateLimited, Retry, Done, Outweighs

----------------------------------------------------------------------------
(* Naps                                                                    *)

\* What is left after a nap was left before a tick of it.
LEMMA TickShifts ==
  ASSUME TypeInv, Tick, NEW b \in 0 .. Window
  PROVE SumFunctionOnSet(window', 0 .. b) = SumFunctionOnSet(window, 0 .. b - 1)
<1>1. Window \in Nat /\ b \in Nat /\ b <= Window
  BY WeightAssumption
<1>2. \A t \in 0 .. b - 1 : window[t] \in Nat
  BY <1>1 DEF TypeInv, TypeOK
<1>3. window'[0] = 0
  BY <1>1 DEF Tick
<1>4. \A t \in 1 .. b : window'[t] = window[t - 1]
  BY <1>1 DEF Tick
<1> QED
  BY <1>1, <1>2, <1>3, <1>4, SumTicks

LEMMA NappingTicks ==
  ASSUME TypeInv, NappingInv, Tick,
         NEW c \in Callers, caller[c].pc = "acquire", caller[c].nap > 0
  PROVE /\ Holds(c)'
        /\ caller'[c].endpoint = caller[c].endpoint
        /\ caller'[c].nap = caller[c].nap - 1 /\ caller'[c].nap <= Window
        /\ SumFunctionOnSet(window', 0 .. Window - caller'[c].nap)
             + Weight[caller[c].endpoint] <= Budget
<1>0. caller[c] \in Coroutine /\ Window \in Nat
  BY TypeInvIs, WeightAssumption
<1>1. RoomAfterNap(c)
  BY DEF NappingInv
<1>2. PICK n \in Nat : n = caller[c].nap /\ n > 0 /\ n <= Window + 1
  BY <1>0, <1>1 DEF Coroutine, RoomAfterNap
<1>3. /\ Holds(c)'
      /\ caller'[c].endpoint = caller[c].endpoint
      /\ caller'[c].nap = n - 1
  <2>1. caller'[c] = [caller[c] EXCEPT !.nap = n - 1]
    BY <1>2 DEF Tick
  <2>2. caller'[c].nap = n - 1 /\ caller'[c].endpoint = caller[c].endpoint
    BY <1>0, <2>1 DEF Coroutine
  <2> QED
    BY <1>1, <2>2 DEF Tick, Holds, RoomAfterNap
<1>4. PICK b \in 0 .. Window : b = Window - (n - 1) /\ b - 1 = Window - n
  BY <1>0, <1>2
<1>5. SumFunctionOnSet(window', 0 .. b) = SumFunctionOnSet(window, 0 .. b - 1)
  BY <1>4, TickShifts
<1>6. SumFunctionOnSet(window', 0 .. b) + Weight[caller[c].endpoint] <= Budget
  BY <1>1, <1>2, <1>4, <1>5 DEF RoomAfterNap
<1>7. n - 1 <= Window
  BY <1>0, <1>2
<1> QED
  BY <1>2, <1>3, <1>4, <1>6, <1>7

\* Nobody else has the lock while a caller sleeps with it.
LEMMA NappingUndisturbed ==
  ASSUME TypeInv, NappingInv,
         NEW c \in Callers, caller[c].pc = "acquire", caller[c].nap > 0,
         NEW d \in Callers
  PROVE ~Acquiring(d)
<1>1. Holds(c)
  BY DEF NappingInv, RoomAfterNap
<1>2. Acquiring(d) => Holds(d)
  BY DEF Acquiring, Admit, Sleep, RecordExtra, Checks
<1>3. Acquiring(c) => caller[c].nap = 0 \/ caller[c].pc = "extra"
  BY DEF Acquiring, Admit, Sleep, RecordExtra, Checks
<1>4. caller[c].nap # 0
  BY DEF TypeInv, TypeOK
<1> QED
  BY <1>1, <1>2, <1>3, <1>4 DEF Holds

LEMMA SleepLeavesRoom ==
  ASSUME TypeInv, NEW c \in Callers, Sleep(c)
  PROVE RoomAfterNap(c)'
<1> USE DEF TypeInv, TypeOK
<1> DEFINE nap == NapFor(Need(c))
<1>1. /\ nap \in 1 .. Window + 1
      /\ SumFunctionOnSet(window, 0 .. Window - nap) + Weight[caller[c].endpoint] <= Budget
  BY NapFrees DEF Sleep, Need
<1>2. /\ Holds(c)' /\ window' = Pruned
      /\ caller'[c].nap = nap /\ caller'[c].endpoint = caller[c].endpoint
  BY DEF Sleep, Checks, Holds
<1> HIDE DEF nap
<1>3. Window \in Nat /\ Window - nap \in Int /\ Window - nap <= Window
  BY <1>1, WeightAssumption
<1>4. SumFunctionOnSet(Pruned, 0 .. Window - nap) = SumFunctionOnSet(window, 0 .. Window - nap)
  BY <1>3, PrunedSums
<1>5. nap <= Window + 1
  BY <1>1, <1>3
<1> QED
  BY <1>1, <1>2, <1>4, <1>5 DEF RoomAfterNap

\* A step that leaves the caller and the window alone, and asks for the lock at
\* most behind the others, leaves the room.
LEMMA RoomKept ==
  ASSUME NEW c \in Callers, RoomAfterNap(c), window' = window, caller'[c] = caller[c],
         queue' # <<>> /\ Head(queue') = Head(queue)
  PROVE RoomAfterNap(c)'
BY DEF RoomAfterNap, Holds

LEMMA NappingStep == TypeInv /\ NappingInv /\ [Next]_vars => NappingInv'
<1> SUFFICES ASSUME TypeInv, NappingInv, [Next]_vars,
                    NEW c \in Callers, caller'[c].pc = "acquire", caller'[c].nap > 0
             PROVE RoomAfterNap(c)'
  BY DEF NappingInv
<1> USE DEF TypeInv, TypeOK
<1>1. caller'[c] = caller[c] => RoomAfterNap(c) /\ queue # <<>>
  BY DEF NappingInv, RoomAfterNap, Holds
<1>2. ASSUME NEW d \in Callers, Ask(d), window' = window, caller'[c] = caller[c]
      PROVE RoomAfterNap(c)'
  BY <1>1, <1>2, AskKeeps, RoomKept
<1>3. ASSUME NEW d \in Callers, NEW e \in Endpoints, PostInfo(d, e)
      PROVE RoomAfterNap(c)'
  <2>1. c # d
    BY <1>3, IdleType DEF PostInfo
  <2> QED
    BY <1>2, <1>3, <2>1 DEF PostInfo
<1>4. ASSUME NEW d \in Callers, Acquiring(d) PROVE RoomAfterNap(c)'
  <2>1. CASE c # d
    <3>1. caller'[c] = caller[c]
      BY <1>4, <2>1 DEF Acquiring, Admit, Sleep, RecordExtra
    <3> QED
      BY <1>4, <3>1, NappingUndisturbed
  <2>2. CASE c = d
    <3>1. Sleep(c)
      BY <1>4, <2>2, IdleType DEF Acquiring, Admit, RecordExtra
    <3> QED
      BY <3>1, SleepLeavesRoom
  <2> QED
    BY <2>1, <2>2
<1>5. ASSUME NEW d \in Callers, RateLimited(d) PROVE RoomAfterNap(c)'
  <2>1. c # d
    BY <1>5 DEF RateLimited
  <2>2. caller'[c] = caller[c] /\ UNCHANGED <<window, queue>>
    BY <1>5, <2>1 DEF RateLimited
  <2> QED
    BY <1>1, <2>2, RoomKept
<1>6. ASSUME NEW d \in Callers, Retry(d) PROVE RoomAfterNap(c)'
  <2>1. c # d
    BY <1>6 DEF Retry
  <2> QED
    BY <1>2, <1>6, <2>1 DEF Retry
<1>7. ASSUME NEW d \in Callers, Done(d) PROVE RoomAfterNap(c)'
  <2>1. c # d
    BY <1>7, IdleType DEF Done
  <2>2. caller'[c] = caller[c] /\ UNCHANGED <<window, queue>>
    BY <1>7, <2>1 DEF Done
  <2> QED
    BY <1>1, <2>2, RoomKept
<1>8. ASSUME NEW d \in Callers, NEW extra, Outweighs(d, extra) PROVE RoomAfterNap(c)'
  <2>1. c # d
    BY <1>8 DEF Outweighs
  <2> QED
    BY <1>2, <1>8, <2>1 DEF Outweighs
<1>9. ASSUME Tick PROVE RoomAfterNap(c)'
  <2>1. caller[c].pc = "acquire" /\ caller[c].nap > 0 /\ Window \in Nat
    BY <1>9, WeightAssumption DEF Tick
  <2>2. /\ Holds(c)' /\ caller'[c].endpoint = caller[c].endpoint
        /\ caller'[c].nap = caller[c].nap - 1 /\ caller'[c].nap <= Window
        /\ SumFunctionOnSet(window', 0 .. Window - caller'[c].nap)
             + Weight[caller[c].endpoint] <= Budget
    BY <1>9, <2>1, NappingTicks
  <2>3. caller'[c].nap <= Window + 1
    BY <2>1, <2>2
  <2> QED
    BY <2>2, <2>3 DEF RoomAfterNap
<1>10. CASE UNCHANGED vars
  BY <1>1, <1>10, RoomKept DEF vars
<1> QED
  BY <1>3, <1>4, <1>5, <1>6, <1>7, <1>8, <1>9, <1>10 DEF Next

LEMMA LimiterInit == Init => LimiterInv
<1> SUFFICES ASSUME Init PROVE LimiterInv
  OBVIOUS
<1>1. TypeInv
  BY TypeInit
<1>2. RecordingInv
  BY WeightAssumption DEF Init, RecordingInv
<1>3. NappingInv
  BY IdleType DEF Init, NappingInv
<1> QED
  BY <1>1, <1>2, <1>3 DEF LimiterInv, TypeInv

LEMMA LimiterStep == LimiterInv /\ [Next]_vars => LimiterInv'
BY TypeStep, RecordingStep, NappingStep DEF LimiterInv, TypeInv

----------------------------------------------------------------------------
(* What the limiter promises                                               *)

\* The weight spent in the window is the weight the code still counts.
LEMMA AdmitSpends ==
  ASSUME LimiterInv, NEW c \in Callers, Admit(c)
  PROVE Spent' <= Budget
<1> USE DEF LimiterInv
<1>0. ledger \in [0 .. Window -> Nat] /\ caller[c].endpoint \in Endpoints
  BY DEF TypeOK
<1> DEFINE w == Weight[caller[c].endpoint]
<1>1. Window \in Nat /\ 0 \in 0 .. Window /\ w \in Nat /\ Budget \in Nat
  BY <1>0, WeightAssumption
<1>2. /\ Older(Pruned, 0) = SumFunctionOnSet(window, 0 .. Window)
      /\ Older(Pruned, 0) \in Nat
  BY <1>1, OlderPruned
<1>3. SumFunctionOnSet(window, 0 .. Window) = Spent
  <2> DEFINE S == 0 .. Window
  <2>1. IsFiniteSet(S)
    BY <1>1, FS_Interval
  <2>2. \A t \in S : window[t] = ledger[t]
    BY DEF RecordingInv
  <2> HIDE DEF S
  <2>3. SumFunctionOnSet(window, S) = SumFunctionOnSet(ledger, S)
    BY <2>1, <2>2, SumOfSame
  <2> QED
    BY <2>3 DEF Spent, S
<1>4. Older(Pruned, 0) + w - Budget <= 0
  BY DEF Admit, Need
<1> HIDE DEF w
<1>5. ledger' = Recorded(ledger, w)
  BY DEF Admit, Book, w
<1>6. SumFunctionOnSet(ledger', 0 .. Window) = SumFunctionOnSet(ledger, 0 .. Window) + w
  <2>1. /\ \A t \in 0 .. Window : ledger[t] \in Nat
        /\ Recorded(ledger, w)[0] = ledger[0] + w
        /\ \A t \in 1 .. Window : Recorded(ledger, w)[t] = ledger[t]
    BY <1>0, <1>1, RecordedType
  <2>2. SumFunctionOnSet(Recorded(ledger, w), 0 .. Window)
          = SumFunctionOnSet(ledger, 0 .. Window) + w
    BY <1>1, <2>1, SumRecords
  <2> QED
    BY <1>5, <2>2
<1>7. Spent' = Spent + w
  BY <1>6 DEF Spent
<1> QED
  BY <1>1, <1>2, <1>3, <1>4, <1>7 DEF w

LEMMA AdmitStep ==
  ASSUME LimiterInv, [Next]_vars,
         NEW c \in Callers, caller[c].pc = "acquire", caller'[c].pc = "sent"
  PROVE Spent' <= Budget
<1> USE DEF LimiterInv, TypeOK
<1>1. ASSUME NEW d \in Callers, NEW e \in Endpoints, PostInfo(d, e) PROVE FALSE
  BY <1>1, IdleType DEF PostInfo
<1>2. ASSUME NEW d \in Callers, Acquiring(d) PROVE Admit(c)
  <2>1. c = d
    BY <1>2 DEF Acquiring, Admit, Sleep, RecordExtra
  <2>2. ~Sleep(c)
    BY DEF Sleep
  <2>3. ~RecordExtra(c)
    BY DEF RecordExtra
  <2> QED
    BY <1>2, <2>1, <2>2, <2>3 DEF Acquiring
<1>3. ASSUME NEW d \in Callers, RateLimited(d) \/ Retry(d) \/ Done(d) PROVE FALSE
  BY <1>3, IdleType DEF RateLimited, Retry, Done
<1>4. ASSUME NEW d \in Callers, NEW extra, Outweighs(d, extra) PROVE FALSE
  BY <1>4 DEF Outweighs
<1>5. ~Tick /\ ~UNCHANGED vars
  <2>1. Tick => caller'[c].pc = caller[c].pc
    <3>1. caller[c] \in Coroutine
      BY DEF Coroutine
    <3>2. PICK n : n = IF caller[c].nap > 0 THEN caller[c].nap - 1 ELSE 0
      OBVIOUS
    <3>3. Tick => caller'[c] = [caller[c] EXCEPT !.nap = n]
      BY <3>2 DEF Tick
    <3>4. [caller[c] EXCEPT !.nap = n].pc = caller[c].pc
      BY <3>1 DEF Coroutine
    <3> QED
      BY <3>3, <3>4
  <2>2. UNCHANGED vars => caller'[c].pc = caller[c].pc
    BY DEF vars
  <2> QED
    BY <2>1, <2>2
<1>6. Admit(c)
  BY <1>1, <1>2, <1>3, <1>4, <1>5 DEF Next
<1> QED
  BY <1>6, AdmitSpends

\* A request goes through only if it leaves the weight of the window, the extra
\* weight of answers included, within the budget.
THEOREM AdmittedWithinBudgetHolds == Spec => AdmittedWithinBudget
<1>1. LimiterInv /\ [Next]_vars
      => [\A c \in Callers :
            caller[c].pc = "acquire" /\ caller'[c].pc = "sent" => Spent' <= Budget]_vars
  BY AdmitStep
<1> QED
  BY <1>1, LimiterInit, LimiterStep, PTL DEF Spec, AdmittedWithinBudget

\* What _wait_for_budget counts.
Counted ==
  /\ Older(Pruned, 0) = SumFunctionOnSet(window, 0 .. Window)
  /\ SumFunctionOnSet(window, 0 .. Window) \in Nat

LEMMA CountedIs == TypeOK => Counted
BY OlderPruned, WeightAssumption DEF Counted

LEMMA CountedNext == TypeOK' => Counted'
BY CountedIs, PTL

LEMMA NapStep ==
  ASSUME LimiterInv, LimiterInv', [Next]_vars,
         NEW c \in Callers, caller[c].pc = "acquire", caller[c].nap > 0,
         caller'[c].nap = 0
  PROVE Need(c)' <= 0
<1> USE DEF LimiterInv, TypeOK
<1>1. TypeInv
  BY DEF TypeInv
<1>2. ~\E d \in Callers : Acquiring(d)
  BY <1>1, NappingUndisturbed
<1>3. caller'[c] # caller[c]
  OBVIOUS
<1>4. ASSUME NEW d \in Callers, NEW e \in Endpoints, PostInfo(d, e) PROVE FALSE
  BY <1>3, <1>4 DEF PostInfo
<1>5. ASSUME NEW d \in Callers, RateLimited(d) \/ Retry(d) \/ Done(d) PROVE FALSE
  BY <1>3, <1>5 DEF RateLimited, Retry, Done
<1>6. ASSUME NEW d \in Callers, NEW extra, Outweighs(d, extra) PROVE FALSE
  BY <1>3, <1>6 DEF Outweighs
<1>7. Tick
  BY <1>2, <1>3, <1>4, <1>5, <1>6 DEF Next, vars
<1> DEFINE x == SumFunctionOnSet(window', 0 .. Window)
           w == Weight[caller[c].endpoint]
<1>8. caller'[c].endpoint = caller[c].endpoint /\ x + w <= Budget
  <2>1. Window - 0 = Window
    BY WeightAssumption
  <2> QED
    BY <1>1, <1>7, <2>1, NappingTicks
<1>9. Older(Pruned, 0)' = x /\ x \in Nat
  BY CountedNext DEF Counted
<1>10. w \in Nat /\ Budget \in Nat
  <2>1. caller[c].endpoint \in Endpoints
    OBVIOUS
  <2>2. Weight[caller[c].endpoint] \in 1 .. Budget /\ Budget \in Nat
    BY <2>1, WeightAssumption
  <2>3. \A k \in 1 .. Budget : k \in Nat
    OBVIOUS
  <2> QED
    BY <2>2, <2>3
<1>11. Need(c)' = x + w - Budget
  BY <1>8, <1>9 DEF Need
<1> HIDE DEF x, w
<1> QED
  BY <1>8, <1>9, <1>10, <1>11

\* One sleep is enough: when the holder of the lock wakes, there is budget for it.
THEOREM OneNapIsEnoughHolds == Spec => OneNapIsEnough
<1>1. LimiterInv /\ LimiterInv' /\ [Next]_vars
      => [\A c \in Callers :
            caller[c].pc = "acquire" /\ caller[c].nap > 0 /\ caller'[c].nap = 0
              => Need(c)' <= 0]_vars
  BY NapStep
<1> QED
  BY <1>1, LimiterInit, LimiterStep, PTL DEF Spec, OneNapIsEnough

----------------------------------------------------------------------------
(* The lock                                                                *)

\* Who waits for the lock, or has it.
Waits(c) == caller[c].pc \in {"acquire", "extra"}

\* The queue holds exactly the callers that wait, each of them once: no caller
\* waits for a lock it will not be given, and none that went away keeps it.
QueueTellsWho ==
  /\ \A i, j \in DOMAIN queue : queue[i] = queue[j] => i = j
  /\ \A c \in Callers : Waits(c) <=> \E i \in DOMAIN queue : queue[i] = c

\* Those that wait move up by at most one place at a step, and only the first
\* leaves the queue.
NobodyOvertakes ==
  [][\A i \in DOMAIN queue :
       \/ i \in DOMAIN queue' /\ queue'[i] = queue[i]
       \/ i > 1 /\ i - 1 \in DOMAIN queue' /\ queue'[i - 1] = queue[i]
       \/ i = 1 /\ \E c \in Callers : queue[1] = c /\ ~Waits(c)']_vars

\* A caller that did not wait asks for the lock.
LEMMA AskTellsWho ==
  ASSUME TypeInv, QueueTellsWho, NEW c \in Callers, ~Waits(c), Ask(c),
         Waits(c)', \A d \in Callers \ {c} : Waits(d)' <=> Waits(d)
  PROVE QueueTellsWho'
<1>1. queue \in Seq(Callers) /\ Len(queue) \in Nat
  BY DEF TypeInv
<1>2. /\ DOMAIN queue = 1 .. Len(queue)
      /\ DOMAIN queue' = 1 .. Len(queue) + 1
      /\ \A i \in DOMAIN queue : i \in DOMAIN queue' /\ queue'[i] = queue[i]
      /\ queue'[Len(queue) + 1] = c
  BY <1>1 DEF Ask
<1>3. \A i \in DOMAIN queue' : i \in DOMAIN queue \/ i = Len(queue) + 1
  BY <1>1, <1>2
<1>4. \A i \in DOMAIN queue : queue[i] # c
  BY DEF QueueTellsWho
<1>5. \A i, j \in DOMAIN queue' : queue'[i] = queue'[j] => i = j
  BY <1>2, <1>3, <1>4 DEF QueueTellsWho
<1>6. ASSUME NEW d \in Callers
      PROVE Waits(d)' <=> \E i \in DOMAIN queue' : queue'[i] = d
  <2>1. CASE d = c
    <3>1. Len(queue) + 1 \in DOMAIN queue'
      BY <1>1, <1>2
    <3> QED
      BY <1>2, <2>1, <3>1
  <2>2. CASE d # c
    <3>1. Waits(d)' <=> \E i \in DOMAIN queue : queue[i] = d
      BY <2>2 DEF QueueTellsWho
    <3>2. (\E i \in DOMAIN queue : queue[i] = d) <=> \E i \in DOMAIN queue' : queue'[i] = d
      BY <1>2, <1>3, <2>2
    <3> QED
      BY <3>1, <3>2
  <2> QED
    BY <2>1, <2>2
<1> QED
  BY <1>5, <1>6 DEF QueueTellsWho

\* The holder of the lock releases it.
LEMMA ReleaseTellsWho ==
  ASSUME TypeInv, QueueTellsWho, NEW c \in Callers, Holds(c), queue' = Tail(queue),
         ~Waits(c)', \A d \in Callers \ {c} : Waits(d)' <=> Waits(d)
  PROVE QueueTellsWho'
<1>1. queue \in Seq(Callers) /\ Len(queue) \in Nat /\ Len(queue) > 0
  BY DEF TypeInv, Holds
<1>2. /\ DOMAIN queue = 1 .. Len(queue)
      /\ DOMAIN queue' = 1 .. Len(queue) - 1
      /\ \A i \in DOMAIN queue' : i + 1 \in DOMAIN queue /\ queue'[i] = queue[i + 1]
      /\ 1 \in DOMAIN queue /\ queue[1] = c
  BY <1>1 DEF Holds
<1>3. \A i \in DOMAIN queue : i = 1 \/ (i - 1 \in DOMAIN queue' /\ queue'[i - 1] = queue[i])
  BY <1>1, <1>2
<1>4. \A i, j \in DOMAIN queue' : queue'[i] = queue'[j] => i = j
  <2> TAKE i, j \in DOMAIN queue'
  <2>1. queue'[i] = queue'[j] => i + 1 = j + 1
    BY <1>2 DEF QueueTellsWho
  <2>2. i \in Int /\ j \in Int
    BY <1>2
  <2> QED
    BY <2>1, <2>2
<1>5. ASSUME NEW d \in Callers
      PROVE Waits(d)' <=> \E i \in DOMAIN queue' : queue'[i] = d
  <2>1. CASE d = c
    <3>1. ASSUME NEW i \in DOMAIN queue', queue'[i] = c PROVE FALSE
      <4>1. i + 1 = 1
        BY <1>2, <3>1 DEF QueueTellsWho
      <4>2. i \in 1 .. Len(queue) - 1
        BY <1>2
      <4> QED
        BY <1>1, <4>1, <4>2
    <3> QED
      BY <2>1, <3>1
  <2>2. CASE d # c
    <3>1. Waits(d)' <=> \E i \in DOMAIN queue : queue[i] = d
      BY <2>2 DEF QueueTellsWho
    <3>2. ASSUME NEW i \in DOMAIN queue, queue[i] = d
          PROVE \E j \in DOMAIN queue' : queue'[j] = d
      BY <1>2, <1>3, <2>2, <3>2
    <3>3. ASSUME NEW i \in DOMAIN queue', queue'[i] = d
          PROVE \E j \in DOMAIN queue : queue[j] = d
      <4>1. i + 1 \in DOMAIN queue /\ queue[i + 1] = d
        BY <1>2, <3>3
      <4> QED
        BY <4>1
    <3> QED
      BY <3>1, <3>2, <3>3
  <2> QED
    BY <2>1, <2>2
<1> QED
  BY <1>4, <1>5 DEF QueueTellsWho

\* What a step does to the queue and to who waits.
LEMMA LockSteps ==
  ASSUME TypeInv, [Next]_vars
  PROVE \/ queue' = queue /\ \A d \in Callers : Waits(d)' <=> Waits(d)
        \/ \E c \in Callers :
             /\ \A d \in Callers \ {c} : Waits(d)' <=> Waits(d)
             /\ \/ ~Waits(c) /\ Ask(c) /\ Waits(c)'
                \/ Holds(c) /\ queue' = Tail(queue) /\ ~Waits(c)'
<1>1. caller \in [Callers -> Coroutine]
  BY TypeInvIs
<1> DEFINE Goal ==
        \/ queue' = queue /\ \A d \in Callers : Waits(d)' <=> Waits(d)
        \/ \E c \in Callers :
             /\ \A d \in Callers \ {c} : Waits(d)' <=> Waits(d)
             /\ \/ ~Waits(c) /\ Ask(c) /\ Waits(c)'
                \/ Holds(c) /\ queue' = Tail(queue) /\ ~Waits(c)'
<1>2. ASSUME NEW c \in Callers, NEW r, caller' = [caller EXCEPT ![c] = r]
      PROVE /\ caller'[c] = r
            /\ \A d \in Callers \ {c} : Waits(d)' <=> Waits(d)
  BY <1>1, <1>2 DEF Waits
<1>3. ASSUME NEW c \in Callers, NEW e \in Endpoints, PostInfo(c, e) PROVE Goal
  <2> DEFINE r == [Idle EXCEPT !.pc = "acquire", !.endpoint = e]
  <2>1. r.pc = "acquire"
    BY IdleType DEF Coroutine
  <2>2. caller' = [caller EXCEPT ![c] = r]
    BY <1>3 DEF PostInfo
  <2> HIDE DEF r
  <2>3. Waits(c)' /\ \A d \in Callers \ {c} : Waits(d)' <=> Waits(d)
    BY <1>2, <2>1, <2>2 DEF Waits
  <2> QED
    BY <1>3, <2>3 DEF PostInfo, Waits
<1>4. ASSUME NEW c \in Callers, Acquiring(c) PROVE Goal
  <2>1. caller[c] \in Coroutine
    BY <1>1
  <2>2. CASE Admit(c)
    <3> DEFINE r == [caller[c] EXCEPT !.pc = "sent"]
    <3>1. r.pc = "sent"
      BY <2>1 DEF Coroutine
    <3>2. caller' = [caller EXCEPT ![c] = r]
      BY <2>2 DEF Admit
    <3> HIDE DEF r
    <3>3. ~Waits(c)' /\ \A d \in Callers \ {c} : Waits(d)' <=> Waits(d)
      BY <1>2, <3>1, <3>2 DEF Waits
    <3> QED
      BY <2>2, <3>3 DEF Admit, Checks
  <2>3. CASE Sleep(c)
    <3> DEFINE r == [caller[c] EXCEPT !.nap = NapFor(Need(c))]
    <3>1. r.pc = caller[c].pc
      BY <2>1 DEF Coroutine
    <3>2. caller' = [caller EXCEPT ![c] = r]
      BY <2>3 DEF Sleep
    <3> HIDE DEF r
    <3>3. \A d \in Callers : Waits(d)' <=> Waits(d)
      BY <1>2, <3>1, <3>2 DEF Waits
    <3> QED
      BY <2>3, <3>3 DEF Sleep
  <2>4. CASE RecordExtra(c)
    <3>1. ~Waits(c)' /\ \A d \in Callers \ {c} : Waits(d)' <=> Waits(d)
      BY <1>2, <2>4, IdleType DEF RecordExtra, Waits
    <3> QED
      BY <2>4, <3>1 DEF RecordExtra
  <2> QED
    BY <1>4, <2>2, <2>3, <2>4 DEF Acquiring
<1>5. ASSUME NEW c \in Callers, RateLimited(c) PROVE Goal
  <2> DEFINE r == [caller[c] EXCEPT !.pc = "backoff", !.retry = TRUE, !.nap = Backoff]
  <2>1. r.pc = "backoff"
    BY <1>1 DEF Coroutine
  <2>2. caller' = [caller EXCEPT ![c] = r]
    BY <1>1, <1>5 DEF RateLimited
  <2> HIDE DEF r
  <2>3. \A d \in Callers : Waits(d)' <=> Waits(d)
    <3>1. ~Waits(c) /\ ~Waits(c)'
      BY <1>2, <1>5, <2>1, <2>2 DEF Waits, RateLimited
    <3> QED
      BY <1>2, <2>2, <3>1
  <2> QED
    BY <1>5, <2>3 DEF RateLimited
<1>6. ASSUME NEW c \in Callers, Retry(c) PROVE Goal
  <2> DEFINE r == [caller[c] EXCEPT !.pc = "acquire"]
  <2>1. r.pc = "acquire"
    BY <1>1 DEF Coroutine
  <2>2. caller' = [caller EXCEPT ![c] = r]
    BY <1>6 DEF Retry
  <2> HIDE DEF r
  <2>3. Waits(c)' /\ \A d \in Callers \ {c} : Waits(d)' <=> Waits(d)
    BY <1>2, <2>1, <2>2 DEF Waits
  <2> QED
    BY <1>6, <2>3 DEF Retry, Waits
<1>7. ASSUME NEW c \in Callers, Done(c) PROVE Goal
  <2>1. \A d \in Callers : Waits(d)' <=> Waits(d)
    BY <1>2, <1>7, IdleType DEF Done, Waits
  <2> QED
    BY <1>7, <2>1 DEF Done
<1>8. ASSUME NEW c \in Callers, NEW extra, Outweighs(c, extra) PROVE Goal
  <2> DEFINE r == [caller[c] EXCEPT !.pc = "extra", !.extra = extra]
  <2>1. r.pc = "extra"
    BY <1>1 DEF Coroutine
  <2>2. caller' = [caller EXCEPT ![c] = r]
    BY <1>1, <1>8 DEF Outweighs
  <2> HIDE DEF r
  <2>3. Waits(c)' /\ \A d \in Callers \ {c} : Waits(d)' <=> Waits(d)
    BY <1>2, <2>1, <2>2 DEF Waits
  <2> QED
    BY <1>8, <2>3 DEF Outweighs, Waits
<1>9. ASSUME Tick PROVE Goal
  <2>1. ASSUME NEW d \in Callers PROVE caller'[d].pc = caller[d].pc
    <3>1. PICK n : n = IF caller[d].nap > 0 THEN caller[d].nap - 1 ELSE 0
      OBVIOUS
    <3>2. caller'[d] = [caller[d] EXCEPT !.nap = n]
      BY <1>9, <3>1 DEF Tick
    <3> QED
      BY <1>1, <3>2 DEF Coroutine
  <2> QED
    BY <1>9, <2>1 DEF Tick, Waits
<1>10. CASE UNCHANGED vars
  BY <1>10 DEF vars, Waits
<1> QED
  BY <1>3, <1>4, <1>5, <1>6, <1>7, <1>8, <1>9, <1>10 DEF Next

LEMMA QueueStep == TypeInv /\ QueueTellsWho /\ [Next]_vars => QueueTellsWho'
<1> SUFFICES ASSUME TypeInv, QueueTellsWho, [Next]_vars PROVE QueueTellsWho'
  OBVIOUS
<1>1. CASE queue' = queue /\ \A d \in Callers : Waits(d)' <=> Waits(d)
  BY <1>1 DEF QueueTellsWho
<1> QED
  BY <1>1, LockSteps, AskTellsWho, ReleaseTellsWho

LEMMA QueueInit == Init => QueueTellsWho
BY IdleType DEF Init, QueueTellsWho, Waits

\* The lock is neither lost nor leaked: exactly the callers that wait are queued
\* for it, once each, so that its holder is one that will release it.
THEOREM QueueTellsWhoHolds == Spec => []QueueTellsWho
BY TypeInit, TypeStep, QueueInit, QueueStep, PTL DEF Spec

LEMMA OvertakeStep ==
  ASSUME TypeInv, [Next]_vars, NEW i \in DOMAIN queue
  PROVE \/ i \in DOMAIN queue' /\ queue'[i] = queue[i]
        \/ i > 1 /\ i - 1 \in DOMAIN queue' /\ queue'[i - 1] = queue[i]
        \/ i = 1 /\ \E c \in Callers : queue[1] = c /\ ~Waits(c)'
<1>1. queue \in Seq(Callers) /\ Len(queue) \in Nat /\ i \in 1 .. Len(queue)
  BY DEF TypeInv
<1>2. ASSUME NEW c \in Callers, Ask(c)
      PROVE i \in DOMAIN queue' /\ queue'[i] = queue[i]
  BY <1>1, <1>2 DEF Ask
<1>3. ASSUME NEW c \in Callers, Holds(c), queue' = Tail(queue), ~Waits(c)'
      PROVE \/ i > 1 /\ i - 1 \in DOMAIN queue' /\ queue'[i - 1] = queue[i]
            \/ i = 1 /\ \E d \in Callers : queue[1] = d /\ ~Waits(d)'
  <2>1. CASE i = 1
    <3>1. queue[1] = c /\ i = 1
      BY <1>1, <1>3, <2>1 DEF Holds
    <3> QED
      BY <1>3, <3>1
  <2>2. CASE i > 1
    BY <1>1, <1>3, <2>2
  <2> QED
    BY <1>1, <2>1, <2>2
<1> QED
  BY <1>2, <1>3, LockSteps

\* First come, first served: no step lets a caller pass one that waits for the
\* lock, so a caller has only those ahead of it to wait for.
THEOREM NobodyOvertakesHolds == Spec => NobodyOvertakes
<1>1. TypeInv /\ [Next]_vars
      => [\A i \in DOMAIN queue :
            \/ i \in DOMAIN queue' /\ queue'[i] = queue[i]
            \/ i > 1 /\ i - 1 \in DOMAIN queue' /\ queue'[i - 1] = queue[i]
            \/ i = 1 /\ \E c \in Callers : queue[1] = c /\ ~Waits(c)']_vars
  BY OvertakeStep
<1> QED
  BY <1>1, TypeInit, TypeStep, PTL DEF Spec, NobodyOvertakes

=============================================================================
