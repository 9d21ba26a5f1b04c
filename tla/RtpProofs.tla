------------------------------ MODULE RtpProofs ------------------------------
(***************************************************************************)
(* What the loops of the rtp components compute, for all lists they run    *)
(* over, and that the samples of a drawn rate are there.                   *)
(*                                                                         *)
(* The loops are recursive functions.  Induction is done with sets: a set  *)
(* of natural numbers that has 0 and with every number the next has all of *)
(* them (Induct), since a set that is not empty has a least number.        *)
(***************************************************************************)
EXTENDS RtpSamples, RtpTiers, RtpWeights, FiniteSetTheorems, WellFoundedInduction, TLAPS

-----------------------------------------------------------------------------
(* Induction and recursion.                                                 *)

LEMMA Least ==
    ASSUME NEW S \in SUBSET Nat, S # {}
    PROVE  \E m \in S : \A k \in S : m <= k
<1>1. PICK R : IsWellFoundedOn(R, Nat) /\ \A x, y \in Nat : <<y, x>> \in R <=> y < x
  <2>1. \A x, y \in Nat : <<y, x>> \in OpToRel(<, Nat) <=> y < x
    BY DEF OpToRel
  <2> QED BY <2>1, NatLessThanWellFounded
<1>2. PICK m \in S : \A y \in S : <<y, m>> \notin R
  BY <1>1, WFMin
<1>3. ASSUME NEW k \in S PROVE m <= k
  <2>1. m \in Nat /\ k \in Nat /\ <<k, m>> \notin R
    BY <1>2
  <2>2. ~(k < m)
    BY <1>1, <2>1
  <2> QED BY <2>1, <2>2
<1> QED BY <1>3

LEMMA Induct ==
    ASSUME NEW S \in SUBSET Nat, 0 \in S, \A n \in S : n + 1 \in S
    PROVE  S = Nat
<1>1. ASSUME Nat \ S # {} PROVE FALSE
  <2>1. PICK m \in Nat \ S : \A k \in Nat \ S : m <= k
    BY <1>1, Least
  <2>2. m # 0 /\ m - 1 \in Nat
    BY <2>1
  <2> QED BY <2>1, <2>2
<1> QED BY <1>1

\* A loop of N rounds that starts with s0 and takes step[i] in round i.
LEMMA LoopExists ==
    ASSUME NEW S, NEW s0 \in S, NEW N \in Nat, NEW step \in [1..N -> [S -> S]]
    PROVE  \E f \in [0..N -> S] : f[0] = s0 /\ \A i \in 1..N : f[i] = step[i][f[i - 1]]
<1> DEFINE Loop(f, n) == f[0] = s0 /\ \A i \in 1..n : f[i] = step[i][f[i - 1]]
           Good == {n \in Nat : n <= N => \E f \in [0..n -> S] : Loop(f, n)}
<1>1. 0 \in Good
  <2> DEFINE g == [i \in 0..0 |-> s0]
  <2>1. g \in [0..0 -> S] /\ Loop(g, 0)
    OBVIOUS
  <2> QED BY <2>1
<1>2. ASSUME NEW n \in Good PROVE n + 1 \in Good
  <2> SUFFICES ASSUME n + 1 <= N PROVE \E f \in [0..n + 1 -> S] : Loop(f, n + 1)
    OBVIOUS
  <2>1. n \in Nat /\ n + 1 \in 1..N
    OBVIOUS
  <2>2. PICK f \in [0..n -> S] : Loop(f, n)
    BY <2>1
  <2> DEFINE g == [i \in 0..n + 1 |-> IF i = n + 1 THEN step[n + 1][f[n]] ELSE f[i]]
  <2>3. step[n + 1] \in [S -> S] /\ f[n] \in S
    BY <2>1
  <2>4. g \in [0..n + 1 -> S]
    BY <2>1, <2>3
  <2>5. g[0] = s0
    BY <2>1, <2>2
  <2>6. ASSUME NEW i \in 1..n + 1 PROVE g[i] = step[i][g[i - 1]]
    BY <2>1, <2>2
  <2> QED BY <2>4, <2>5, <2>6
<1>3. N \in Good
  <2> HIDE DEF Good
  <2>1. Good \in SUBSET Nat
    BY DEF Good
  <2> QED BY <1>1, <1>2, <2>1, Induct
<1> QED BY <1>3

-----------------------------------------------------------------------------
(* RtpWeights.  The running sums of a list.                                  *)

LEMMA SumsAre ==
    ASSUME NEW w \in Seq(Int)
    PROVE  /\ WeightsUpTo(w) \in [0..Len(w) -> Int]
           /\ WeightsUpTo(w)[0] = 0
           /\ \A i \in 1..Len(w) : WeightsUpTo(w)[i] = WeightsUpTo(w)[i - 1] + w[i]
<1> DEFINE N == Len(w)
           step == [i \in 1..N |-> [x \in Int |-> x + w[i]]]
           IsSum(f) == f = [i \in 0..N |-> IF i = 0 THEN 0 ELSE f[i - 1] + w[i]]
<1>1. N \in Nat /\ step \in [1..N -> [Int -> Int]]
  OBVIOUS
<1>2. PICK f \in [0..N -> Int] : f[0] = 0 /\ \A i \in 1..N : f[i] = step[i][f[i - 1]]
  <2> DEFINE S == Int
             zero == 0
  <2>1. zero \in S /\ N \in Nat /\ step \in [1..N -> [S -> S]]
    BY <1>1
  <2> HIDE DEF N, step, S, zero
  <2>2. \E f \in [0..N -> S] : f[0] = zero /\ \A i \in 1..N : f[i] = step[i][f[i - 1]]
    BY <2>1, LoopExists
  <2> QED BY <2>2 DEF S, zero
<1>3. ASSUME NEW i \in 1..N PROVE f[i] = f[i - 1] + w[i]
  <2> N \in Nat
    OBVIOUS
  <2>1. i - 1 \in 0..N
    OBVIOUS
  <2>2. f[i - 1] \in Int
    BY <2>1
  <2>3. step[i] = [x \in Int |-> x + w[i]] /\ f[i] = step[i][f[i - 1]]
    BY <1>2
  <2> QED BY <2>2, <2>3
<1>4. IsSum(f)
  BY <1>1, <1>2, <1>3
<1>5. ASSUME NEW g, IsSum(g) PROVE g = f
  <2> DEFINE Same == {n \in Nat : n <= N => g[n] = f[n]}
  <2>1. 0 \in Same
    BY <1>1, <1>2, <1>5
  <2>2. ASSUME NEW n \in Same PROVE n + 1 \in Same
    BY <1>1, <1>3, <1>5
  <2>3. Same = Nat
    <3> HIDE DEF N
    <3> QED BY <2>1, <2>2, Induct
  <2>4. \A n \in 0..N : g[n] = f[n]
    BY <1>1, <2>3
  <2> QED BY <1>2, <1>5, <2>4
<1>6. WeightsUpTo(w) = CHOOSE g : IsSum(g)
  BY DEF WeightsUpTo
<1>7. WeightsUpTo(w) = f
  <2> HIDE DEF IsSum
  <2> QED BY <1>4, <1>5, <1>6
<1> QED BY <1>2, <1>3, <1>7

\* With no negative weight the sums do not go down.
LEMMA SumsAscend ==
    ASSUME NEW w \in Seq(Int), \A i \in DOMAIN w : w[i] >= 0,
           NEW i \in 0..Len(w), NEW j \in 0..Len(w), i <= j
    PROVE  WeightsUpTo(w)[i] <= WeightsUpTo(w)[j]
<1> DEFINE N == Len(w)
           W == WeightsUpTo(w)
           Above == {n \in Nat : n <= N => \A k \in 0..n : W[k] <= W[n]}
<1>1. /\ N \in Nat /\ DOMAIN w = 1..N /\ W \in [0..N -> Int]
      /\ \A k \in 1..N : W[k] = W[k - 1] + w[k]
  BY SumsAre
<1> HIDE DEF N, W
<1>2. 0 \in Above
  BY <1>1
<1>3. ASSUME NEW n \in Above PROVE n + 1 \in Above
  <2> SUFFICES ASSUME n + 1 <= N, NEW k \in 0..n + 1 PROVE W[k] <= W[n + 1]
    OBVIOUS
  <2>1. n \in Nat /\ n <= N /\ \A l \in 0..n : W[l] <= W[n]
    BY <1>1
  <2> HIDE DEF Above
  <2>2. n + 1 \in 1..N /\ n \in 0..N /\ k \in 0..N /\ n + 1 \in 0..N /\ n + 1 - 1 = n
    BY <1>1, <2>1
  <2>3. W[n] \in Int /\ W[n + 1] \in Int /\ w[n + 1] \in Int /\ w[n + 1] >= 0
    <3>1. w[n + 1] \in Int /\ n + 1 \in DOMAIN w
      BY <2>2 DEF N
    <3> QED BY <1>1, <2>2, <3>1
  <2>4. W[n + 1] = W[n] + w[n + 1]
    BY <1>1, <2>2
  <2>5. CASE k = n + 1
    BY <2>3, <2>5
  <2>6. CASE k \in 0..n
    <3>1. W[k] \in Int /\ W[k] <= W[n]
      BY <1>1, <2>1, <2>2, <2>6
    <3> QED BY <2>3, <2>4, <3>1
  <2> QED BY <2>1, <2>5, <2>6
<1>4. Above = Nat
  <2> HIDE DEF Above
  <2>1. Above \in SUBSET Nat
    BY DEF Above
  <2> QED BY <1>2, <1>3, <2>1, Induct
<1>5. \A k \in 0..j : j <= N => W[k] <= W[j]
  <2>1. j \in Nat
    OBVIOUS
  <2> QED BY <1>4, <2>1
<1>6. i \in 0..j /\ j <= N
  BY DEF N
<1> QED BY <1>5, <1>6 DEF W

LEMMA EarliestIs ==
    ASSUME NEW I \in SUBSET Nat, I # {}
    PROVE  Earliest(I) \in I /\ \A j \in I : Earliest(I) <= j
BY Least DEF Earliest

\* Each random number below the sum is passed, at the rate whose weight it falls in.
LEMMA PassedWithin ==
    ASSUME NEW w \in Seq(Int), \A i \in DOMAIN w : w[i] >= 0, NEW n \in 0..SumOf(w) - 1
    PROVE  /\ PassedAt(w, n) \in DOMAIN w
           /\ \A i \in DOMAIN w :
                  PassedAt(w, n) = i <=> WeightsUpTo(w)[i - 1] <= n /\ n < WeightsUpTo(w)[i]
<1> DEFINE N == Len(w)
           W == WeightsUpTo(w)
           Passed == {k \in DOMAIN w : n < W[k]}
           p == PassedAt(w, n)
<1>1. /\ N \in Nat /\ DOMAIN w = 1..N /\ W \in [0..N -> Int] /\ W[0] = 0
      /\ \A i, j \in 0..N : i <= j => W[i] <= W[j]
  <2>1. \A i, j \in 0..N : i <= j => W[i] <= W[j]
    BY SumsAscend
  <2>2. W \in [0..N -> Int] /\ W[0] = 0
    BY SumsAre
  <2> QED BY <2>1, <2>2
<1>2. SumOf(w) = W[N] /\ p = Earliest(Passed)
  BY DEF SumOf, PassedAt
<1> HIDE DEF N, W, p
<1>3. N \in Passed
  <2>1. W[N] \in Int /\ n \in Nat /\ n < W[N]
    BY <1>1, <1>2
  <2>2. N # 0
    BY <1>1, <2>1
  <2> QED BY <1>1, <2>1, <2>2
<1>4. p \in Passed /\ \A j \in Passed : p <= j
  <2> HIDE DEF Passed
  <2>1. Passed \in SUBSET Nat
    BY <1>1 DEF Passed
  <2> QED BY <1>2, <1>3, <2>1, EarliestIs
<1>5. p \in 1..N /\ p - 1 \in 0..N /\ n \in Int
  BY <1>1, <1>2, <1>4
<1>6. W[p - 1] <= n
  <2>1. W[p - 1] \in Int
    BY <1>1, <1>5
  <2>2. CASE p - 1 = 0
    BY <1>1, <1>2, <2>2
  <2>3. CASE p - 1 # 0
    <3>1. p - 1 \in DOMAIN w /\ ~(p <= p - 1)
      BY <1>1, <1>5, <2>3
    <3>2. ~(n < W[p - 1])
      BY <1>4, <3>1
    <3> QED BY <2>1, <3>2, <1>5
  <2> QED BY <2>2, <2>3
<1>7. ASSUME NEW i \in DOMAIN w, W[i - 1] <= n, n < W[i] PROVE p = i
  <2>1. i \in Passed /\ p <= i /\ i \in 1..N /\ i - 1 \in 0..N
    BY <1>1, <1>4, <1>7
  <2>2. ASSUME p < i PROVE FALSE
    <3>1. p <= i - 1 /\ p \in 0..N
      BY <1>5, <2>1, <2>2
    <3>2. W[p] <= W[i - 1] /\ n < W[p] /\ W[p] \in Int /\ W[i - 1] \in Int
      BY <1>1, <1>4, <2>1, <3>1
    <3> QED BY <1>5, <1>7, <3>2
  <2> QED BY <1>5, <2>1, <2>2
<1>8. p \in DOMAIN w
  BY <1>1, <1>5
<1> QED BY <1>4, <1>6, <1>7, <1>8 DEF W, p

\* So each rate is drawn by as many random numbers as its weight says.
LEMMA DrawnAsWeighted ==
    ASSUME NEW w \in Seq(Int), \A i \in DOMAIN w : w[i] >= 0, NEW i \in DOMAIN w
    PROVE  Cardinality({n \in 0..SumOf(w) - 1 : PassedAt(w, n) = i}) = w[i]
<1> DEFINE N == Len(w)
           W == WeightsUpTo(w)
<1>1. /\ N \in Nat /\ DOMAIN w = 1..N /\ W \in [0..N -> Int] /\ W[0] = 0 /\ SumOf(w) = W[N]
      /\ W[i] = W[i - 1] + w[i]
  <2>1. W \in [0..N -> Int] /\ W[0] = 0 /\ \A k \in 1..N : W[k] = W[k - 1] + w[k]
    BY SumsAre
  <2> HIDE DEF W
  <2>2. SumOf(w) = W[N]
    BY DEF SumOf, W
  <2> QED BY <2>1, <2>2
<1>2. i - 1 \in 0..N /\ i \in 0..N /\ 0 \in 0..N /\ N \in 0..N /\ 0 <= i - 1 /\ i <= N
  BY <1>1
<1>3. 0 <= W[i - 1] /\ W[i] <= SumOf(w)
  BY <1>1, <1>2, SumsAscend
<1> HIDE DEF N, W
<1>4. W[i - 1] \in Int /\ W[i] \in Int /\ SumOf(w) \in Int /\ w[i] \in Int /\ w[i] >= 0
  BY <1>1, <1>2
<1>5. {n \in 0..SumOf(w) - 1 : PassedAt(w, n) = i} = W[i - 1]..W[i] - 1
  <2>1. ASSUME NEW n \in 0..SumOf(w) - 1 PROVE PassedAt(w, n) = i <=> W[i - 1] <= n /\ n < W[i]
    BY PassedWithin DEF W
  <2> QED BY <1>3, <1>4, <2>1
<1> DEFINE low == W[i - 1]
           high == W[i] - 1
<1>6. /\ low \in Int /\ high \in Int
      /\ IF low > high THEN w[i] = 0 ELSE w[i] = high - low + 1
  <2>1. W[i] = W[i - 1] + w[i]
    BY <1>1
  <2>2. \A x, y, z \in Int : y = x + z /\ z >= 0 =>
            IF x > y - 1 THEN z = 0 ELSE z = y - 1 - x + 1
    OBVIOUS
  <2>3. low \in Int /\ high \in Int
    BY <1>4
  <2> QED BY <1>4, <2>1, <2>2, <2>3
<1> HIDE DEF low, high
<1>7. Cardinality(low..high) = IF low > high THEN 0 ELSE high - low + 1
  BY <1>6, FS_Interval
<1> QED BY <1>5, <1>6, <1>7 DEF low, high

WeightsInv ==
    /\ WeightsTypeOK
    /\ rateDrawn # -1 => \E n \in 0..SumOf(weights) - 1 : rateDrawn = PassedAt(weights, n)

LEMMA WeightsInitInv == WeightsInit => WeightsInv
  BY DEF WeightsInit, WeightsInv, WeightsTypeOK

LEMMA WeightsStep == WeightsInv /\ [WeightsNext]_weightsVars => WeightsInv'
<1> SUFFICES ASSUME WeightsInv, [WeightsNext]_weightsVars PROVE WeightsInv'
  OBVIOUS
<1> USE DEF WeightsInv, WeightsTypeOK
<1>1. CASE LoadWeights
  BY <1>1 DEF LoadWeights
<1>2. CASE GetRateByWeight
  <2>1. PICK n \in 0..SumOf(weights) - 1 : randomNum' = n /\ rateDrawn' = PassedAt(weights, n)
    BY <1>2 DEF GetRateByWeight
  <2>2. UNCHANGED weights /\ weights \in Seq(Int)
    BY <1>2, WeightsAssumption DEF GetRateByWeight
  <2>3. PassedAt(weights, n) \in DOMAIN weights \cup {0}
    <3> DEFINE I == {i \in DOMAIN weights : n < WeightsUpTo(weights)[i]}
    <3>1. I \in SUBSET Nat
      BY <2>2
    <3>2. PassedAt(weights, n) = Earliest(I)
      BY DEF PassedAt
    <3>3. CASE I = {}
      BY <3>2, <3>3 DEF Earliest
    <3>4. CASE I # {}
      <4>1. Earliest(I) \in I
        <5> HIDE DEF I
        <5> QED BY <3>1, <3>4, EarliestIs
      <4> QED BY <3>2, <4>1
    <3> QED BY <3>3, <3>4
  <2>4. n \in Nat
    OBVIOUS
  <2> QED BY <2>1, <2>2, <2>3, <2>4
<1>3. CASE UNCHANGED weightsVars
  BY <1>3 DEF weightsVars
<1> QED BY <1>1, <1>2, <1>3 DEF WeightsNext

\* A rate is drawn by as many of the random numbers as its weight says, and no
\* number draws none, for all lists of weights none of which is negative.
THEOREM RatesDrawnByWeight == WeightsSpec => []DrawnByWeight
<1>1. ASSUME WeightsInv PROVE DrawnByWeight
  <2> SUFFICES ASSUME \A i \in DOMAIN weights : weights[i] >= 0
               PROVE  /\ rateDrawn # 0
                      /\ \A i \in DOMAIN weights :
                             Cardinality({n \in 0..SumOf(weights) - 1 : PassedAt(weights, n) = i})
                             = weights[i]
    BY DEF DrawnByWeight
  <2>1. weights \in Seq(Int)
    <3>1. weights \in WeightLists \cup {<<>>}
      BY <1>1 DEF WeightsInv, WeightsTypeOK
    <3>2. <<>> \in Seq(Int)
      OBVIOUS
    <3> QED BY <3>1, <3>2, WeightsAssumption
  <2>2. rateDrawn # 0
    BY <1>1, <2>1, PassedWithin DEF WeightsInv
  <2> QED BY <2>1, <2>2, DrawnAsWeighted
<1> QED BY <1>1, WeightsInitInv, WeightsStep, PTL DEF WeightsSpec

-----------------------------------------------------------------------------
(* RtpTiers.  What the loop keeps is ascending, and in range just the tiers.  *)

Ascending(s) == \A i, j \in DOMAIN s : i < j => s[i] < s[j]

LEMMA KeptAre ==
    ASSUME NEW a
    PROVE  /\ TiersKept(a)[0] = <<>>
           /\ \A n \in 1..Len(GlobalRtpTiers) :
                  /\ TiersKept(a)[n - 1] \in Seq(Int)
                  /\ TiersKept(a)[n] = IF IsRtpInRange(a, GlobalRtpTiers[n])
                                       THEN Append(TiersKept(a)[n - 1], GlobalRtpTiers[n])
                                       ELSE TiersKept(a)[n - 1]
<1> DEFINE G == GlobalRtpTiers
           N == Len(G)
           Tiers == Seq(Int)
           Round(n, s) == IF IsRtpInRange(a, G[n]) THEN Append(s, G[n]) ELSE s
           step == [n \in 1..N |-> [s \in Tiers |-> Round(n, s)]]
           IsKept(f) == f = [n \in 0..N |-> IF n = 0 THEN <<>> ELSE Round(n, f[n - 1])]
<1>1. N \in Nat /\ \A n \in 1..N : G[n] \in Int
  BY TiersAssumption
<1>2. <<>> \in Tiers /\ \A n \in 1..N, s \in Tiers : Round(n, s) \in Tiers
  BY <1>1
<1>3. step \in [1..N -> [Tiers -> Tiers]]
  <2> HIDE DEF Tiers, Round, N
  <2> QED BY <1>2
<1>4. PICK f \in [0..N -> Tiers] : f[0] = <<>> /\ \A n \in 1..N : f[n] = step[n][f[n - 1]]
  <2> DEFINE none == <<>>
  <2>1. none \in Tiers
    BY <1>2
  <2> HIDE DEF N, step, Tiers, none
  <2>2. \E f \in [0..N -> Tiers] : f[0] = none /\ \A n \in 1..N : f[n] = step[n][f[n - 1]]
    BY <1>1, <1>3, <2>1, LoopExists
  <2> QED BY <2>2 DEF none
<1>5. ASSUME NEW n \in 1..N PROVE f[n - 1] \in Tiers /\ f[n] = Round(n, f[n - 1])
  <2> HIDE DEF Tiers, Round, N
  <2>1. n - 1 \in 0..N
    BY <1>1
  <2>2. f[n - 1] \in Tiers
    BY <2>1
  <2> QED BY <1>4, <2>2
<1>6. IsKept(f)
  <2> HIDE DEF Round, N
  <2> QED BY <1>1, <1>4, <1>5
<1>7. ASSUME NEW g, IsKept(g) PROVE g = f
  <2> DEFINE Same == {n \in Nat : n <= N => g[n] = f[n]}
  <2> HIDE DEF Round, N
  <2>1. 0 \in Same
    BY <1>1, <1>4, <1>7
  <2>2. ASSUME NEW n \in Same PROVE n + 1 \in Same
    BY <1>1, <1>5, <1>7
  <2>3. Same = Nat
    BY <2>1, <2>2, Induct
  <2>4. ASSUME NEW n \in 0..N PROVE g[n] = f[n]
    <3>1. n \in Nat /\ n <= N
      BY <1>1
    <3>2. n \in Same
      <4> HIDE DEF Same
      <4> QED BY <2>3, <3>1
    <3> QED BY <3>1, <3>2
  <2> QED BY <1>4, <1>7, <2>4
<1>8. TiersKept(a) = CHOOSE g : IsKept(g)
  BY DEF TiersKept
<1>9. TiersKept(a) = f
  <2> HIDE DEF IsKept
  <2> QED BY <1>6, <1>7, <1>8
<1> QED BY <1>4, <1>5, <1>9

\* After n rounds.
LEMMA KeptInRange ==
    ASSUME NEW a, NEW n \in 0..Len(GlobalRtpTiers)
    PROVE  /\ TiersKept(a)[n] \in Seq(Int) /\ Ascending(TiersKept(a)[n])
           /\ Range(TiersKept(a)[n]) =
                  {t \in {GlobalRtpTiers[k] : k \in 1..n} : IsRtpInRange(a, t)}
<1> DEFINE G == GlobalRtpTiers
           N == Len(G)
           K == TiersKept(a)
           InRange(m) == {t \in {G[k] : k \in 1..m} : IsRtpInRange(a, t)}
           Holds(m) == K[m] \in Seq(Int) /\ Ascending(K[m]) /\ Range(K[m]) = InRange(m)
           Good == {m \in Nat : m <= N => Holds(m)}
<1>1. N \in Nat /\ \A i, j \in 1..N : G[i] \in Int /\ (i < j => G[i] < G[j])
  BY TiersAssumption
<1>2. Holds(0)
  <2>1. K[0] = <<>>
    BY KeptAre
  <2>2. <<>> \in Seq(Int) /\ Ascending(<<>>) /\ Range(<<>>) = {}
    BY DEF Ascending, Range
  <2>3. InRange(0) = {}
    OBVIOUS
  <2> QED BY <2>1, <2>2, <2>3
<1>3. ASSUME NEW m \in Nat, m + 1 <= N, Holds(m) PROVE Holds(m + 1)
  <2> HIDE DEF K
  <2> DEFINE s == K[m]
             t == G[m + 1]
  <2>1. m + 1 \in 1..N /\ m + 1 - 1 = m /\ t \in Int /\ s \in Seq(Int) /\ Ascending(s)
    BY <1>1, <1>3
  <2>2. K[m + 1] = IF IsRtpInRange(a, t) THEN Append(s, t) ELSE s
    BY <2>1, KeptAre DEF K
  <2>3. {G[k] : k \in 1..m + 1} = {G[k] : k \in 1..m} \cup {t}
    <3>1. 1..m + 1 = 1..m \cup {m + 1}
      OBVIOUS
    <3> QED BY <3>1
  <2>4. InRange(m + 1) = IF IsRtpInRange(a, t) THEN InRange(m) \cup {t} ELSE InRange(m)
    BY <2>3
  <2>5. \A i \in DOMAIN s : s[i] < t
    <3> TAKE i \in DOMAIN s
    <3>1. s[i] \in Range(s)
      BY DEF Range
    <3>2. PICK k \in 1..m : s[i] = G[k]
      BY <3>1, <1>3
    <3>3. k < m + 1 /\ k \in 1..N
      BY <1>1, <2>1
    <3> QED BY <1>1, <2>1, <3>2, <3>3
  <2> HIDE DEF s, t, InRange
  <2>6. Ascending(Append(s, t)) /\ Append(s, t) \in Seq(Int)
    <3>1. DOMAIN s = 1..Len(s) /\ Len(s) \in Nat /\ DOMAIN Append(s, t) = 1..Len(s) + 1
      BY <2>1
    <3>2. \A i \in 1..Len(s) : Append(s, t)[i] = s[i]
      BY <2>1
    <3>3. Append(s, t)[Len(s) + 1] = t
      BY <2>1
    <3> QED BY <2>1, <2>5, <3>1, <3>2, <3>3 DEF Ascending
  <2>7. Range(Append(s, t)) = Range(s) \cup {t}
    <3>1. DOMAIN s = 1..Len(s) /\ Len(s) \in Nat /\ DOMAIN Append(s, t) = 1..Len(s) + 1
      BY <2>1
    <3>2. \A i \in 1..Len(s) : Append(s, t)[i] = s[i]
      BY <2>1
    <3>3. Append(s, t)[Len(s) + 1] = t
      BY <2>1
    <3> QED BY <3>1, <3>2, <3>3 DEF Range
  <2> QED BY <1>3, <2>1, <2>2, <2>4, <2>6, <2>7 DEF s
<1>4. Good = Nat
  <2> HIDE DEF Holds, N
  <2>1. 0 \in Good
    BY <1>2
  <2>2. ASSUME NEW m \in Good PROVE m + 1 \in Good
    BY <1>1, <1>3
  <2> QED BY <2>1, <2>2, Induct
<1>5. Holds(n)
  <2> HIDE DEF Holds
  <2>1. n \in Nat /\ n <= N
    BY <1>1
  <2> QED BY <1>4, <2>1
<1> QED BY <1>5

LEMMA AllowedAre ==
    ASSUME NEW a
    PROVE  /\ AllowedRtpTiers(a) \in Seq(Int) /\ Ascending(AllowedRtpTiers(a))
           /\ Range(AllowedRtpTiers(a)) = {t \in Range(GlobalRtpTiers) : IsRtpInRange(a, t)}
<1>1. Len(GlobalRtpTiers) \in 0..Len(GlobalRtpTiers)
  BY TiersAssumption
<1>2. Range(GlobalRtpTiers) = {GlobalRtpTiers[k] : k \in 1..Len(GlobalRtpTiers)}
  BY TiersAssumption DEF Range
<1> QED BY <1>1, <1>2, KeptInRange DEF AllowedRtpTiers

\* sort.SearchInts finds the place of x in an ascending list.
LEMMA PlaceOf ==
    ASSUME NEW s \in Seq(Int), Ascending(s), NEW x \in Int
    PROVE  /\ SearchInts(s, x) \in 0..Len(s)
           /\ \A j \in 1..SearchInts(s, x) : s[j] < x
           /\ \A j \in SearchInts(s, x) + 1..Len(s) : s[j] >= x
<1> DEFINE I == {i \in 0..Len(s) : \A j \in i + 1..Len(s) : s[j] >= x}
           IsPlace(i) == (\A j \in 1..i : s[j] < x) /\ (\A j \in i + 1..Len(s) : s[j] >= x)
<1>1. Len(s) \in Nat /\ DOMAIN s = 1..Len(s) /\ \A j \in 1..Len(s) : s[j] \in Int
  OBVIOUS
<1>2. I \in SUBSET Nat /\ Len(s) \in I
  BY <1>1
<1>3. PICK m \in I : \A k \in I : m <= k
  <2> HIDE DEF I
  <2> QED BY <1>2, Least
<1>4. m \in 0..Len(s) /\ \A j \in m + 1..Len(s) : s[j] >= x
  OBVIOUS
<1>5. ASSUME NEW j \in 1..m, ~(s[j] < x) PROVE FALSE
  <2>1. j \in 1..Len(s) /\ j - 1 \in 0..Len(s) /\ s[j] \in Int
    BY <1>1, <1>4
  <2>2. ASSUME NEW k \in j - 1 + 1..Len(s) PROVE s[k] >= x
    <3>1. k \in 1..Len(s) /\ s[k] \in Int /\ (k = j \/ j < k)
      BY <1>1, <2>1
    <3>2. k = j \/ s[j] < s[k]
      BY <1>1, <2>1, <3>1 DEF Ascending
    <3> QED BY <1>5, <2>1, <3>1, <3>2
  <2>3. j - 1 \in I
    BY <2>1, <2>2
  <2>4. m <= j - 1
    <3> HIDE DEF I
    <3> QED BY <1>3, <2>3
  <2> QED BY <1>4, <2>4
<1>6. m \in 0..Len(s) /\ IsPlace(m)
  BY <1>1, <1>4, <1>5
<1>7. SearchInts(s, x) = CHOOSE i \in 0..Len(s) : IsPlace(i)
  BY DEF SearchInts
<1>8. SearchInts(s, x) \in 0..Len(s) /\ IsPlace(SearchInts(s, x))
  <2> HIDE DEF IsPlace
  <2> QED BY <1>6, <1>7
<1> QED BY <1>8

-----------------------------------------------------------------------------
(* FixRtp answers with the greatest tier in range not above v (FixedAre);    *)
(* where the limits reach the tiers, in range is what is legal (RangeLegal). *)

MerchantRows == [RtpMin : Limits \cup {0}, RtpMax : Limits \cup {0}]

\* The allowed tiers not above v.
UpTo(a, v) == {t \in Range(GlobalRtpTiers) : IsRtpInRange(a, t) /\ t <= v}

LEMMA GlobalTiers ==
    /\ GlobalRtpTiers \in Seq(Int) /\ Range(GlobalRtpTiers) \subseteq 1..MaxInt
    /\ Head(GlobalRtpTiers) \in Range(GlobalRtpTiers) /\ Last(GlobalRtpTiers) \in Range(GlobalRtpTiers)
    /\ \A t \in Range(GlobalRtpTiers) : Head(GlobalRtpTiers) <= t /\ t <= Last(GlobalRtpTiers)
<1> DEFINE G == GlobalRtpTiers
           N == Len(G)
<1>1. N \in Nat \ {0} /\ DOMAIN G = 1..N /\ G \in Seq(Int) /\ \A i \in 1..N : G[i] \in 1..MaxInt
  BY TiersAssumption
<1>2. Head(G) = G[1] /\ Last(G) = G[N]
  BY TiersAssumption DEF Last
<1>3. \A i, j \in 1..N : i < j => G[i] < G[j]
  BY <1>1, TiersAssumption
<1>4. MaxInt \in Int
  BY TiersAssumption
<1> HIDE DEF G, N
<1>5. ASSUME NEW i \in 1..N PROVE G[1] <= G[i] /\ G[i] <= G[N]
  <2>1. G[i] \in Int /\ G[1] \in Int /\ G[N] \in Int /\ 1 \in 1..N /\ N \in 1..N
    BY <1>1, <1>4
  <2>2. (i = 1 \/ G[1] < G[i]) /\ (i = N \/ G[i] < G[N])
    BY <1>1, <1>3, <2>1
  <2> QED BY <2>1, <2>2
<1> QED BY <1>1, <1>2, <1>5 DEF Range, G

LEMMA FixedAre ==
    ASSUME NEW a, NEW v \in MinInt..MaxInt, v = MaxInt => v \in Range(GlobalRtpTiers)
    PROVE  IF ~IsRtpInRange(a, v) \/ UpTo(a, v) = {} THEN FixRtp(a, v) = NoAnswer
           ELSE FixRtp(a, v) \in UpTo(a, v) /\ \A t \in UpTo(a, v) : t <= FixRtp(a, v)
<1> DEFINE s == AllowedRtpTiers(a)
           idx == SearchInts(s, Increment(v))
<1>1. s \in Seq(Int) /\ Ascending(s) /\ Range(s) = {t \in Range(GlobalRtpTiers) : IsRtpInRange(a, t)}
  BY AllowedAre
<1>2. /\ MinInt \in Int /\ MaxInt \in Int /\ v \in Int /\ Range(GlobalRtpTiers) \subseteq Int
      /\ Increment(v) \in Int
  BY TiersAssumption, GlobalTiers DEF Increment
<1>3. FixRtp(a, v) = IF ~IsRtpInRange(a, v) \/ s = <<>> THEN NoAnswer
                     ELSE IF v \in Range(s) THEN v ELSE IF idx = 0 THEN NoAnswer ELSE s[idx]
  BY DEF FixRtp
<1> HIDE DEF s
<1>4. idx \in 0..Len(s) /\ (\A j \in 1..idx : s[j] < Increment(v))
      /\ \A j \in idx + 1..Len(s) : s[j] >= Increment(v)
  BY <1>1, <1>2, PlaceOf
<1>5. UpTo(a, v) = {t \in Range(s) : t <= v}
  BY <1>1 DEF UpTo
<1>6. /\ Len(s) \in Nat /\ \A t \in Range(s) : \E j \in 1..Len(s) : t = s[j]
      /\ \A j \in 1..Len(s) : s[j] \in Range(s) /\ s[j] \in Int
  BY <1>1 DEF Range
<1> HIDE DEF idx
<1>7. CASE ~IsRtpInRange(a, v)
  BY <1>3, <1>7
<1>8. CASE IsRtpInRange(a, v) /\ v \in Range(s)
  <2>1. s # <<>> /\ v \in UpTo(a, v)
    BY <1>2, <1>5, <1>6, <1>8
  <2> QED BY <1>3, <1>5, <1>8, <2>1
<1>9. CASE IsRtpInRange(a, v) /\ v \notin Range(s)
  <2>1. Increment(v) = v + 1
    <3>1. v # MaxInt
      BY <1>1, <1>9
    <3> QED BY <3>1 DEF Increment
  <2>2. CASE idx = 0
    <3>1. ASSUME NEW t \in UpTo(a, v) PROVE FALSE
      <4>1. PICK j \in 1..Len(s) : t = s[j]
        BY <1>5, <1>6
      <4> QED BY <1>2, <1>4, <1>5, <1>6, <2>1, <2>2, <4>1
    <3> QED BY <1>3, <1>9, <2>2, <3>1
  <2>3. CASE idx # 0
    <3>1. idx \in 1..Len(s) /\ idx \in 1..idx
      BY <1>4, <1>6, <2>3
    <3>2. s[idx] \in UpTo(a, v)
      BY <1>2, <1>4, <1>5, <1>6, <2>1, <3>1
    <3>3. ASSUME NEW t \in UpTo(a, v) PROVE t <= s[idx]
      <4>1. PICK j \in 1..Len(s) : t = s[j]
        BY <1>5, <1>6
      <4>2. j <= idx
        BY <1>2, <1>4, <1>5, <1>6, <2>1, <3>1, <4>1
      <4>3. j = idx \/ s[j] < s[idx]
        BY <1>1, <3>1, <4>2 DEF Ascending
      <4> QED BY <1>6, <3>1, <4>1, <4>3
    <3>4. s # <<>>
      BY <1>6, <3>1
    <3> QED BY <1>3, <1>9, <2>3, <3>2, <3>3, <3>4
  <2> QED BY <2>2, <2>3
<1> QED BY <1>7, <1>8, <1>9

\* Whatever is asked, also where v + 1 is MinInt, the answer is a tier.
LEMMA FixedType ==
    ASSUME NEW a, NEW v \in MinInt..MaxInt
    PROVE  FixRtp(a, v) \in Range(GlobalRtpTiers) \cup {NoAnswer}
<1> DEFINE s == AllowedRtpTiers(a)
           idx == SearchInts(s, Increment(v))
<1>1. s \in Seq(Int) /\ Ascending(s) /\ Range(s) \subseteq Range(GlobalRtpTiers)
  BY AllowedAre
<1>2. Increment(v) \in Int
  BY TiersAssumption DEF Increment
<1>3. FixRtp(a, v) = IF ~IsRtpInRange(a, v) \/ s = <<>> THEN NoAnswer
                     ELSE IF v \in Range(s) THEN v ELSE IF idx = 0 THEN NoAnswer ELSE s[idx]
  BY DEF FixRtp
<1> HIDE DEF s
<1>4. idx \in 0..Len(s)
  BY <1>1, <1>2, PlaceOf
<1> HIDE DEF idx
<1>5. idx # 0 => s[idx] \in Range(s)
  BY <1>1, <1>4 DEF Range
<1> QED BY <1>1, <1>3, <1>5

LEMMA RangeLegal ==
    ASSUME NEW a \in MerchantRows, NEW v \in MinInt..MaxInt, LimitsReachTiers(a, v)
    PROVE  /\ \A t \in Range(GlobalRtpTiers) : IsRtpInRange(a, t) <=> Legal(a, t)
           /\ IsRtpInRange(a, v) => Legal(a, v)
           /\ Legal(a, v) /\ ~IsRtpInRange(a, v) => \A t \in Range(GlobalRtpTiers) : ~(t <= v)
<1> DEFINE low == Head(GlobalRtpTiers)
           high == Last(GlobalRtpTiers)
<1>1. /\ low \in Int /\ high \in Int /\ v \in Int /\ a.RtpMin \in Int /\ a.RtpMax \in Int
      /\ Range(GlobalRtpTiers) \subseteq Int
      /\ low <= high /\ 0 < low
      /\ \A t \in Range(GlobalRtpTiers) : low <= t /\ t <= high
  <2>1. MinInt \in Int /\ MaxInt \in Int /\ Limits \subseteq Int
    BY TiersAssumption
  <2>2. low \in 1..MaxInt /\ high \in 1..MaxInt /\ Range(GlobalRtpTiers) \subseteq 1..MaxInt
    BY GlobalTiers
  <2>3. v \in Int /\ a.RtpMin \in Int /\ a.RtpMax \in Int
    <3>1. a.RtpMin \in Limits \cup {0} /\ a.RtpMax \in Limits \cup {0}
      BY DEF MerchantRows
    <3>2. v \in Int
      BY <2>1
    <3>3. \A x \in Limits \cup {0} : x \in Int
      BY <2>1
    <3> QED BY <3>1, <3>2, <3>3, Zenon
  <2>4. \A t \in Range(GlobalRtpTiers) : low <= t /\ t <= high
    BY GlobalTiers
  <2>5. low <= high
    BY <2>4, GlobalTiers
  <2> HIDE DEF low, high
  <2> QED BY <2>1, <2>2, <2>3, <2>4, <2>5
<1>2. /\ a.RtpMax > 0 => a.RtpMax >= low
      /\ a.RtpMin > 0 => a.RtpMin <= high
      /\ HasRtpLimit(a) => v <= high
  BY DEF LimitsReachTiers
<1>3. \A t : IsRtpInRange(a, t) <=>
          LET min == IF a.RtpMin <= 0 THEN low ELSE a.RtpMin
              max == IF a.RtpMax <= 0 THEN high ELSE a.RtpMax
          IN  HasRtpLimit(a) => IF min > max THEN t >= max /\ t <= min ELSE t >= min /\ t <= max
  BY DEF IsRtpInRange, RtpBounds
<1> HIDE DEF low, high
<1> USE DEF HasRtpLimit
<1>4. ASSUME NEW t \in Range(GlobalRtpTiers) PROVE IsRtpInRange(a, t) <=> Legal(a, t)
  <2>1. t \in Int /\ low <= t /\ t <= high
    BY <1>1
  <2> QED BY <1>1, <1>2, <1>3, <2>1 DEF Legal, WithinLimits, LimitsExchanged, AtLeast, AtMost
<1>5. IsRtpInRange(a, v) => Legal(a, v)
  BY <1>1, <1>2, <1>3 DEF Legal, WithinLimits, LimitsExchanged, AtLeast, AtMost
<1>6. Legal(a, v) /\ ~IsRtpInRange(a, v) => v < low
  BY <1>1, <1>2, <1>3 DEF Legal, WithinLimits, LimitsExchanged, AtLeast, AtMost
<1>7. v < low => \A t \in Range(GlobalRtpTiers) : ~(t <= v)
  BY <1>1
<1> QED BY <1>4, <1>5, <1>6, <1>7

TiersInv ==
    /\ TiersTypeOK
    /\ rtpAsked # NoAnswer => rtpFixed = FixRtp(merchant, rtpAsked)

LEMMA TiersInitInv == TiersInit => TiersInv
  BY DEF TiersInit, TiersInv, TiersTypeOK

LEMMA TiersStep == TiersInv /\ [TiersNext]_tiersVars => TiersInv'
<1> SUFFICES ASSUME TiersInv, [TiersNext]_tiersVars PROVE TiersInv'
  OBVIOUS
<1> USE DEF TiersInv, TiersTypeOK
<1>1. ASSUME NEW min \in Limits, NEW max \in Limits, SetLimits(min, max) PROVE TiersInv'
  BY <1>1 DEF SetLimits
<1>2. ASSUME NEW v \in Requests, AskRtp(v) PROVE TiersInv'
  <2>1. v \in MinInt..MaxInt
    BY TiersAssumption
  <2>2. FixRtp(merchant, v) \in Range(GlobalRtpTiers) \cup {NoAnswer}
    BY <2>1, FixedType
  <2> QED BY <1>2, <2>2 DEF AskRtp
<1>3. CASE UNCHANGED tiersVars
  BY <1>3 DEF tiersVars
<1> QED BY <1>1, <1>2, <1>3 DEF TiersNext

\* FixRtp answers with the greatest tier within the merchant's limits that is not
\* above the RTP asked for, or refuses, for all tables of tiers, limits and requests.
THEOREM RtpFixedToTier == TiersSpec => []FixedIsGreatestTier
<1>1. ASSUME TiersInv PROVE FixedIsGreatestTier
  <2> DEFINE a == merchant
             v == rtpAsked
             T == Range(GlobalRtpTiers)
  <2> SUFFICES ASSUME v # NoAnswer, LimitsReachTiers(a, v)
               PROVE  IF GreatestTier(a, v) = {} THEN rtpFixed = NoAnswer
                      ELSE rtpFixed \in GreatestTier(a, v)
    BY DEF FixedIsGreatestTier
  <2>1. a \in MerchantRows /\ v \in MinInt..MaxInt /\ rtpFixed = FixRtp(a, v)
    BY <1>1, TiersAssumption DEF TiersInv, TiersTypeOK, MerchantRows
  <2> HIDE DEF a, v
  <2>2. T \subseteq Int /\ v \in Int /\ NoAnswer \notin T
    BY <2>1, GlobalTiers, TiersAssumption
  <2>3. v = MaxInt => v \in T
    <3>1. Last(GlobalRtpTiers) \in T /\ Last(GlobalRtpTiers) \in 1..MaxInt /\ MaxInt \in Int
      BY GlobalTiers, TiersAssumption
    <3> QED BY <2>2, <3>1 DEF LimitsReachTiers
  <2>4. /\ \A t \in T : IsRtpInRange(a, t) <=> Legal(a, t)
        /\ IsRtpInRange(a, v) => Legal(a, v)
        /\ Legal(a, v) /\ ~IsRtpInRange(a, v) => \A t \in T : ~(t <= v)
    BY <2>1, RangeLegal
  <2>5. IF ~IsRtpInRange(a, v) \/ UpTo(a, v) = {} THEN rtpFixed = NoAnswer
        ELSE rtpFixed \in UpTo(a, v) /\ \A t \in UpTo(a, v) : t <= rtpFixed
    BY <2>1, <2>3, FixedAre
  <2>6. UpTo(a, v) = {t \in T : Legal(a, t) /\ t <= v}
    BY <2>4 DEF UpTo
  <2> HIDE DEF T
  <2>7. CASE ~IsRtpInRange(a, v) \/ UpTo(a, v) = {}
    <3>1. GreatestTier(a, v) = {}
      BY <2>4, <2>6, <2>7 DEF GreatestTier, T
    <3> QED BY <2>5, <2>7, <3>1
  <2>8. CASE IsRtpInRange(a, v) /\ UpTo(a, v) # {}
    <3>1. rtpFixed \in T /\ Legal(a, v) /\ Legal(a, rtpFixed) /\ rtpFixed <= v
      BY <2>4, <2>5, <2>6, <2>8
    <3>2. ASSUME NEW u \in T, u > rtpFixed, u <= v PROVE ~Legal(a, u)
      BY <2>2, <2>5, <2>6, <2>8, <3>1, <3>2
    <3>3. rtpFixed \in GreatestTier(a, v)
      BY <3>1, <3>2 DEF GreatestTier, T
    <3> QED BY <3>3
  <2> QED BY <2>7, <2>8
<1> QED BY <1>1, TiersInitInv, TiersStep, PTL DEF TiersSpec

-----------------------------------------------------------------------------
(* RtpSamples.  The invariant follows a load: while it stores the lists,     *)
(* those it is through with are its own (StoredByLoad), so that when it      *)
(* stores the list of rates each of them has samples at least as new         *)
(* (ListedHaveSamples), which no later load can undo.                        *)

StoredByLoad ==
    /\ \A r \in loading \ toStore : rateIds[r] = loads
    /\ loading # {} => loads > 0

ListedHaveSamples ==
    \A r \in allRates.rates : rateIds[r] >= allRates.load /\ allRates.load > 0

\* Nothing is newer than the load that is counted last.
NoneFromFuture ==
    /\ allRates.load <= loads
    /\ \A s \in Spins : drawn[s] # NoRate => drawn[s].load <= loads

SamplesInv ==
    SamplesTypeOK /\ StoredByLoad /\ ListedHaveSamples /\ NoneFromFuture /\ DrawnRateHasSamples

LEMMA SamplesInitInv == SamplesInit => SamplesInv
  BY SamplesAssumption
  DEF SamplesInit, SamplesInv, SamplesTypeOK, StoredByLoad, ListedHaveSamples, NoneFromFuture,
      DrawnRateHasSamples

LEMMA GroupRecordsStep ==
    ASSUME SamplesInv, NEW rates \in SUBSET Rates, GroupRecords(rates)
    PROVE  SamplesInv'
<1> USE SamplesAssumption DEF GroupRecords, SamplesInv, SamplesTypeOK
<1>1. loads \in Nat /\ loads' = loads + 1 /\ allRates.load \in Nat
  OBVIOUS
<1>2. \A s \in Spins : drawn[s] # NoRate => drawn[s].load \in Nat
  OBVIOUS
<1>3. SamplesTypeOK'
  OBVIOUS
<1>4. StoredByLoad' /\ ListedHaveSamples' /\ DrawnRateHasSamples'
  BY <1>1 DEF StoredByLoad, ListedHaveSamples, DrawnRateHasSamples
<1>5. NoneFromFuture'
  BY <1>1, <1>2 DEF NoneFromFuture
<1> QED BY <1>3, <1>4, <1>5

\* The list that is replaced gets the newest load's number.
LEMMA StoreRateStep ==
    ASSUME SamplesInv, NEW r \in Rates, StoreRate(r)
    PROVE  SamplesInv'
<1> USE SamplesAssumption DEF StoreRate, SamplesInv, SamplesTypeOK
<1>1. loads \in 0..MaxLoads /\ rateIds' = [rateIds EXCEPT ![r] = loads]
  OBVIOUS
<1>2. SamplesTypeOK'
  OBVIOUS
<1>3. StoredByLoad' /\ NoneFromFuture'
  BY <1>1 DEF StoredByLoad, NoneFromFuture
<1>4. ListedHaveSamples'
  BY <1>1 DEF ListedHaveSamples, NoneFromFuture
<1>5. DrawnRateHasSamples'
  <2> SUFFICES ASSUME NEW s \in Spins, drawn[s] # NoRate
               PROVE  rateIds'[drawn[s].rate] >= drawn[s].load /\ drawn[s].load > 0
    BY DEF DrawnRateHasSamples
  <2>1. drawn[s].rate \in Rates /\ drawn[s].load \in 0..MaxLoads
    OBVIOUS
  <2> QED BY <2>1, <1>1 DEF DrawnRateHasSamples, NoneFromFuture
<1> QED BY <1>2, <1>3, <1>4, <1>5

LEMMA StoreAllRatesStep ==
    ASSUME SamplesInv, StoreAllRates
    PROVE  SamplesInv'
<1> USE SamplesAssumption DEF StoreAllRates, ListsStored, SamplesInv, SamplesTypeOK
<1>1. /\ loads \in 0..MaxLoads /\ loads > 0
      /\ \A r \in loading : rateIds[r] = loads
  BY DEF StoredByLoad
<1>2. SamplesTypeOK'
  OBVIOUS
<1>3. StoredByLoad' /\ DrawnRateHasSamples'
  BY DEF StoredByLoad, DrawnRateHasSamples
<1>4. ListedHaveSamples' /\ NoneFromFuture'
  BY <1>1 DEF ListedHaveSamples, NoneFromFuture
<1> QED BY <1>2, <1>3, <1>4

LEMMA SpinStep ==
    ASSUME SamplesInv, NEW s \in Spins, GetRoundRate(s) \/ GetOneSimpleByRate(s)
    PROVE  SamplesInv'
<1> USE SamplesAssumption DEF cacheVars, SamplesInv, SamplesTypeOK
<1>1. PICK d \in {NoRate} \cup [rate : allRates.rates, load : {allRates.load}] :
        drawn' = [drawn EXCEPT ![s] = d]
  BY DEF GetRoundRate, GetOneSimpleByRate
<1>2. UNCHANGED cacheVars
  BY DEF GetRoundRate, GetOneSimpleByRate
<1>3. SamplesTypeOK'
  BY <1>1, <1>2
<1>4. StoredByLoad' /\ ListedHaveSamples'
  BY <1>2 DEF StoredByLoad, ListedHaveSamples
<1>5. NoneFromFuture' /\ DrawnRateHasSamples'
  BY <1>1, <1>2 DEF ListedHaveSamples, NoneFromFuture, DrawnRateHasSamples
<1> QED BY <1>3, <1>4, <1>5

LEMMA SamplesStep == SamplesInv /\ [SamplesNext]_samplesVars => SamplesInv'
<1> SUFFICES ASSUME SamplesInv, [SamplesNext]_samplesVars PROVE SamplesInv'
  OBVIOUS
<1>1. CASE UNCHANGED samplesVars
  BY <1>1 DEF samplesVars, cacheVars, SamplesInv, SamplesTypeOK, StoredByLoad, ListedHaveSamples,
              NoneFromFuture, DrawnRateHasSamples
<1>2. CASE SamplesNext
  BY <1>2, GroupRecordsStep, StoreRateStep, StoreAllRatesStep, SpinStep DEF SamplesNext
<1> QED BY <1>1, <1>2

\* A spin that has drawn a rate finds samples of it, as new as the list of rates
\* it drew from, for any rates, any number of spins and loads at the same time.
THEOREM DrawnRatesHaveSamples == SamplesSpec => []DrawnRateHasSamples
<1>1. SamplesInv => DrawnRateHasSamples
  BY DEF SamplesInv
<1> QED BY <1>1, SamplesInitInv, SamplesStep, PTL DEF SamplesSpec

=============================================================================
