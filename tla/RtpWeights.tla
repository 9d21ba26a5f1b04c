----------------------------- MODULE RtpWeights -----------------------------
(***************************************************************************)
(* slot.Rtp.GetRateByWeight: a rate drawn by weight from the list that     *)
(* LoadWeightsFromJSON has found not to be empty.                          *)
(***************************************************************************)
EXTENDS Integers, FiniteSets, Sequences

CONSTANTS WeightLists       \* the weights of a list of rates, not validated

ASSUME WeightsAssumption == WeightLists \subseteq Seq(Int) \ {<<>>}

VARIABLES
    weights,        \* the Weighting of each rate
    randomNum,      \* -1 before the draw
    rateDrawn       \* the position of the rate, 0 if none; -1 if rand.IntN panics

weightsVars == <<weights, randomNum, rateDrawn>>

WeightsInit ==
    /\ weights = <<>>
    /\ randomNum = -1
    /\ rateDrawn = -1

\* currentWeight after each round of the loop.
WeightsUpTo(w) ==
    LET sum[i \in 0..Len(w)] == IF i = 0 THEN 0 ELSE sum[i - 1] + w[i] IN sum

SumOf(w) == WeightsUpTo(w)[Len(w)]

\* The first rate at which the sum of the weights has passed n.  (Mutant: has
\* reached it.)
Earliest(I) == IF I = {} THEN 0 ELSE CHOOSE i \in I : \A j \in I : i <= j
ReachedAt(w, n) == Earliest({i \in DOMAIN w : n <= WeightsUpTo(w)[i]})
PassedAt(w, n) == Earliest({i \in DOMAIN w : n < WeightsUpTo(w)[i]})

LoadWeights ==
    /\ weights' \in WeightLists
    /\ randomNum' = -1 /\ rateDrawn' = -1

\* rand.IntN has no random number to give when the sum is not positive.
GetRateByWeight ==
    /\ weights # <<>> /\ randomNum = -1
    /\ \E n \in 0..SumOf(weights) - 1 :
           randomNum' = n /\ rateDrawn' = PassedAt(weights, n)
    /\ UNCHANGED weights

WeightsNext == LoadWeights \/ GetRateByWeight

WeightsSpec == WeightsInit /\ [][WeightsNext]_weightsVars

-----------------------------------------------------------------------------
(* Properties.                                                              *)

WeightsTypeOK ==
    /\ weights \in WeightLists \cup {<<>>}
    /\ randomNum \in Nat \cup {-1}
    /\ rateDrawn \in DOMAIN weights \cup {0, -1}

\* As long as no weight is negative, a rate is drawn by as many of the random
\* numbers as its weight says, one of weight 0 never, and no number draws none.
DrawnByWeight ==
    (\A i \in DOMAIN weights : weights[i] >= 0) =>
        /\ rateDrawn # 0
        /\ \A i \in DOMAIN weights :
               Cardinality({n \in 0..SumOf(weights) - 1 : PassedAt(weights, n) = i}) = weights[i]
=============================================================================
