------------------------------ MODULE RtpTiers ------------------------------
(***************************************************************************)
(* How the RTP of a merchant is settled: models.AppInfo.FixRtp, on the     *)
(* limits and the RTP the back office enters.                              *)
(***************************************************************************)
EXTENDS Integers, Sequences, SequencesExt, Functions

CONSTANTS
    GlobalRtpTiers, \* the RTPs a merchant may have, ascending
    Limits,         \* values the back office enters for RtpMin and RtpMax
    Requests,       \* RTPs it asks for
    MaxInt,         \* the greatest int, after which comes MinInt
    MinInt,
    NoAnswer        \* an error, or nothing asked yet

ASSUME TiersAssumption ==
    /\ MaxInt \in Nat /\ MinInt \in Int \ Nat
    /\ GlobalRtpTiers \in Seq(1..MaxInt) /\ GlobalRtpTiers # <<>>
    /\ \A i, j \in DOMAIN GlobalRtpTiers : i < j => GlobalRtpTiers[i] < GlobalRtpTiers[j]
    /\ Limits \subseteq MinInt..MaxInt /\ Requests \subseteq MinInt..MaxInt
    /\ NoAnswer \notin MinInt..MaxInt

VARIABLES
    merchant,       \* the merchant's row
    rtpAsked,       \* the argument of FixRtp
    rtpFixed        \* its result

tiersVars == <<merchant, rtpAsked, rtpFixed>>

TiersInit ==
    /\ merchant = [RtpMin |-> 0, RtpMax |-> 0]
    /\ rtpAsked = NoAnswer /\ rtpFixed = NoAnswer

Increment(v) == IF v = MaxInt THEN MinInt ELSE v + 1

HasRtpLimit(a) == a.RtpMin > 0 \/ a.RtpMax > 0

\* Limits not set are the lowest and the highest tier; entered the wrong way
\* round they are exchanged.  (Mutant: they are not.)
BoundsAsEntered(a) ==
    [min |-> IF a.RtpMin <= 0 THEN Head(GlobalRtpTiers) ELSE a.RtpMin,
     max |-> IF a.RtpMax <= 0 THEN Last(GlobalRtpTiers) ELSE a.RtpMax]
RtpBounds(a) ==
    LET min == IF a.RtpMin <= 0 THEN Head(GlobalRtpTiers) ELSE a.RtpMin
        max == IF a.RtpMax <= 0 THEN Last(GlobalRtpTiers) ELSE a.RtpMax
    IN  IF min > max THEN [min |-> max, max |-> min] ELSE [min |-> min, max |-> max]

IsRtpInRange(a, v) == HasRtpLimit(a) => v >= RtpBounds(a).min /\ v <= RtpBounds(a).max

\* The tiers after each round of the loop.
TiersKept(a) ==
    LET tiers[n \in 0..Len(GlobalRtpTiers)] ==
            IF n = 0 THEN <<>>
            ELSE IF IsRtpInRange(a, GlobalRtpTiers[n]) THEN Append(tiers[n - 1], GlobalRtpTiers[n])
            ELSE tiers[n - 1]
    IN  tiers

AllowedRtpTiers(a) == TiersKept(a)[Len(GlobalRtpTiers)]

\* sort.SearchInts: how many elements come before the place of x.
SearchInts(s, x) ==
    CHOOSE i \in 0..Len(s) : (\A j \in 1..i : s[j] < x) /\ (\A j \in i + 1..Len(s) : s[j] >= x)

FixRtp(a, v) ==
    LET tiers == AllowedRtpTiers(a)
        idx == SearchInts(tiers, Increment(v))
    IN  IF ~IsRtpInRange(a, v) \/ tiers = <<>> THEN NoAnswer
        ELSE IF v \in Range(tiers) THEN v
        ELSE IF idx = 0 THEN NoAnswer ELSE tiers[idx]

SetLimits(min, max) ==
    /\ merchant' = [RtpMin |-> min, RtpMax |-> max]
    /\ rtpAsked' = NoAnswer /\ rtpFixed' = NoAnswer

AskRtp(v) ==
    /\ rtpAsked = NoAnswer
    /\ rtpAsked' = v /\ rtpFixed' = FixRtp(merchant, v)
    /\ UNCHANGED merchant

TiersNext ==
    \/ \E min, max \in Limits : SetLimits(min, max)
    \/ \E v \in Requests : AskRtp(v)

TiersSpec == TiersInit /\ [][TiersNext]_tiersVars

-----------------------------------------------------------------------------
(* Properties.                                                              *)

TiersTypeOK ==
    /\ merchant \in [RtpMin : Limits \cup {0}, RtpMax : Limits \cup {0}]
    /\ rtpAsked \in Requests \cup {NoAnswer}
    /\ rtpFixed \in Range(GlobalRtpTiers) \cup {NoAnswer}

\* What the columns' comments say: 0 is no limit.
AtLeast(v, min) == min > 0 => v >= min
AtMost(v, max) == max > 0 => v <= max
WithinLimits(a, v) == AtLeast(v, a.RtpMin) /\ AtMost(v, a.RtpMax)
LimitsExchanged(a, v) == AtLeast(v, a.RtpMax) /\ AtMost(v, a.RtpMin)

Legal(a, v) ==
    IF a.RtpMin > a.RtpMax /\ a.RtpMax > 0 THEN LimitsExchanged(a, v) ELSE WithinLimits(a, v)

\* A limit not set counts as the lowest or the highest tier once the other one
\* is set.  That is as good as none if the other does not lie beyond it, and the
\* RTP asked for neither: an upper limit below the lowest tier counts as a lower
\* one.  MaxInt + 1 is negative.
LimitsReachTiers(a, v) ==
    /\ a.RtpMax > 0 => a.RtpMax >= Head(GlobalRtpTiers)
    /\ a.RtpMin > 0 => a.RtpMin <= Last(GlobalRtpTiers)
    /\ IF HasRtpLimit(a) THEN v <= Last(GlobalRtpTiers) ELSE v < MaxInt

\* The greatest legal tier not above what was asked for, if that is legal.
GreatestTier(a, v) ==
    {t \in Range(GlobalRtpTiers) :
        /\ Legal(a, v) /\ Legal(a, t) /\ t <= v
        /\ \A u \in Range(GlobalRtpTiers) : u > t /\ u <= v => ~Legal(a, u)}

\* FixRtp answers with the greatest tier within the merchant's limits that is
\* not above the RTP asked for, or refuses when there is none or it is beyond
\* the limits, whether they are set or not, and whichever is the greater.
FixedIsGreatestTier ==
    rtpAsked # NoAnswer /\ LimitsReachTiers(merchant, rtpAsked) =>
        IF GreatestTier(merchant, rtpAsked) = {} THEN rtpFixed = NoAnswer
        ELSE rtpFixed \in GreatestTier(merchant, rtpAsked)
=============================================================================
