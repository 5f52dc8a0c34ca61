---------------------------- MODULE SourcingVerdict ----------------------------
(***************************************************************************)
(* The verdict on a distributor's row and the order in which a list of     *)
(* rows is shown (sourcing/m15_sourcing/scoring.py).                       *)
(*                                                                         *)
(* Money is in cents, a percentage in hundredths, a rate of sale and a     *)
(* number of days in tenths.  None is an absent value or threshold.        *)
(***************************************************************************)
EXTENDS Rounding, Ordered, Sequences, FiniteSets

CONSTANTS
    Nets, Rois,        \* net profits and ROIs of the offers that occur
    Shares,            \* estimated monthly sales, and None
    Sellers,           \* sellers on a listing, and None
    OrderUnits,        \* the minimum order, and None
    ThresholdSets,     \* the Thresholds compared with each other
    RowKinds,          \* the sets of scored channels a row of a list may have
    ListLength,        \* bound: the rows of a list
    Blank

(* Thresholds: what a buyer will accept; None is one that is not set.      *)
BuyBoxes ==
    [minNet : Int, minRoi : Int, minMargin : Int, maxCapital : Int, maxSellers : Int,
     minShare : Int, maxDays : Int, minAnnual : Int, lead : Int,
     stability : BOOLEAN, listing : BOOLEAN]

ScoredChannels ==
    [verdict : {"pass", "watch", "fail"}, net : Int, margin : Int, annual : Int, projected : Int]

ASSUME VerdictAssumption ==
    /\ \A S \in {Nets, Rois, Shares, Sellers, OrderUnits} : S \subseteq Int
    /\ \A th \in ThresholdSets : th \in BuyBoxes
    /\ \A row \in RowKinds : row \subseteq ScoredChannels /\ IsFiniteSet(row)
    /\ ListLength \in Nat

VARIABLE verdict       \* the latest answer

verdictVars == verdict

Actionable == {"observed", "direct", "rank", "velocity", "badge"}
Confidences == Actionable \cup {"heuristic", "unknown"}
Tier == [pass |-> 2, watch |-> 1, fail |-> 0]

-----------------------------------------------------------------------------
(* One channel                                                             *)

(* DemandEstimate.unit_share: a seller-specific measure is not divided.    *)
UnitShare(offer) ==
    LET others == Max({0, offer.sellers})
    IN  IF offer.sales = None THEN None
        ELSE IF offer.confidence = "observed" THEN offer.sales
        ELSE Rounded(offer.sales, others + 1)

SellThroughDays(units, share) ==
    IF units <= 0 \/ share <= 0 THEN None
    ELSE Max({10, Rounded(units * 3000, share)})

MaxAnnualizedRoi == 200000

AnnualizedRoi(roi, days, lead) ==
    IF days = None THEN None
    ELSE Clamp(-MaxAnnualizedRoi, Rounded(roi * 3650, days + Max({0, lead})), MaxAnnualizedRoi)

(* What speaks against a row for good.                                     *)
HardFails(offer, th) ==
    LET share == UnitShare(offer)
        days == SellThroughDays(offer.units, share)
        lead == IF offer.lead # None THEN offer.lead ELSE th.lead
        annual == AnnualizedRoi(offer.roi, days, lead)
    IN  \/ offer.net < th.minNet
        \/ offer.roi < th.minRoi
        \/ th.minMargin # None /\ offer.margin < th.minMargin
        \/ th.maxCapital # None /\ offer.buyCost # None /\ offer.buyCost > th.maxCapital
        \/ th.maxSellers # None /\ offer.sellers > th.maxSellers
        \/ share # None /\ offer.confidence \in Actionable /\ share < th.minShare
        \/ days # None /\ th.maxDays # None /\ days > th.maxDays
        \/ days # None /\ th.minAnnual # None /\ annual < th.minAnnual
        \/ th.stability /\ offer.prices >= 3 /\ ~offer.stable

(* What cannot be told yet.                                                *)
SoftFlags(offer, th) ==
    \/ UnitShare(offer) = None \/ offer.confidence \notin Actionable
    \/ SellThroughDays(offer.units, UnitShare(offer)) = None
    \/ th.stability /\ offer.prices < 3
    \/ offer.brand # "authorized"
    \/ offer.guessed

(* Mutant: a gate that is switched off leaves the row unjudged.            *)
VerdictGatesOff(offer, th) ==
    IF ~offer.listed THEN IF th.listing THEN "fail" ELSE "watch"
    ELSE IF HardFails(offer, th) THEN "fail"
    ELSE IF SoftFlags(offer, th) \/ th.maxDays = None THEN "watch" ELSE "pass"

(* score_channel                                                           *)
ScoreVerdict(offer, th) ==
    IF ~offer.listed THEN IF th.listing THEN "fail" ELSE "watch"
    ELSE IF HardFails(offer, th) THEN "fail"
    ELSE IF SoftFlags(offer, th) THEN "watch" ELSE "pass"

(* The monthly profit a row is ranked on: ten units where none is known.   *)
Projected(offer) ==
    LET units == IF UnitShare(offer) # None THEN UnitShare(offer) ELSE 100
    IN  IF offer.net > 0 THEN Rounded(offer.net * units, 10) ELSE offer.net

-----------------------------------------------------------------------------
(* A row is a set of scored channels.                                      *)

OrZero(x) == IF x = None THEN 0 ELSE x

(* _sort_key; `or -1.0` makes an annualized ROI of exactly 0 unknown too.  *)
SortKey(c, policy) ==
    CASE policy = "monthly_profit" -> <<c.projected, OrZero(c.annual)>>
      [] policy = "margin"         -> <<c.margin, c.projected>>
      [] OTHER                     -> <<IF c.annual \in {None, 0} THEN -100 ELSE c.annual, c.projected>>

Above(k, l) == k[1] > l[1] \/ (k[1] = l[1] /\ k[2] > l[2])

BestChannel(row, policy) ==
    CHOOSE c \in row : \A d \in row :
        \/ Tier[c.verdict] > Tier[d.verdict]
        \/ /\ Tier[c.verdict] = Tier[d.verdict]
           /\ ~Above(SortKey(d, policy), SortKey(c, policy))

RowVerdict(row, policy) == IF row = {} THEN "fail" ELSE BestChannel(row, policy).verdict

-----------------------------------------------------------------------------
(* A list                                                                  *)

(* The two axes of the slider, before they are scaled.                     *)
Velocity(row, policy) == IF row = {} THEN 0 ELSE Max({0, OrZero(BestChannel(row, policy).annual)})
Dollars(row, policy)  == IF row = {} THEN 0 ELSE Max({0, BestChannel(row, policy).net})

(* _normalize, in thousandths of the largest value, with its floor.        *)
Normalized(values, v) ==
    LET top == Max({1} \cup {x \in values : x > 0})
    IN  IF v > 0 THEN Max({1, Rounded(1000 * v, top)}) ELSE 1

(* A row on an axis, among the rows of its list.                           *)
Fast(rows, i, policy) ==
    Normalized({Velocity(rows[j], policy) : j \in DOMAIN rows}, Velocity(rows[i], policy))
Fat(rows, i, policy) ==
    Normalized({Dollars(rows[j], policy) : j \in DOMAIN rows}, Dollars(rows[i], policy))

(* blend_score for a bias of k / 2: the square of the geometric mean.      *)
Blend(v, m, k) == CASE k = 0 -> m * m [] k = 1 -> v * m [] k = 2 -> v * v

Score(rows, i, policy, k) == Blend(Fast(rows, i, policy), Fat(rows, i, policy), k)

(* The key of a row: its verdict, then the slider's score or, without a    *)
(* slider (bias None), the policy's pair.                                  *)
RankKey(rows, i, policy, bias) ==
    LET row == rows[i] IN
    [tier |-> Tier[RowVerdict(row, policy)],
     pair |-> IF bias # None THEN <<Score(rows, i, policy, bias), 0>>
              ELSE IF row = {} THEN <<-100, 0>> ELSE SortKey(BestChannel(row, policy), policy)]

Outranks(k, l) == k.tier > l.tier \/ (k.tier = l.tier /\ Above(k.pair, l.pair))

Sorted(keys, ahead) == FirstOf(DOMAIN keys, Cardinality(DOMAIN keys), ahead)

(* Mutant: the slider's score before the verdict.                          *)
RankScoreFirst(rows, policy, bias) ==
    LET keys == [i \in DOMAIN rows |-> RankKey(rows, i, policy, bias)]
    IN  Sorted(keys, {ij \in (DOMAIN rows) \X (DOMAIN rows) :
                         LET k == keys[ij[1]]  l == keys[ij[2]] IN
                         \/ Above(k.pair, l.pair)
                         \/ (~Above(l.pair, k.pair) /\ k.tier > l.tier)
                         \/ (k.pair = l.pair /\ k.tier = l.tier /\ ij[1] < ij[2])})

(* rank: best first; sorted(reverse=True) keeps the order of equals.       *)
Rank(rows, policy, bias) ==
    LET keys == [i \in DOMAIN rows |-> RankKey(rows, i, policy, bias)]
    IN  Sorted(keys, {ij \in (DOMAIN rows) \X (DOMAIN rows) :
                         LET k == keys[ij[1]]  l == keys[ij[2]] IN
                         Outranks(k, l) \/ (~Outranks(l, k) /\ ij[1] < ij[2])})

(* summarize: the counts, and the profit of the rows that pass.            *)
Summarize(rows) ==
    LET of(v) == {i \in DOMAIN rows : RowVerdict(rows[i], "velocity") = v}
    IN  [pass |-> Cardinality(of("pass")), watch |-> Cardinality(of("watch")),
         fail |-> Cardinality(of("fail")),
         profit |-> MapThenSumSet(LAMBDA i : BestChannel(rows[i], "velocity").projected, of("pass"))]

-----------------------------------------------------------------------------
VerdictInit == verdict = Blank

AtMost(a, b) == b = None \/ (a # None /\ a <= b)    \* an upper limit, None is no limit
AtLeast(a, b) == b = None \/ (a # None /\ a >= b)   \* a lower limit

Looser(tight, loose) ==
    /\ tight.minNet >= loose.minNet /\ tight.minRoi >= loose.minRoi
    /\ tight.minShare >= loose.minShare /\ tight.lead >= loose.lead
    /\ AtLeast(tight.minMargin, loose.minMargin) /\ AtLeast(tight.minAnnual, loose.minAnnual)
    /\ AtMost(tight.maxCapital, loose.maxCapital) /\ AtMost(tight.maxSellers, loose.maxSellers)
    /\ AtMost(tight.maxDays, loose.maxDays)
    /\ loose.stability => tight.stability
    /\ loose.listing => tight.listing

Comparable == {p \in ThresholdSets \X ThresholdSets : p[1] # p[2] /\ Looser(p[1], p[2])}

Offers ==
    [listed : BOOLEAN, net : Nets, roi : Rois, margin : {1200}, buyCost : {None, 50000},
     sellers : Sellers, sales : Shares, confidence : {"observed", "velocity", "heuristic"},
     units : OrderUnits, lead : {None, 40}, prices : {2, 5}, stable : BOOLEAN,
     brand : {"authorized", "pending"}, guessed : {FALSE}]

ScoreTwice ==
    /\ verdict = Blank
    /\ \E offer \in Offers, pair \in Comparable :
       LET tight == pair[1]  loose == pair[2] IN
         verdict' = [kind |-> "row", offer |-> offer, tight |-> tight, loose |-> loose,
                     was |-> ScoreVerdict(offer, tight), is |-> ScoreVerdict(offer, loose)]

RankList ==
    /\ verdict = Blank
    /\ \E rows \in [1..ListLength -> RowKinds], policy \in {"velocity", "monthly_profit", "margin"},
          bias \in {None, 0, 1, 2} :
         verdict' = [kind |-> "list", rows |-> rows, policy |-> policy, bias |-> bias,
                     order |-> Rank(rows, policy, bias), summary |-> Summarize(rows)]

VerdictNext == ScoreTwice \/ RankList

VerdictSpec == VerdictInit /\ [][VerdictNext]_verdictVars

-----------------------------------------------------------------------------
(* "What if I lowered my ROI bar": a row scored again with thresholds that *)
(* are nowhere stricter never gets a worse verdict, though the thresholds  *)
(* meet in the velocity and demand gates and some of them may be absent.   *)
(* Only a bar below 0 is different: a loss that is let in is a worse one   *)
(* in a year the shorter the lead time is.                                 *)
LooserNeverWorse ==
    (/\ verdict # Blank /\ verdict.kind = "row"
     /\ verdict.loose.minRoi >= 0 \/ verdict.loose.lead = verdict.tight.lead)
        => Tier[verdict.was] <= Tier[verdict.is]

(* Whatever the policy, the slider and the rest of the list: every row is  *)
(* in it once; the verdict of a row does not depend on how the list is     *)
(* sorted, no row stands above one with a better verdict, and with the     *)
(* slider no row stands above one of its own verdict that is both faster   *)
(* and fatter on the axes the slider shows.                                *)
RankingKeepsVerdicts ==
    (verdict # Blank /\ verdict.kind = "list") =>
        LET rows == verdict.rows  p == verdict.policy  order == verdict.order
            tier(i) == Tier[RowVerdict(rows[i], p)]
        IN  /\ \A i \in DOMAIN rows :
                  /\ rows[i] = {} => tier(i) = 0
                  /\ \A c \in rows[i] : tier(i) >= Tier[c.verdict]
                  /\ rows[i] # {} => \E c \in rows[i] : tier(i) = Tier[c.verdict]
                  /\ \E n \in DOMAIN order : order[n] = i
            /\ \A m, n \in DOMAIN order : m < n =>
                  LET i == order[m]  j == order[n]
                  IN  /\ i # j /\ tier(i) >= tier(j)
                      /\ ~(/\ verdict.bias # None /\ tier(i) = tier(j)
                           /\ Fast(rows, i, p) < Fast(rows, j, p) /\ Fat(rows, i, p) < Fat(rows, j, p))
=============================================================================
