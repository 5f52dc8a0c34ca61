------------------------------ MODULE ChannelFees ------------------------------
(***************************************************************************)
(* What one sold unit earns on a channel (sourcing/m15_sourcing/fees.py),  *)
(* what the unit cost before that (landed_cost.py) and which selling plan  *)
(* pays off (plans.py).                                                    *)
(*                                                                         *)
(* Money is in cents, a rate in hundredths of a percent, a weight in 1/278 *)
(* lb, which makes half a pound and a dimensional weight (cubic inches     *)
(* over 139) exact.  0 is an unknown measure.  A variable holds one answer *)
(* of the calculator; the categories kept are one of each shape of tier.   *)
(***************************************************************************)
EXTENDS Rounding, Sequences, FiniteSets

CONSTANTS
    Prices, Costs,      \* the sale prices and unit costs that occur
    Parcels,            \* the ItemDimensions that occur: [weight, sides]
    Volumes,            \* units sold in a month
    HighValue,          \* _EBAY_HIGH_VALUE_THRESHOLD
    NoAnswer

ASSUME FeesAssumption ==
    /\ Prices \subseteq Nat /\ Costs \subseteq Nat /\ Volumes \subseteq Nat /\ HighValue \in Nat
    /\ \A p \in Parcels : p.weight \in Nat /\ (p.sides = <<>> \/ p.sides \in Nat \X Nat \X Nat)

VARIABLE answer

feesVars == answer

Lb == 278
Unknown == 0

Percent(base, rate) == Rounded(base * rate, 10000)

-----------------------------------------------------------------------------
(* Plans                                                                   *)

Plan(fee, item, discount, listings, over) ==
    [monthly |-> fee, perItem |-> item, discount |-> discount,
     listings |-> listings, overage |-> over]

Plans == [ebay    |-> [none    |-> Plan(0, 0, 0, 0, 0),
                       starter |-> Plan(495, 0, 0, 250, 30),
                       basic   |-> Plan(2195, 0, 90, 1000, 25),
                       premium |-> Plan(7495, 0, 90, 10000, 10),
                       anchor  |-> Plan(29995, 0, 90, 25000, 5)],
          amazon  |-> [individual   |-> Plan(0, 99, 0, 0, 0),
                       professional |-> Plan(3999, 0, 0, 0, 0)],
          walmart |-> [standard |-> Plan(0, 0, 0, 0, 0)]]
PlanChannels == DOMAIN Plans
DefaultPlan == [ebay |-> "none", amazon |-> "individual", walmart |-> "standard"]

GetPlan(channel, key) ==
    Plans[channel][IF key \in DOMAIN Plans[channel] THEN key ELSE DefaultPlan[channel]]

EffectiveFeeRate(rate, plan) == Max({0, rate - plan.discount})

(* Mutant: the plan already held pays for itself too.                      *)
PlanBreakevenGross(channel, from, to) ==
    LET a == GetPlan(channel, from)  b == GetPlan(channel, to)
        item == a.perItem - b.perItem
        rate == b.discount - a.discount
    IN  IF b.monthly <= 0 THEN [units |-> <<0, 1>>, gmv |-> 0]
        ELSE [units |-> IF item > 0 THEN <<b.monthly, item>> ELSE <<>>,
              gmv   |-> IF rate > 0 THEN Rounded(b.monthly * 10000, rate) ELSE None]

(* `units` is a quotient, kept as a pair, or <<>>.                         *)
PlanBreakeven(channel, from, to) ==
    LET a == GetPlan(channel, from)  b == GetPlan(channel, to)
        delta == b.monthly - a.monthly
        item == a.perItem - b.perItem
        rate == b.discount - a.discount
    IN  IF delta <= 0 THEN [units |-> <<0, 1>>, gmv |-> 0]
        ELSE [units |-> IF item > 0 THEN <<delta, item>> ELSE <<>>,
              gmv   |-> IF rate > 0 THEN Rounded(delta * 10000, rate) ELSE None]

(* In hundredths of a percent of a cent, so that it is exact.              *)
TotalCost(plan, units, price) ==
    LET over == IF plan.listings # 0 /\ units > plan.listings
                THEN (units - plan.listings) * plan.overage ELSE 0
    IN  (plan.monthly + plan.perItem * units + over) * 10000
            - plan.discount * units * price

(* The first of the cheapest, in the order of the table.                   *)
RecommendPlan(channel, units, price) ==
    LET plans == Plans[channel]
    IN  CHOOSE k \in DOMAIN plans : \A j \in DOMAIN plans :
            TotalCost(plans[k], units, price) <= TotalCost(plans[j], units, price)

-----------------------------------------------------------------------------
(* Fees                                                                    *)

ReferralRates ==
    [consumer_electronics    |-> <<<<None, 800>>>>,
     grocery                 |-> <<<<1000, 800>>, <<None, 1500>>>>,
     electronics_accessories |-> <<<<10000, 1500>>, <<None, 800>>>>,
     furniture_decor         |-> <<<<20000, 1500>>, <<None, 1000>>>>,
     jewelry                 |-> <<<<None, 2000>>>>,
     default                 |-> <<<<None, 1500>>>>]

(* The first whose ceiling the amount does not exceed, or that has none.   *)
FirstTier(tiers, x) ==
    LET fits == {i \in DOMAIN tiers : tiers[i][1] = None \/ x <= tiers[i][1]}
    IN  IF fits = {} THEN 0 ELSE Min(fits)

(* A breadcrumb is the set of keywords it contains; the first one of the   *)
(* list wins, so a longer keyword stands before the one it contains.       *)
CategoryKeywords ==
    << <<"electronics accessor", "electronics_accessories">>,
       <<"electronic", "consumer_electronics">>, <<"jewelry", "jewelry">>,
       <<"grocery", "grocery">>, <<"furniture", "furniture_decor">> >>

ResolveCategory(words) ==
    LET hits == {i \in DOMAIN CategoryKeywords : CategoryKeywords[i][1] \in words}
    IN  IF hits = {} THEN "default" ELSE CategoryKeywords[Min(hits)][2]

WalmartReferralRate(category, price) ==
    LET tiers == ReferralRates[category] IN tiers[FirstTier(tiers, price)][2]

Volume(p) == IF p.sides = <<>> THEN 0 ELSE p.sides[1] * p.sides[2] * p.sides[3]

(* The larger of actual and dimensional weight, or the one that is known.  *)
BillableWeight(p) == Max({p.weight, 2 * Volume(p)})

(* `sides` is in decreasing order.                                         *)
SizeTier(p) ==
    LET w == BillableWeight(p)
        long == p.sides # <<>> /\ \/ p.sides[1] > 48
                                  \/ p.sides[1] + 2 * (p.sides[2] + p.sides[3]) > 105
    IN  IF w = Unknown THEN "unknown"
        ELSE IF w >= 150 * Lb THEN "bulky"
        ELSE IF long \/ w > 30 * Lb THEN "oversize" ELSE "standard"

WfsTiers == << <<1 * Lb, 345, 0, 0>>, <<2 * Lb, 495, 0, 0>>, <<3 * Lb, 545, 0, 0>>,
               <<20 * Lb, 575, 40, 3 * Lb>>, <<30 * Lb, 1255, 40, 20 * Lb>>,
               <<150 * Lb, 1655, 40, 30 * Lb>> >>
AssumedWeight == Lb + Lb \div 2

WfsFulfillmentFee(p, price) ==
    LET w == IF BillableWeight(p) = Unknown THEN AssumedWeight ELSE BillableWeight(p)
        t == WfsTiers[FirstTier(WfsTiers, w)]
        extra == IF SizeTier(p) = "oversize" THEN 3000 ELSE 0
    IN  IF price < 1000 THEN 445
        ELSE IF SizeTier(p) = "bulky" THEN 1655 + 7000
        ELSE Rounded(t[2] * Lb + t[3] * Max({0, w - t[4]}), Lb) + extra

WfsStorageFee(p, days, q4) ==
    LET rate == IF q4 THEN 150 ELSE 75
    IN  IF Volume(p) = 0 THEN Rounded(5 * rate * days, 3000)
        ELSE Rounded(Volume(p) * rate * days, 1728 * 30)

EbayPerOrderFee(total) == IF total > 1000 THEN 40 ELSE 30

EbayShippingTiers == << <<Lb \div 2, 450>>, <<Lb, 575>>, <<2 * Lb, 750>>, <<3 * Lb, 925>>,
                        <<5 * Lb, 1200>>, <<10 * Lb, 1750>>, <<20 * Lb, 2600>>, <<50 * Lb, 4800>> >>

EbayShippingEstimate(p) ==
    LET w == IF BillableWeight(p) = Unknown THEN AssumedWeight ELSE BillableWeight(p)
        i == FirstTier(EbayShippingTiers, w)
    IN  IF i # 0 THEN EbayShippingTiers[i][2] ELSE Rounded(4800 * Lb + (w - 50 * Lb) * 110, Lb)

(* On item, shipping and tax together; `total` includes all three.         *)
EbayFinalValueFee(total, rate) ==
    LET low == Min({total, HighValue})
    IN  Rounded(low * rate + (total - low) * 235 + EbayPerOrderFee(total) * 10000, 10000)

-----------------------------------------------------------------------------
(* The breakdown, and what follows from it                                 *)

FeeTotal(f) == f.referral + f.fulfillment + f.storage + f.perOrder + f.shipping + f.ad + f.other

NetProfit(e) == e.price - e.cost - FeeTotal(e.fees)

(* Mutant: storage is forgotten.                                           *)
BreakevenNoStorage(e) ==
    LET fixed == FeeTotal(e.fees) - e.fees.referral - e.fees.storage
    IN  IF e.price <= 0 THEN e.cost + fixed
        ELSE IF e.fees.referral >= e.price THEN e.price
        ELSE Rounded(e.price * (e.cost + fixed), e.price - e.fees.referral)

(* (cost + fixed) / (1 - referral / price)                                 *)
BreakevenSalePrice(e) ==
    LET fixed == FeeTotal(e.fees) - e.fees.referral
    IN  IF e.price <= 0 THEN e.cost + fixed
        ELSE IF e.fees.referral >= e.price THEN e.price
        ELSE Rounded(e.price * (e.cost + fixed), e.price - e.fees.referral)

(* `seen` is a FeeCalibration's answer: what settlements show, or None.    *)
WalmartEconomics(price, cost, category, parcel, wfs, days, q4, shipping, returns, seen) ==
    LET plan == GetPlan("walmart", "standard")
        rate == EffectiveFeeRate(IF seen.rate # None THEN seen.rate
                                 ELSE WalmartReferralRate(category, price), plan)
    IN  [channel |-> "walmart", price |-> price, cost |-> cost,
         fees |-> [referral    |-> Percent(price, rate),
                   fulfillment |-> IF ~wfs THEN 0
                                   ELSE IF seen.fulfillment # None THEN seen.fulfillment
                                   ELSE WfsFulfillmentFee(parcel, price),
                   storage     |-> IF ~wfs THEN 0
                                   ELSE IF seen.storage # None THEN seen.storage
                                   ELSE WfsStorageFee(parcel, days, q4),
                   perOrder    |-> 0,
                   shipping    |-> IF wfs THEN 0 ELSE IF shipping # None THEN shipping
                                   ELSE EbayShippingEstimate(parcel),
                   ad          |-> 0,
                   other       |-> plan.perItem + IF wfs THEN Percent(700, returns) ELSE 0]]

(* Mutant: the fixed fee is looked up by the item's price.                 *)
EbayEconomicsByItem(price, cost, parcel, charged, shipping, ads, key, tax) ==
    LET plan == GetPlan("ebay", key)
        base == price + charged + Percent(price, tax)
        rate == EffectiveFeeRate(1360, plan)
        fixed == EbayPerOrderFee(price)
    IN  [channel |-> "ebay", price |-> price + charged, cost |-> cost,
         base |-> base, rate |-> rate,
         fees |-> [referral |-> EbayFinalValueFee(base, rate) - fixed,
                   fulfillment |-> 0, storage |-> 0, perOrder |-> fixed,
                   shipping |-> IF shipping # None THEN shipping ELSE EbayShippingEstimate(parcel),
                   ad |-> Percent(base, ads), other |-> plan.perItem]]

EbayEconomics(price, cost, parcel, charged, shipping, ads, key, tax) ==
    LET plan == GetPlan("ebay", key)
        base == price + charged + Percent(price, tax)
        rate == EffectiveFeeRate(1360, plan)
        fixed == EbayPerOrderFee(base)
    IN  [channel |-> "ebay", price |-> price + charged, cost |-> cost,
         base |-> base, rate |-> rate,
         fees |-> [referral |-> EbayFinalValueFee(base, rate) - fixed,
                   fulfillment |-> 0, storage |-> 0, perOrder |-> fixed,
                   shipping |-> IF shipping # None THEN shipping ELSE EbayShippingEstimate(parcel),
                   ad |-> Percent(base, ads), other |-> plan.perItem]]

-----------------------------------------------------------------------------
(* Landed cost                                                             *)

(* allocate_shipment_cost, as a quotient: this SKU's share of the shipment *)
(* over its units; without measures an even split.                         *)
AllocateShipment(total, units, basis, mine, whole) ==
    IF units <= 0 THEN <<0, 1>>
    ELSE IF basis # "per_unit" /\ mine > 0 /\ whole > 0 THEN <<total * mine, whole * units>>
    ELSE <<total, units>>

(* build_landed_cost and LandedCost.total: of freight an override counts   *)
(* even when 0; then pounds, then the flat rate.  Reserves divide, and     *)
(* survival has a floor of one percent.                                    *)
Freight(override, perLb, flat, parcel) ==
    IF override # None THEN override
    ELSE IF perLb > 0 /\ parcel.weight > 0 THEN Rounded(perLb * parcel.weight, Lb)
    ELSE flat

LandedTotal(invoice, freight, perCase, casePack, duty, shrink, returns) ==
    LET packed   == IF casePack > 0 THEN Rounded(perCase, casePack) ELSE 0
        before   == invoice + freight + packed + Percent(invoice, duty)
        survival == Max({100, ((10000 - shrink) * (10000 - returns)) \div 10000})
    IN  Rounded(before * 10000, survival)

(* The terms a unit is bought on, and its cost on them when it shares in a *)
(* shipment of 36000 cents and 700 lb.                                     *)
BuyingTerms == [override : {None, 0, 50}, perLb : {0, 30}, units : {0, 60},
                basis : {"per_unit", "by_weight"}, mine : {0, 14}, pack : {0, 12},
                returns : {0, 300, 9990}]

LandedUnitCost(invoice, parcel, t) ==
    LET share == AllocateShipment(36000, t.units, t.basis, t.mine, 700)
        freight == Freight(t.override, t.perLb, Rounded(share[1], share[2]), parcel)
    IN  LandedTotal(invoice, freight, 240, t.pack, 500, 200, t.returns)

-----------------------------------------------------------------------------
FeesInit == answer = NoAnswer

Asked == answer = NoAnswer
Uncalibrated == [rate |-> None, fulfillment |-> None, storage |-> None]
Calibrations == {Uncalibrated, [rate |-> 1200, fulfillment |-> 445, storage |-> 3]}

DaysStored == 60
LandedPrice == 1899

Breadcrumbs == {{}, {"electronic"}, {"electronic", "electronics accessor"}, {"jewelry"},
                {"grocery"}, {"furniture"}}

QuoteWalmart ==
    /\ Asked
    /\ \E price \in Prices, cost \in Costs, parcel \in Parcels,
          words \in Breadcrumbs, wfs, q4 \in BOOLEAN, seen \in Calibrations,
          shipping \in {None, 625}, returns \in {0, 300} :
         answer' = WalmartEconomics(price, cost, ResolveCategory(words), parcel, wfs, DaysStored,
                                    q4, shipping, returns, seen)

QuoteEbay ==
    /\ Asked
    /\ \E price \in Prices, cost \in Costs, parcel \in Parcels, charged \in {0, 600},
          shipping \in {None, 625}, ads \in {0, 900}, key \in {"none", "basic"}, tax \in {0, 700} :
         answer' = EbayEconomics(price, cost, parcel, charged, shipping, ads, key, tax)

(* The cost of a unit from its invoice, quoted with that cost.             *)
QuoteLanded ==
    /\ Asked
    /\ \E invoice \in Costs, parcel \in Parcels, terms \in BuyingTerms :
         answer' = WalmartEconomics(LandedPrice, LandedUnitCost(invoice, parcel, terms),
                                    "default", parcel, TRUE, DaysStored, FALSE, None, 0, Uncalibrated)

ComparePlans ==
    /\ Asked
    /\ \E channel \in PlanChannels, units \in Volumes, price \in Prices :
         \E from, to \in DOMAIN Plans[channel] :
         answer' = [channel |-> "plans", of |-> channel, from |-> from, to |-> to,
                    units |-> units, price |-> price,
                    breakeven |-> PlanBreakeven(channel, from, to),
                    best |-> RecommendPlan(channel, units, price)]

FeesNext == QuoteWalmart \/ QuoteEbay \/ QuoteLanded \/ ComparePlans

FeesSpec == FeesInit /\ [][FeesNext]_feesVars

-----------------------------------------------------------------------------
IsQuote == answer # NoAnswer /\ answer.channel \in {"walmart", "ebay"}

(* A unit makes money exactly above its break-even price, whichever fees   *)
(* come from the rate cards and whichever from settlements: "how far can   *)
(* this price war go before I'm out" agrees with the profit shown.         *)
BreakevenSeparates ==
    IsQuote => /\ NetProfit(answer) > 0 => BreakevenSalePrice(answer) <= answer.price
               /\ NetProfit(answer) < 0 => BreakevenSalePrice(answer) >= answer.price

(* eBay's fee is computed once on the whole sale, tax included, and split  *)
(* again for the statement: both sides take the same step of the per-order *)
(* fee, so what is left is the percentage, to the cent.                    *)
EbaySplitAgrees ==
    (IsQuote /\ answer.channel = "ebay" /\ answer.base <= HighValue)
        => answer.fees.referral = Percent(answer.base, answer.rate)

(* The two halves of plans.py agree: below the listings a plan includes,   *)
(* an upgrade is cheaper in a month exactly when that month's sales are    *)
(* past the break-even reported for it.                                    *)
PlanFlipsAtBreakeven ==
    (answer # NoAnswer /\ answer.channel = "plans") =>
        LET a == GetPlan(answer.of, answer.from)  b == GetPlan(answer.of, answer.to)
            be == answer.breakeven
            gmv == answer.units * answer.price
            saves == TotalCost(b, answer.units, answer.price) < TotalCost(a, answer.units, answer.price)
            within == \A p \in {a, b} : p.listings = 0 \/ answer.units <= p.listings
        IN  (within /\ b.monthly > a.monthly /\ a.perItem >= b.perItem /\ b.discount >= a.discount) =>
                /\ be.units # <<>> => (saves <=> be.units[1] < answer.units * be.units[2])
                /\ (be.units = <<>> /\ be.gmv # None) =>
                       /\ saves => gmv >= be.gmv
                       /\ gmv > be.gmv + 1 => saves
                /\ (be.units = <<>> /\ be.gmv = None) => ~saves
                /\ saves => answer.best # answer.from

(* What the calculators say twice agrees, to the cent: the profit shown    *)
(* and the break-even price, the final value fee and its split on the      *)
(* statement, the cheapest plan and the break-even volume of an upgrade.   *)
AnswersAgree == BreakevenSeparates /\ EbaySplitAgrees /\ PlanFlipsAtBreakeven
=============================================================================
