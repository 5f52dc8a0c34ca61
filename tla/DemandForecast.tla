---------------------------- MODULE DemandForecast ----------------------------
(***************************************************************************)
(* How fast a listing sells: the estimators over its snapshots             *)
(* (sourcing/m15_sourcing/demand.py) and the comparison of predictions     *)
(* with what was sold in the end (forecast.py).                            *)
(*                                                                         *)
(* The environment is one listing over some days: its stock is sold, taken *)
(* back by the seller and replenished, and looked at, rightly or not, on   *)
(* some of the days.  Quantities a month are in tenths, ratios in          *)
(* ten-thousandths.                                                        *)
(***************************************************************************)
EXTENDS Rounding, Ordered, Sequences, FiniteSets, SequencesExt

CONSTANTS
    MaxDay, MaxStock,      \* bounds
    Levels,                \* the monthly units the scanner predicts, in tenths
    MinDepletionDays, MinVelocityDays, MaxVelocityDays,
    MinSamples             \* MIN_SAMPLES_TO_APPLY

ASSUME DemandAssumption ==
    /\ {MaxDay, MaxStock} \subseteq Nat /\ Levels \subseteq Nat
    /\ {MinDepletionDays, MinVelocityDays, MinSamples} \subseteq Nat \ {0}

VARIABLES
    day, stock, snapshots,
    sold,          \* history: units sold since the first snapshot
    amiss,         \* history: units taken back since then, or misread
    forecasts,     \* predictions in order: [at, units]
    window,        \* the open observation window: [start, sold, belief]
    comparisons,   \* pair()'s records, and the belief of the day they opened
    usesForecast   \* this behaviour exercises the forecasts

demandVars == <<day, stock, snapshots, sold, amiss, forecasts, window, comparisons, usesForecast>>

-----------------------------------------------------------------------------
(* Demand                                                                  *)

(* Mutant: the baseline stays where the first snapshot left it.            *)
SoldBetweenStuck(counted, q) ==
    LET drop == counted.previous - q
    IN  IF q < counted.previous /\ 4 * drop <= 3 * counted.previous
        THEN [counted EXCEPT !.units = @ + drop] ELSE counted

(* One snapshot of the walk: a drop is sales unless it is over three       *)
(* quarters of the stock, a rise is a restock; either moves the baseline.  *)
SoldBetween(counted, q) ==
    LET drop == counted.previous - q
    IN  [previous |-> q,
         units |-> counted.units +
             IF q < counted.previous /\ 4 * drop <= 3 * counted.previous THEN drop ELSE 0,
         restocked |-> counted.restocked \/ q > counted.previous]

Counted(snaps) ==
    LET walk[i \in 0..Len(snaps)] ==
            IF i = 0 THEN [previous |-> snaps[1].quantity, units |-> 0, restocked |-> FALSE]
            ELSE SoldBetween(walk[i - 1], snaps[i].quantity)
    IN  walk[Len(snaps)]

Estimate(monthly, tier) == [monthly |-> monthly, tier |-> tier]
Span(snaps) == snaps[Len(snaps)].day - snaps[1].day

FromInventoryDepletion(snaps) ==
    IF Len(snaps) < 2 \/ Span(snaps) < MinDepletionDays THEN {}
    ELSE {Estimate(Rounded(Counted(snaps).units * 300, Span(snaps)), "observed")}

(* The widest window that is not too wide, if the reviews did not shrink.  *)
FromReviewVelocity(snaps) ==
    LET recent == IF snaps = <<>> THEN <<>>
                  ELSE SelectSeq(snaps, LAMBDA s : s.day >= Last(snaps).day - MaxVelocityDays)
        delta == Last(recent).reviews - Head(recent).reviews
    IN  IF Len(recent) < 2 \/ Span(recent) < MinVelocityDays \/ delta < 0 THEN {}
        ELSE {Estimate(Rounded(delta * 300 * 50, Span(recent)), "velocity")}

(* Lifetime reviews over the age of the listing, of at least 30 days.      *)
FromReviewTotal(snaps) ==
    IF snaps = <<>> \/ Last(snaps).reviews = 0 THEN {}
    ELSE {Estimate(Rounded(Last(snaps).reviews * 300 * 50, Max({30, day - Head(snaps).day})), "heuristic")}

ConfidenceRank == [observed |-> 6, velocity |-> 3, heuristic |-> 1, unknown |-> 0]

(* estimate_demand, over the signals a snapshot here carries.              *)
EstimateDemand(snaps) ==
    LET found == FromInventoryDepletion(snaps) \cup FromReviewVelocity(snaps)
                     \cup FromReviewTotal(snaps)
    IN  IF found = {} THEN Estimate(None, "unknown")
        ELSE CHOOSE e \in found : \A f \in found : ConfidenceRank[f.tier] <= ConfidenceRank[e.tier]

-----------------------------------------------------------------------------
(* Forecast against actual                                                 *)

(* Mutant: the latest forecast there is.                                   *)
PairWithLatest(fs, start) == Len(fs)

(* The latest forecast made before the window opened, by its place; 0 when *)
(* there is none.                                                          *)
PairedForecast(fs, start) == Max({0} \cup {i \in 1..Len(fs) : fs[i].at <= start})

(* Actual.actual_monthly_units                                             *)
MonthlyUnits(units, days) == Rounded(units * 300, Max({1, days}))

(* Comparison.units_ratio; a SKU that sold nothing adds no ratio.          *)
Ratios(cs) == {i \in DOMAIN cs : cs[i].predicted > 0 /\ cs[i].actual > 0}
UnitsRatio(c) == Rounded(c.actual * 10000, c.predicted)

MedianRatio(cs) ==
    LET n == Cardinality(Ratios(cs))
        order == FirstOf(Ratios(cs), n, {ij \in Ratios(cs) \X Ratios(cs) :
                     LET a == UnitsRatio(cs[ij[1]])  b == UnitsRatio(cs[ij[2]])
                     IN  a < b \/ (a = b /\ ij[1] < ij[2])})
        at(k) == UnitsRatio(cs[order[k]])
    IN  IF n % 2 = 1 THEN at((n + 1) \div 2) ELSE (at(n \div 2) + at(n \div 2 + 1)) \div 2

(* BiasEstimate.correction                                                 *)
Correction(cs) ==
    IF Cardinality(Ratios(cs)) < MinSamples THEN 10000 ELSE Clamp(2500, MedianRatio(cs), 40000)

(* DemandCalibration.apply                                                 *)
Applied(monthly, cs) == IF monthly = None THEN None ELSE Rounded(monthly * Correction(cs), 10000)

-----------------------------------------------------------------------------
NoWindow == [start |-> None, sold |-> 0, belief |-> None]

DemandInit ==
    /\ day = 0 /\ stock = MaxStock /\ snapshots = <<>> /\ sold = 0 /\ amiss = 0
    /\ forecasts = <<>> /\ window = NoWindow /\ comparisons = <<>>
    /\ usesForecast \in BOOLEAN

Snapshot(quantity, reviews) == [day |-> day, quantity |-> quantity, reviews |-> reviews]

Distance(a, b) == IF a < b THEN b - a ELSE a - b

(* A look at the listing, once a day at most.  A feed may answer anything; *)
(* an answer of 0 is not counted as amiss.                                 *)
Observe ==
    /\ ~usesForecast
    /\ snapshots # <<>> => snapshots[Len(snapshots)].day < day
    /\ \E q \in 0..MaxStock, reviews \in {0, sold} :
         /\ snapshots' = Append(snapshots, Snapshot(q, reviews))
         /\ amiss' = amiss + IF q = 0 THEN 0 ELSE Distance(q, stock)
    /\ UNCHANGED <<day, stock, sold, forecasts, window, comparisons, usesForecast>>

(* A day: some units are sold, some are taken back, or a delivery fills    *)
(* the shelf.                                                              *)
Trade ==
    /\ ~usesForecast /\ day < MaxDay
    /\ day' = day + 1
    /\ \/ \E n \in 0..stock :
            LET counted == IF snapshots = <<>> THEN 0 ELSE n
            IN  /\ stock' = stock - n
                /\ \/ sold' = sold + counted /\ UNCHANGED amiss
                   \/ amiss' = amiss + counted /\ UNCHANGED sold
       \/ stock' = MaxStock /\ stock < MaxStock /\ UNCHANGED <<sold, amiss>>
    /\ UNCHANGED <<snapshots, forecasts, window, comparisons, usesForecast>>

Latest == IF forecasts = <<>> THEN None ELSE forecasts[Len(forecasts)].units

Predict ==
    /\ usesForecast
    /\ forecasts # <<>> => forecasts[Len(forecasts)].at < day
    /\ window.start # day
    /\ \E u \in Levels :
         forecasts' = Append(forecasts, [at |-> day, units |-> Applied(u, comparisons)])
    /\ UNCHANGED <<day, stock, snapshots, sold, amiss, window, comparisons, usesForecast>>

OpenWindow ==
    /\ usesForecast /\ window = NoWindow
    /\ window' = [start |-> day, sold |-> 0, belief |-> Latest]
    /\ UNCHANGED <<day, stock, snapshots, sold, amiss, forecasts, comparisons, usesForecast>>

SalesDay ==
    /\ usesForecast /\ window # NoWindow /\ day < MaxDay
    /\ day' = day + 1
    /\ \E n \in 0..1 : window' = [window EXCEPT !.sold = @ + n]
    /\ UNCHANGED <<stock, snapshots, sold, amiss, forecasts, comparisons, usesForecast>>

(* pair() and DemandCalibration.ingest for the actual of the window.       *)
Compare ==
    /\ usesForecast /\ window # NoWindow /\ window.start < day
    /\ LET i == PairedForecast(forecasts, window.start)
       IN  comparisons' =
               IF i = 0 THEN comparisons
               ELSE Append(comparisons,
                           [predicted |-> forecasts[i].units, belief |-> window.belief,
                            actual |-> MonthlyUnits(window.sold, day - window.start)])
    /\ window' = NoWindow
    /\ UNCHANGED <<day, stock, snapshots, sold, amiss, forecasts, usesForecast>>

DemandNext == Observe \/ Trade \/ Predict \/ OpenWindow \/ SalesDay \/ Compare

DemandSpec == DemandInit /\ [][DemandNext]_demandVars

-----------------------------------------------------------------------------
(* The depletion estimator counts each unit sold once, and at most once    *)
(* each unit the seller took back and each by which a look missed the      *)
(* shelf, going or coming.  No restock adds to it, and no zero a feed      *)
(* answers, however often and from whatever stock: the plausibility guard  *)
(* of demand.py:256 is what takes those out.                               *)
DepletionCountsOnce ==
    LET e == EstimateDemand(snapshots)
    IN  e.tier = "observed" => e.monthly <= Rounded((sold + amiss) * 300, Span(snapshots))

(* A window is judged by the prediction that was current when it opened,   *)
(* however many were made since; and when every prediction was too high,   *)
(* no correction raises the next one.                                      *)
ForecastsJudgedFairly ==
    /\ \A i \in DOMAIN comparisons : comparisons[i].predicted = comparisons[i].belief
    /\ (\A i \in DOMAIN comparisons : comparisons[i].actual <= comparisons[i].predicted)
           => Correction(comparisons) <= 10000

(* Why, of the estimate: between two looks the shelf falls by no more than *)
(* was sold and taken back, and a look is off by no more than it is amiss. *)
Snapshots == [day : Nat, quantity : Nat, reviews : Nat]

DepletionInv ==
    /\ day \in Nat /\ stock \in 0..MaxStock /\ sold \in Nat /\ amiss \in Nat
    /\ snapshots \in Seq(Snapshots)
    /\ snapshots # <<>> =>
          LET c == Counted(snapshots)
          IN  /\ c.units \in Nat /\ c.previous \in Nat /\ c.restocked \in BOOLEAN
              /\ c.units <= sold + amiss /\ c.units + c.previous - stock <= sold + amiss

(* Why, of the forecasts: they are made in order, none at the start of the *)
(* open window once that is open, so that the one it is paired with is the *)
(* one there was.                                                          *)
Forecasts == [at : Nat, units : Nat]
Comparisons == [predicted : Nat, belief : Nat, actual : Nat]

ForecastInv ==
    /\ day \in Nat
    /\ forecasts \in Seq(Forecasts)
    /\ \A i \in 1..Len(forecasts) : forecasts[i].at <= day
    /\ window = NoWindow \/ /\ window \in [start : 0..day, sold : Nat, belief : Int]
                            /\ window.belief = LET i == PairedForecast(forecasts, window.start)
                                               IN  IF i = 0 THEN None ELSE forecasts[i].units
    /\ comparisons \in Seq(Comparisons)
    /\ \A i \in 1..Len(comparisons) : comparisons[i].predicted = comparisons[i].belief
=============================================================================
