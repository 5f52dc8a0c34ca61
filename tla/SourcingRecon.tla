---------------------------- MODULE SourcingRecon ----------------------------
(***************************************************************************)
(* Learning real fees from settlements: sourcing/m15_sourcing/recon.py.    *)
(* A reconciliation report is a stream of rows, one per leg of a           *)
(* transaction.  A fee row can stand before or after the sale it belongs   *)
(* to, or without one, so the parser keeps two books while it reads: the   *)
(* orders it has seen a sale row of, and the fees of purchase orders it    *)
(* has not ("orphans").  What is left at the end of the file becomes an    *)
(* order of its own, and the calibration learns from every order.          *)
(*                                                                         *)
(* The report's rows come in any order: every stream of at most MaxRows    *)
(* rows over the small sets below is read.  Names, GTINs and layout are    *)
(* abstracted; an amount keeps its sign, because the code drops it from    *)
(* fees and keeps it on revenue.                                           *)
(***************************************************************************)
EXTENDS Integers, Sequences, FiniteSetsExt, SequencesExt

CONSTANTS
    PurchaseOrders,  \* purchase order numbers
    Amounts,         \* signed amounts, in cents
    Quantities,      \* the Ship Qty column of a sale row (0: empty)
    MaxRows,         \* bound: rows of one report
    MaxLines,        \* bound: lines of a settlement report
    Inventory,       \* the key "__inventory__" of storage without an order
    NoPO             \* an empty Purchase Order # column

ASSUME ReconAssumption ==
    /\ Inventory \notin PurchaseOrders /\ NoPO \notin PurchaseOrders /\ NoPO # Inventory
    /\ Amounts \subseteq Int /\ Quantities \subseteq Nat /\ MaxRows \in Nat

VARIABLES
    reportRows,  \* rows read so far
    settlement,  \* settlement_fee_summary of the lines read so far
    orders,      \* orders: purchase order -> ObservedOrder
    orphans,     \* orphan_fees: key -> fees without a sale row yet
    phase,       \* the import: reading the report, parsed, learnt from
    result,      \* what the parser returned: a set of orders
    calibration, \* FeeCalibration: the samples of each kind, and orders_seen
    billed       \* history: what each key was charged

reconVars == <<reportRows, settlement, orders, orphans, phase, result, calibration, billed>>

FeeKinds == {"return", "label", "fulfillment", "storage"}
LegKinds == {"product_price", "shipping_revenue", "sales_tax", "tax_withheld",
             "commission", "other"}
SettlementTypes == {"fulfillmentfee", "storagefee", "discountadjustment"}
Keys == PurchaseOrders \union {Inventory}

Abs(n) == IF n < 0 THEN -n ELSE n

(* An observed order.  Its SKU, category and product type are columns of   *)
(* the sale rows: an order without a sale row is not named.                *)
ObservedOrder(po) ==
    [key |-> po, named |-> FALSE, product_price |-> 0, shipping_revenue |-> 0, sales_tax |-> 0,
     tax_withheld |-> 0, commission |-> 0, other |-> 0, fulfillment |-> 0,
     storage |-> 0, label |-> 0, return |-> 0, quantity |-> 1]

(* What the adjustments come to; and with the commission.                  *)
Adjustments(o) == o.fulfillment + o.storage + o.label + o.return
TotalFees(o) == o.commission + Adjustments(o)

NetProceeds(o) == o.product_price + o.shipping_revenue - TotalFees(o)

(* effective_commission_rate, in hundredths of a percent; 0 when there is  *)
(* no positive revenue to compare with.                                    *)
EffectiveCommissionRate(o) ==
    IF o.product_price <= 0 THEN 0 ELSE (o.commission * 10000) \div o.product_price

----------------------------------------------------------------------------
(* FeeObservation.median over a sequence of samples.                       *)
MedianFee(values) ==
    LET ordered == SortSeq(values, <)
        mid     == Len(values) \div 2
    IN  IF Len(values) % 2 = 1 THEN ordered[mid + 1]
        ELSE (ordered[mid] + ordered[mid + 1]) \div 2

(* FeeCalibration.ingest of one order.  The model has one product type, so *)
(* the key of a sample is its purchase order (one SKU each) or that type.  *)
LearnOrder(c, o) ==
    LET perUnit(fee)  == fee \div o.quantity
        sample(s, v)  == IF o.named /\ v > 0 THEN Append(s, v) ELSE s
    IN  [orders_seen |-> c.orders_seen + 1,
         commission  |-> sample(c.commission, EffectiveCommissionRate(o)),
         by_sku      |-> [c.by_sku EXCEPT ![o.key] = sample(@, perUnit(o.fulfillment))],
         by_type     |-> sample(c.by_type, perUnit(o.fulfillment)),
         storage     |-> [c.storage EXCEPT ![o.key] = sample(@, perUnit(o.storage))]]

(* effective_amount: the rate card's number, before any discount.          *)
EffectiveAmount(line) == IF line.original > 0 THEN line.original ELSE line.net

(* FeeCalibration.ingest_settlement of one line: the settlement report     *)
(* names its items by GTIN, and may name none.                             *)
LearnSettlement(c, line) ==
    LET perUnit == EffectiveAmount(line) \div line.quantity
    IN  IF line.key = NoPO THEN c
        ELSE IF line.type = "fulfillmentfee"
        THEN [c EXCEPT !.by_sku[line.key] = Append(@, perUnit)]
        ELSE IF line.type = "storagefee" /\ perUnit > 0
        THEN [c EXCEPT !.storage[line.key] = Append(@, perUnit)]
        ELSE c

(* settlement_fee_summary: a clawed-back discount is netted apart from the *)
(* fees it was wrongly given on.                                           *)
Summarise(s, line) ==
    IF line.type = "discountadjustment"
    THEN [s EXCEPT !.lines = @ + 1, !.clawbacks = @ + line.net]
    ELSE [s EXCEPT !.lines = @ + 1, !.net = @ + line.net,
                   !.original = @ + EffectiveAmount(line)]

(* FeeCalibration.fulfillment_fee: the SKU's own median, else the product  *)
(* type's, else (0) the published rate card.                               *)
FulfillmentFee(c, sku) ==
    IF c.by_sku[sku] # <<>> THEN MedianFee(c.by_sku[sku])
    ELSE IF c.by_type # <<>> THEN MedianFee(c.by_type)
    ELSE 0

----------------------------------------------------------------------------
ReconInit ==
    /\ reportRows = 0
    /\ settlement = [lines |-> 0, net |-> 0, original |-> 0, clawbacks |-> 0]
    /\ orders = <<>>
    /\ orphans = [k \in Keys |-> 0]
    /\ phase = "reading"
    /\ result = {}
    /\ calibration = [orders_seen |-> 0, commission |-> <<>>, by_type |-> <<>>,
                      by_sku |-> [k \in Keys |-> <<>>],
                      storage |-> [k \in Keys |-> <<>>]]
    /\ billed = [k \in Keys |-> 0]

Reading == phase = "reading" /\ reportRows < MaxRows

(* A line of a settlement report, read before the reconciliation: its fee  *)
(* teaches the same calibration.                                           *)
SettlementLine(line) ==
    /\ phase = "reading" /\ reportRows = 0
    /\ settlement.lines < MaxLines
    /\ settlement' = Summarise(settlement, line)
    /\ calibration' = LearnSettlement(calibration, line)
    /\ UNCHANGED <<reportRows, orders, orphans, phase, result, billed>>

Adjusted(o, kind, amount) == [o EXCEPT ![kind] = @ + Abs(amount)]

(* A WFS adjustment: it goes to the order whose sale row has been read,    *)
(* else it waits among the orphans.  Without a purchase order only storage *)
(* has anywhere to go; the other kinds are skipped.                        *)
FeeRow(po, kind, amount) ==
    LET key == IF kind = "storage" /\ po = NoPO THEN Inventory ELSE po
    IN  /\ Reading
        /\ reportRows' = reportRows + 1
        /\ IF key = NoPO
           THEN UNCHANGED <<orders, orphans, billed>>
           ELSE /\ billed' = [billed EXCEPT ![key] = @ + Abs(amount)]
                /\ IF key \in DOMAIN orders
                   THEN /\ orders' = [orders EXCEPT ![key] = Adjusted(@, kind, amount)]
                        /\ UNCHANGED orphans
                   ELSE /\ orphans' = [orphans EXCEPT ![key] = @ + Abs(amount)]
                        /\ UNCHANGED orders
        /\ UNCHANGED <<settlement, phase, result, calibration>>

(* A mutant of Adopt: the orphans are not popped.                          *)
AdoptAndKeep(po) ==
    [orders  |-> [p \in DOMAIN orders \union {po} |->
                     IF p \in DOMAIN orders THEN orders[p]
                     ELSE [ObservedOrder(po) EXCEPT !.fulfillment = orphans[po]]],
     orphans |-> orphans]

(* orders.get(po), creating the order when this is its first sale row: it  *)
(* adopts the fees that arrived before it, all of them as fulfillment.     *)
Adopt(po) ==
    [orders  |-> [p \in DOMAIN orders \union {po} |->
                     IF p \in DOMAIN orders THEN orders[p]
                     ELSE [ObservedOrder(po) EXCEPT !.fulfillment = orphans[po]]],
     orphans |-> IF po \in DOMAIN orders THEN orphans ELSE [orphans EXCEPT ![po] = 0]]

(* A leg of a sale.  Revenue keeps its sign; commission and the withheld   *)
(* tax do not, so the reversal of a commission counts as a second one.     *)
AddLeg(o, kind, amount, qty) ==
    [o EXCEPT !.named = TRUE,
              ![kind] = @ + (IF kind \in {"commission", "tax_withheld"}
                             THEN Abs(amount) ELSE amount),
              !.quantity = IF qty > 0 THEN qty ELSE @]

SaleRow(po, kind, amount, qty) ==
    LET book == Adopt(po)
    IN  /\ Reading
        /\ reportRows' = reportRows + 1
        /\ orders' = [book.orders EXCEPT ![po] = AddLeg(@, kind, amount, qty)]
        /\ orphans' = book.orphans
        /\ UNCHANGED <<settlement, phase, result, calibration, billed>>

(* The end of the file: a second pass attaches the orphans whose order has *)
(* turned up, and every other one becomes an order without revenue.        *)
SyntheticOrder(key, amount) ==
    IF key = Inventory THEN [ObservedOrder(key) EXCEPT !.storage = amount]
    ELSE [ObservedOrder(key) EXCEPT !.fulfillment = amount]

EndOfFile ==
    LET attached == [po \in DOMAIN orders |->
                        [orders[po] EXCEPT !.fulfillment = @ + orphans[po]]]
        left     == {k \in Keys \ DOMAIN orders : orphans[k] > 0}
    IN  /\ phase = "reading"
        /\ phase' = "parsed"
        /\ result' = {attached[po] : po \in DOMAIN orders} \union {SyntheticOrder(k, orphans[k]) : k \in left}
        /\ orphans' = [k \in Keys |-> IF k \in left THEN orphans[k] ELSE 0]
        /\ orders' = attached
        /\ UNCHANGED <<reportRows, settlement, calibration, billed>>

(* FeeCalibration().ingest(orders).                                        *)
Learn ==
    /\ phase = "parsed"
    /\ phase' = "learnt"
    /\ calibration' = FoldSet(LAMBDA o, c : LearnOrder(c, o), calibration, result)
    /\ UNCHANGED <<reportRows, settlement, orders, orphans, result, billed>>

ReconNext ==
    \/ \E po \in PurchaseOrders \union {NoPO}, kind \in FeeKinds, a \in Amounts :
            FeeRow(po, kind, a)
    \/ \E po \in PurchaseOrders, kind \in LegKinds, a \in Amounts, q \in Quantities :
            SaleRow(po, kind, a, q)
    \/ \E type \in SettlementTypes, net, original \in Amounts, q \in Quantities \ {0},
          key \in PurchaseOrders \union {NoPO} :
            SettlementLine([type |-> type, net |-> net, original |-> original,
                            quantity |-> q, key |-> key])
    \/ EndOfFile
    \/ Learn

ReconSpec == ReconInit /\ [][ReconNext]_reconVars

----------------------------------------------------------------------------
Orders ==
    [key : Keys, named : BOOLEAN, product_price : Int, shipping_revenue : Int, sales_tax : Int,
     tax_withheld : Int, commission : Int, other : Int, fulfillment : Int,
     storage : Int, label : Int, return : Int, quantity : Nat]

ReconTypeOK ==
    /\ reportRows \in 0..MaxRows
    /\ DOMAIN orders \subseteq PurchaseOrders
    /\ \A po \in DOMAIN orders : orders[po] \in Orders /\ orders[po].key = po
    /\ orphans \in [Keys -> Nat]
    /\ billed \in [Keys -> Nat]
    /\ phase \in {"reading", "parsed", "learnt"}

(* "A fee with no sale attached still happened and still cost money": when *)
(* the report has been read, the fee rows of a purchase order, and the     *)
(* storage rows, are in exactly one of the orders returned, whatever came  *)
(* first, the fee or the sale.                                             *)
NoFeeLost ==
    phase # "reading" =>
        /\ \A o, p \in result : o.key = p.key => o = p
        /\ \A o \in result : Adjustments(o) = billed[o.key]
        /\ \A k \in Keys : billed[k] # 0 => \E o \in result : o.key = k

(* Why: while the report is read, what a key was charged is in its order   *)
(* or among the orphans.                                                   *)
Attributed ==
    phase = "reading" =>
        \A k \in Keys : billed[k] =
            orphans[k] + IF k \in DOMAIN orders THEN Adjustments(orders[k]) ELSE 0

ReconInv == ReconTypeOK /\ Attributed /\ NoFeeLost
=============================================================================
