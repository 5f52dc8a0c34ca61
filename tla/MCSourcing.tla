------------------------------ MODULE MCSourcing ------------------------------
(***************************************************************************)
(* Small instances of the parts of sourcing/m15_sourcing for TLC.  The     *)
(* parts share no state: each behaviour is one of `part`, whose actions    *)
(* alone are taken.  The parts that have proofs are extended, the others   *)
(* are instantiated.                                                       *)
(***************************************************************************)
EXTENDS ChannelFees, SourcingCrunch, SourcingVerdict, SourcingRecon, DemandForecast,
        PriceListIngest

CONSTANTS Missing

VARIABLES
    part,
    code, damage, outcome      \* UpcNormalize

upcVars == <<code, damage, outcome>>

-----------------------------------------------------------------------------
(* Prices on both sides of each step of the rate cards; a parcel without   *)
(* dimensions, a light one, a large one and one over the oversize limits.  *)
Pound == 278
Parcel(weight, sides) == [weight |-> weight, sides |-> sides]

MCParcels ==
    {Parcel(0, <<>>), Parcel(139, <<>>), Parcel(14 * Pound, <<20, 15, 15>>),
     Parcel(60 * Pound, <<50, 10, 10>>)}

-----------------------------------------------------------------------------
(* Thresholds that are, pair by pair, looser, stricter or neither, with    *)
(* absent ones among them.                                                 *)
MCThresholds(net, roi, margin, capital, sellers, share, days, annual, lead, stability, listing) ==
    [minNet |-> net, minRoi |-> roi, minMargin |-> margin, maxCapital |-> capital,
     maxSellers |-> sellers, minShare |-> share, maxDays |-> days, minAnnual |-> annual,
     lead |-> lead, stability |-> stability, listing |-> listing]

MCThresholdSets == {
    MCThresholds(300, 2500, None, None, None, 300, 900, 15000, 140, TRUE, TRUE),
    MCThresholds(300, 2000, None, None, None, 300, None, 15000, 140, TRUE, TRUE),
    MCThresholds(200, 2000, 1000, None, 5, 100, None, None, 140, FALSE, TRUE),
    MCThresholds(200, 2000, None, None, None, 100, 1200, None, 20, FALSE, FALSE),
    MCThresholds(100, 2000, 1500, 40000, None, 100, 1200, 10000, 20, TRUE, FALSE),
    MCThresholds(300, 2500, 1500, 40000, 2, 300, 600, 15000, 140, TRUE, TRUE)}

Scored(v, net, margin, annual, projected) ==
    [verdict |-> v, net |-> net, margin |-> margin, annual |-> annual, projected |-> projected]

MCRowKinds == {
    {},
    {Scored("pass", 500, 1000, 30000, 9000)},
    {Scored("pass", 900, 800, 16000, 8000), Scored("watch", 2000, 3000, None, 20000)},
    {Scored("watch", 400, 900, 20000, 12000), Scored("fail", -100, -50, 0, -100)},
    {Scored("fail", 2500, 3000, 90000, 30000)},
    {Scored("watch", 400, 2000, None, 4000), Scored("watch", 1500, 500, 5000, 2000)},
    {Scored("pass", 300, 500, 20000, 6000), Scored("pass", 700, 1200, 15000, 7000)}}

MCShares == {None, 200, 900}
MCSellers == {None, 3}
MCOrderUnits == {None, 24}

-----------------------------------------------------------------------------
(* One list, with a row that has no usable barcode.                        *)
MCListOf == [r \in {1, 2} |-> "list"]
MCGtinOf == [r \in {1, 2} |-> IF r = 1 THEN "gtin" ELSE Missing]

(* Fees and their reversals; an empty Ship Qty column among the others.    *)
MCAmounts == {-100, 200}
MCQuantities == {0, 2}

-----------------------------------------------------------------------------
(* Every compressible body of two manufacturers, and bodies that begin     *)
(* with none to five zeros.                                                *)
Barcodes == INSTANCE UpcNormalize WITH Bodies <- {}, Indicators <- {}

MCBodies ==
    {[i \in 1..11 |-> IF i <= zeros THEN 0 ELSE (a * i + b) % 10] :
        zeros \in {0, 1, 2, 4, 5}, a \in {3, 7}, b \in 0..9}
    \cup {Barcodes!UpceBody(system, <<1, a, 2, 3, 4, last>>) :
             system \in {0, 1}, a \in {0, 5}, last \in 0..9}

Upc == INSTANCE UpcNormalize WITH Bodies <- MCBodies, Indicators <- {1, 9}

-----------------------------------------------------------------------------
Parts == {"fees", "verdict", "demand", "crunch", "recon", "upc", "ingest"}

SourcingInit ==
    /\ part \in Parts
    /\ FeesInit /\ VerdictInit /\ CrunchInit /\ ReconInit
    /\ DemandInit /\ (part # "demand" => ~usesForecast)
    /\ IF part = "upc" THEN Upc!UpcInit
       ELSE code = <<>> /\ damage = "none" /\ outcome = Missing
    /\ IF part = "ingest" THEN IngestInit
       ELSE /\ header = <<>> /\ columns = <<>> /\ status = "new"
            /\ kept = <<>> /\ skipped = 0 /\ read = 0

Others(p) ==
    /\ UNCHANGED part
    /\ IF p = "fees"    THEN TRUE ELSE UNCHANGED feesVars
    /\ IF p = "verdict" THEN TRUE ELSE UNCHANGED verdictVars
    /\ IF p = "demand"  THEN TRUE ELSE UNCHANGED demandVars
    /\ IF p = "crunch"  THEN TRUE ELSE UNCHANGED crunchVars
    /\ IF p = "recon"   THEN TRUE ELSE UNCHANGED reconVars
    /\ IF p = "upc"     THEN TRUE ELSE UNCHANGED upcVars
    /\ IF p = "ingest"  THEN TRUE ELSE UNCHANGED ingestVars

SourcingNext ==
    \/ part = "fees"    /\ Others("fees")    /\ FeesNext
    \/ part = "verdict" /\ Others("verdict") /\ VerdictNext
    \/ part = "demand"  /\ Others("demand")  /\ DemandNext
    \/ part = "crunch"  /\ Others("crunch")  /\ CrunchNext
    \/ part = "recon"   /\ Others("recon")   /\ ReconNext
    \/ part = "upc"     /\ Others("upc")     /\ Upc!UpcNext
    \/ part = "ingest"  /\ Others("ingest")  /\ IngestNext

SourcingSpec ==
    SourcingInit /\ [][SourcingNext]_<<part, feesVars, verdictVars, demandVars, crunchVars,
                                        reconVars, upcVars, ingestVars>>

-----------------------------------------------------------------------------
(* A damaged barcode is never silently another product's (UpcNormalize).   *)
NeverSilentlyAnother == part = "upc" => Upc!NeverSilentlyAnother
=============================================================================
