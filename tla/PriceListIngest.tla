--------------------------- MODULE PriceListIngest ---------------------------
(***************************************************************************)
(* Reading a distributor's price list: sourcing/m15_sourcing/ingest.py.    *)
(* The header row decides which column feeds which field: every field, in  *)
(* a fixed order, claims the unclaimed column whose heading scores best    *)
(* against its synonyms.  Then the rows are read one by one, cleaned,      *)
(* skipped or kept.                                                        *)
(*                                                                         *)
(* A heading is a short name with the scores HeaderScore gives it (exact    *)
(* match 1000, prefix or suffix 500, substring 200, plus the length of the *)
(* synonym); the model's headings are those the module's comments argue    *)
(* about.  Money is in cents; None is an empty or null-ish cell.           *)
(***************************************************************************)
EXTENDS Rounding, Sequences, FiniteSets

CONSTANTS
    MaxColumns,   \* bound: columns of a price list
    MaxDataRows,  \* bound: rows of a price list
    KeptRows,     \* max_rows: rows kept before the list is truncated
    CellCosts     \* the unit and case costs a cell may hold

VARIABLES
    header,   \* the header row: a sequence of headings
    columns,  \* _map_columns: field -> column index, <<>> before the upload
    status,   \* "new", "reading", "failed" (IngestError) or "done"
    kept,     \* the rows kept, as [cost, usable, notes]
    skipped,  \* rows without a usable UPC and without a description
    read      \* rows looked at

ingestVars == <<header, columns, status, kept, skipped, read>>

Headings == {"UPC", "Case Pack", "Case Cost", "Case Price", "Cost", "Unit Cost",
             "Price", "Retail Price", "Wholesale Price", "MOQ", "Item Description"}

(* The field each heading is about, to a reader of the list.               *)
Meaning == [h \in Headings |->
    CASE h = "UPC"                         -> "upc"
      [] h = "Case Pack"                   -> "case_pack"
      [] h \in {"Case Cost", "Case Price"} -> "case_cost"
      [] h = "Retail Price"                -> "msrp"
      [] h = "MOQ"                         -> "moq"
      [] h = "Item Description"            -> "description"
      [] OTHER                             -> "unit_cost"]

ResolutionOrder == <<"upc", "case_pack", "case_cost", "msrp", "unit_cost", "moq", "sku",
                     "description">>

(* _score_header_cell: a heading against the synonyms of a field.          *)
HeaderScore(h, field) ==
    CASE field = "upc"         -> IF h = "UPC" THEN 1003 ELSE 0
      [] field = "case_pack"   -> IF h = "Case Pack" THEN 1009 ELSE 0
      [] field = "case_cost"   -> CASE h = "Case Cost"  -> 1009
                                    [] h = "Case Price" -> 1010
                                    [] h = "Case Pack"  -> 504
                                    [] OTHER            -> 0
      [] field = "msrp"        -> IF h = "Retail Price" THEN 1012 ELSE 0
      [] field = "unit_cost"   -> CASE h = "Unit Cost"       -> 1009
                                    [] h = "Wholesale Price" -> 1015
                                    [] h = "Cost"            -> 1004
                                    [] h = "Price"           -> 1005
                                    [] h = "Case Cost"       -> 504
                                    [] h \in {"Case Price", "Retail Price"} -> 505
                                    [] OTHER                 -> 0
      [] field = "moq"         -> IF h = "MOQ" THEN 1003 ELSE 0
      [] field = "description" -> IF h = "Item Description" THEN 1016 ELSE 0
      [] OTHER                 -> 0

(* Mutant: the generic cost columns claim before the retail ones.          *)
CostFirst == <<"upc", "unit_cost", "case_pack", "case_cost", "msrp", "moq", "sku",
               "description">>

(* The resolution order ("load-bearing") _map_columns follows.             *)
Order == ResolutionOrder

(* _map_columns: each field claims the best free column, first on a tie.   *)
Claim(row, cols, field) ==
    LET free == DOMAIN row \ {cols[f] : f \in DOMAIN cols}
        best == {i \in free : /\ HeaderScore(row[i], field) >= 200
                              /\ \A j \in free : HeaderScore(row[i], field) >= HeaderScore(row[j], field)}
    IN  IF best = {} THEN cols
        ELSE [f \in DOMAIN cols \union {field} |->
                IF f = field THEN CHOOSE i \in best : \A j \in best : i <= j ELSE cols[f]]

MapColumns(row) ==
    LET claimed[n \in 0..Len(Order)] ==
            IF n = 0 THEN [f \in {} |-> 0] ELSE Claim(row, claimed[n - 1], Order[n])
    IN  claimed[Len(Order)]

HasRequired(cols) ==
    "upc" \in DOMAIN cols /\ {"unit_cost", "case_cost"} \intersect DOMAIN cols # {}

----------------------------------------------------------------------------
(* effective_unit_cost: the explicit unit cost, else the case cost shared  *)
(* among the pack; a pack of zero is no pack.                              *)
EffectiveUnitCost(row) ==
    IF row.unit_cost # None THEN row.unit_cost
    ELSE IF row.case_cost # None /\ row.case_pack \notin {None, 0}
    THEN row.case_cost \div row.case_pack
    ELSE None

(* More than 1 % between the two costs a row gives is noted, not resolved. *)
Disagrees(row) ==
    /\ row.unit_cost # None /\ row.case_cost # None /\ row.case_pack \notin {None, 0}
    /\ LET gap == row.case_cost - row.unit_cost * row.case_pack
       IN  row.case_cost # 0 /\ (IF gap < 0 THEN -gap ELSE gap) * 100 > row.case_cost

(* minimum_buy_units: the MOQ, else one case.                              *)
MinimumBuy(row) ==
    IF row.moq \notin {None, 0} THEN row.moq
    ELSE IF row.case_pack \notin {None, 0} THEN row.case_pack ELSE None

(* The cells of a row as its columns deliver them.                         *)
Delivered(row) ==
    [f \in {"unit_cost", "case_cost", "case_pack", "moq"} |->
        IF f \in DOMAIN columns THEN row[f] ELSE None]

----------------------------------------------------------------------------
IngestInit ==
    /\ header \in UNION {[1..n -> Headings] : n \in 2..MaxColumns}
    /\ columns = [f \in {} |-> 0]
    /\ status = "new"
    /\ kept = <<>> /\ skipped = 0 /\ read = 0

(* The upload: no UPC column or no cost column fails it; cost_is_case_cost *)
(* moves the claim of a cost column that is really per case.               *)
Upload(costIsCaseCost) ==
    LET cols  == MapColumns(header)
        moved == costIsCaseCost /\ "unit_cost" \in DOMAIN cols /\ "case_cost" \notin DOMAIN cols
    IN  /\ status = "new"
        /\ columns' = IF moved
                      THEN [f \in (DOMAIN cols \ {"unit_cost"}) \union {"case_cost"} |->
                              IF f = "case_cost" THEN cols["unit_cost"] ELSE cols[f]]
                      ELSE cols
        /\ status' = IF HasRequired(cols) THEN "reading" ELSE "failed"
        /\ UNCHANGED <<header, kept, skipped, read>>

(* One data row: skipped when it names nothing, else kept with its notes.  *)
ReadRow(row, usable, described) ==
    LET r == Delivered(row)
    IN  /\ status = "reading" /\ read < MaxDataRows /\ Len(kept) < KeptRows
        /\ read' = read + 1
        /\ IF ~usable /\ ~described
           THEN skipped' = skipped + 1 /\ UNCHANGED kept
           ELSE /\ kept' = Append(kept, [cost |-> EffectiveUnitCost(r), usable |-> usable,
                                         minimum |-> MinimumBuy(r),
                                         disagrees |-> Disagrees(r)])
                /\ UNCHANGED skipped
        /\ UNCHANGED <<header, columns, status>>

(* The end of the list, or its truncation at max_rows.                     *)
Finished ==
    /\ status = "reading"
    /\ status' = "done"
    /\ UNCHANGED <<header, columns, kept, skipped, read>>

SheetRows == [unit_cost : CellCosts \union {None}, case_cost : CellCosts \union {None},
              case_pack : {None, 0, 12}, moq : {None, 0, 6}]

IngestNext ==
    \/ \E c \in BOOLEAN : Upload(c)
    \/ \E row \in SheetRows, usable, described \in BOOLEAN : ReadRow(row, usable, described)
    \/ Finished

IngestSpec == IngestInit /\ [][IngestNext]_ingestVars

----------------------------------------------------------------------------
IngestTypeOK ==
    /\ \A f \in DOMAIN columns : columns[f] \in DOMAIN header
    /\ status \in {"new", "reading", "failed", "done"}
    /\ Len(kept) + skipped = read

(* "A list with both columns silently maps the case price as the unit      *)
(* price: a 12x cost error that reads as plausible."  Whatever columns a   *)
(* list has and in whatever order, no unit cost is read from a column      *)
(* about something else while the list has one about the unit cost; nor    *)
(* when it has none, unless two of its columns have one meaning (the       *)
(* second case or retail price is left over, and "price" is enough).       *)
OneOfEach(row) == \A i, j \in DOMAIN row : Meaning[row[i]] = Meaning[row[j]] => i = j

UnitCostIsAUnitCost ==
    status = "reading" /\ "unit_cost" \in DOMAIN columns =>
        \/ Meaning[header[columns["unit_cost"]]] = "unit_cost"
        \/ /\ ~OneOfEach(header)
           /\ \A i \in DOMAIN header : Meaning[header[i]] # "unit_cost"
=============================================================================
