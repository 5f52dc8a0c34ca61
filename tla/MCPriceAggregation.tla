------------------------- MODULE MCPriceAggregation -------------------------
(* Small instances of PriceAggregation for TLC.                            *)
EXTENDS PriceAggregation, TLC

(* Ports are listed in the order of the retailers' numbers.                *)
MCPortRank == [r \in Retailers |-> r]
RequestSymmetry == Permutations(Requests)

ForcedRunsOnly ==
    \A q \in Requests : At(q, "idle") /\ req'[q].pc # "idle" => req'[q].pc = "run"

(* Runs that contend for rows.  They dispatch at once (the cache reads     *)
(* before a dispatch never wait) and begin on empty layers, which only     *)
(* expire between runs; nothing is published and no session is lost.       *)
EmptyLayers == /\ \A s \in Scopes : cache[s] = NoEntry
               /\ \A row \in Rows : prices[row] = NoRow
Contending ==
    /\ ForcedRunsOnly
    /\ \A q \in Requests : At(q, "idle") /\ req'[q].pc # "idle" => EmptyLayers
    /\ Environment => \A q \in Requests : At(q, "idle")
    /\ UNCHANGED inflight
    /\ \A q \in Requests : req[q].owned => req'[q].owned

(* For liveness retailers answer with a price (the others take no lock).   *)
PricesOnly ==
    \A q \in Requests, r \in Retailers :
        req'[q].got[r] # NoResult => req'[q].got[r].ok
Contended == Next /\ Contending /\ PricesOnly

(* For safety there are two instances in one: whatever requests do, of a   *)
(* product whose image is known and with new listings; and, until that is  *)
(* so, runs that contend, with listings in any condition.                  *)
Plain ==
    /\ image /\ \A q \in Requests : req[q].image = "known" /\ req[q].cond = AllNew
    /\ \A row \in Rows : prices[row] # NoRow => row[2] = New
NewListings == \A q \in Requests : req'[q].cond = AllNew

PriceRunSpec ==
    Init /\ [][Next /\ IF Plain THEN NewListings ELSE Contending]_vars
=============================================================================
