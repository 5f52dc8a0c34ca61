-------------------------------- MODULE MCLive --------------------------------
(***************************************************************************)
(* Liveness of the two parts that wait: calls of the location resolver,    *)
(* for locks, messages and permits; price requests, for row locks.  They   *)
(* share nothing: each behaviour is one of `part`, whose actions alone are *)
(* taken, under the fairness of both.                                      *)
(***************************************************************************)
EXTENDS LocationResolver

CONSTANTS
    Retailers, PortRank, RecRequests, Conditions, New,
    NoQuery, NoLocation, NoResult, NoEntry, NoRow

VARIABLES
    part,
    cache, inflight, prices, image, txn, priceReq     \* PriceAggregation

priceVars == <<cache, inflight, prices, image, txn, priceReq>>

(* Ports are listed in the order of the retailers' numbers.                *)
MCPortRank == [r \in Retailers |-> r]

Prices == INSTANCE MCPriceAggregation WITH
    req <- priceReq, Queries <- {}, Locations <- {}, ProductQuery <- NoQuery

LiveInit ==
    /\ part \in {"resolver", "prices"} /\ Init /\ Prices!Init
    /\ part = "prices" => l2 = [c \in Cities |-> Nothing]

LiveNext ==
    /\ UNCHANGED part
    /\ \/ part = "resolver" /\ Next /\ UNCHANGED priceVars
       \/ part = "prices" /\ Prices!Contended /\ UNCHANGED vars

LiveSpec == LiveInit /\ [][LiveNext]_<<part, vars, priceVars>> /\ Fairness /\ Prices!Fairness

-----------------------------------------------------------------------------
(* Every price request that begins ends (PriceAggregation), row locks and  *)
(* their deadlocks notwithstanding.                                        *)
EveryRequestEnds == Prices!EveryRequestEnds
=============================================================================
