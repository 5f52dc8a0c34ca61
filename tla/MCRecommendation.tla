-------------------------- MODULE MCRecommendation --------------------------
(* Small instances of Recommendation for TLC.                              *)
EXTENDS Recommendation, TLC

MCPortRank == [r \in Retailers |-> r]

(* For the larger instances the other requests are price streams that      *)
(* dispatch: the runs whose buckets, rows and entries /recommend may meet. *)
OthersStream ==
    \A q \in Requests \ RecRequests :
        \/ req'[q].pc = "idle"
        \/ req'[q].kind = "stream" /\ req'[q].pc \notin {"redis", "db"}

ForSearches ==
    \A q \in RecRequests : rec'[q].pc # "idle" => rec'[q].key.query # NoQuery
OfSearches ==
    \A q \in Requests \ RecRequests :
        req'[q].pc # "idle" => req'[q].scope.query # NoQuery

NoOrphan == \A q \in RecRequests : rec'[q].pc # "orphan"

(* The instances have a product whose image is known.                      *)
KnownInit == RecInit /\ image

OneRec == Cardinality({k \in RecKeys : recs'[k] # NoRec}) <= 1
RefinesSpec == KnownInit /\ [][RecNext /\ OneRec]_allVars

(* In the first of the larger ones everything is for one search, and no    *)
(* lookup beside get_prices raises.                                        *)
StreamedSpec ==
    KnownInit /\ [][RecNext /\ OthersStream /\ ForSearches /\ OfSearches /\ NoOrphan]_allVars

(* In the second calls and streams are of either scope and the layers of   *)
(* the price pipeline do not expire.                                       *)
ScopedSpec == KnownInit /\ [][RecNext /\ OthersStream /\ ~Environment]_allVars
=============================================================================
