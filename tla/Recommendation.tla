---------------------------- MODULE Recommendation ----------------------------
(***************************************************************************)
(* POST /recommend: `RecommendationService.get_recommendation` in          *)
(* backend/modules/m6_recommend/service.py, composed with the price        *)
(* pipeline it calls.  A request of RecRequests computes the cache key     *)
(* from the user's state, looks the recommendation up, then gathers prices *)
(* (a run of get_prices) and the user's discounts and cards, and stacks    *)
(* them.  All of it is one transaction, so an answer of 422 rolls back     *)
(* what get_prices upserted.  When another of the gathered lookups raises, *)
(* the call is over, and its get_prices is not: it runs on, an orphan, on  *)
(* a session that was rolled back.                                         *)
(*                                                                         *)
(* One user; a "wallet" is a value of her cards and identity flags.  The   *)
(* portal memberships arrive with the request and are part of the key and  *)
(* of the computation alike, so they are left out.                         *)
(***************************************************************************)
EXTENDS PriceAggregation

CONSTANTS
    Wallets,
    NoWallet,
    NoRec,
    MinRetailers      \* _MIN_RETAILER_COUNT

ASSUME RecAssumption ==
    /\ NoWallet \notin Wallets
    /\ MinRetailers \in Nat

VARIABLES
    wallet,      \* what the user's rows say now
    recs,        \* the 15-minute recommendation cache
    rec          \* progress of each call of /recommend

recVars == <<wallet, recs, rec>>
allVars == <<cache, inflight, prices, image, txn, req, wallet, recs, rec>>

(* The part of the key that varies: the user's hashes and the scope.       *)
RecKeys == [wallet : Wallets, query : Queries \cup {NoQuery}]

(* What a cached recommendation was computed from.                         *)
Recs == [wallet : Wallets, rows : Snapshots]

RecPcs == {"idle", "lookup", "gather", "orphan"}

RecTypeOK ==
    /\ TypeOK
    /\ wallet \in Wallets
    /\ recs \in [RecKeys -> Recs \cup {NoRec}]
    /\ rec \in [RecRequests -> [pc : RecPcs,
                                key : RecKeys \cup {NoRec},
                                seen : Wallets \cup {NoWallet}]]

RecIdle == [pc |-> "idle", key |-> NoRec, seen |-> NoWallet]

RecInit ==
    /\ Init
    /\ wallet \in Wallets
    /\ recs = [k \in RecKeys |-> NoRec]
    /\ rec = [q \in RecRequests |-> RecIdle]

priceVars == <<cache, inflight, prices, image, txn, req>>

-----------------------------------------------------------------------------
(* The user adds a card or flips a flag, in a request of its own.          *)
ChangeWallet(w) ==
    /\ w # wallet
    /\ wallet' = w
    /\ UNCHANGED <<priceVars, recs, rec>>

(* The hashes come first, before anything else is read.                    *)
Hash(q) ==
    /\ rec[q].pc = "idle"
    /\ \E query \in Queries \cup {NoQuery} :
          rec' = [rec EXCEPT ![q] =
                    [pc |-> "lookup", seen |-> NoWallet,
                     key |-> [wallet |-> wallet, query |-> query]]]
    /\ UNCHANGED <<priceVars, wallet, recs>>

(* The nested get_prices has neither a location nor force_refresh.         *)
BeginPrices(q, query) ==
    req' = [req EXCEPT ![q] = Begun("batch", [query |-> query, loc |-> NoLocation], FALSE)]

(* Mutant: the override is not passed on to get_prices.                    *)
LookUpBareScope(q) ==
    /\ rec[q].pc = "lookup"
    /\ rec' = [rec EXCEPT ![q].pc = "gather"]
    /\ BeginPrices(q, NoQuery)
    /\ UNCHANGED <<cache, inflight, prices, image, txn, wallet, recs>>

(* A hit answers.  A miss gathers, and so does a hit under force_refresh   *)
(* or one that Redis fails to deliver.                                     *)
LookUp(q) ==
    /\ rec[q].pc = "lookup"
    /\ \/ /\ recs[rec[q].key] # NoRec
          /\ rec' = [rec EXCEPT ![q] = RecIdle]
          /\ UNCHANGED req
       \/ /\ rec' = [rec EXCEPT ![q].pc = "gather"]
          /\ BeginPrices(q, rec[q].key.query)
    /\ UNCHANGED <<cache, inflight, prices, image, txn, wallet, recs>>

(* Discounts and cards are read while get_prices runs.                     *)
ReadWallet(q) ==
    /\ rec[q].pc = "gather" /\ rec[q].seen = NoWallet
    /\ rec' = [rec EXCEPT ![q].seen = wallet]
    /\ UNCHANGED <<priceVars, wallet, recs>>

Gathered(q) == rec[q].pc = "gather" /\ rec[q].seen # NoWallet /\ At(q, "commit")

Successes(q) == {r \in Retailers : req[q].got[r] # NoResult /\ req[q].got[r].ok}

(* Retailers that are inactive, or flagged by the health monitor, drop out.*)
EnoughPrices(eligible) == Cardinality(eligible) >= MinRetailers

(* Mutant: the in-flight marker is ignored.                                *)
CacheableSnapshot(q) == ProductQuery = NoQuery

(* The answer is cached unless its prices are a mid-stream snapshot or the *)
(* product is provisional; setex swallows an error.                        *)
Cacheable(q) == ~req[q].partial /\ ProductQuery = NoQuery

Stack(q) ==
    /\ Gathered(q)
    /\ \E eligible \in SUBSET Successes(q) : EnoughPrices(eligible)
    /\ \/ /\ Cacheable(q)
          /\ recs' = [recs EXCEPT ![rec[q].key] =
                         [wallet |-> rec[q].seen, rows |-> req[q].got]]
       \/ UNCHANGED recs
    /\ rec' = [rec EXCEPT ![q] = RecIdle]
    /\ Commit(q)
    /\ UNCHANGED wallet

(* InsufficientPriceDataError: the router answers 422, get_db rolls back.  *)
TooFewPrices(q) ==
    /\ Gathered(q)
    /\ \E eligible \in SUBSET Successes(q) : ~EnoughPrices(eligible)
    /\ rec' = [rec EXCEPT ![q] = RecIdle]
    /\ Rollback(q)
    /\ UNCHANGED <<wallet, recs>>

(* What ends a call and its get_prices at once: get_prices itself raises,  *)
(* the call is cancelled and the gather cancels what it waits for, or the  *)
(* process dies.                                                           *)
RecAbort(q) ==
    /\ rec[q].pc # "idle"
    /\ rec' = [rec EXCEPT ![q] = RecIdle]
    /\ Rollback(q)
    /\ UNCHANGED <<wallet, recs>>

(* Mutant: get_prices goes on in the transaction the failed call had.      *)
GatherRaisesKeepsRows(q) ==
    /\ rec[q].pc = "gather"
    /\ rec' = [rec EXCEPT ![q].pc = "orphan"]
    /\ req' = [req EXCEPT ![q].owned = FALSE]
    /\ UNCHANGED <<cache, inflight, prices, image, txn, wallet, recs>>

(* Another lookup of the gather raises.  asyncio.gather, without           *)
(* return_exceptions, hands the exception on at once and cancels nothing.  *)
GatherRaises(q) ==
    /\ rec[q].pc = "gather"
    /\ rec' = [rec EXCEPT ![q].pc = "orphan"]
    /\ LoseSession(q)
    /\ UNCHANGED <<wallet, recs>>

(* The orphan is done, with a result nobody waits for.                     *)
OrphanEnds(q) ==
    /\ rec[q].pc = "orphan"
    /\ rec' = [rec EXCEPT ![q] = RecIdle]
    /\ Discard(q)
    /\ UNCHANGED <<wallet, recs>>

ExpireRec(k) ==
    /\ recs[k] # NoRec
    /\ recs' = [recs EXCEPT ![k] = NoRec]
    /\ UNCHANGED <<priceVars, wallet, rec>>

(* The steps get_prices takes within a call of /recommend, or after it.    *)
NestedPrices(q) ==
    /\ rec[q].pc \in {"gather", "orphan"}
    /\ \/ CheckRedis(q) \/ CheckInflight(q) \/ CheckExists(q) \/ CheckDb(q)
       \/ BackfillCache(q) \/ Collect(q) \/ WriteImage(q) \/ Upsert(q) \/ Finish(q)
    /\ UNCHANGED recVars

Recommend(q) ==
    \/ Hash(q) \/ LookUp(q) \/ ReadWallet(q) \/ NestedPrices(q) \/ Stack(q)
    \/ TooFewPrices(q) \/ RecAbort(q) \/ GatherRaises(q) \/ OrphanEnds(q)

(* The other requests go on as before, and so do the TTLs.                 *)
PricesOnlyStep ==
    /\ \/ \E q \in Requests \ RecRequests : Step(q) \/ Fail(q)
       \/ Environment
    /\ UNCHANGED recVars

RecNext ==
    \/ \E q \in RecRequests : Recommend(q)
    \/ PricesOnlyStep
    \/ \E w \in Wallets : ChangeWallet(w)
    \/ \E k \in RecKeys : ExpireRec(k)

RecSpec == RecInit /\ [][RecNext]_allVars

-----------------------------------------------------------------------------
(* A cached recommendation was never computed from a mid-stream snapshot:  *)
(* its prices cover every retailer of the dispatch, unless they are the    *)
(* successes that the prices table held, and then the call had no override.*)
RecFromWholePrices ==
    \A k \in RecKeys : recs[k] # NoRec =>
        LET rows == recs[k].rows IN
        \/ \A r \in Retailers : rows[r] # NoResult
        \/ /\ k.query = NoQuery
           /\ \A r \in Retailers : rows[r] # NoResult => rows[r].ok

(* A recommendation served to a bare-name search was computed from prices  *)
(* that very search fetched.                                               *)
RecScopePure ==
    \A k \in RecKeys : recs[k] # NoRec /\ k.query # NoQuery =>
        \A r \in Retailers :
            recs[k].rows[r] # NoResult => recs[k].rows[r].scope.query = k.query

(* /recommend drives get_prices, and ends its transaction or leaves it     *)
(* behind, only in ways the price pipeline lives with: what is checked of  *)
(* the pipeline alone, with runs that lose their session, holds with       *)
(* /recommend beside it.                                                   *)
ImplementsPrices == Spec

-----------------------------------------------------------------------------
(* The inductive invariant behind the three: between calls a request of    *)
(* /recommend is no request of the pipeline; during one it is a batch of   *)
(* the scope of its key, owned until the gather raises, and what it ends   *)
(* with is whole, or known to be partial; and so is what the cache holds.  *)
WholePayload(query, rows) ==
    \/ \A r \in Retailers : rows[r] # NoResult
    \/ query = NoQuery /\ \A r \in Retailers : rows[r] # NoResult => rows[r].ok

NestedOK(x, key, owned) ==
    /\ x.pc # "idle" /\ x.kind = "batch" /\ x.owned = owned
    /\ ProductQuery = NoQuery => x.scope.query = key.query
    /\ x.pc \in {"backfill", "upsert", "commit"} /\ ~x.partial
          => WholePayload(x.scope.query, x.got)

CallOK(q) ==
    /\ rec[q].pc # "idle" => rec[q].key \in RecKeys
    /\ rec[q].pc \notin {"gather", "orphan"} => req[q] = Idle /\ txn[q] = NoWrites
    /\ rec[q].pc \in {"gather", "orphan"} =>
          NestedOK(req[q], rec[q].key, rec[q].pc = "gather")

RecInv == \A q \in RecRequests : CallOK(q)
=============================================================================
