------------------------- MODULE Recommendation_proofs -------------------------
(* /recommend beside the price pipeline, for any number of requests,       *)
(* retailers, wallets and queries: it drives the pipeline as the pipeline  *)
(* allows, and caches nothing that a partial or a foreign payload went     *)
(* into.                                                                   *)
EXTENDS Recommendation, PriceAggregation_proofs

(* What a step of the pipeline does outside /recommend.                    *)
LEMMA RecCases ==
  ASSUME [RecNext]_allVars
  PROVE  \/ \E q \in RecRequests :
               \/ Hash(q) \/ LookUp(q) \/ ReadWallet(q) \/ NestedPrices(q) \/ Stack(q)
               \/ TooFewPrices(q) \/ RecAbort(q) \/ GatherRaises(q) \/ OrphanEnds(q)
         \/ \E q \in Requests \ RecRequests : (Step(q) \/ Fail(q)) /\ UNCHANGED recVars
         \/ Environment /\ UNCHANGED recVars
         \/ UNCHANGED <<priceVars, rec>> /\ wallet' \in Wallets /\ UNCHANGED recs
         \/ \E k \in RecKeys : ExpireRec(k)
         \/ UNCHANGED allVars
BY DEF RecNext, Recommend, PricesOnlyStep, ChangeWallet

(* Each step of /recommend is a step of the pipeline, or none: a miss      *)
(* begins a get_prices, a gather that raises leaves it without a session,  *)
(* and every end is a commit, an abort or the end of such an orphan.       *)
LEMMA RecStepRefines ==
  TypeOK /\ RecInv /\ [RecNext]_allVars => [Next]_vars
<1> SUFFICES ASSUME TypeOK, RecInv, [RecNext]_allVars PROVE Next \/ UNCHANGED vars
  OBVIOUS
<1>1. ASSUME NEW q \in RecRequests PROVE q \in Requests /\ CallOK(q)
  BY <1>1, RowsAssumption DEF RecInv
<1>2. ASSUME NEW q \in RecRequests, Hash(q) \/ ReadWallet(q) PROVE UNCHANGED vars
  BY <1>2 DEF Hash, ReadWallet, priceVars, vars
<1>3. ASSUME NEW q \in RecRequests, LookUp(q) PROVE Next \/ UNCHANGED vars
  <2>1. CASE req' = req
    BY <1>3, <2>1 DEF LookUp, vars
  <2>2. CASE BeginPrices(q, rec[q].key.query)
    <3>1. [query |-> rec[q].key.query, loc |-> NoLocation] \in Scopes
      BY <1>1, <1>3 DEF CallOK, LookUp, RecKeys, Scopes
    <3>2. At(q, "idle")
      BY <1>1, <1>3 DEF CallOK, LookUp, At, Idle
    <3>3. "batch" \in Kinds /\ FALSE \in BOOLEAN
      BY DEF Kinds
    <3>4. Begin(q)
      <4>1. PICK s \in Scopes : s = [query |-> rec[q].key.query, loc |-> NoLocation]
        BY <3>1
      <4>2. req' = [req EXCEPT ![q] = Begun("batch", s, FALSE)]
        BY <2>2, <4>1 DEF BeginPrices
      <4>3. UNCHANGED <<cache, inflight, prices, image, txn>>
        BY <1>3 DEF LookUp
      <4> QED
        BY <3>2, <3>3, <4>2, <4>3, Zenon DEF Begin
    <3> QED
      BY <1>1, <3>4 DEF Next, Step
  <2> QED
    BY <1>3, <2>1, <2>2 DEF LookUp
<1>4. ASSUME NEW q \in RecRequests, NestedPrices(q) PROVE Next
  BY <1>1, <1>4 DEF NestedPrices, Next, Step
<1>5. ASSUME NEW q \in RecRequests, Stack(q) PROVE Next
  BY <1>1, <1>5 DEF Stack, Next, Step
<1>6. ASSUME NEW q \in RecRequests, TooFewPrices(q) \/ RecAbort(q)
      PROVE  Next \/ UNCHANGED vars
  <2>1. Rollback(q)
    BY <1>6 DEF TooFewPrices, RecAbort
  <2>2. CASE At(q, "idle")
    <3>1. req[q] = Idle /\ txn[q] = NoWrites
      BY <1>1, <2>2 DEF CallOK, NestedOK, At
    <3>2. /\ req \in [Requests -> ReqStates]
          /\ txn \in [Requests -> [Rows -> Scopes \cup {NoRow}]]
      BY DEF TypeOK
    <3>3. /\ req' = [req EXCEPT ![q] = Idle]
          /\ txn' = [txn EXCEPT ![q] = NoWrites]
      BY <2>1 DEF Rollback, End
    <3>4. req' = req /\ txn' = txn
      BY <3>1, <3>2, <3>3
    <3> QED
      BY <2>1, <3>4 DEF Rollback, vars
  <2>3. CASE ~At(q, "idle")
    BY <1>1, <2>1, <2>3 DEF Abort, Fail, Next
  <2> QED
    BY <2>2, <2>3
<1>7. ASSUME NEW q \in Requests \ RecRequests, Step(q) \/ Fail(q) PROVE Next
  BY <1>7 DEF Next
<1>8. ASSUME Environment PROVE Next
  BY <1>8 DEF Next
<1>9. ASSUME UNCHANGED priceVars PROVE UNCHANGED vars
  BY <1>9 DEF priceVars, vars
<1>10. ASSUME (\E k \in RecKeys : ExpireRec(k)) \/ UNCHANGED allVars
       PROVE  UNCHANGED priceVars
  BY <1>10 DEF ExpireRec, allVars, priceVars
<1>11. ASSUME NEW q \in RecRequests, GatherRaises(q) PROVE Next
  BY <1>1, <1>11 DEF GatherRaises, Next, Fail
<1>12. ASSUME NEW q \in RecRequests, OrphanEnds(q) PROVE Next
  BY <1>1, <1>12 DEF OrphanEnds, Next, Step
<1> QED
  BY <1>2, <1>3, <1>4, <1>5, <1>6, <1>7, <1>8, <1>9, <1>10, <1>11, <1>12, RecCases

(* So what is known of the pipeline carries over.                          *)
LEMMA PricesCarryOver ==
  TypeOK /\ ScopeInv /\ RecInv /\ [RecNext]_allVars => TypeOK' /\ ScopeInv'
BY RecStepRefines, TypeStep, ScopeInvStep

-----------------------------------------------------------------------------
(* The types of what /recommend adds.                                      *)
RecTyped ==
    /\ wallet \in Wallets
    /\ recs \in [RecKeys -> Recs \cup {NoRec}]
    /\ rec \in [RecRequests -> [pc : RecPcs, key : RecKeys \cup {NoRec},
                                seen : Wallets \cup {NoWallet}]]

(* What a call ends with is a payload of its own wallet and key.           *)
LEMMA StackTyped ==
  ASSUME TypeOK, RecTyped, RecInv, NEW q \in RecRequests, Gathered(q)
  PROVE  /\ rec[q].key \in RecKeys /\ req[q].got \in Snapshots
         /\ [wallet |-> rec[q].seen, rows |-> req[q].got] \in Recs
<1>1. q \in Requests /\ CallOK(q) /\ rec[q].pc = "gather" /\ rec[q].seen # NoWallet
  BY RowsAssumption DEF RecInv, Gathered
<1>2. rec[q].key \in RecKeys
  BY <1>1 DEF CallOK
<1>3. rec[q].seen \in Wallets
  BY <1>1 DEF RecTyped
<1>4. req[q].got \in Snapshots
  BY <1>1 DEF TypeOK, ReqStates
<1> QED
  BY <1>2, <1>3, <1>4 DEF Recs

LEMMA RecTypeStep ==
  TypeOK /\ RecTyped /\ RecInv /\ [RecNext]_allVars => RecTyped'
<1> SUFFICES ASSUME TypeOK, RecTyped, RecInv, [RecNext]_allVars PROVE RecTyped'
  OBVIOUS
<1> DEFINE RecStates == [pc : RecPcs, key : RecKeys \cup {NoRec},
                         seen : Wallets \cup {NoWallet}]
<1>0. RecIdle \in RecStates
  BY DEF RecIdle, RecPcs
<1>1. ASSUME NEW q \in RecRequests, Hash(q) PROVE RecTyped'
  <2>1. PICK query \in Queries \cup {NoQuery} :
          rec' = [rec EXCEPT ![q] =
                    [pc |-> "lookup", seen |-> NoWallet,
                     key |-> [wallet |-> wallet, query |-> query]]]
    BY <1>1 DEF Hash
  <2>2. [wallet |-> wallet, query |-> query] \in RecKeys
    BY DEF RecTyped, RecKeys
  <2> QED
    BY <1>1, <2>1, <2>2 DEF Hash, RecTyped, RecPcs
<1>2. ASSUME NEW q \in RecRequests, LookUp(q) PROVE RecTyped'
  BY <1>0, <1>2 DEF LookUp, RecTyped, RecPcs
<1>3. ASSUME NEW q \in RecRequests, ReadWallet(q) PROVE RecTyped'
  BY <1>3 DEF ReadWallet, RecTyped
<1>4. ASSUME NEW q \in RecRequests, NestedPrices(q) PROVE RecTyped'
  BY <1>4 DEF NestedPrices, recVars, RecTyped
<1>5. ASSUME NEW q \in RecRequests, Stack(q) PROVE RecTyped'
  <2>1. /\ rec' = [rec EXCEPT ![q] = RecIdle] /\ wallet' = wallet
        /\ \/ recs' = [recs EXCEPT ![rec[q].key] =
                          [wallet |-> rec[q].seen, rows |-> req[q].got]]
           \/ recs' = recs
    BY <1>5 DEF Stack
  <2>2. [wallet |-> rec[q].seen, rows |-> req[q].got] \in Recs
    BY <1>5, StackTyped DEF Stack
  <2> QED
    BY <1>0, <2>1, <2>2 DEF RecTyped
<1>6. ASSUME NEW q \in RecRequests,
             TooFewPrices(q) \/ RecAbort(q) \/ OrphanEnds(q)
      PROVE  RecTyped'
  BY <1>0, <1>6 DEF TooFewPrices, RecAbort, OrphanEnds, RecTyped
<1>7. ASSUME UNCHANGED recVars PROVE RecTyped'
  BY <1>7 DEF recVars, RecTyped
<1>8. ASSUME UNCHANGED <<priceVars, rec>>, wallet' \in Wallets, UNCHANGED recs
      PROVE  RecTyped'
  BY <1>8 DEF RecTyped
<1>9. ASSUME NEW k \in RecKeys, ExpireRec(k) PROVE RecTyped'
  BY <1>9 DEF ExpireRec, RecTyped
<1>10. ASSUME UNCHANGED allVars PROVE UNCHANGED recVars
  BY <1>10 DEF allVars, recVars
<1>11. ASSUME NEW q \in RecRequests, GatherRaises(q) PROVE RecTyped'
  BY <1>11 DEF GatherRaises, RecTyped, RecPcs
<1> QED
  BY <1>1, <1>2, <1>3, <1>4, <1>5, <1>6, <1>7, <1>8, <1>9, <1>10, <1>11, RecCases

-----------------------------------------------------------------------------
(* A call that is over, or has not begun a get_prices, is at rest.         *)
LEMMA CallFrame ==
  ASSUME TypeOK, RecTyped, RecInv, NEW q \in RecRequests,
         \A p \in RecRequests \ {q} :
            rec'[p] = rec[p] /\ req'[p] = req[p] /\ txn'[p] = txn[p],
         CallOK(q)'
  PROVE  RecInv'
<1>1. ASSUME NEW p \in RecRequests, p # q PROVE CallOK(p)'
  BY <1>1 DEF RecInv, CallOK
<1> QED
  BY <1>1 DEF RecInv

(* What one request does leaves the others alone.                          *)
LEMMA OthersUntouched ==
  ASSUME TypeOK, NEW q \in Requests, Step(q) \/ Fail(q), NEW p \in Requests, p # q
  PROVE  req'[p] = req[p] /\ txn'[p] = txn[p]
<1> USE DEF TypeOK
<1>1. ASSUME Begin(q) \/ Collect(q) \/ \E r \in Retailers : Arrive(q, r)
      PROVE  req'[p] = req[p] /\ txn'[p] = txn[p]
  BY <1>1 DEF Begin, Collect, Arrive
<1>2. ASSUME \/ CheckRedis(q) \/ CheckInflight(q) \/ CheckExists(q) \/ CheckDb(q)
             \/ BackfillCache(q)
      PROVE  req'[p] = req[p] /\ txn'[p] = txn[p]
  <2>1. req[q].kind \in {"batch", "stream"}
    BY DEF ReqStates, Kinds
  <2> QED
    BY <1>2, <2>1 DEF CheckRedis, CheckInflight, CheckExists, CheckDb, BackfillCache,
                      Serve, Goto, DbOrDispatch, Dispatch
<1>3. ASSUME Publish(q) \/ Finish(q) \/ ClearInflight(q) \/ StreamError(q)
      PROVE  req'[p] = req[p] /\ txn'[p] = txn[p]
  BY <1>3 DEF Publish, Finish, ClearInflight, StreamError, Goto
<1>4. ASSUME Commit(q) \/ Discard(q) \/ Abort(q) \/ DeadlockVictim(q)
      PROVE  req'[p] = req[p] /\ txn'[p] = txn[p]
  BY <1>4 DEF Commit, Discard, Abort, DeadlockVictim, Rollback, End
<1>5. ASSUME Upsert(q) PROVE req'[p] = req[p] /\ txn'[p] = txn[p]
  BY <1>5, UpsertAs
<1>6. ASSUME WriteImage(q) \/ LoseSession(q) PROVE req'[p] = req[p] /\ txn'[p] = txn[p]
  BY <1>6 DEF WriteImage, LoseSession
<1> QED
  BY <1>1, <1>2, <1>3, <1>4, <1>5, <1>6 DEF Step, Fail

(* The steps of a nested get_prices: it ends with what a cache or the      *)
(* table held, whole by the invariant of the pipeline, or with an answer   *)
(* of every retailer, or it says that it is partial.                       *)
LEMMA NestedStep ==
  ASSUME TypeOK, ScopeInv, NEW q \in Requests, NEW key, NEW owned,
         NestedOK(req[q], key, owned),
         \/ CheckRedis(q) \/ CheckInflight(q) \/ CheckExists(q) \/ CheckDb(q)
         \/ BackfillCache(q) \/ Collect(q) \/ WriteImage(q) \/ Upsert(q) \/ Finish(q)
  PROVE  NestedOK(req'[q], key, owned)
<1>0. /\ req \in [Requests -> ReqStates] /\ req[q] \in ReqStates /\ PayloadOK(req[q])
      /\ req[q].scope \in Scopes /\ req[q].kind = "batch"
  BY DEF TypeOK, ReqStates, ScopeInv, NestedOK
<1>1. ASSUME NEW pc \in {"inflight", "exists", "db"}, Goto(q, pc) PROVE NestedOK(req'[q], key, owned)
  BY <1>0, <1>1 DEF Goto, NestedOK, ReqStates
<1>2. ASSUME Dispatch(q) PROVE NestedOK(req'[q], key, owned)
  BY <1>0, <1>2 DEF Dispatch, NestedOK, ReqStates
<1>3. ASSUME NEW pc \in {"backfill", "commit"}, NEW got, NEW partial \in BOOLEAN,
             Serve(q, pc, got, partial), partial \/ WholePayload(req[q].scope.query, got)
      PROVE  NestedOK(req'[q], key, owned)
  <2> DEFINE x == [req[q] EXCEPT !.pc = pc, !.got = got, !.partial = partial]
  <2>1. req'[q] = x
    BY <1>0, <1>3 DEF Serve
  <2>2. /\ x.pc = pc /\ x.got = got /\ x.partial = partial
        /\ x.scope = req[q].scope /\ x.kind = "batch" /\ x.owned = req[q].owned
    BY <1>0 DEF ReqStates
  <2> HIDE DEF x
  <2> QED
    BY <1>3, <2>1, <2>2 DEF NestedOK
<1>4. CASE CheckRedis(q)
  <2>1. CASE cache[req[q].scope] # NoEntry
    <3>1. Serve(q, "commit", cache[req[q].scope], FALSE)
      BY <1>4, <2>1 DEF CheckRedis
    <3>2. WholePayload(req[q].scope.query, cache[req[q].scope])
      BY <1>0, <2>1 DEF ScopeInv, EntryOK, WholePayload
    <3> QED
      BY <1>3, <3>1, <3>2
  <2>2. CASE cache[req[q].scope] = NoEntry
    BY <1>0, <1>1, <1>4, <2>2 DEF CheckRedis
  <2> QED
    BY <2>1, <2>2
<1>5. CASE CheckInflight(q) \/ CheckExists(q)
  BY <1>1, <1>2, <1>3, <1>5 DEF CheckInflight, CheckExists, DbOrDispatch
<1>6. CASE CheckDb(q)
  <2>1. PICK pick \in [Retailers -> Conditions] :
          /\ \A r \in Retailers : Fresh(r) # {} => pick[r] \in Fresh(r)
          /\ Serve(q, "backfill", DbSnapshot(pick), FALSE) \/ Dispatch(q)
    BY <1>6 DEF CheckDb
  <2>2. req[q].scope.query = NoQuery
    BY <1>0, <1>6 DEF CheckDb, At, PayloadOK
  <2>3. \A r \in Retailers :
           DbSnapshot(pick)[r] # NoResult => DbSnapshot(pick)[r].ok
    BY <2>1, DbSnapshotType
  <2>4. WholePayload(req[q].scope.query, DbSnapshot(pick))
    BY <2>2, <2>3 DEF WholePayload
  <2> QED
    BY <1>2, <1>3, <2>1, <2>4
<1>7. ASSUME NEW pc \in {"commit"}, Goto(q, pc), req[q].pc \in {"backfill", "upsert"}
      PROVE  NestedOK(req'[q], key, owned)
  <2> DEFINE x == [req[q] EXCEPT !.pc = pc]
  <2>1. req'[q] = x
    BY <1>0, <1>7 DEF Goto
  <2>2. /\ x.pc = pc /\ x.got = req[q].got /\ x.partial = req[q].partial
        /\ x.scope = req[q].scope /\ x.kind = "batch" /\ x.owned = req[q].owned
    BY <1>0 DEF ReqStates
  <2> HIDE DEF x
  <2> QED
    BY <1>7, <2>1, <2>2 DEF NestedOK
<1>8. CASE BackfillCache(q)
  BY <1>7, <1>8 DEF BackfillCache, At
<1>9. CASE Finish(q)
  BY <1>0, <1>7, <1>9 DEF Finish, At
<1>10. CASE Collect(q)
  <2>1. PICK x \in ReqStates :
          /\ req' = [req EXCEPT ![q] = x]
          /\ x.pc = "upsert" /\ x.kind = req[q].kind /\ x.scope = req[q].scope
          /\ x.owned = req[q].owned
          /\ \A r \in Retailers : x.got[r] # NoResult
    BY <1>10, CollectAs
  <2>2. req'[q] = x
    BY <1>0, <2>1
  <2> QED
    BY <2>1, <2>2 DEF NestedOK, WholePayload
<1>11. CASE WriteImage(q)
  <2>1. PICK x \in ReqStates :
          /\ req' = [req EXCEPT ![q] = x]
          /\ x.pc = req[q].pc /\ x.kind = req[q].kind /\ x.scope = req[q].scope
          /\ x.got = req[q].got /\ x.partial = req[q].partial
          /\ x.owned = req[q].owned
    BY <1>11, WriteImageAs
  <2>2. req'[q] = x
    BY <1>0, <2>1
  <2> QED
    BY <2>1, <2>2 DEF NestedOK
<1>12. CASE Upsert(q)
  <2>1. req[q].kind # "stream" /\ req[q].pc = "upsert"
    BY <1>0, <1>12 DEF Upsert, At
  <2>2. PICK x \in ReqStates :
          /\ req' = [req EXCEPT ![q] = x]
          /\ x.kind = req[q].kind /\ x.scope = req[q].scope
          /\ x.got = req[q].got /\ x.partial = req[q].partial
          /\ x.owned = req[q].owned /\ x.pc = "upsert"
    BY <1>12, <2>1, UpsertAs
  <2>3. req'[q] = x
    BY <1>0, <2>2
  <2> QED
    BY <2>1, <2>2, <2>3 DEF NestedOK
<1> QED
  BY <1>4, <1>5, <1>6, <1>8, <1>9, <1>10, <1>11, <1>12

(* Every step keeps the calls as they are described.                       *)
LEMMA RecInvStep ==
  TypeOK /\ ScopeInv /\ RecTyped /\ RecInv /\ [RecNext]_allVars => RecInv'
<1> SUFFICES ASSUME TypeOK, ScopeInv, RecTyped, RecInv, [RecNext]_allVars PROVE RecInv'
  OBVIOUS
<1>0. ASSUME NEW q \in RecRequests PROVE q \in Requests /\ CallOK(q)
  BY <1>0, RowsAssumption DEF RecInv
<1>1. ASSUME NEW q \in RecRequests, Hash(q) PROVE RecInv'
  <2>1. PICK query \in Queries \cup {NoQuery} :
          rec' = [rec EXCEPT ![q] =
                    [pc |-> "lookup", seen |-> NoWallet,
                     key |-> [wallet |-> wallet, query |-> query]]]
    BY <1>1 DEF Hash
  <2>2. [wallet |-> wallet, query |-> query] \in RecKeys
    BY DEF RecTyped, RecKeys
  <2>3. UNCHANGED <<req, txn>> /\ req[q] = Idle /\ txn[q] = NoWrites
    BY <1>0, <1>1 DEF Hash, CallOK, priceVars
  <2>4. CallOK(q)'
    BY <2>1, <2>2, <2>3 DEF CallOK, RecTyped
  <2> QED
    BY <2>1, <2>3, <2>4, CallFrame DEF RecTyped
<1>2. ASSUME NEW q \in RecRequests, LookUp(q) PROVE RecInv'
  <2>1. /\ txn' = txn /\ req[q] = Idle /\ txn[q] = NoWrites
        /\ rec[q].key \in RecKeys
    BY <1>0, <1>2 DEF LookUp, CallOK
  <2>2. CASE rec' = [rec EXCEPT ![q] = RecIdle] /\ req' = req
    <3>1. CallOK(q)'
      BY <2>1, <2>2 DEF CallOK, RecTyped, RecIdle
    <3> QED
      BY <2>1, <2>2, <3>1, CallFrame DEF RecTyped
  <2>3. ASSUME rec' = [rec EXCEPT ![q].pc = "gather"],
               BeginPrices(q, rec[q].key.query)
        PROVE  RecInv'
    <3>1. PICK s : s = [query |-> rec[q].key.query, loc |-> NoLocation]
      OBVIOUS
    <3>2. s \in Scopes /\ s.query = rec[q].key.query
      BY <2>1, <3>1 DEF Scopes, RecKeys
    <3>3. PICK x : x = Begun("batch", s, FALSE)
      OBVIOUS
    <3>4. x.kind = "batch" /\ x.scope = Injected(s) /\ x.pc = "redis" /\ x.owned = TRUE
      BY <3>3 DEF Begun
    <3>5. ProductQuery = NoQuery => Injected(s).query = rec[q].key.query
      BY <3>2 DEF Injected, Scopes
    <3>6. NestedOK(x, rec[q].key, TRUE)
      BY <3>4, <3>5 DEF NestedOK
    <3>7. req' = [req EXCEPT ![q] = x]
      BY <2>3, <3>1, <3>3 DEF BeginPrices
    <3>8. /\ req'[q] = x /\ rec'[q].pc = "gather" /\ rec'[q].key = rec[q].key
          /\ \A p \in RecRequests \ {q} : rec'[p] = rec[p] /\ req'[p] = req[p]
      BY <1>0, <2>3, <3>7 DEF TypeOK, RecTyped
    <3>9. CallOK(q)'
      BY <2>1, <3>6, <3>8 DEF CallOK
    <3> QED
      BY <2>1, <3>8, <3>9, CallFrame
  <2> QED
    BY <1>2, <2>2, <2>3 DEF LookUp
<1>3. ASSUME NEW q \in RecRequests, ReadWallet(q) PROVE RecInv'
  <2>1. /\ UNCHANGED <<req, txn>> /\ rec'[q].pc = rec[q].pc /\ rec'[q].key = rec[q].key
        /\ \A p \in RecRequests \ {q} : rec'[p] = rec[p]
    BY <1>3 DEF ReadWallet, priceVars, RecTyped
  <2>2. CallOK(q)'
    BY <1>0, <2>1 DEF CallOK
  <2> QED
    BY <2>1, <2>2, CallFrame
<1>4. ASSUME NEW q \in RecRequests, NestedPrices(q) PROVE RecInv'
  <2> DEFINE owned == rec[q].pc = "gather"
  <2>1. /\ rec' = rec /\ NestedOK(req[q], rec[q].key, owned)
        /\ rec[q].pc \in {"gather", "orphan"} /\ rec[q].key \in RecKeys
    BY <1>0, <1>4 DEF NestedPrices, recVars, CallOK
  <2>2. NestedOK(req'[q], rec[q].key, owned)
    <3> HIDE DEF owned
    <3> QED
      BY <1>0, <1>4, <2>1, NestedStep DEF NestedPrices
  <2>3. CallOK(q)'
    BY <2>1, <2>2 DEF CallOK
  <2>4. \A p \in RecRequests \ {q} : req'[p] = req[p] /\ txn'[p] = txn[p]
    BY <1>0, <1>4, OthersUntouched DEF NestedPrices, Step
  <2> QED
    BY <2>1, <2>3, <2>4, CallFrame
<1>5. ASSUME NEW q \in RecRequests,
             Stack(q) \/ TooFewPrices(q) \/ RecAbort(q) \/ OrphanEnds(q)
      PROVE  RecInv'
  <2>1. rec' = [rec EXCEPT ![q] = RecIdle] /\ End(q)
    BY <1>5 DEF Stack, Commit, TooFewPrices, RecAbort, OrphanEnds, Discard, Rollback
  <2>2. /\ req'[q] = Idle /\ txn'[q] = NoWrites /\ rec'[q] = RecIdle
        /\ \A p \in RecRequests \ {q} :
              rec'[p] = rec[p] /\ req'[p] = req[p] /\ txn'[p] = txn[p]
    BY <1>0, <2>1 DEF End, TypeOK, RecTyped
  <2>3. CallOK(q)'
    BY <2>2 DEF CallOK, RecIdle
  <2> QED
    BY <2>2, <2>3, CallFrame
<1>6. ASSUME NEW q \in Requests \ RecRequests, Step(q) \/ Fail(q), UNCHANGED recVars
      PROVE  RecInv'
  <2>1. \A p \in RecRequests : req'[p] = req[p] /\ txn'[p] = txn[p]
    BY <1>0, <1>6, OthersUntouched
  <2> QED
    BY <1>6, <2>1 DEF recVars, RecInv, CallOK
<1>7. ASSUME UNCHANGED <<req, txn, rec>> PROVE RecInv'
  BY <1>7 DEF RecInv, CallOK
<1>8. ASSUME Environment, UNCHANGED recVars PROVE UNCHANGED <<req, txn, rec>>
  BY <1>8 DEF Environment, ExpireCache, ExpireInflight, AgeRow, recVars
<1>9. ASSUME \/ UNCHANGED <<priceVars, rec>>
             \/ \E k \in RecKeys : ExpireRec(k)
             \/ UNCHANGED allVars
      PROVE  UNCHANGED <<req, txn, rec>>
  BY <1>9 DEF priceVars, ExpireRec, allVars
<1>10. ASSUME NEW q \in RecRequests, GatherRaises(q) PROVE RecInv'
  <2>1. /\ rec' = [rec EXCEPT ![q].pc = "orphan"] /\ rec[q].pc = "gather"
        /\ req' = [req EXCEPT ![q].owned = FALSE, ![q].image = Loaded]
        /\ txn' = [txn EXCEPT ![q] = NoWrites]
    BY <1>10 DEF GatherRaises, LoseSession
  <2>2. rec[q].key \in RecKeys /\ NestedOK(req[q], rec[q].key, TRUE)
    BY <1>0, <2>1 DEF CallOK
  <2>3. PICK x : x = [req[q] EXCEPT !.owned = FALSE, !.image = Loaded]
    OBVIOUS
  <2>4. /\ x.pc = req[q].pc /\ x.kind = req[q].kind /\ x.scope = req[q].scope
        /\ x.got = req[q].got /\ x.partial = req[q].partial /\ x.owned = FALSE
    BY <1>0, <2>3 DEF TypeOK, ReqStates
  <2>5. NestedOK(x, rec[q].key, FALSE)
    BY <2>2, <2>4 DEF NestedOK
  <2>6. /\ req'[q] = x /\ rec'[q].pc = "orphan" /\ rec'[q].key = rec[q].key
        /\ \A p \in RecRequests \ {q} :
              rec'[p] = rec[p] /\ req'[p] = req[p] /\ txn'[p] = txn[p]
    BY <1>0, <2>1, <2>3 DEF TypeOK, RecTyped
  <2>7. CallOK(q)'
    BY <2>2, <2>5, <2>6 DEF CallOK
  <2> QED
    BY <2>6, <2>7, CallFrame
<1> QED
  BY <1>1, <1>2, <1>3, <1>4, <1>5, <1>6, <1>7, <1>8, <1>9, <1>10, RecCases

-----------------------------------------------------------------------------
(* What the cache gains is what a call that was not partial ended with.    *)
LEMMA RecsStep ==
  TypeOK /\ ScopeInv /\ RecTyped /\ RecInv /\ [RecNext]_allVars
    /\ RecFromWholePrices /\ RecScopePure
  => RecFromWholePrices' /\ RecScopePure'
<1> SUFFICES ASSUME TypeOK, ScopeInv, RecTyped, RecInv, [RecNext]_allVars,
                    RecFromWholePrices, RecScopePure
             PROVE  RecFromWholePrices' /\ RecScopePure'
  OBVIOUS
<1> USE DEF RecFromWholePrices, RecScopePure
<1>1. ASSUME NEW q \in RecRequests, Stack(q), recs' # recs
      PROVE  RecFromWholePrices' /\ RecScopePure'
  <2> DEFINE key == rec[q].key
             new == [wallet |-> rec[q].seen, rows |-> req[q].got]
  <2>1. /\ recs' = [recs EXCEPT ![key] = new] /\ Gathered(q) /\ ~req[q].partial
        /\ ProductQuery = NoQuery
    BY <1>1 DEF Stack, Cacheable
  <2>2. q \in Requests /\ NestedOK(req[q], key, TRUE) /\ req[q].pc = "commit" /\ PayloadOK(req[q])
    BY <2>1, RowsAssumption DEF RecInv, CallOK, Gathered, At, ScopeInv
  <2>3. /\ WholePayload(key.query, new.rows)
        /\ req[q].scope.query = key.query /\ new.rows = req[q].got
    BY <2>1, <2>2 DEF NestedOK
  <2>4. key.query # NoQuery =>
           \A r \in Retailers : new.rows[r] # NoResult => new.rows[r].scope.query = key.query
    BY <2>2, <2>3 DEF PayloadOK, BucketOK
  <2> HIDE DEF new
  <2>5. \A k \in RecKeys : recs'[k] = IF k = key THEN new ELSE recs[k]
    BY <2>1 DEF RecTyped
  <2> HIDE DEF key
  <2> QED
    BY <2>3, <2>4, <2>5 DEF WholePayload
<1>2. ASSUME NEW k \in RecKeys, ExpireRec(k) PROVE RecFromWholePrices' /\ RecScopePure'
  <2>1. \A l \in RecKeys : recs'[l] = NoRec \/ recs'[l] = recs[l]
    BY <1>2 DEF ExpireRec, RecTyped
  <2> QED
    BY <2>1
<1>3. ASSUME recs' = recs PROVE RecFromWholePrices' /\ RecScopePure'
  BY <1>3
<1>4. \/ recs' = recs
      \/ \E q \in RecRequests : Stack(q)
      \/ \E k \in RecKeys : ExpireRec(k)
  BY RecCases DEF Hash, LookUp, ReadWallet, NestedPrices, TooFewPrices, RecAbort,
                  GatherRaises, OrphanEnds, recVars, allVars
<1> QED
  BY <1>1, <1>2, <1>3, <1>4

LEMMA RecInitInv ==
  RecInit => /\ TypeOK /\ ScopeInv /\ RecTyped /\ RecInv
             /\ RecFromWholePrices /\ RecScopePure
<1> SUFFICES ASSUME RecInit
             PROVE  /\ TypeOK /\ ScopeInv /\ RecTyped /\ RecInv
                    /\ RecFromWholePrices /\ RecScopePure
  OBVIOUS
<1>1. TypeOK /\ ScopeInv
  BY ScopeInit, BlankType, IdleType DEF RecInit, Init, TypeOK, NoWrites
<1>2. RecTyped
  BY DEF RecInit, RecTyped, RecIdle, RecPcs
<1>3. RecInv
  BY RowsAssumption DEF RecInit, Init, RecInv, CallOK, RecIdle
<1>4. RecFromWholePrices /\ RecScopePure
  BY DEF RecInit, RecFromWholePrices, RecScopePure
<1> QED
  BY <1>1, <1>2, <1>3, <1>4

LEMMA RecInvariant ==
  RecSpec => [](/\ TypeOK /\ ScopeInv /\ RecTyped /\ RecInv
                /\ RecFromWholePrices /\ RecScopePure)
BY RecInitInv, PricesCarryOver, RecTypeStep, RecInvStep, RecsStep, PTL DEF RecSpec

(* Every reachable state of /recommend and the pipeline is typed.          *)
THEOREM RecTypes == RecSpec => []RecTypeOK
<1>1. TypeOK /\ RecTyped => RecTypeOK
  BY DEF RecTyped, RecTypeOK
<1> QED
  BY RecInvariant, <1>1, PTL

(* /recommend is a client the price pipeline provides for, a get_prices    *)
(* that outlives its call included: whatever holds of the pipeline, with   *)
(* runs that lose their session, holds beside it.                          *)
THEOREM RecDrivesPrices == RecSpec => ImplementsPrices
<1>1. RecInit => Init
  BY DEF RecInit
<1>2. TypeOK /\ RecInv /\ [RecNext]_allVars => [Next]_vars
  BY RecStepRefines
<1> QED
  BY RecInvariant, <1>1, <1>2, PTL DEF RecSpec, Spec, ImplementsPrices

(* No cached recommendation was computed from a mid-stream snapshot.       *)
THEOREM RecsAreWhole == RecSpec => []RecFromWholePrices
BY RecInvariant, PTL

(* One for a bare-name search was computed from that search's prices.      *)
THEOREM RecsArePure == RecSpec => []RecScopePure
BY RecInvariant, PTL
=============================================================================
