--------------------------- MODULE PriceAggregation ---------------------------
(***************************************************************************)
(* The price pipeline of one product: `PriceAggregationService` in         *)
(* backend/modules/m2_prices/service.py, with the transaction `get_db`     *)
(* wraps around each request.                                              *)
(*                                                                         *)
(* A request is a run of `get_prices` (kind "batch") or of `stream_prices` *)
(* (kind "stream").  Every `await` of the code is a place where another    *)
(* request may step in, so every Redis command and every SQL statement is  *)
(* an action of its own.  Four stores are shared: the canonical Redis      *)
(* cache and the Redis in-flight hash, both keyed by scope; the `prices`   *)
(* table, which is keyed by retailer and condition only; and the image of  *)
(* the product's own row, which the first run to find one fills in.        *)
(*                                                                         *)
(* A price is abstracted to the scope of the dispatch that fetched it:     *)
(* what the caches promise is about where a price comes from.              *)
(***************************************************************************)
EXTENDS Naturals, FiniteSets

CONSTANTS
    Requests,         \* HTTP requests and worker calls
    RecRequests,      \* those that are calls of /recommend
    Retailers,        \* keys of ContainerClient.ports
    PortRank,         \* position of a retailer in ContainerClient.ports
    Conditions, New,  \* of a listing; what a listing without one is taken for
    Queries,          \* values of query_override
    NoQuery,          \* query_override is None
    Locations,        \* values of (fb_location_id, fb_radius_miles)
    NoLocation,       \* fb_location_id is None
    ProductQuery,     \* name of a provisional product; NoQuery for any other
    NoResult, NoEntry, NoRow

ASSUME QueriesAssumption ==
    /\ NoQuery \notin Queries
    /\ NoLocation \notin Locations
    /\ ProductQuery \in Queries \cup {NoQuery}

ASSUME RowsAssumption ==
    /\ RecRequests \subseteq Requests
    /\ New \in Conditions

ASSUME PortRankAssumption ==
    /\ PortRank \in [Retailers -> Nat]
    /\ \A r, s \in Retailers : PortRank[r] = PortRank[s] => r = s

(* What the two cache keys of a product are made of: `_cache_key`.         *)
Scopes == [query : Queries \cup {NoQuery}, loc : Locations \cup {NoLocation}]

(* One classified retailer result.                                         *)
Results == [ok : BOOLEAN, scope : Scopes]

ASSUME MarkersAssumption ==
    /\ NoResult \notin Results
    /\ NoEntry \notin [Retailers -> Results \cup {NoResult}]
    /\ NoRow \notin Scopes

Snapshots == [Retailers -> Results \cup {NoResult}]
Blank == [r \in Retailers |-> NoResult]

(* The conflict key of the upsert, for one product.                        *)
Rows == Retailers \X Conditions

VARIABLES
    cache,       \* canonical Redis entries, by scope
    inflight,    \* in-flight Redis hashes, by scope
    prices,      \* committed, fresh rows of the prices table
    image,       \* the committed products.image_url is set
    txn,         \* uncommitted upserts of each request
    req          \* control state of each request

vars == <<cache, inflight, prices, image, txn, req>>

Kinds == {"batch", "stream"}
Pcs == {"idle", "redis", "inflight", "exists", "db", "backfill", "run",
        "upsert", "publish", "clear", "commit"}

(* image_url of the request's own copy of the product row: not NULL when   *)
(* loaded; NULL; set by this run; set, and sent to the database.           *)
Images == {"known", "missing", "assigned", "written"}

ReqStates == [pc      : Pcs,
              kind    : Kinds,
              scope   : Scopes,
              got     : Snapshots,            \* the payload in hand
              partial : BOOLEAN,              \* its `_inflight` marker
              todo    : SUBSET Retailers,     \* not yet persisted and published
              cond    : [Retailers -> Conditions],   \* of the listings in hand
              image   : Images,
              owned   : BOOLEAN]              \* its caller will commit or roll back

TypeOK ==
    /\ cache \in [Scopes -> Snapshots \cup {NoEntry}]
    /\ inflight \in [Scopes -> Snapshots]
    /\ prices \in [Rows -> Scopes \cup {NoRow}]
    /\ image \in BOOLEAN
    /\ txn \in [Requests -> [Rows -> Scopes \cup {NoRow}]]
    /\ req \in [Requests -> ReqStates]

NoWrites == [row \in Rows |-> NoRow]
AllNew == [r \in Retailers |-> New]

Idle == [pc |-> "idle", kind |-> "batch",
         scope |-> [query |-> NoQuery, loc |-> NoLocation],
         got |-> Blank, partial |-> FALSE, todo |-> {}, cond |-> AllNew,
         image |-> "known", owned |-> TRUE]

Init ==
    /\ cache = [s \in Scopes |-> NoEntry]
    /\ inflight = [s \in Scopes |-> Blank]
    /\ prices = [row \in Rows |-> NoRow]
    /\ image \in BOOLEAN
    /\ txn = [q \in Requests |-> NoWrites]
    /\ req = [q \in Requests |-> Idle]

-----------------------------------------------------------------------------
(* Reading                                                                 *)

At(q, pc) == req[q].pc = pc
Goto(q, pc) == req' = [req EXCEPT ![q].pc = pc]
Serve(q, pc, got, partial) ==
    req' = [req EXCEPT ![q].pc = pc, ![q].got = got, ![q].partial = partial]

(* A provisional product injects its own name as the query override.       *)
Injected(s) == IF s.query = NoQuery THEN [s EXCEPT !.query = ProductQuery] ELSE s

(* _validate_product loads the row first.                                  *)
Loaded == IF image THEN "known" ELSE "missing"

(* force_refresh goes straight to the dispatch, in both methods.           *)
Begun(kind, s, force) ==
    [pc |-> IF force THEN "run" ELSE "redis",
     kind |-> kind, scope |-> Injected(s), got |-> Blank, partial |-> FALSE,
     todo |-> IF force THEN Retailers ELSE {}, cond |-> AllNew,
     image |-> Loaded, owned |-> TRUE]

Begin(q) ==
    /\ At(q, "idle")
    /\ \E kind \in Kinds, s \in Scopes, force \in BOOLEAN :
          req' = [req EXCEPT ![q] = Begun(kind, s, force)]
    /\ UNCHANGED <<cache, inflight, prices, image, txn>>

(* All the retailers are called.                                           *)
Dispatch(q) == req' = [req EXCEPT ![q].pc = "run", ![q].todo = Retailers]

(* Mutant: the guard on the override is forgotten.                         *)
DbReadableUnderOverride(kind, s) == kind = "stream" => s.loc = NoLocation

(* stream_prices reads the prices table only for a request with neither    *)
(* override nor location; get_prices only asks that there be no override.  *)
DbReadable(kind, s) ==
    /\ s.query = NoQuery
    /\ kind = "stream" => s.loc = NoLocation

DbOrDispatch(q) ==
    IF DbReadable(req[q].kind, req[q].scope) THEN Goto(q, "db") ELSE Dispatch(q)

CheckRedis(q) ==
    /\ At(q, "redis")
    /\ LET entry == cache[req[q].scope] IN
       CASE entry # NoEntry          -> Serve(q, "commit", entry, FALSE)
         [] entry = NoEntry /\ req[q].kind = "batch"  -> Goto(q, "inflight")
         [] entry = NoEntry /\ req[q].kind = "stream" -> DbOrDispatch(q)
    /\ UNCHANGED <<cache, inflight, prices, image, txn>>

(* A Redis error reads as "no stream in flight", here and in CheckExists.  *)
CheckInflight(q) ==
    /\ At(q, "inflight")
    /\ \/ /\ inflight[req[q].scope] # Blank
          /\ Serve(q, "commit", inflight[req[q].scope], TRUE)
       \/ /\ inflight[req[q].scope] = Blank
          /\ Goto(q, "exists")
       \/ DbOrDispatch(q)                             \* soft failure
    /\ UNCHANGED <<cache, inflight, prices, image, txn>>

(* HGETALL came back empty: EXISTS asks whether the key is there.  Redis   *)
(* keeps no empty hash, so it is there exactly when a stream has published *)
(* between the two; the answer is then the empty payload of before.        *)
CheckExists(q) ==
    /\ At(q, "exists")
    /\ \/ /\ inflight[req[q].scope] # Blank
          /\ Serve(q, "commit", Blank, TRUE)
       \/ DbOrDispatch(q)                 \* no such key, or a soft failure
    /\ UNCHANGED <<cache, inflight, prices, image, txn>>

(* The rows as a payload of successes.  The code has no column to tell     *)
(* which scope fetched a row; the model's value says it for the            *)
(* properties.  Of a retailer with rows of several conditions the payload  *)
(* lists them all; here any one of them stands for the rest.               *)
Fresh(r) == {c \in Conditions : prices[<<r, c>>] # NoRow}

DbSnapshot(pick) ==
    [r \in Retailers |-> IF Fresh(r) # {}
                         THEN [ok |-> TRUE, scope |-> prices[<<r, pick[r]>>]]
                         ELSE NoResult]

CheckDb(q) ==
    /\ At(q, "db")
    /\ \E pick \in [Retailers -> Conditions] :
          /\ \A r \in Retailers : Fresh(r) # {} => pick[r] \in Fresh(r)
          /\ IF DbSnapshot(pick) # Blank
             THEN Serve(q, "backfill", DbSnapshot(pick), FALSE)
             ELSE Dispatch(q)
    /\ UNCHANGED <<cache, inflight, prices, image, txn>>

BackfillCache(q) ==
    /\ At(q, "backfill")
    /\ cache' = [cache EXCEPT ![req[q].scope] = req[q].got]
    /\ Goto(q, "commit")
    /\ UNCHANGED <<inflight, prices, image, txn>>

-----------------------------------------------------------------------------
(* Dispatching and persisting                                              *)

Outcome(q, ok) == [ok |-> ok, scope |-> req[q].scope]

(* extract_all returns one response per retailer, errors included.         *)
Collect(q) ==
    /\ At(q, "run") /\ req[q].kind = "batch"
    /\ \E ok \in [Retailers -> BOOLEAN], cond \in [Retailers -> Conditions] :
          /\ \A r \in Retailers : ok[r] \/ cond[r] = New
          /\ req' = [req EXCEPT ![q].pc = "upsert", ![q].cond = cond,
                             ![q].got = [r \in Retailers |-> Outcome(q, ok[r])],
                             ![q].todo = {r \in Retailers : ok[r]}]
    /\ UNCHANGED <<cache, inflight, prices, image, txn>>

(* The next future of asyncio.as_completed.                                *)
Arrive(q, r) ==
    /\ At(q, "run") /\ req[q].kind = "stream"
    /\ r \in req[q].todo
    /\ \E ok \in BOOLEAN, c \in Conditions :
          /\ ok \/ c = New
          /\ req' = [req EXCEPT ![q].pc = IF ok THEN "upsert" ELSE "publish",
                                ![q].got[r] = Outcome(q, ok), ![q].cond[r] = c]
    /\ UNCHANGED <<cache, inflight, prices, image, txn>>

(* Retailers whose result is in hand and not yet dealt with: one for a     *)
(* stream; for a batch all that are left, taken in the order of the ports. *)
InHand(q) == {r \in req[q].todo : req[q].got[r] # NoResult}
First(q) == {r \in InHand(q) : \A o \in InHand(q) : PortRank[r] <= PortRank[o]}

(* The next call of the request is a statement of its session.             *)
AtStatement(q) ==
    \/ At(q, "upsert") \/ At(q, "commit")
    \/ At(q, "run") /\ req[q].kind = "stream" /\ req[q].todo = {}

(* An image_url that was assigned is autoflushed before the next statement *)
(* of the session, whatever that is: UPDATE products waits for an open     *)
(* transaction that has written it.                                        *)
WaitsForProduct(q, p) ==
    /\ p # q
    /\ AtStatement(q) /\ req[q].image = "assigned"
    /\ req[p].image = "written"

WriteImage(q) ==
    /\ AtStatement(q) /\ req[q].image = "assigned"
    /\ \A p \in Requests : ~WaitsForProduct(q, p)
    /\ req' = [req EXCEPT ![q].image = "written"]
    /\ UNCHANGED <<cache, inflight, prices, image, txn>>

(* INSERT ... ON CONFLICT waits for an open transaction that wrote the row.*)
RowOf(q, r) == <<r, req[q].cond[r]>>

WaitsForRow(q, p) ==
    /\ p # q
    /\ At(q, "upsert") /\ req[q].image # "assigned"
    /\ \E r \in First(q) : txn[p][RowOf(q, r)] # NoRow

WaitsFor(q, p) == WaitsForRow(q, p) \/ WaitsForProduct(q, p)

(* A listing with an image gives it to a product that had none.            *)
ImageAfter(q) == IF req[q].image = "missing" THEN {"missing", "assigned"}
                                             ELSE {req[q].image}

Persisted(q, r, img) ==
    LET streams == req[q].kind = "stream" IN
    [req[q] EXCEPT !.pc = IF streams THEN "publish" ELSE "upsert",
                   !.todo = IF streams THEN @ ELSE @ \ {r},
                   !.cond[r] = New, !.image = img]

Persist(q, r) ==
    /\ txn' = [txn EXCEPT ![q][RowOf(q, r)] = req[q].scope]
    /\ \E img \in ImageAfter(q) : req' = [req EXCEPT ![q] = Persisted(q, r, img)]
    /\ UNCHANGED <<cache, inflight, prices, image>>

(* Mutant: a batch persists in whatever order.                             *)
UpsertInAnyOrder(q) ==
    /\ At(q, "upsert") /\ req[q].image # "assigned"
    /\ \E r \in InHand(q) :
          /\ \A p \in Requests \ {q} : txn[p][RowOf(q, r)] = NoRow
          /\ Persist(q, r)

Upsert(q) ==
    /\ At(q, "upsert") /\ req[q].image # "assigned"
    /\ \A p \in Requests : ~WaitsForRow(q, p)
    /\ \E r \in First(q) : Persist(q, r)

(* _write_inflight swallows a Redis error.                                 *)
Publish(q) ==
    /\ At(q, "publish")
    /\ \E r \in InHand(q) :
          /\ \/ inflight' = [inflight EXCEPT ![req[q].scope][r] = req[q].got[r]]
             \/ inflight' = inflight
          /\ req' = [req EXCEPT ![q].pc = "run", ![q].todo = @ \ {r}]
    /\ UNCHANGED <<cache, prices, image, txn>>

(* Mutant: a run that found no price is not cached.                        *)
FinishSkipsEmpty(q) ==
    /\ \/ At(q, "run") /\ req[q].kind = "stream"
       \/ At(q, "upsert") /\ req[q].kind = "batch"
    /\ req[q].todo = {} /\ req[q].image # "assigned"
    /\ IF \E r \in Retailers : req[q].got[r].ok
       THEN cache' = [cache EXCEPT ![req[q].scope] = req[q].got]
       ELSE UNCHANGED cache
    /\ Goto(q, IF req[q].kind = "stream" THEN "clear" ELSE "commit")
    /\ UNCHANGED <<inflight, prices, image, txn>>

(* Flush, then write the canonical entry.                                  *)
Finish(q) ==
    /\ \/ At(q, "run") /\ req[q].kind = "stream"
       \/ At(q, "upsert") /\ req[q].kind = "batch"
    /\ req[q].todo = {} /\ req[q].image # "assigned"
    /\ cache' = [cache EXCEPT ![req[q].scope] = req[q].got]
    /\ Goto(q, IF req[q].kind = "stream" THEN "clear" ELSE "commit")
    /\ UNCHANGED <<inflight, prices, image, txn>>

(* _clear_inflight deletes the hash whoever wrote it; errors are swallowed.*)
ClearInflight(q) ==
    /\ At(q, "clear")
    /\ \/ inflight' = [inflight EXCEPT ![req[q].scope] = Blank]
       \/ inflight' = inflight
    /\ Goto(q, "commit")
    /\ UNCHANGED <<cache, prices, image, txn>>

(* The request is over and its session closed.                             *)
End(q) == /\ txn' = [txn EXCEPT ![q] = NoWrites]
          /\ req' = [req EXCEPT ![q] = Idle]

(* get_db commits once the response has been produced, and flushes first.  *)
Commit(q) ==
    /\ At(q, "commit") /\ req[q].image # "assigned" /\ req[q].owned
    /\ prices' = [row \in Rows |-> IF txn[q][row] # NoRow THEN txn[q][row]
                                                          ELSE prices[row]]
    /\ image' = (image \/ req[q].image = "written")
    /\ End(q)
    /\ UNCHANGED <<cache, inflight>>

-----------------------------------------------------------------------------
(* Failing                                                                 *)

(* Mutant: the session is dropped without a rollback.                      *)
RollbackLeaksSession(q) ==
    /\ req' = [req EXCEPT ![q] = Idle]
    /\ UNCHANGED <<cache, inflight, prices, image, txn>>

Rollback(q) ==
    /\ End(q)
    /\ UNCHANGED <<cache, inflight, prices, image>>

(* Mutant: no return after the error event, so the stream goes on to cache.*)
StreamErrorCaches(q) ==
    /\ req[q].kind = "stream" /\ req[q].pc \in {"run", "upsert", "publish"}
    /\ cache' = [cache EXCEPT ![req[q].scope] = req[q].got]
    /\ Goto(q, "clear")
    /\ UNCHANGED <<inflight, prices, image, txn>>

(* An exception the stream catches and that left the transaction usable:   *)
(* the generator yields an error event and returns, and get_db commits     *)
(* what was upserted so far.                                               *)
StreamError(q) ==
    /\ req[q].kind = "stream" /\ req[q].pc \in {"run", "upsert", "publish"}
    /\ Goto(q, "commit")
    /\ UNCHANGED <<cache, inflight, prices, image, txn>>

(* /recommend gathers get_prices with other lookups.  When one of those    *)
(* raises, the session is rolled back and nobody waits for get_prices any  *)
(* more, but its task runs on: it may fail at its next touch of the        *)
(* session or of the product (Abort), or find both usable and go on, in a  *)
(* new transaction, to the canonical cache.  Nobody commits what it does.  *)
LoseSession(q) ==
    /\ q \in RecRequests /\ req[q].kind = "batch"
    /\ ~At(q, "idle") /\ req[q].owned
    /\ txn' = [txn EXCEPT ![q] = NoWrites]
    /\ req' = [req EXCEPT ![q].owned = FALSE, ![q].image = Loaded]
    /\ UNCHANGED <<cache, inflight, prices, image>>

(* Such a task ends, and its session is dropped.                           *)
Discard(q) ==
    /\ At(q, "commit") /\ ~req[q].owned
    /\ Rollback(q)

(* A cancelled stream, an uncaught exception, a lost connection, a crash   *)
(* of the process: the transaction rolls back, Redis keeps what it has.    *)
Abort(q) ==
    /\ ~At(q, "idle")
    /\ Rollback(q)

(* A set of transactions each waiting for one of the set and waited for by *)
(* one of the set.                                                         *)
DeadlockSet(S) ==
    /\ S # {}
    /\ \A q \in S : \E p \in S : WaitsFor(q, p)
    /\ \A q \in S : \E p \in S : WaitsFor(p, q)

Deadlocked(q) == \E S \in SUBSET Requests : q \in S /\ DeadlockSet(S)

(* PostgreSQL aborts a transaction of a deadlock.                          *)
DeadlockVictim(q) ==
    /\ Deadlocked(q)
    /\ Rollback(q)

(* The environment: TTLs, and rows that leave the freshness window: a row  *)
(* not checked within DB_FRESHNESS_HOURS is never read again, only         *)
(* overwritten, which is to say that it is no row.  The                    *)
(* shortest TTL of a canonical entry is half an hour: it does not run out  *)
(* between a stream's write and the clear that is its very next command.   *)
ExpireCache(s) ==
    /\ cache[s] # NoEntry
    /\ \A q \in Requests : ~(At(q, "clear") /\ req[q].scope = s)
    /\ cache' = [cache EXCEPT ![s] = NoEntry]
    /\ UNCHANGED <<inflight, prices, image, txn, req>>

ExpireInflight(s) ==
    /\ inflight[s] # Blank
    /\ inflight' = [inflight EXCEPT ![s] = Blank]
    /\ UNCHANGED <<cache, prices, image, txn, req>>

AgeRow(row) ==
    /\ prices[row] # NoRow
    /\ prices' = [prices EXCEPT ![row] = NoRow]
    /\ UNCHANGED <<cache, inflight, image, txn, req>>

-----------------------------------------------------------------------------
Step(q) ==
    \/ Begin(q) \/ CheckRedis(q) \/ CheckInflight(q) \/ CheckExists(q) \/ CheckDb(q)
    \/ BackfillCache(q) \/ Collect(q)
    \/ \E r \in Retailers : Arrive(q, r)
    \/ WriteImage(q) \/ Upsert(q) \/ Publish(q) \/ Finish(q)
    \/ ClearInflight(q) \/ Commit(q) \/ Discard(q)

Fail(q) == StreamError(q) \/ LoseSession(q) \/ Abort(q) \/ DeadlockVictim(q)

Environment ==
    \/ \E s \in Scopes : ExpireCache(s) \/ ExpireInflight(s)
    \/ \E row \in Rows : AgeRow(row)

Next == (\E q \in Requests : Step(q) \/ Fail(q)) \/ Environment

Spec == Init /\ [][Next]_vars

(* The event loop keeps running a request that has begun, every container  *)
(* call ends (a client-side timeout), and PostgreSQL breaks deadlocks and  *)
(* queues the waiters of a row, so that none is overtaken for ever.        *)
(* Nothing obliges a request to begin, to fail or a TTL to pass.           *)
Progress(q) == (Step(q) /\ ~At(q, "idle")) \/ DeadlockVictim(q)
Fairness == \A q \in Requests :
    WF_vars(Progress(q)) /\ SF_vars(Upsert(q)) /\ SF_vars(WriteImage(q))
FairSpec == Spec /\ Fairness

-----------------------------------------------------------------------------
(* Safety                                                                  *)

Entries(s) == {r \in Retailers : cache[s][r] # NoResult}

(* What a bare-name search is served, from any layer and under any         *)
(* interleaving with runs of other scopes, was fetched by a dispatch of    *)
(* that very search; and no in-flight hash ever mixes two scopes.          *)
InflightPure ==
    \A s \in Scopes : \A r \in Retailers :
        inflight[s][r] # NoResult => inflight[s][r].scope = s

OverrideEntriesPure ==
    \A s \in Scopes : s.query # NoQuery /\ cache[s] # NoEntry =>
        \A r \in Entries(s) : cache[s][r].scope = s

OverrideRepliesPure ==
    \A q \in Requests : req[q].scope.query # NoQuery =>
        \A r \in Retailers :
            req[q].got[r] # NoResult => req[q].got[r].scope = req[q].scope

OverrideIsolation == InflightPure /\ OverrideEntriesPure /\ OverrideRepliesPure

(* A partial payload (a mid-stream bucket, a stream that failed half way)  *)
(* never becomes a canonical entry: an entry that does not cover every     *)
(* retailer was rebuilt from the prices table, and so lists successes only *)
(* and sits under a key without an override.                               *)
PartialNeverCanonical ==
    \A s \in Scopes : cache[s] # NoEntry =>
        \/ Entries(s) = Retailers
        \/ s.query = NoQuery /\ \A r \in Entries(s) : cache[s][r].ok

(* The code drops an in-flight bucket only once the canonical entry stands *)
(* in for it: a reader of the scope is never left between the two.         *)
NoVisibilityGap ==
    [][\A s \in Scopes :
          inflight[s] # Blank /\ inflight'[s] = Blank
             => ExpireInflight(s) \/ cache'[s] # NoEntry]_vars

(* Batch runs upsert in the order of the ports, so the rows of the prices  *)
(* table alone never make batches wait for one another in a circle.  What  *)
(* can is the product's own row, which a batch locks after its first price *)
(* with an image, wherever that stands among the ports: every deadlock of  *)
(* batches has one that waits to write the image another has written.      *)
BatchesDeadlockOverImage ==
    \A S \in SUBSET Requests :
        DeadlockSet(S) /\ (\A q \in S : req[q].kind = "batch")
            => \E q, p \in S : WaitsForProduct(q, p)

(* Liveness: every request that begins ends, row locks or not.             *)
EveryRequestEnds ==
    \A q \in Requests : ~At(q, "idle") ~> At(q, "idle")

-----------------------------------------------------------------------------
(* The inductive invariant behind OverrideIsolation and                    *)
(* PartialNeverCanonical, value by value.                                  *)

BucketOK(s, bucket) ==
    \A r \in Retailers : bucket[r] # NoResult => bucket[r].scope = s

EntryOK(s, entry) ==
    entry # NoEntry =>
        /\ s.query # NoQuery => BucketOK(s, entry)
        /\ \/ \A r \in Retailers : entry[r] # NoResult
           \/ /\ s.query = NoQuery
              /\ \A r \in Retailers : entry[r] # NoResult => entry[r].ok

(* Of a request: nothing in hand before the dispatch; what is in hand of a *)
(* live run was fetched by it, and a retailer without a result is still to *)
(* do; the prices table is only read for a request without an override.    *)
PayloadOK(x) ==
    /\ x.pc \in {"idle", "redis", "inflight", "exists", "db"} => x.got = Blank
    /\ x.scope.query # NoQuery => BucketOK(x.scope, x.got)
    /\ x.pc \in {"run", "upsert", "publish"} =>
          /\ BucketOK(x.scope, x.got)
          /\ \A r \in Retailers : x.got[r] = NoResult => r \in x.todo
    /\ x.pc \in {"db", "backfill"} => x.scope.query = NoQuery
    /\ x.pc = "backfill" =>
          \A r \in Retailers : x.got[r] # NoResult => x.got[r].ok

ScopeInv ==
    /\ \A s \in Scopes : BucketOK(s, inflight[s]) /\ EntryOK(s, cache[s])
    /\ \A q \in Requests : PayloadOK(req[q])

(* And the one behind BatchesDeadlockOverImage: a batch that has written a row *)
(* is upserting, or done, and what is left is of later ports than all that *)
(* it has locked.                                                          *)
LocksOK ==
    \A q \in Requests :
        /\ req[q].pc \in {"publish", "clear"} => req[q].kind = "stream"
        /\ \/ req[q].pc \in {"idle", "redis", "inflight", "exists", "db", "backfill"}
           \/ req[q].pc = "run" /\ req[q].kind = "batch"
           => \A row \in Rows : txn[q][row] = NoRow
        /\ req[q].kind = "batch" =>
              /\ req[q].pc = "upsert" => \A o \in req[q].todo : req[q].got[o] # NoResult
              /\ \A r \in Retailers, c \in Conditions, o \in req[q].todo :
                    txn[q][<<r, c>>] # NoRow => PortRank[r] < PortRank[o]

-----------------------------------------------------------------------------
(* What comments of service.py say, and the code does not do               *)

(* "The namespaces are disjoint, so no path can pollute another."          *)
NamespacesDisjoint ==
    \A s \in Scopes : cache[s] # NoEntry =>
        \A r \in Entries(s) : cache[s][r].scope.query = s.query

(* Mid-run: dispatched, and not yet past the clear of its bucket.          *)
StreamLive(s) ==
    \E p \in Requests : /\ req[p].kind = "stream" /\ req[p].scope = s
                        /\ req[p].pc \in {"run", "upsert", "publish", "clear"}

Looking(q) == At(q, "inflight") \/ At(q, "exists")

(* A get_prices that looks for a stream while one is mid-run is answered   *)
(* from its bucket, partial or empty: it "MUST NOT fall through to         *)
(* DB-then-dispatch".                                                      *)
NoParallelDispatch ==
    [][\A q \in Requests :
          Looking(q) /\ StreamLive(req[q].scope) /\ ~Looking(q)'
             => req'[q].partial \/ req'[q].pc = "idle"]_vars
=============================================================================
