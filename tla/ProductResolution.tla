-------------------------- MODULE ProductResolution --------------------------
(***************************************************************************)
(* From a barcode or a search result to a product row:                     *)
(* backend/modules/m1_product/service.py, its routes and upcitemdb.py,     *)
(* over the request's transaction (app/dependencies.py get_db).            *)
(*                                                                         *)
(* A request looks the UPC up in Redis, then in PostgreSQL, then asks two  *)
(* upstreams and inserts a row; a search result first needs a UPC, from a  *)
(* cache or from upstream, and its row must look like what was searched.   *)
(* The row is flushed, not committed, when its id goes to Redis: another   *)
(* request can read the id of a row it cannot see, and of one that is      *)
(* rolled back later.                                                      *)
(*                                                                         *)
(* A row is named by the request that inserted it.  There is one query;    *)
(* whether a row matches it depends on its UPC.  Names, images and         *)
(* confidence are abstracted to the source label cross-validation picks.   *)
(***************************************************************************)
EXTENDS Integers, FiniteSets

CONSTANTS
    Resolves,     \* requests in flight
    Upcs,         \* barcodes that are not a pattern of one digit
    MatchingUpcs,     \* the barcodes whose product matches the query
    Provisional,  \* PROVISIONAL_RESOLVE_ENABLED
    None

Sources == {"gemini_validated", "upcitemdb_override", "gemini_upc", "upcitemdb", "none",
            "provisional"}
ProductRows == [upc : Upcs \union {None}, source : Sources, confirmed : BOOLEAN]

ASSUME ResolutionAssumption == None \notin Upcs \union Resolves \union ProductRows

VARIABLES
    products,     \* products: row id -> [upc, source, confirmed], committed
    pending,  \* each request's flushed but uncommitted row, or None
    redis,    \* product:upc:{upc} -> row id or None
    devupc,   \* product:devupc:{query} -> UPC or None
    resolve       \* each request: kind, step, UPC, row id, and what it met

resolutionVars == <<products, pending, redis, devupc, resolve>>

Kinds == {"scan", "search", "confirm"}
Finished == {"done", "failed"}
NoResolve == [pc |-> "idle", kind |-> "scan", upc |-> None, cached |-> FALSE, id |-> None,
         source |-> "none"]

ResolveAt(r, pc) == resolve[r].pc = pc
Goes(r, pc) == resolve' = [resolve EXCEPT ![r].pc = pc]

(* An exception leaves the route: get_db rolls the transaction back.       *)
RollBack(r) == pending' = [pending EXCEPT ![r] = None]

----------------------------------------------------------------------------
ResolutionInit ==
    /\ products = <<>>
    /\ pending = [r \in Resolves |-> None]
    /\ redis = [u \in Upcs |-> None]
    /\ devupc = None
    /\ resolve = [r \in Resolves |-> NoResolve]

(* POST /resolve with a barcode; /resolve-from-search and its /confirm     *)
(* with a description.                                                     *)
Scan(r, u) ==
    /\ ResolveAt(r, "idle")
    /\ resolve' = [resolve EXCEPT ![r] = [NoResolve EXCEPT !.pc = "redis", !.upc = u]]
    /\ UNCHANGED <<products, pending, redis, devupc>>

Search(r, kind) ==
    /\ ResolveAt(r, "idle")
    /\ resolve' = [resolve EXCEPT ![r] = [NoResolve EXCEPT !.pc = "devupc", !.kind = kind]]
    /\ UNCHANGED <<products, pending, redis, devupc>>

(* _get_cached_devupc.                                                     *)
ReadDevUpc(r) ==
    /\ ResolveAt(r, "devupc")
    /\ IF devupc # None
       THEN resolve' = [resolve EXCEPT ![r].pc = "redis", ![r].upc = devupc, ![r].cached = TRUE]
       ELSE Goes(r, "describe")
    /\ UNCHANGED <<products, pending, redis, devupc>>

(* Gemini's and UPCitemdb's answers to the description: Gemini's is        *)
(* preferred; without either the row is provisional, or the request fails. *)
Describe(r, gemini, upcitemdb) ==
    LET u == IF gemini # None THEN gemini ELSE upcitemdb
    IN  /\ ResolveAt(r, "describe")
        /\ IF u # None
           THEN resolve' = [resolve EXCEPT ![r].pc = "redis", ![r].upc = u]
           ELSE Goes(r, IF Provisional THEN "provisional" ELSE "failed")
        /\ UNCHANGED <<products, pending, redis, devupc>>

(* _persist_provisional: a recent row of the same name is used again; two  *)
(* requests that both find none both insert one.                           *)
PersistProvisional(r) ==
    LET recent == {i \in DOMAIN products : products[i].source = "provisional"}
    IN  /\ ResolveAt(r, "provisional")
        /\ IF recent # {}
           THEN /\ \E i \in recent : resolve' = [resolve EXCEPT ![r].pc = "commit", ![r].id = i]
                /\ UNCHANGED pending
           ELSE /\ resolve' = [resolve EXCEPT ![r].pc = "commit", ![r].id = r]
                /\ pending' = [pending EXCEPT ![r] =
                      [upc |-> None, source |-> "provisional", confirmed |-> FALSE]]
        /\ UNCHANGED <<products, redis, devupc>>

(* A mutant: the cached id is answered without loading its row.            *)
CheckRedisUnloaded(r) ==
    LET id == redis[resolve[r].upc]
    IN  /\ ResolveAt(r, "redis")
        /\ resolve' = [resolve EXCEPT ![r].pc = IF id = None THEN "postgres" ELSE "match", ![r].id = id]
        /\ UNCHANGED <<products, pending, redis, devupc>>

(* _check_redis: an id whose row is not there (deleted, rolled back, or    *)
(* not committed yet) is dropped from the cache.                           *)
CheckRedis(r) ==
    LET id == redis[resolve[r].upc]
    IN  /\ ResolveAt(r, "redis")
        /\ IF id \in DOMAIN products
           THEN /\ resolve' = [resolve EXCEPT ![r].pc = "match", ![r].id = id]
                /\ UNCHANGED redis
           ELSE /\ redis' = [redis EXCEPT ![resolve[r].upc] = None]
                /\ Goes(r, "postgres")
        /\ UNCHANGED <<products, pending, devupc>>

RowOf(u) == {i \in DOMAIN products : products[i].upc = u}

(* _check_postgres.                                                        *)
CheckPostgres(r) ==
    /\ ResolveAt(r, "postgres")
    /\ IF RowOf(resolve[r].upc) = {} THEN Goes(r, "upstream")
       ELSE \E i \in RowOf(resolve[r].upc) :
               resolve' = [resolve EXCEPT ![r].pc = "cache", ![r].id = i]
    /\ UNCHANGED <<products, pending, redis, devupc>>

(* _cross_validate: what each upstream says of the barcode, "agree" and    *)
(* "disagree" being UPCitemdb's brand against Gemini's name.               *)
CrossValidate(gemini, upcitemdb) ==
    CASE gemini /\ upcitemdb = "agree"     -> "gemini_validated"
      [] gemini /\ upcitemdb = "disagree"  -> "upcitemdb_override"
      [] gemini /\ upcitemdb = "nothing"   -> "gemini_upc"
      [] ~gemini /\ upcitemdb # "nothing"  -> "upcitemdb"
      [] OTHER                             -> "none"

(* Gemini answers to its prompt, or to the broader retry when the first    *)
(* pass came back empty; a failed upstream says nothing.                   *)
Upstream(r, first, retry, upcitemdb) ==
    LET source == CrossValidate(first \/ retry, upcitemdb)
    IN  /\ ResolveAt(r, "upstream")
        /\ IF source = "none" THEN Goes(r, "failed")
           ELSE resolve' = [resolve EXCEPT ![r].pc = "insert", ![r].source = source]
        /\ UNCHANGED <<products, pending, redis, devupc>>

(* _persist_product: the insert waits for another transaction's row of the *)
(* same UPC; when that one commits, the unique index refuses this one and  *)
(* the row that is there is loaded instead.                                *)
Insert(r) ==
    LET u == resolve[r].upc
    IN  /\ ResolveAt(r, "insert")
        /\ \A s \in Resolves \ {r} : pending[s] # None => pending[s].upc # u
        /\ IF RowOf(u) = {}
           THEN /\ pending' = [pending EXCEPT ![r] =
                      [upc |-> u, source |-> resolve[r].source, confirmed |-> FALSE]]
                /\ resolve' = [resolve EXCEPT ![r].pc = "cache", ![r].id = r]
           ELSE /\ RollBack(r)
                /\ \E i \in RowOf(u) : resolve' = [resolve EXCEPT ![r].pc = "cache", ![r].id = i]
        /\ UNCHANGED <<products, redis, devupc>>

(* _cache_to_redis.                                                        *)
Cache(r) ==
    /\ ResolveAt(r, "cache")
    /\ redis' = [redis EXCEPT ![resolve[r].upc] = resolve[r].id]
    /\ Goes(r, "match")
    /\ UNCHANGED <<products, pending, devupc>>

(* _resolved_matches_query: a barcode that was scanned is not questioned.  *)
(* A row that does not match is refused: a mapping that came from the      *)
(* cache is dropped, and the exception rolls the transaction back.         *)
Match(r) ==
    /\ ResolveAt(r, "match")
    /\ IF resolve[r].kind = "scan" THEN Goes(r, "commit") /\ UNCHANGED <<pending, devupc>>
       ELSE IF resolve[r].upc \in MatchingUpcs
       THEN /\ devupc' = IF resolve[r].cached THEN devupc ELSE resolve[r].upc
            /\ Goes(r, "commit")
            /\ UNCHANGED pending
       ELSE /\ devupc' = IF resolve[r].cached THEN None ELSE devupc
            /\ resolve' = [resolve EXCEPT ![r].pc = "failed"]
            /\ RollBack(r)
    /\ UNCHANGED <<products, redis>>

(* The route returns: get_db commits.  A confirmed row carries the flag.   *)
CommitResolve(r) ==
    LET stored == IF pending[r] = None THEN products
              ELSE [i \in DOMAIN products \union {r} |->
                       IF i = r THEN pending[r] ELSE products[i]]
    IN  /\ ResolveAt(r, "commit")
        /\ products' = IF resolve[r].kind = "confirm"
                   THEN [stored EXCEPT ![resolve[r].id].confirmed = TRUE] ELSE stored
        /\ RollBack(r)
        /\ Goes(r, "done")
        /\ UNCHANGED <<redis, devupc>>

(* Redis or the database fails, or the client goes: rolled back.           *)
Abort(r) ==
    /\ resolve[r].pc \notin Finished \union {"idle"}
    /\ RollBack(r)
    /\ Goes(r, "failed")
    /\ UNCHANGED <<products, redis, devupc>>

(* A day has passed.                                                       *)
Expire ==
    \/ \E u \in Upcs : redis[u] # None /\ redis' = [redis EXCEPT ![u] = None]
                       /\ UNCHANGED <<products, pending, devupc, resolve>>
    \/ devupc # None /\ devupc' = None /\ UNCHANGED <<products, pending, redis, resolve>>

ResolutionNext ==
    \/ \E r \in Resolves :
        \/ \E u \in Upcs : Scan(r, u)
        \/ \E kind \in {"search", "confirm"} : Search(r, kind)
        \/ ReadDevUpc(r)
        \/ \E g, i \in Upcs \union {None} : Describe(r, g, i)
        \/ PersistProvisional(r)
        \/ CheckRedis(r)
        \/ CheckPostgres(r)
        \/ \E first, retry \in BOOLEAN, i \in {"agree", "disagree", "nothing"} :
              Upstream(r, first, retry, i)
        \/ Insert(r) \/ Cache(r) \/ Match(r) \/ CommitResolve(r) \/ Abort(r)
    \/ Expire

ResolutionSpec == ResolutionInit /\ [][ResolutionNext]_resolutionVars

----------------------------------------------------------------------------
ResolutionTypeOK ==
    /\ DOMAIN products \subseteq Resolves
    /\ redis \in [Upcs -> Resolves \union {None}]
    /\ devupc \in Upcs \union {None}
    /\ \A r \in Resolves : resolve[r].kind \in Kinds

(* The row a UPC stands for: whatever two requests for one barcode meet    *)
(* (each other's uncommitted row, its id in Redis, its roll-back), those   *)
(* that succeed answer with one and the same committed row, of that UPC.   *)
OneCanonicalRow ==
    \A r, s \in Resolves :
        /\ ResolveAt(r, "done") => resolve[r].id \in DOMAIN products
        /\ ResolveAt(r, "done") /\ resolve[r].upc # None => products[resolve[r].id].upc = resolve[r].upc
        /\ ResolveAt(r, "done") /\ ResolveAt(s, "done") /\ resolve[r].upc = resolve[s].upc /\ resolve[r].upc # None
              => resolve[r].id = resolve[s].id

(* The inductive invariant behind it.  A request has one UPC once it looks *)
(* in Redis; what it has flushed is its own row, of that UPC; what it is   *)
(* about to answer with is that row or a committed one.                    *)
Naming == {"devupc", "describe", "provisional"}
Looking == {"redis", "postgres", "upstream", "insert"}
Answering == {"cache", "match", "commit"}
ResolveStates ==
    [pc : {"idle"} \union Naming \union Looking \union Answering \union Finished,
     kind : Kinds, upc : Upcs \union {None}, cached : BOOLEAN,
     id : Resolves \union {None}, source : Sources]

ResolveTyped ==
    /\ resolve \in [Resolves -> ResolveStates]
    /\ pending \in [Resolves -> ProductRows \union {None}]
    /\ DOMAIN products \subseteq Resolves
    /\ \A i \in DOMAIN products : products[i] \in ProductRows
    /\ redis \in [Upcs -> Resolves \union {None}]
    /\ devupc \in Upcs \union {None}

UpcKnown ==
    \A r \in Resolves :
        /\ resolve[r].pc \in Naming => resolve[r].upc = None
        /\ resolve[r].pc \in Looking \union {"cache", "match"} => resolve[r].upc # None

OwnRows ==
    \A r \in Resolves :
        /\ pending[r] # None =>
              resolve[r].pc \in Answering /\ resolve[r].id = r /\ pending[r].upc = resolve[r].upc
        /\ r \in DOMAIN products => ResolveAt(r, "done")

AnswersExist ==
    \A r \in Resolves : resolve[r].pc \in Answering \union {"done"} =>
        \/ pending[r] # None
        \/ /\ resolve[r].id \in DOMAIN products
           /\ resolve[r].upc # None => products[resolve[r].id].upc = resolve[r].upc

(* The unique index, and the lock on it that an uncommitted row holds.     *)
UniqueUpc ==
    /\ \A i, j \in DOMAIN products :
          products[i].upc = products[j].upc /\ products[i].upc # None => i = j
    /\ \A r \in Resolves : pending[r] # None /\ pending[r].upc # None =>
          /\ \A i \in DOMAIN products : products[i].upc # pending[r].upc
          /\ \A s \in Resolves : pending[s] # None /\ pending[s].upc = pending[r].upc => r = s

(* An id in Redis is of a row of that UPC, committed, flushed or rolled    *)
(* back, and never of another row later.                                   *)
CachedIds ==
    \A u \in Upcs : redis[u] # None =>
        /\ resolve[redis[u]].pc \in Answering \union Finished
        /\ pending[redis[u]] # None => pending[redis[u]].upc = u
        /\ redis[u] \in DOMAIN products => products[redis[u]].upc = u

ResolutionInv ==
    ResolveTyped /\ UpcKnown /\ OwnRows /\ AnswersExist /\ UniqueUpc /\ CachedIds
=============================================================================
