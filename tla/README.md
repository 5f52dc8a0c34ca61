# Barkain in TLA+

Barkain compares the prices of a product over a dozen retailers and says which
purchase, with which card, discount and portal, costs least. The backend is a
FastAPI service over PostgreSQL and Redis; prices come from scraper containers
and HTTP adapters; workers refresh prices, rates and discounts; an iOS app
streams prices over SSE; a second package, `sourcing`, scores distributors' price
lists for resellers. Almost every bug worth fearing in it is a matter of *order*
(requests of one event loop interleave at every `await`, share Redis keys and
table rows, and fail between two of their steps) or of a *boundary* in an
algorithm that no example hits. This directory holds TLA+ models of the parts
where that happens, the TLC runs that check them, and TLAPS proofs about
twenty-two of them.

Paths below are relative to `src/backend/` unless they start with `src/`;
`sourcing/` is `src/sourcing/m15_sourcing/`.

## Contents

| module | what it is | source |
|---|---|---|
| `PriceAggregation` | the price pipeline of one product: `get_prices`, `stream_prices`, three stores, transactions | `modules/m2_prices/service.py`, `get_db` |
| `ListingPick` | relevance of a listing, choice of a retailer's listing | `modules/m2_prices/service.py` |
| `Recommendation` | `/recommend`, composed with the price pipeline it calls | `modules/m6_recommend/service.py` |
| `CardWallet` | wallet, picks, profile; best card; stacking and ranking | `modules/m5_identity/card_service.py`, `modules/m6_recommend/service.py` |
| `DiscountPrograms` | verification worker; matching of programs | `workers/discount_verification.py`, `modules/m5_identity/service.py` |
| `Billing` | RevenueCat's webhook and the rate limiter's cached tier | `modules/m11_billing/service.py`, `_resolve_user_tier` |
| `RateLimiter` | the sliding window | `get_rate_limiter` |
| `LocationResolver` | city to Facebook Marketplace id: two caches, a lock per city, pub/sub | `modules/m2_prices/adapters/fb_marketplace_location_resolver.py` |
| `PriceIngestion` | queue, workers, session; implements `RetryQueue` | `workers/price_ingestion.py`, `workers/queue_client.py` |
| `RetryQueue` | abstract: what a queue with redelivery promises | |
| `RetailerHealth` | health monitor and watchdog | `modules/m2_prices/health_monitor.py`, `workers/watchdog.py` |
| `MiscRetailer` | the slot for merchants that are not scraped | `modules/m14_misc_retailer/service.py` |
| `AdapterClients` | container client, adapters, eBay token, Walmart pacing | `modules/m2_prices/adapters/`, `container_client.py`, `sourcing/adapters/` |
| `ProductResolution` | barcode or search result to product row | `modules/m1_product/service.py` |
| `ProductSearch` | the search cascade, merge, rank, grouping | `modules/m1_product/search_service.py` |
| `PortalRates` | scraped rates, alerts, offers | `workers/portal_rates.py`, `modules/m13_portal/` |
| `ChannelFees` | fees, economics, landed cost, plans | `sourcing/fees.py`, `landed_cost.py`, `plans.py` |
| `SourcingVerdict` | score and verdict of a row, ranking of a list | `sourcing/scoring.py` |
| `DemandForecast` | estimators over snapshots, forecasts judged | `sourcing/demand.py`, `forecast.py` |
| `SourcingCrunch` | crunch of a list: match cache, scores, one transaction | `sourcing/service.py` |
| `SourcingRecon` | settlement report, calibration of fees | `sourcing/recon.py` |
| `UpcNormalize` | repair of barcodes, digit by digit | `sourcing/upc.py` |
| `PriceListIngest` | columns and rows of a price list | `sourcing/ingest.py` |
| `Ordered` | the first few members of a set in an order, as `sorted(...)[:n]` takes them | `PortalRates`, `MiscRetailer`, `ProductSearch`, `SourcingVerdict`, `DemandForecast` use it |
| `Rounding` | absent values, rounding and clamping | `ChannelFees`, `SourcingVerdict`, `DemandForecast`, `PriceListIngest` use it |
| `MC*` | the instances TLC explores | |
| `PriceAggregation_proofs`, `Recommendation_proofs`, `Billing_proofs`, `LocationResolver_proofs` | theorems about the component they are named for | |
| `Requests_proofs` | theorems about `RateLimiter`, `CardWallet`, `AdapterClients`, `ProductResolution`, `MiscRetailer`, `ListingPick`, `ProductSearch` | |
| `Workers_proofs` | theorems about `PriceIngestion`, `RetailerHealth`, `PortalRates`, `DiscountPrograms` | |
| `Sourcing_proofs` | theorems about `ChannelFees`, `SourcingCrunch`, `SourcingVerdict`, `SourcingRecon`, `DemandForecast`, `PriceListIngest` | |
| `FiniteOrders` | lemmas about finite sets in an order and recursive functions, cited by the others | |

`tlc -config X.cfg MCModule` runs a check, `tlapm Module_proofs.tla` the proofs.
`PROJECT.json` lists the runs, the source lines of each definition, the hazards
with the property that covers each, and the mutants: for every property an
altered definition, a plausible bug, under which TLC finds it violated.

## Inventory

### Price aggregation (m2)

*State.* A canonical Redis entry per *scope*: product, search override
(`:q:<sha1>`), location (`:loc:...`). A Redis in-flight hash per scope, one
field per retailer, while a stream runs. The `prices` table, one row per
product, retailer and condition, with **no** scope column. The image of the
product's own row, which the first run to find one fills in. A transaction per
request, committed by `get_db` when the request ends.

*Operations.* `get_prices` (batch) reads cache, in-flight bucket, table, then
dispatches to all retailers and persists in the order of the ports.
`stream_prices` reads cache and table, dispatches, and for each retailer *as it
answers* upserts, publishes to the bucket and emits an event; at the end it
writes the canonical entry and clears the bucket. Both can be forced. Of what a
retailer returns, `_pick_best_listing` keeps one listing.

*Interactions.* Called by the m2 router, by m6 (`get_prices`), and by the
ingestion worker. Concurrent runs meet in all three stores and in row locks.

*Hard.* Two stores disjoint by scope and one that is not; row locks held to the
end of a request and taken in arrival order; a stream that fails half way;
an `image_url` that is assigned and goes to the database, and locks the product's
row, with whatever statement comes next; clear-then-write versus write-then-clear;
a median that moves with each listing.

*Correct when.* A search is served only what a dispatch of that search fetched;
a partial payload never becomes the six-hour entry; a reader always finds the
bucket or the entry that replaced it; every request ends; a cheaper listing does
not make the pick dearer.

### Recommendation (m6)

*State.* A 15-minute recommendation cache, keyed by user, product, hashes of
cards, identity flags and portals, and override. *Operation.*
`get_recommendation`: hash, look up, gather prices, discounts and cards
concurrently, stack, rank, cache, or answer 422. *Hard.* The prices may be a
mid-stream snapshot; the override must be carried through four layers; the
nested `get_prices` shares the transaction a 422 rolls back, and outlives the
call when another gathered lookup raises. *Correct when.* No
snapshot is cached, scopes stay pure, the price pipeline cannot tell, and one
more portal never makes the winner dearer.

### Billing, tier and rate limit (m11, `app/dependencies.py`)

*State.* `users.subscription_tier/_expires_at`; Redis keys for processed events
(7 days), for the cached tier (60 s), and a sorted set of instants per user and
category. *Operations.* The webhook (claim, upsert, bust, respond, commit); the
tier read; the limiter's pipeline. *Hard.* At-least-once, unordered delivery; a
claim outside the transaction; a bust before the commit; a limit that changes
between two requests; pipelines executed in another order than their instants.
*Correct when.* An event is applied once, the row ends at the latest event, the
cached tier was in effect within the TTL, a window, less the time a request may
take to reach Redis, admits no more than the limit.

### Facebook Marketplace location resolver (m2)

*State.* Redis L1 with sentinels, PostgreSQL L2, Redis lock and channel per
city, a process-wide semaphore, a token bucket per engine. *Operation.*
`resolve`. *Hard.* Subscribe/publish race, winner's crash, lock expiry,
waiting for a semaphore with the lock held. *Correct when.* One live resolve
per city, no subscriber waits for a message already sent, every call returns.

### Products (m1)

*State.* `products` rows; Redis caches of barcodes, of device names and of
searches. *Operations.* `resolve` (scan), `resolve_from_search`, provisional
rows and their confirmation, `search`. *Hard.* A row's id is cached before the row is
committed; two requests insert one barcode and one of them rolls back; four
sources name one product. *Correct when.* Successful requests for a barcode agree
on one committed row; the most trusted source's row is shown.

### Identity, cards, discounts (m5)

*State.* Profile, `user_cards`, quarterly picks, `discount_programs` with a failure
counter. *Operations.* Add, remove, prefer, pick; eligible discounts; the weekly
verification. *Hard.* READ COMMITTED updates of overlapping rows; unordered
queries; three outcomes of a check of which one neither counts nor resets.
*Correct when.* One preferred card at most; the best program per retailer and scope;
only consecutive failures deactivate.

### Workers, monitoring, portals, adapters

| part | state and operations | what is hard | correct when |
|---|---|---|---|
| ingestion worker, queue | SQS; refresh per message in one session | crash before delete, redelivery, broken session | a message is owed until dealt with |
| watchdog, health monitor | `retailer_health`: status, failures, heal attempts | two writers, spending outside the transaction | heals stay within the budget |
| misc-retailer slot (m14) | Redis cache and in-flight marker | markers of another request | the top of one's own search |
| portals, alerts (m13) | rates, counters, throttle | mail before commit, stale rates | alerts a throttle apart, offers current |
| adapters | eBay's in-process token, pacing lock, running scripts | late 401s, cancelled sleepers, retries | no rejected token is handed out, pace is kept |

### Sourcing (m15)

*State.* Price lists, rows, matches, scores, a Redis match cache, snapshots of
listings, forecasts, a fee calibration. *Operations.* Ingest a list; normalise its
barcodes; crunch (match, score, persist as a stream); rescore; rank; read a
settlement report; compare forecasts with sales. *Hard.* Overlapping crunches of a
list; a report whose fees precede their sales; a repair of a damaged barcode that
is a guess; a dozen gates with absent values; step functions of price and weight.
*Correct when.* See `sourcing_run`.

### The other parts

m3, m4, m9, m10 are tables only; affiliate (m12), the eBay webhook and the AI
abstraction keep no state that two requests share. The iOS app's view models have
overlapping tasks (stream, resolve and recommendation per screen).

## How the models correspond to the code

**Granularity.** The service is `asyncio`: code between two `await`s runs
without interference from the process, but several processes run. Every Redis
command and every SQL statement is therefore an action of its own, and local
computation belongs to the action after which it happens. Where a helper
swallows an exception, the action has a disjunct in which it did nothing; where
an exception escapes, an abort action exists.

**Transactions.** `get_db` is a generator dependency: with the FastAPI versions
its requirements admit (`fastapi>=0.115.0`; from 0.118 on the exit code of
such dependencies runs after the response) the commit comes after the response
is produced. READ COMMITTED: a reader sees committed rows only, a writer waits for
an open transaction that has written the row. `txn[q]` (`PriceAggregation`),
`tx[q].put` (`CardWallet`), `pending[r]` (`ProductResolution`) and the like hold what
a transaction has written and nobody else sees.

### PriceAggregation

`req[q]` is the control state of a request: `pc`, whether it is a batch or a
stream, its scope, the payload in hand, the `_inflight` marker (`partial`), and
the retailers still to do with the conditions of their listings, what it knows of
the product's image, and whether its caller still waits (`owned`). A price is abstracted to *the scope whose dispatch
fetched it*, which is what every cache promise here is about; `Results` adds
whether the retailer succeeded.

| action | code |
|---|---|
| `Begin` | entry of both methods; a provisional product injects its name; `force_refresh` skips to the dispatch |
| `CheckRedis`, `CheckDb`, `BackfillCache` | `_check_redis`, `_check_db_prices`, the backfill |
| `CheckInflight`, `CheckExists` | `_check_inflight`: HGETALL, then EXISTS |
| `Collect` / `Arrive` | `extract_all` / the next future of `as_completed` |
| `Upsert`, `Publish` | `_upsert_price` with the assignment of `image_url`, `_write_inflight` |
| `WriteImage` | the autoflush of `image_url` before the session's next statement |
| `Finish`, `ClearInflight`, `Commit` | `_cache_to_redis`, `_clear_inflight`, `get_db` |
| `StreamError`, `Abort`, `DeadlockVictim` | the generator's `except Exception`; any other end; PostgreSQL |
| `LoseSession`, `Discard` | `asyncio.gather` in m6 raises while `get_prices` runs; that run ends |
| `ExpireCache`, `ExpireInflight`, `AgeRow` | TTLs and the freshness window |

`DbReadable` keeps the difference between the two methods: the stream asks for
no override *and no location*, the batch only for no override. An in-flight
hash with no field does not exist in Redis, so "no stream" and "a stream that
has published nothing" are one value, `Blank`. A row not checked within the
freshness window is never read, only overwritten, so it is no row. Of a retailer
with rows of several conditions the table's payload has all; in the model one
stands for them.

### Recommendation

Extends `PriceAggregation`. A call of `/recommend` is a request whose price
steps are those of a nested `get_prices` (`NestedPrices`), so nothing of the
pipeline is modelled twice. `Hash` reads the wallet for the key, `LookUp` the
cache, `ReadWallet` reads the wallet again during the gather, `Stack` caches the
answer unless it is marked, and commits; `TooFewPrices` answers 422 and rolls
back. `GatherRaises` is a lookup that raises beside `get_prices`: gather cancels
nothing, so the price request goes on as an *orphan* on a session that was rolled back,
to its own end (`OrphanEnds`) or an error. SQLAlchemy may well raise at its next
touch of the product, which the rollback expired; the model lets it go either way. A wallet stands for cards and identity flags; portal memberships come with
the request and enter key and computation alike.

### Billing and RateLimiter

RevenueCat is the environment: `Emit`, then `Deliver` at least once until a 200 is
received (`Answered` may lose it), possibly while an earlier delivery runs. A
handler goes `claim, upsert, bust, respond, commit`; `Fail` may end it anywhere.
`Upsert` waits for the row lock. A reader is `_resolve_user_tier`: hit or
`Miss`, `Select`, `Store`. `applied`, `seen` and `trouble` are history variables
that no guard reads. One tick of time is far longer than one command, so a
reader's SELECT and its SETEX fall in the same tick; the TTL and the expiry of a
subscription are counted in ticks. In `RateLimiter` a clock instant is
`str(time.time())`: requests of one instant are one member of the set, as in the
code; the tier may differ from request to request. A request reads the clock, then
awaits its pipeline (`Arrive`, `Exec`), and time passes in between: no more than
`Lag`, which is a parameter and not something the code bounds, for no time-out is
set on the connection to Redis. A claim of an event, which has a TTL of seven days, does
not run out in `Billing`.

### LocationResolver

`req[q]` is a call of `resolve`. A losing call subscribes, looks at L1 again and
listens; the winner (`won`) takes a permit, resolves, persists, caches, publishes
and unlocks. `inbox[q]` is the first message a subscriber was sent; pub/sub
reaches those subscribed at that moment only. `faulty` becomes true with the first
error, crash or expiry; no guard reads it. Engines are an environment that answers with an
id, with none, or with "throttled".

### Workers and services

`PriceIngestion`: `box[m]` is a message in SQS (unsent, waiting, in a worker's hands,
gone, dead), `worker[w]` the loop of `process_queue` with what its session has
flushed. `Abstract` maps it to `RetryQueue`'s `duty`. `RetailerHealth`: a
watchdog has a retailer in hand (`at`) and others to check (`todo`, in no order: none
depends on another), and its transaction (`tx`) holds its own view of the rows; `calls`
to the model are spent at once. `DiscountPrograms`: `batch` is a worker's run, `outcomes` the
history of checks. `CardWallet`: `UPDATE ... WHERE user_id` is two steps, the rows it
finds and the locks it gets, since it may wait in between. `MiscRetailer`: a request
is `cache? marker? fetch, write, clear`, any Redis command failing as a miss.
`AdapterClients`: a call takes a route, a token or a pacing slot, sends, and is
answered, retried or timed out while its script runs on. `ProductResolution`: a
row is named by the request that inserted it. `ProductSearch` and `ListingPick`
are algorithms run over growing inputs, a step per source or listing; a listing is
its place in the response, so that the filters are sets of places and two equal
listings stay two. The rows of a search are a set with sort keys: the code's stable
sorts, one after another, are one order, the later sort's key first.
`PortalRates`: a tick is the six hours between runs; one transaction scrapes and
alerts.

### Sourcing

`ChannelFees`, `SourcingVerdict`, `DemandForecast`, `UpcNormalize` and
`PriceListIngest` are functions of their inputs in integer arithmetic (cents,
hundredths of a percent, fractions of a pound, digits), with rounding as the code's
`Decimal` does it; their steps enumerate the inputs. `SourcingCrunch` is the
concurrent part: crunches of lists with a task per row and channel, a semaphore, a cache, and
one transaction each; a crunch reads its list before it locks it, and its UPDATE has a column only
if that differs from what was read (`WrittenTh`; modelled for the thresholds, which the rows'
scores are compared with, and true of the summary and the count as well). The listing `DemandForecast`
looks at is sold, taken back by its seller, restocked and misread, on any day by any amount.
`LandedTotal` rounds freight, case share and duty one by one where `landed_cost.py:185` rounds their
sum; no property depends on that cent. `SourcingRecon` reads every stream of a few report rows, a row
a step, with the parser's two books as state.

## Runs

Three runs check several modules at once. In `services_run`, `sourcing_run` and
`live_run` a variable `part` names the module a behaviour is of: the parts share
no state, so their composition would show nothing more.

| run | asks | instance |
|---|---|---|
| `price_run` | `PartialNeverCanonical`, `NoVisibilityGap`, `BatchesDeadlockOverImage` | 2 requests, 2 retailers, 2 conditions |
| `rec_run` | `RecFromWholePrices` | a searched `/recommend` and streams of the search, 2 retailers |
| `rec_scopes` | `RecScopePure`, `OverrideIsolation` | a `/recommend` and a stream, each plain or searched, 1 retailer |
| `rec_refines` | `ImplementsPrices` | a `/recommend` and any price request, a wallet that changes, 1 retailer |
| `live_run` | `EveryRequestEnds`, `EveryCallReturns`, `OneWinner`, `NoLostWakeup` | 2 forced price runs over 2 retailers; 2 calls, 1 city, 1 permit; fairness |
| `billing_run` | `TierFresh`, `RowIsLatest`, `AppliedOnce` | 2 handlers, 1 reader, 2 events, 2 ticks |
| `services_run` | 16 properties of 11 modules | two requests, workers or watchdogs of each |
| `sourcing_run` | 9 properties of 7 modules | `MCSourcing` |
| `find_pollution` | `NamespacesDisjoint` **violated** | 2 requests, 1 retailer, 1 search |
| `find_parallel` | `NoParallelDispatch` **violated** | 2 requests, 2 retailers |
| `find_acked` | `AckedMeansApplied` **violated** | 1 handler, 1 event |
| `find_forgotten` | `IdsAreKept` **violated** | 2 calls, 1 city |

What the passing runs show:

* *No visibility gap.* When the code removes a non-empty bucket, the canonical
  entry of the scope stands. It would fail if an empty result were not
  cached, or if clear came first. One assumption: the entry's TTL (half an hour
  at least) does not run out between the stream's write and its next command.
* *Deadlocks.* Batches take the rows of the prices table in port order, so that a circle of
  batches must have one that waits for the product's row, to write the image another has
  written. Such circles exist: one batch holds the product's row, after a listing with an image,
  and waits for a price row of a batch whose first retailers had no price, and which is
  about to write the image itself. Streams can deadlock over price rows, too. TLC
  reaches both; `EveryRequestEnds` shows that they cost one request, not the service.
* *Partial payloads.* An entry that lacks a retailer was rebuilt from the table.
* *Scopes.* A bare-name search never sees another scope's price, in any layer.
  The converse does not hold (`find_pollution`).
* *Recommendations.* Not cached from a snapshot; from the search's own prices.
  `ImplementsPrices` is the refinement: `RecSpec => Spec` of the pipeline under
  the identity mapping, so that the pipeline's theorems hold with `/recommend`
  running, 422's rollback and a `get_prices` that outlives its call included.
* *Billing.* With Redis answering, SET NX lets one delivery write. When
  deliveries are orderly and nothing fails, the row is the latest event's, lost
  responses and a dedup check that falls open included. The cached tier
  may be that of before the commit (the bust comes first), but never older
  than the TTL, and this needs no assumption on the webhook.
* *Resolver.* The winner caches before it publishes and a loser subscribes
  before it looks: no wake-up is lost. And with any failure a call returns.
* *Services.* `WindowBounded`: no window, less `Lag`, admits more instants than the largest
  limit. With pipelines executed out of order a whole window may: the later instant
  trims what is in the earlier one's window still.
  `ImplementsRetryQueue`: the queue with its workers implements `RetryQueue`.
  `HealBudget`: three heals per retailer, overspent by at most one call for each
  watchdog that read the budget together with another; a watchdog that dies before its
  commit is outside the promise. `DeactivatedForCause`,
  `BestOfferPerScope`; `AtMostOnePreferred` and `PortalsNeverCost`;
  `TopOfItsOwnSearch`; `TokensUsable` and `WalmartPaced`; `OneCanonicalRow`;
  `TrustedSourceWins`; `CheaperNeverDearer`; `AlertsThrottled` and
  `OffersAreCurrent`. Each is stated in its module with the exceptions the code has.
* *Sourcing.* `AnswersAgree`: a break-even price does break even, a plan chosen is
  the cheaper, two calculators agree. `LooserNeverWorse`, `RankingKeepsVerdicts`;
  `DepletionCountsOnce`: a unit is counted once, whether sold, taken back or misread (the code
  cannot tell these apart), and restocks and zeros are not; `ForecastsJudgedFairly`;
  `ScoresShareThresholds` under overlap, abandonment and rescoring, the list's own
  thresholds included unless they were changed between a crunch's read and its lock; `NoFeeLost`
  for every order of rows; `NeverSilentlyAnother`: a repaired barcode is the original or carries
  a warning; `UnitCostIsAUnitCost`, except for a list that has no unit cost and two columns of one meaning.

### Bounds, and why they are enough

Two requests suffice for everything pairwise: a reader and a writer, two
transactions in a circle, a winner and a loser. Two retailers give a
partial payload and two orders of locks. A second query, or a location, only adds
scopes that behave alike, which the proofs confirm for any number; `rec_scopes` has
one search beside the bare scope. No instance has a location: a scope with one
differs only in that a stream of it skips the table, and there the proofs alone
speak. In `Billing`, two events are what it takes for a newer and an older one, two
handlers for an overlap, two ticks for an entry that must have gone. `Permits` is 1
in the resolver, so that the semaphore is contended: the lock of a city is freed by
its expiry, a second winner arrives and queues.

In `services_run`: a window of 4 instants in a clock of 6, and a lag of 1, so that
pipelines are executed out of order; three messages, a stray one among them, received twice at most, so that one
dies; two watchdogs with one heal and one retry each; three checks with a threshold of
two, so that a counter is reset in between; a cap that makes a percentage worth less
than a fixed sum; five listings, one past the sample that starts the outlier pass;
three products, two of them one to the merge; one route of each kind, one of them without
credentials. Money and rates take values on either side of each step. In `sourcing_run`
prices, weights and volumes lie on and next to each step of the rate cards; report streams
and headers, columns of one meaning among them, are enumerated exhaustively to their length; a
listing is looked at on four days at most; barcodes have no to five zeros in
runs, and every kind of damage.

State constraints are written as action constraints on the next-state relation in the MC
modules, each with a comment. `PriceRunSpec` is two instances in one: every kind of request of a
product whose image is known, with new listings; and, for a product without an image, runs that
contend for rows: they dispatch at once, with listings in any condition. `Contended` keeps
liveness to such runs and to retailers that answer with a price. `StreamedSpec` keeps the
second request of `rec_run` and `rec_scopes` to streams that dispatch, and `rec_run`
to one search: with two retailers a snapshot that has a price is told from the
successes of the table only where the table may not be read; and there no lookup beside
`get_prices` raises. `ScopedSpec` leaves out the TTLs of the price layers. `rec_refines` checks
`RecSpec` with one recommendation stored at a time. These three have a product whose
image is known. Requests are
symmetric where no liveness property is checked.

`CHECK_DEADLOCK FALSE` is used where the system does stop: `Billing`, when RevenueCat
has sent and received all it will and time has reached its bound; the services and
sourcing runs, whose parts end when their input is read or a bound is reached.

### Fairness

* `PriceAggregation`: weak fairness of a begun request's next step, since the
  event loop runs what can run and every container call has a client timeout;
  strong fairness of `Upsert` and `WriteImage`, since PostgreSQL queues the waiters of a row; weak
  fairness of `DeadlockVictim`, since PostgreSQL breaks deadlocks. No request has
  to begin, fail or see a TTL pass.
* `LocationResolver`: weak fairness of a call's next step, its timeout included
  (`asyncio.timeout` fires); strong fairness of `Permit`, since
  `asyncio.Semaphore` wakes its waiters first come, first served.
* The other modules: safety only.

## Proofs

For every value of the constants, from the modules' named assumptions only (markers
such as `NoEntry` are not values, ports are ranked injectively, there is a
permit, bounds are naturals). Each theorem rests on an inductive invariant that TLC
checked first.

* `PriceAggregation_proofs`: `TypeInvariant`, `ScopeInvariant`,
  `OverrideIsolated`, `CanonicalEntriesWhole`. Neither isolation nor
  wholeness is inductive alone: whether `Finish` writes a whole entry depends on
  the payload in hand. `ScopeInv` adds, of each request (`PayloadOK`): nothing in
  hand before the dispatch; what a live run holds was fetched by it, and what it
  lacks is still to do; the table is read for no override. Each action has its
  lemma, built on frame lemmas (`RequestsFrame`, `StoresFrame`)
  that reduce the invariant to the request and the store the action touches.
  `BatchesDeadlockOnlyOverTheImage`, by `LocksOK`: a batch holds rows of retailers it has done, in
  port order, so that what it waits for in the prices table is of a higher port than any row it
  holds. A set of batches each waiting for a price row of another would have no greatest
  port; the proof takes a minimum in a well-founded order. `BucketOutlivesTheGap`: a run that clears
  a bucket has written the entry.
* `Recommendation_proofs`: `RecTypes`; `RecDrivesPrices`, the refinement: each step of
  `/recommend` is a step of the pipeline or leaves it alone, the orphan of a failed gather being a
  run that has lost its session; `RecsAreWhole`,
  `RecsArePure`, by `RecInv`: the price request nested in a call is of the call's scope, and
  a payload unmarked is whole.
* `Billing_proofs`: `BillingTypes`, `CachedTierIsFresh`, `EventsApplyOnce`,
  `LatestEventWins`. `BillingInv` says what the row's lock and the claim give:
  a claim belongs to one webhook past it or to an event applied (`ClaimsOK`); while
  deliveries are orderly, what is acknowledged is applied or waits for its commit, and no
  later event commits first, since it needs the lock (`OrderOK`). Freshness is inductive with
  `SeenOK`: a tier about to be stored is one of this tick.
* `Requests_proofs`
  * `RateLimiter`: `LimiterTypes`, `LimitHolds`, by `LimiterInv`: the set remembers
    every instant admitted in the last window, counted back from the clock; a request about to be
    executed trims by an instant up to `Lag` behind it; and the key outlives its members.
  * `CardWallet`: `WalletTypes`, `OneCardPreferred`, by `WalletInv`. At most one
    preferred row is not inductive, since rows are written before they are committed.
    Call a *holder* a `set_preferred` past its first UPDATE: it has written every row
    there is (`HoldersOK`), so that a second one, which finds the same rows and the first
    one's card among them, must wait for it (`WaitersOK`); other writes prefer nothing
    that was not preferred (`PutsOK`). `PortalsAreFree` is about the data: `_rank_key`
    orders the paths of finitely many listings, so that there is a winner none is cheaper
    than (`WinnerIsBest`), and a portal more only adds to what a path gives back (`PathTyped`).
  * `AdapterClients`: `ClientTypes`, and the action properties `CacheHandsOutNoRejectedToken` and
    `WalmartIsPaced`, by `ClientInv`. The cached token is none that a 401 was handled for
    and does not outlive what eBay issued (`TokensKnown`), which needs one exchange at a
    time, under the lock (`OneExchange`); one call sleeps at a time, until the
    floor has passed (`OneSleeper`).
  * `ProductResolution`: `ResolutionTypes`, `BarcodesAgree`, by `ResolutionInv`. Agreement
    is not inductive: it has to be said what a request on its way answers with
    (`AnswersExist`: its own flushed row or a committed one of its barcode, which is more
    than what Redis holds, as an id there may be of a row rolled back since), that
    what is flushed is one's own (`OwnRows`) and that a barcode has one committed row
    (`UniqueUpc`). The key step is `CommitResolve`: it commits only what no other row has.
  * `MiscRetailer`: `MiscRowsAreTheTop`, by `MiscInv`: what Redis has of a query, and what a
    request for it works on or is given, comes from a search for it. That the rows
    given are the first of it is `FirstAreBefore` below.
  * `ListingPick`: `CheaperListingsHurtOnlyAsFourth`, an argument about medians. A listing that costs no more
    than the pick lowers the median or leaves it (`NthGrows`: each k-th lowest price of more
    listings is no higher), so that what was no outlier is none (`NoOutlierWithMore`), the old
    candidates are candidates still, and the pick, a cheapest one (`PickIsCheapest`), is no dearer. Where
    the pass does not trust the sample it drops nothing, which is why the fourth listing is the exception.
  * `ProductSearch`: `SearchTypes`, `MostTrustedIsShown`, by `SearchInv`: the last answer and the cached
    one are `Sound` for the replies they were made from. The keys order the rows strictly
    (`RowsInOrder`), with confidences negated and products last; the first row of each product in
    the order of insertion is its most trusted source's (`KeptAre`); ranking and the cut show each
    kept row once and lose one only when full (`MergeIs`); grouping moves rows and adds generic ones, and
    loses a row only for lack of room (`CollapseIs`, which counts the places).
* `Workers_proofs`
  * `PriceIngestion`: `QueueTypes`, `NoMessageLost`, the refinement of `RetryQueue`:
    `QueueInv` says that what a worker holds has been received and that what it is about
    to delete has been dealt with.
  * `RetailerHealth`: `HealthTypes`, `HealsWithinBudget`, by `HealthInv`, a balance of
    accounts. A watchdog *owes* a row the call it has made and not committed, and *claims*
    one when it has read a budget that allows it; for each retailer (`CallsAccounted`) the calls are what the
    committed row counts plus what is owed, and row plus claims stay within the bound.
    Two watchdogs cannot both owe a row each has written, since it is locked
    (`LocksExclude`), and none counts a retailer twice (`OneVisit`). The lemmas
    `OneDiffers` and `BooksBalance` do the arithmetic of cardinalities once.
  * `PortalRates`: `PortalTypes`, `AlertsAreThrottled`, by `PortalInv`: what the run will
    commit, or the store when none runs, knows of every alert sent (`KnowsAlerts`), and the
    store, which a rollback falls back on, of those before this tick. `NoStaleOffer`: offers are
    of fresh rates, and one is left out only for better ones (`FirstAreBefore`).
  * `DiscountPrograms`: `DiscountTypes`, `OnlyFailuresDeactivate`, by `DiscountInv`: a row,
    committed or in the run, counts the failures since the last verified check of
    the log that goes with it (`CountsFailures`; lemma `OneMoreCheck` adds a check).
    `BestIsOffered` is about the data, not the steps: a finite set
    ordered strictly has a member no other precedes (`FinitelyManyBefore`, by the one
    with the fewest before it), so `Dedup` keeps one program of a slot
    and no other saves more.
* `Sourcing_proofs`
  * `SourcingCrunch`: `CrunchTypes`, `ScoresShareTheirThresholds`, by `CrunchInv`: the list's row
    lock lets one crunch at a time run (`RunsAlone`), which writes rows of its list only
    (`WritesOwnRows`), all that were scored before among them (`LeavesNoRowOut`).
  * `SourcingVerdict`: `LooserIsNeverWorse`, for any offer and any two buy boxes, by cases
    over the gates; the lemmas say that each hard and soft gate and the annualized return
    (a division) are monotone. `RankingIsByVerdict`, for any list: the keys of its rows with their
    places are a strict order, of which the list is all (`AllInOrder`), and a score made of two
    scaled axes grows with both.
  * `SourcingRecon`: `ReconTypes`, `EveryFeeIsInAnOrder`, by `ReconInv`. What a caller sees is said of the end
    of the file; inductive is `Attributed`, the balance before it: what a key was charged is in
    its order or among the orphans. The steps that move a fee are `Adopt` and `EndOfFile`.
  * `DemandForecast`: `DepletionCountsUnitsOnce`, by `DepletionInv`: units counted, and what the
    shelf has fallen since the last look on top of them, are covered by what was sold, taken back
    and misread. The estimator
    walks all snapshots each time; a recursive function of more snapshots agrees with that of
    fewer where both are defined (`WalksAgree`). `ForecastsAreJudgedFairly`, by
    `ForecastInv`: no prediction is made at the start of the open window once it is open; and a
    median of ratios of at most one is at most one, whatever the order of equals.
  * `PriceListIngest`: `UnitCostsAreUnitCosts`. The fields claim columns in a fixed order,
    each from those left; the proof follows the claims (`MapColumnsIs`): by the turn of the unit cost, a
    case cost or a retail price that would score as one has been claimed if there is one of each
    (`MappedFairly`); and a heading of the unit cost scores above all others (`UnitCostOutscores`).
  * `ChannelFees`: `CalculatorsAgree`, by `FeesInv`: every answer is a quote whose fees are natural
    numbers, or a comparison of two plans of one channel. A division's two bounds then put the
    break-even price on the right side (`BreakevenIsBetween`) and the break-even volume within a
    cent (`RoundedBounds`); a whole number of cents comes out of a rounding as it went in
    (`RoundedShift`); no plan of the tables trades a fee per item for a better rate (`PlansAre`).
* `FiniteOrders`, cited by the modules above: a finite set in a strict
  order has a first member (`FinitelyManyBefore`); in a strict order of all of it, the
  ranks from 0 on name its members (`RanksGrow`, `EveryRankIsTaken`), so that sorting and
  slicing, which `Ordered` states by ranks, gives members that come before all that is
  left out (`FirstAreBefore`), none twice (`FirstAreMany`), and all of them if there is room (`AllInOrder`). This is what makes
  these sorts provable without induction over sequences; `WalkExists` and `WalksAgree` do the same
  for recursive functions, by the first place where they could fail.
* `LocationResolver_proofs`: `ResolverTypes`, `OneWinnerPerCity`,
  `NoWakeupLost`. `FlightInv` strengthens the two with: where a winner can be
  and what it holds (`WinnersOK`); L1 has the answer once it comes to publish
  (`CachedBeforePublish`); a loser from before its SUBSCRIBE on can
  count on a winner yet to publish, on L1 or on its inbox (`LosersServed`). The key
  step is `Publish`: the message reaches every subscriber, and those who
  have not subscribed yet will find L1.

The assumptions are named in the module that declares the constants. Beyond finiteness,
numbers and markers that are no values, three say something of the program:
`ProgramAssumption` (rows of a program differ in eligibility alone, which is how
`src/scripts/seed_discount_catalog.py:149-153` expands them), `CrunchAssumption` (a
row belongs to one list) and `ClientAssumption` (a route has one attempt at least).
`LooserNeverWorse` itself excepts a bar below zero compared over two lead times: a loss
that is let in is a worse one in a year the shorter the lead time.

Only model-checked, and why:

* liveness (`EveryRequestEnds`, `EveryCallReturns`), which the proof system does not
  reach, nor ENABLED;
* `ServicesTypeOK`, the conjunction of the type invariants of the parts in one instance: those with a theorem
  each are proved singly;
* sums over the digits of a barcode (`NeverSilentlyAnother`), a fold that would need
  induction over its length.

## Where the code and what is said of it differ

Checked by a run:

1. `find_pollution`: `modules/m2_prices/service.py:1118` says the cache
   namespaces are disjoint; the shared table lets a search's rows under the bare key.
2. `find_parallel`: lines 740-742 say a `get_prices` beside a live stream must not
   fall through; before the stream's first result the bucket does not exist.
3. `find_acked`: the webhook's docstring says replays are safe; a claim that
   outlives its failed transaction turns the retry into a duplicate, and the
   subscription change is lost.
4. `find_forgotten`: "once we have one, we keep it"; a late second winner overwrites
   the id, with NULL if the engines find nothing this time.

Met while modelling, without a run; the models follow the code in each:

*Prices and recommendations.*
* `get_prices` backfills rows of any city under a location key (line 769), while
  the stream's guard (line 933) says that would serve wrong data.
* A stream that fails does not clear its bucket (line 1087): until its TTL
  `_check_inflight` reports a stream that is no more (line 1655).
* The outlier pass sets in at the fourth priced listing of a marketplace and may then
  drop the genuine pick.
* The order of the ports is no order of locks: a batch that has found an image updates the product's row between two price
  rows (`m2_prices/service.py:824`), and two batches can wait for each other there.
* `/recommend` gathers its lookups without `return_exceptions` (`m6_recommend/service.py:307`): when one
  raises, `get_prices` goes on, in a session that was rolled back, and may still write the canonical entry.
* m6's key is hashed before the gather (`m6_recommend/service.py:122-126`): a
  card added in between is in a recommendation cached under the old wallet.
* The headline says stacking "beats the naive cheapest" by `total_savings`; that sum is of
  the winner's own price, which need not be the cheapest.
* The best card is chosen with its point value and stacked without it; a fixed discount above
  the price leaves a negative `final_price`.

*Billing, limiter, resolver.*
* With the dedup check fallen open, a replayed older event writes over a newer
  one (`m11_billing/service.py:117` says a replay is a no-op).
* The tier cache is busted before the commit (`m11_billing/service.py:179-184`):
  a reader in between caches the old tier for a whole TTL.
* Requests that reach Redis in another order than they read the clock can exceed the limit of a window
  (`app/dependencies.py:227-235`).
* Retry-After counts from the oldest member, refused ones included, so waiting it out need not be enough.
* `resolve` "never raises" (line 481): `_db_get`, the token bucket and
  `subscribe` are not guarded. Timed-out and unlocked resolves bypass the
  semaphore; "500 misses collapse to one hit" holds until a lock expires or a late
  caller comes.

*Workers and services.*
* The command-line price worker commits after `process_queue`, which without
  `max_iterations` never returns: what it refreshed is never committed, its row locks are
  held, and its messages are deleted.
* A retailer set to `healing` is never set to `disabled`, and `heal_attempts` is reset nowhere.
* The alert e-mail precedes the commit; the portal worker started by `run_worker.py` never alerts.
* A flagged check neither counts nor resets; eligible discounts are queried without an order.
* `set_preferred` racing `remove_card` can prefer an inactive card; `add_card` of a card removed
  meanwhile writes nothing.
* The sourcing eBay adapter shares the token of m2 but does not clear it on a 401. The container
  client's 30 s and its retries are shorter than the container's own 180 s: scripts pile up.
* The misc slot caches a failed fetch as an empty answer for six hours.

*Products.*
* A row a search refuses is said to be kept ("Leaving it in PG benefits future scans"); the exception
  rolls it back, and its id stays in Redis.
* A provisional row found again keeps another query's `search_query`; two requests may insert two.
* `resolve_via_serper` "never raises", but a reply that is a JSON list does.
  `_get_gemini_data_retry` retries whatever UPCitemdb said.
* Collapsing variants can push strong rows past `max_results`; an empty answer is cached for a day.

*Sourcing.*
* Crunches of one list that overlap can leave it with thresholds its rows were not scored with: what a crunch
  sets to the value it read before the lock is not in its UPDATE (`sourcing/service.py:570-576`).
* The depletion estimator counts units a seller takes back, and wrong readings short of three quarters of the
  stock, as sales (`sourcing/demand.py:256`), though its comment names pulled inventory and glitches.
* `rescore_only` records snapshots of stored matches, which `record_snapshot` says would "fabricate a flat
  price history" (`sourcing/service.py:373-376`, `594-597`).
* `score_row` never passes the minimum buy, so a crunch yields no PASS on capital. An override of 0 is
  ignored (`_override(x) or profile`). `allocate_shipment_cost` falls back to an even split.
* `BiasEstimate` drops comparisons with no sales. The Walmart bulky fee at 150 lb is below the
  oversize fee just under it.
* Fee rows without a purchase order are dropped unless they are storage; a reversed commission counts
  twice; what the calibration learns as fulfilment may be an orphan's return fee.
* A "repair" of the check digit of a barcode in scientific notation is a guess; with two pack columns the
  one left over is taken for a case cost, and without a unit cost MSRP beside Retail Price makes one of them
  the unit cost.

## Not modelled, and why

*Inside the modelled parts*: `price_history`; the HTTP of engines, containers
and adapters and the parsing of what they return (an outcome or a set of listings); the token
bucket's arithmetic (a throttled answer is nondeterministic); webhook authentication; events that
change no state; reads that feed nothing else; CRUD of brands and inquiries; the estimators of demand that are
functions of one number. A Redis that loses its data is the expiry of every key.

*Whole parts*: m3, m4, m9, m10 (tables without behaviour); affiliate, AI abstraction, eBay
webhook (remote calls and an append-only log, no shared state); the iOS app (its view models run on
the main actor and their state ends with the screen; the races of late answers there are left
out in favour of the backend); browser scripts, seed and evaluation scripts,
infrastructure, prototype (outside the running service).
