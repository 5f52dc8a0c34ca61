---------------------------- MODULE DiscountPrograms ----------------------------
(***************************************************************************)
(* Identity discounts: the weekly worker that checks each program's page   *)
(* (backend/workers/discount_verification.py) and the matching of active   *)
(* programs to a user and a product (IdentityService,                      *)
(* backend/modules/m5_identity/service.py).                                *)
(*                                                                         *)
(* A run of the worker is one transaction.  A query without ORDER BY may   *)
(* return its rows in any order: a match is the set of its answers.        *)
(***************************************************************************)
EXTENDS Naturals, Sequences, FiniteSets, FiniteSetsExt, SequencesExt

CONSTANTS
    Programs,        \* discount_programs: [retailer, name, eligible, kind, value, cap,
                     \* scope, url]; names are numbered in alphabetical order
    Prices,          \* the maps from retailers to prices that occur
    Viewed,          \* products: [brands, known, fits], what their texts mention
    SoldBrand,       \* BRAND_SPECIFIC_RETAILERS
    FailureThreshold,  \* DISCOUNT_VERIFICATION_FAILURE_THRESHOLD
    MaxChecks        \* bound: checks of a program

(* The catalog expands a program into a row for each eligibility, which    *)
(* are otherwise alike (scripts/seed_discount_catalog.py).                 *)
ASSUME ProgramAssumption ==
    /\ FailureThreshold \in Nat /\ MaxChecks \in Nat
    /\ IsFiniteSet(Programs)
    /\ \A p \in Programs : p.value \in Nat /\ p.cap \in Nat /\ p.name \in Nat
    /\ \A p, q \in Programs : p.retailer = q.retailer /\ p.name = q.name =>
         p.scope = q.scope /\ p.kind = q.kind /\ p.value = q.value /\ p.cap = q.cap
    /\ \A prices \in Prices :
         IsFiniteSet(DOMAIN prices) /\ \A r \in DOMAIN prices : prices[r] \in Nat

VARIABLES
    state,      \* of a program, committed: [active, failures, stale]
    batch,      \* the run: [on, todo, tx, log]
    outcomes    \* history: the committed checks of each program

discountVars == <<state, batch, outcomes>>

NoBatch == [on |-> FALSE, todo |-> {}, tx |-> <<>>, log |-> <<>>]
ProgramRows == [active : BOOLEAN, failures : 0..MaxChecks, stale : BOOLEAN]
Checks == {"verified", "flagged", "failed"}

DiscountTypeOK ==
    /\ state \in [Programs -> ProgramRows]
    /\ outcomes \in [Programs -> Seq(Checks)]
    /\ batch.on \in BOOLEAN /\ batch.todo \subseteq Programs

DiscountInit ==
    /\ state = [p \in Programs |-> [active |-> TRUE, failures |-> 0, stale |-> TRUE]]
    /\ batch = NoBatch
    /\ outcomes = [p \in Programs |-> <<>>]

-----------------------------------------------------------------------------
(* get_stale_programs                                                      *)
StalePrograms == {p \in Programs : state[p].active /\ p.url /\ state[p].stale}

BeginBatch ==
    /\ ~batch.on /\ StalePrograms # {}
    /\ \A p \in Programs : Len(outcomes[p]) < MaxChecks
    /\ batch' = [on |-> TRUE, todo |-> StalePrograms, tx |-> state, log |-> outcomes]
    /\ UNCHANGED <<state, outcomes>>

(* Mutant: a verified program keeps its failures.                          *)
SettleKeeps(row, status) ==
    LET seen == [row EXCEPT !.stale = FALSE]
        failed == [seen EXCEPT !.failures = @ + 1]
    IN  IF status \in {"verified", "flagged"} THEN seen
        ELSE [failed EXCEPT !.active = @ /\ failed.failures < FailureThreshold]

(* What a check makes of a row: last_verified whatever it found; a page    *)
(* that does not mention the program neither counts nor resets.            *)
Settle(row, status) ==
    LET seen == [row EXCEPT !.stale = FALSE]
        failed == [seen EXCEPT !.failures = @ + 1]
    IN  CASE status = "verified" -> [seen EXCEPT !.failures = 0]
          [] status = "flagged"  -> seen
          [] OTHER -> [failed EXCEPT !.active = @ /\ failed.failures < FailureThreshold]

(* check_url of the next program.                                          *)
CheckUrl ==
    /\ batch.on /\ batch.todo # {}
    /\ \E status \in Checks :
         LET p == CHOOSE p \in batch.todo : TRUE IN
         batch' = [batch EXCEPT !.todo = @ \ {p}, !.tx[p] = Settle(@, status),
                                !.log[p] = Append(@, status)]
    /\ UNCHANGED <<state, outcomes>>

CommitBatch ==
    /\ batch.on /\ batch.todo = {}
    /\ state' = batch.tx /\ outcomes' = batch.log
    /\ batch' = NoBatch

RollbackBatch ==
    /\ batch.on
    /\ batch' = NoBatch
    /\ UNCHANGED <<state, outcomes>>

(* DISCOUNT_VERIFICATION_STALE_DAYS go by.                                 *)
WeekPasses ==
    /\ ~batch.on /\ \E p \in Programs : ~state[p].stale
    /\ state' = [p \in Programs |-> [state[p] EXCEPT !.stale = TRUE]]
    /\ UNCHANGED <<batch, outcomes>>

-----------------------------------------------------------------------------
(* get_eligible_discounts                                                  *)

(* _retailer_covers_product: a brand's own store is dropped for a product  *)
(* that names other brands only, any store for one of a category it does   *)
(* not carry; what is not known drops nothing.                             *)
Covers(r, product) ==
    /\ \/ r \notin DOMAIN SoldBrand
       \/ SoldBrand[r] \in product.brands
       \/ product.brands = {}
    /\ product.known => r \in product.fits

NoneOr(a, b) == IF a # 0 /\ a < b THEN a ELSE b      \* a cap of 0 is none

(* _build: the savings against the retailer's own price, else the highest; *)
(* in hundredths of a unit, 0 for none.                                    *)
Savings(p, prices) ==
    LET price == IF p.retailer \in DOMAIN prices THEN prices[p.retailer]
                 ELSE IF DOMAIN prices = {} THEN 0 ELSE Max({prices[r] : r \in DOMAIN prices})
    IN  CASE p.scope # "product"       -> 0
          [] p.kind = "percentage"     -> NoneOr(100 * p.cap, price * p.value)
          [] p.kind = "fixed_amount"   -> NoneOr(100 * p.cap, 100 * p.value)
          [] OTHER -> 0

(* The ranking: savings, then value, then name.                            *)
Outranks(p, q, prices) ==
    \/ Savings(p, prices) > Savings(q, prices)
    \/ /\ Savings(p, prices) = Savings(q, prices)
       /\ p.value > q.value \/ (p.value = q.value /\ p.name < q.name)

Key(p) == <<p.retailer, p.name>>
Slot(p) == <<p.retailer, p.scope>>

(* One row of each (retailer, name), whichever comes first.                *)
FirstRows(rows) ==
    {some \in SUBSET rows :
        /\ \A p \in rows : \E q \in some : Key(q) = Key(p)
        /\ \A p, q \in some : Key(p) = Key(q) => p = q}

(* Mutant: the first row of a retailer and scope is kept.                  *)
DedupFirst(some, prices) ==
    {p \in some : \A q \in some : Slot(q) = Slot(p) => p.name = q.name \/ p.name < q.name}

(* _dedup_best_per_retailer_scope                                          *)
Dedup(some, prices) ==
    {p \in some : \A q \in some : Slot(q) = Slot(p) => ~Outranks(q, p, prices)}

Matching(flags, product) ==
    {p \in Programs : /\ state[p].active /\ p.eligible \in flags
                      /\ Covers(p.retailer, product)}

Eligible(flags, product, prices) ==
    {Dedup(some, prices) : some \in FirstRows(Matching(flags, product))}

-----------------------------------------------------------------------------
DiscountNext == BeginBatch \/ CheckUrl \/ CommitBatch \/ RollbackBatch \/ WeekPasses

DiscountSpec == DiscountInit /\ [][DiscountNext]_discountVars

-----------------------------------------------------------------------------
(* The failed checks since the last verified one.                          *)
FailedSince(log) ==
    {i \in 1..Len(log) : log[i] = "failed" /\ \A j \in i..Len(log) : log[j] # "verified"}

(* "A single CDN blip cannot remove an otherwise valid program": whichever *)
(* runs are rolled back and however flagged weeks lie between, a program   *)
(* is inactive only if it failed FailureThreshold committed checks with    *)
(* no verified one since.                                                  *)
DeactivatedForCause ==
    \A p \in Programs :
        ~state[p].active => Cardinality(FailedSince(outcomes[p])) >= FailureThreshold

(* "Keep the best program per (retailer, scope)": in whatever order the    *)
(* rows come, no two offers of an answer would have to be stacked at one   *)
(* till, and every active program the user is eligible for is on offer or  *)
(* is worth no more than the one that is.                                  *)
BestOfferPerScope ==
    ~batch.on => \A product \in Viewed, prices \in Prices,
                    flags \in SUBSET {p.eligible : p \in Programs} :
        \A answer \in Eligible(flags, product, prices) :
            /\ \A p, q \in answer : Slot(p) = Slot(q) => p = q
            /\ \A p \in Matching(flags, product) : \E q \in answer :
                 Slot(q) = Slot(p) /\ Savings(q, prices) >= Savings(p, prices)

-----------------------------------------------------------------------------
(* Why: a row, committed or in the run's transaction, counts the failed    *)
(* checks since the last verified one of the log that goes with it.        *)
CountsFailures(rows, log) ==
    /\ rows \in [Programs -> ProgramRows] /\ log \in [Programs -> Seq(Checks)]
    /\ \A p \in Programs :
         /\ Len(log[p]) <= MaxChecks
         /\ rows[p].failures = Cardinality(FailedSince(log[p]))
         /\ ~rows[p].active => rows[p].failures >= FailureThreshold

(* A program is checked once in a run, and only an active one.             *)
DiscountInv ==
    /\ CountsFailures(state, outcomes)
    /\ batch.on \in BOOLEAN /\ batch.todo \subseteq Programs
    /\ ~batch.on => batch = NoBatch
    /\ batch.on =>
         /\ batch \in [on : BOOLEAN, todo : SUBSET Programs, tx : [Programs -> ProgramRows],
                       log : [Programs -> Seq(Checks)]]
         /\ CountsFailures(batch.tx, batch.log)
         /\ \A p \in batch.todo : batch.tx[p].active /\ Len(batch.log[p]) < MaxChecks
=============================================================================
