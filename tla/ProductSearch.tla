---------------------------- MODULE ProductSearch ----------------------------
(***************************************************************************)
(* Text search: backend/modules/m1_product/search_service.py.              *)
(* A query is answered from a 24 h cache or by a cascade: the database's   *)
(* fuzzy matches; when these are few or weak, Best Buy and a second leg    *)
(* (UPCitemdb, or eBay) side by side, less their noise; when those are     *)
(* empty, or on a deep search, Gemini.  The rows are merged, one a         *)
(* product, ranked, grouped with their variants and cut to max_results.    *)
(*                                                                         *)
(* A product is a number; Traits tells what the noise filter sees in it    *)
(* and Family which products are variants of each other.  A source's reply *)
(* is a partial function from products to confidence in percent; a source  *)
(* that fails replies nothing.  The rows of all sources are a set, and     *)
(* their order is said by keys.  Thumbnails are left out.                  *)
(***************************************************************************)
EXTENDS Ordered

CONSTANTS
    Names,        \* the products, as numbers
    Traits,       \* product -> what a Tier 2 row of it looks like
    Family,       \* product -> its title less storage, color, carrier
    DbReplies, BestBuyReplies, SecondLegReplies, GeminiReplies,
    BrandOnly,    \* the query is just a brand name
    MaxResults,
    MaxSweeps,    \* bound: cascades run
    NoAnswer

ASSUME SearchAssumption ==
    /\ Names \subseteq Nat /\ MaxResults \in Nat
    /\ \A reply \in UNION {DbReplies, BestBuyReplies, SecondLegReplies, GeminiReplies} :
          /\ DOMAIN reply \subseteq Names /\ IsFiniteSet(DOMAIN reply)
          /\ \A p \in DOMAIN reply : reply[p] \in Nat

VARIABLES
    searchStep,    \* the request in flight: "idle", then the tier that is next
    deep,          \* force_gemini
    replies,       \* source -> its rows as the merge gets them
    searchAnswer,  \* the last response, or NoAnswer
    searchCache,   \* the cached response, or NoAnswer
    sweeps         \* cascades run

searchVars == <<searchStep, deep, replies, searchAnswer, searchCache, sweeps>>

Trusted == <<"db", "best_buy", "upcitemdb", "gemini">>    \* _SOURCE_PRIORITY
SearchSources == {Trusted[i] : i \in 1..4}
NoReply == [p \in {} |-> 0]
StrongConfidence == 55
FallbackMinResults == 3
FallbackSimilarity == 50

----------------------------------------------------------------------------
(* _is_tier2_noise: a warranty or gift card, a case or an accessory the    *)
(* query did not ask for, a noisy title, or a row that does not echo the   *)
(* query's model, brand or most of its words.                              *)
IsNoise(t) ==
    \/ t.category = "hard"
    \/ t.category = "soft" /\ ~t.asked_for
    \/ t.category = "accessory"
    \/ t.noisy_title
    \/ ~t.echoes

Relevant(reply) ==
    [p \in {q \in DOMAIN reply : ~IsNoise(Traits[q])} |-> reply[p]]

(* The rows the merge gets.  Only the database knows the product's id, and *)
(* Gemini's UPC is invented and dropped.                                   *)
AllRows(from) ==
    UNION {{[name |-> p, source |-> s, confidence |-> from[s][p], upc |-> s # "gemini"] :
               p \in DOMAIN from[s]} : s \in SearchSources}

Priority(source) == CHOOSE i \in 1..4 : Trusted[i] = source

(* The sort keys: the order of insertion, source by source, the most       *)
(* confident first; _rank_key, strong rows first; Gemini's rows first.     *)
(* The sorts are stable, so each key goes on as the first.                 *)
SortedBy(row, first) == <<first, Priority(row.source), -row.confidence, row.name>>
TrustKey(row) == SortedBy(row, 0)
RankKey(row)  == SortedBy(row, IF row.confidence >= StrongConfidence THEN 0 ELSE 1)
DeepKey(row)  == SortedBy(row, IF row.source = "gemini" THEN 0 ELSE 1)

KeyBefore(k, l) ==
    \E n \in 1..4 : k[n] < l[n] /\ \A j \in 1..(n - 1) : k[j] = l[j]

InOrderOf(key) ==
    {ro \in (DOMAIN key) \X (DOMAIN key) : KeyBefore(key[ro[1]], key[ro[2]])}

(* Dedup by product: the first row of a product stays.                     *)
FirstOfEach(rows, order) ==
    {row \in rows : \A other \in rows : other.name = row.name => <<other, row>> \notin order}

(* A mutant of Merge: ranked before, not after, one row a product is kept. *)
MergeRankedFirst(from, geminiFirst) ==
    LET rows  == AllRows(from)
        order == InOrderOf([row \in rows |-> RankKey(row)])
    IN  FirstOf(FirstOfEach(rows, order), MaxResults, order)

(* _merge: dedup in the order of trust, then rank; a deep search puts      *)
(* Gemini's rows first instead.                                            *)
Merge(from, geminiFirst) ==
    LET rows == AllRows(from)
    IN  FirstOf(FirstOfEach(rows, InOrderOf([row \in rows |-> TrustKey(row)])), MaxResults,
                InOrderOf([row \in rows |-> IF geminiFirst THEN DeepKey(row) ELSE RankKey(row)]))

(* _collapse_variants: the variants of a product stand together, where the *)
(* first of them stands, behind a generic row when there are several and   *)
(* its name would not be the first variant's own.  A row's place is that   *)
(* of its family's first and its own, which for a generic row is 0.        *)
Siblings(rows, i) == {j \in DOMAIN rows : Family[rows[j].name] = Family[rows[i].name]}

Places(rows) ==
    {<<Min(Siblings(rows, i)), i>> : i \in DOMAIN rows}
    \cup {<<i, 0>> : i \in {j \in DOMAIN rows : /\ j = Min(Siblings(rows, j))
                                               /\ Siblings(rows, j) # {j}
                                               /\ rows[j].name # Family[rows[j].name]}}

Generic(rows, i) ==
    [name |-> Family[rows[i].name], source |-> "generic", upc |-> FALSE,
     confidence |-> Max({rows[j].confidence : j \in Siblings(rows, i)})]

CollapseVariants(rows) ==
    LET places == Places(rows)
        shown == FirstOf(places, MaxResults,
                     {ab \in places \X places :
                         LET a == ab[1]  b == ab[2]
                         IN  a[1] < b[1] \/ (a[1] = b[1] /\ a[2] < b[2])})
    IN  [n \in DOMAIN shown |-> IF shown[n][2] = 0 THEN Generic(rows, shown[n][1])
                               ELSE rows[shown[n][2]]]

----------------------------------------------------------------------------
SearchInit ==
    /\ searchStep = "idle" /\ deep = FALSE
    /\ replies = [s \in SearchSources |-> NoReply]
    /\ searchAnswer = NoAnswer /\ searchCache = NoAnswer
    /\ sweeps = 0

(* A search the cache answers; a deep search never asks it.                *)
Hit ==
    /\ searchStep = "idle" /\ searchCache # NoAnswer
    /\ searchAnswer' = searchCache
    /\ UNCHANGED <<searchStep, deep, replies, searchCache, sweeps>>

(* A miss, a corrupt entry (dropped first), or a deep search.              *)
Miss(force) ==
    /\ searchStep = "idle" /\ sweeps < MaxSweeps
    /\ searchStep' = "db" /\ deep' = force
    /\ replies' = [s \in SearchSources |-> NoReply]
    /\ searchCache' = IF force THEN searchCache ELSE NoAnswer
    /\ sweeps' = sweeps + 1
    /\ UNCHANGED searchAnswer

Reply(source, reply, next) ==
    /\ replies' = [replies EXCEPT ![source] = reply]
    /\ searchStep' = next
    /\ UNCHANGED <<deep, searchAnswer, searchCache, sweeps>>

(* _fuzzy_match_db, and whether its matches are enough.                    *)
FuzzyMatch(reply) ==
    LET weak == \/ Cardinality(DOMAIN reply) < FallbackMinResults
                \/ \A p \in DOMAIN reply : reply[p] < FallbackSimilarity
    IN  /\ searchStep = "db"
        /\ Reply("db", reply, IF ~weak /\ ~deep THEN "merge"
                              ELSE IF BrandOnly THEN "gemini" ELSE "tier2")

(* Best Buy and the second leg, gathered and rid of their noise; Gemini is *)
(* asked when nothing is left of either, or when the search is deep.       *)
Tier2(bestBuy, second) ==
    LET b == Relevant(bestBuy)
        s == Relevant(second)
    IN  /\ searchStep = "tier2"
        /\ replies' = [replies EXCEPT !["best_buy"] = b, !["upcitemdb"] = s]
        /\ searchStep' = IF deep \/ DOMAIN b \union DOMAIN s = {} THEN "gemini" ELSE "merge"
        /\ UNCHANGED <<deep, searchAnswer, searchCache, sweeps>>

(* _gemini_search, with its one retry; a failure is an empty reply.        *)
GeminiSearch(reply) ==
    searchStep = "gemini" /\ Reply("gemini", reply, "merge")

(* The rows are merged, collapsed, answered and cached, a deep search's    *)
(* too; an answer that found nothing as well.                              *)
Respond ==
    /\ searchStep = "merge"
    /\ searchAnswer' = [rows |-> CollapseVariants(Merge(replies, deep)), from |-> replies]
    /\ searchCache' = searchAnswer'
    /\ searchStep' = "idle"
    /\ UNCHANGED <<deep, replies, sweeps>>

SearchNext ==
    \/ Hit
    \/ \E force \in BOOLEAN : Miss(force)
    \/ \E reply \in DbReplies : FuzzyMatch(reply)
    \/ \E b \in BestBuyReplies, s \in SecondLegReplies : Tier2(b, s)
    \/ \E reply \in GeminiReplies : GeminiSearch(reply)
    \/ Respond

SearchSpec == SearchInit /\ [][SearchNext]_searchVars

----------------------------------------------------------------------------
SearchTypeOK ==
    /\ searchStep \in {"idle", "db", "tier2", "gemini", "merge"}
    /\ DOMAIN replies = SearchSources
    /\ \A s \in SearchSources : DOMAIN replies[s] \subseteq Names
    /\ searchAnswer # NoAnswer => Len(searchAnswer.rows) <= MaxResults

(* Of an answer, and of the replies it was made from.                      *)
Trustworthy(answer) ==
    LET shown == answer.rows
        from == answer.from
        ofProduct == {i \in DOMAIN shown : shown[i].source # "generic"}
    IN  /\ \A i \in ofProduct :
              /\ shown[i].source \in SearchSources
              /\ shown[i].name \in DOMAIN from[shown[i].source]
              /\ \A s \in SearchSources : shown[i].name \in DOMAIN from[s]
                                            => Priority(shown[i].source) <= Priority(s)
        /\ \A i, j \in ofProduct : shown[i].name = shown[j].name => i = j
        /\ \A s \in SearchSources : \A p \in DOMAIN from[s] :
              Len(shown) = MaxResults \/ \E i \in ofProduct : shown[i].name = p

(* "Dedup correctness depends on DB-first insert order": when several      *)
(* sources know a product, the row the user taps is the most trusted       *)
(* source's (the one with a product id, or the authoritative UPC), also    *)
(* when that source is less confident and the row ranks lower for it, and  *)
(* also in an answer cached before.  The product is there once, and no     *)
(* product is left out unless the answer is full.                          *)
TrustedSourceWins == searchAnswer # NoAnswer => Trustworthy(searchAnswer)
=============================================================================
