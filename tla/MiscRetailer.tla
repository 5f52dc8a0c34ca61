------------------------------ MODULE MiscRetailer ------------------------------
(***************************************************************************)
(* MiscRetailerService (backend/modules/m14_misc_retailer/service.py): the *)
(* slot for merchants that are not scraped, filled from one shopping       *)
(* search and kept in Redis; an in-flight marker answers the requests that *)
(* come while a search is out.  Every Redis command may fail, which reads  *)
(* as a miss.                                                              *)
(*                                                                         *)
(* One product; a request asks for it by name or by an override query.     *)
(***************************************************************************)
EXTENDS Integers, Sequences, FiniteSets, SequencesExt, Ordered

CONSTANTS
    Shoppers,      \* requests
    Queries,       \* query_override, normalised; ByName is none
    ByName,
    Found,         \* of a query: the item lists a search may return; an item is
                   \* [merchant, position, ok]
    Known,         \* KNOWN_RETAILER_DOMAINS
    MaxRows,       \* MISC_MAX_ROWS
    Standby,       \* the configured adapter raises NotImplementedError
    Nothing

ASSUME MiscAssumption ==
    /\ ByName \in Queries /\ MaxRows \in Nat /\ Nothing # <<>>
    /\ \A query \in Queries : \A items \in Found[query] :
          /\ Len(items) \in Nat /\ DOMAIN items = 1..Len(items)
          /\ \A i \in DOMAIN items : items[i].position \in Nat

VARIABLES
    miscCache,       \* Redis misc:{product}[:q:{digest}]
    miscInflight,    \* Redis misc:inflight:{product}[:q:{digest}]
    miscReq          \* of a request: [pc, query, force, raw, answer]

miscVars == <<miscCache, miscInflight, miscReq>>

NoReq == [pc |-> "idle", query |-> ByName, force |-> FALSE, raw |-> {}, answer |-> Nothing]

MiscTypeOK ==
    /\ \A q \in Shoppers : /\ miscReq[q].pc \in {"idle", "cache", "inflight", "mark",
                                                "fetch", "store", "clear", "raise"}
                           /\ miscReq[q].query \in Queries
    /\ DOMAIN miscCache = Queries /\ DOMAIN miscInflight = Queries

MiscInit ==
    /\ miscCache = [k \in Queries |-> Nothing]
    /\ miscInflight = [k \in Queries |-> Nothing]
    /\ miscReq = [q \in Shoppers |-> NoReq]

AskIs(q, pc) == miscReq[q].pc = pc
AskBecomes(q, ask) == miscReq' = [miscReq EXCEPT ![q] = ask]
AskGoes(q, pc) == AskBecomes(q, [miscReq[q] EXCEPT !.pc = pc])
Answered(q, rows) == AskBecomes(q, [NoReq EXCEPT !.query = miscReq[q].query, !.answer = rows])

-----------------------------------------------------------------------------
(* Mutant: the key does not tell an override from the product's name.      *)
MiscKeyWithoutQuery(query) == ByName

(* _cache_key, _inflight_key                                               *)
MiscKey(query) == query
KeyOf(q) == MiscKey(miscReq[q].query)

GetMiscRetailers(q) ==
    /\ AskIs(q, "idle")
    /\ \E query \in Queries, force \in BOOLEAN :
         AskBecomes(q, [NoReq EXCEPT !.pc = IF force THEN "mark" ELSE "cache",
                                     !.query = query, !.force = force])
    /\ UNCHANGED <<miscCache, miscInflight>>

ReadCache(q) ==
    /\ AskIs(q, "cache")
    /\ \/ /\ miscCache[KeyOf(q)] # Nothing
          /\ Answered(q, miscCache[KeyOf(q)])
       \/ AskGoes(q, "inflight")
    /\ UNCHANGED <<miscCache, miscInflight>>

(* _read_inflight: a marker is an answer, the rows it holds.               *)
ReadInflight(q) ==
    /\ AskIs(q, "inflight")
    /\ \/ /\ miscInflight[KeyOf(q)] # Nothing
          /\ Answered(q, miscInflight[KeyOf(q)])
       \/ AskGoes(q, "mark")
    /\ UNCHANGED <<miscCache, miscInflight>>

(* _write_inflight, with no rows yet.                                      *)
WriteInflight(q) ==
    /\ AskIs(q, "mark")
    /\ miscInflight' \in {miscInflight, [miscInflight EXCEPT ![KeyOf(q)] = <<>>]}
    /\ AskGoes(q, "fetch")
    /\ UNCHANGED miscCache

(* SerperShoppingAdapter.fetch: items without title, source or link are    *)
(* dropped, and one without a position has its place in the list.          *)
Parsed(items) ==
    {[merchant |-> items[i].merchant, place |-> i,
      position |-> IF items[i].position = 0 THEN i ELSE items[i].position]
        : i \in {i \in DOMAIN items : items[i].ok}}

WithRows(ask, rows) == [ask EXCEPT !.pc = "store", !.raw = rows]

(* The search answers, fails (which is no rows), or is a stub that raises. *)
Fetch(q) ==
    /\ AskIs(q, "fetch")
    /\ IF Standby THEN AskGoes(q, "raise")
       ELSE \E items \in Found[miscReq[q].query] \cup {<<>>} :
              AskBecomes(q, WithRows(miscReq[q], Parsed(items)))
    /\ UNCHANGED <<miscCache, miscInflight>>

(* The filter, the sort (stable) and the cap.                              *)
RowBefore(a, b) == a.position < b.position \/ (a.position = b.position /\ a.place < b.place)

Top(rows) ==
    LET kept == {r \in rows : r.merchant \notin Known}
    IN  FirstOf(kept, MaxRows, {ab \in kept \X kept : RowBefore(ab[1], ab[2])})

WriteCache(q) ==
    /\ AskIs(q, "store")
    /\ miscCache' \in {miscCache, [miscCache EXCEPT ![KeyOf(q)] = Top(miscReq[q].raw)]}
    /\ AskGoes(q, "clear")
    /\ UNCHANGED miscInflight

(* _clear_inflight, whoever wrote the marker; then the rows, or the raise. *)
ClearInflight(q) ==
    /\ miscReq[q].pc \in {"clear", "raise"}
    /\ miscInflight' \in {miscInflight, [miscInflight EXCEPT ![KeyOf(q)] = Nothing]}
    /\ Answered(q, IF AskIs(q, "clear") THEN Top(miscReq[q].raw) ELSE Nothing)
    /\ UNCHANGED miscCache

(* A client that goes away cancels its request; the marker stays.          *)
HangUp(q) ==
    /\ ~AskIs(q, "idle")
    /\ Answered(q, Nothing)
    /\ UNCHANGED <<miscCache, miscInflight>>

ExpireMisc(k) ==
    /\ \/ miscCache' = [miscCache EXCEPT ![k] = Nothing] /\ UNCHANGED miscInflight
       \/ miscInflight' = [miscInflight EXCEPT ![k] = Nothing] /\ UNCHANGED miscCache
    /\ UNCHANGED miscReq

MiscNext ==
    \/ \E q \in Shoppers :
          \/ GetMiscRetailers(q) \/ ReadCache(q) \/ ReadInflight(q) \/ WriteInflight(q)
          \/ Fetch(q) \/ WriteCache(q) \/ ClearInflight(q) \/ HangUp(q)
    \/ \E k \in Queries : ExpireMisc(k)

MiscSpec == MiscInit /\ [][MiscNext]_miscVars

-----------------------------------------------------------------------------
(* Whichever requests overlap and whatever Redis loses: rows a request is  *)
(* given are those of a search for what it asked, none of a retailer that  *)
(* is scraped anyway, and a merchant is left out only for MaxRows that     *)
(* were placed before it.                                                  *)
TopOfItsOwnSearch ==
    \A q \in Shoppers : miscReq[q].answer \notin {Nothing, <<>>} =>
        \E items \in Found[miscReq[q].query] :
            LET rows == Parsed(items)
                given == ToSet(miscReq[q].answer)
            IN  /\ given \subseteq {r \in rows : r.merchant \notin Known}
                /\ \A r \in rows \ given :
                     r.merchant \in Known
                     \/ (Len(miscReq[q].answer) = MaxRows /\ \A g \in given : g.position <= r.position)

(* Why: what Redis has of a query, and what a request for it works on or   *)
(* is given, comes from a search for it, or is the empty marker.           *)
Raws(query) == {Parsed(items) : items \in Found[query] \cup {<<>>}}
Answers(query) == {Nothing, <<>>} \cup {Top(rows) : rows \in Raws(query)}
AllRaws == UNION {Raws(query) : query \in Queries}
Asking == [pc : {"idle", "cache", "inflight", "mark", "fetch", "store", "clear", "raise"},
           query : Queries, force : BOOLEAN, raw : AllRaws,
           answer : UNION {Answers(query) : query \in Queries}]

MiscInv ==
    /\ DOMAIN miscCache = Queries /\ \A k \in Queries : miscCache[k] \in Answers(k)
    /\ miscInflight \in [Queries -> {Nothing, <<>>}]
    /\ miscReq \in [Shoppers -> Asking]
    /\ \A q \in Shoppers : /\ miscReq[q].raw \in Raws(miscReq[q].query)
                           /\ miscReq[q].answer \in Answers(miscReq[q].query)
=============================================================================
