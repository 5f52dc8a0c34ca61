----------------------- MODULE PriceAggregation_proofs -----------------------
(***************************************************************************)
(* Proofs about PriceAggregation, for any sets of requests, retailers,     *)
(* queries and locations.                                                  *)
(***************************************************************************)
EXTENDS PriceAggregation, WellFoundedInduction, TLAPS

(* Every step of the specification, as one disjunction per action.         *)
LEMMA StepCases ==
    ASSUME Next
    PROVE  \/ \E q \in Requests :
                \/ Begin(q) \/ CheckRedis(q) \/ CheckInflight(q) \/ CheckExists(q)
                \/ CheckDb(q) \/ BackfillCache(q) \/ Collect(q)
                \/ \E r \in Retailers : Arrive(q, r)
                \/ WriteImage(q) \/ Upsert(q) \/ Publish(q) \/ Finish(q)
                \/ ClearInflight(q) \/ Commit(q) \/ Discard(q) \/ StreamError(q)
                \/ LoseSession(q) \/ Abort(q) \/ DeadlockVictim(q)
           \/ \E s \in Scopes : ExpireCache(s) \/ ExpireInflight(s)
           \/ \E row \in Rows : AgeRow(row)
BY DEF Next, Step, Fail, Environment

(* A provisional product's injection stays within the scopes.              *)
LEMMA InjectedType ==
    ASSUME NEW s \in Scopes
    PROVE  Injected(s) \in Scopes
BY QueriesAssumption DEF Injected, Scopes

(* The empty payload is one.                                               *)
LEMMA BlankType == Blank \in Snapshots
BY DEF Blank, Snapshots

(* A run that takes every listing for new is well typed.                   *)
LEMMA AllNewType == AllNew \in [Retailers -> Conditions]
BY RowsAssumption DEF AllNew

(* So is a request that has not begun.                                     *)
LEMMA IdleType == Idle \in ReqStates
BY BlankType, AllNewType DEF Idle, ReqStates, Pcs, Kinds, Scopes, Images

(* And one that begins, which has nothing in hand.                         *)
LEMMA BegunType ==
    ASSUME TypeOK, NEW kind \in Kinds, NEW s \in Scopes, NEW force \in BOOLEAN,
           NEW x, x = Begun(kind, s, force)
    PROVE  /\ x \in ReqStates
           /\ x.pc \in {"redis", "run"} /\ x.got = Blank
           /\ x.pc = "run" => x.todo = Retailers
BY BlankType, AllNewType, InjectedType
   DEF TypeOK, Begun, ReqStates, Pcs, Images, Loaded

(* _check_db_prices returns a payload of successes.                        *)
LEMMA DbSnapshotType ==
    ASSUME TypeOK, NEW pick \in [Retailers -> Conditions],
           \A r \in Retailers : Fresh(r) # {} => pick[r] \in Fresh(r)
    PROVE  /\ DbSnapshot(pick) \in Snapshots
           /\ \A r \in Retailers :
                 DbSnapshot(pick)[r] # NoResult => DbSnapshot(pick)[r].ok
<1>1. ASSUME NEW r \in Retailers, Fresh(r) # {}
      PROVE  [ok |-> TRUE, scope |-> prices[<<r, pick[r]>>]] \in Results
  <2>1. pick[r] \in Conditions /\ prices[<<r, pick[r]>>] # NoRow
    BY <1>1 DEF Fresh
  <2>2. prices[<<r, pick[r]>>] \in Scopes
    BY <2>1 DEF TypeOK, Rows
  <2> QED
    BY <2>2 DEF Results
<1> QED
  BY <1>1 DEF DbSnapshot, Snapshots

(* What the successor of one request's record is, for the steps that only  *)
(* move its control or put a payload in its hand.                          *)
LEMMA GotoType ==
    ASSUME TypeOK, NEW q \in Requests, NEW pc \in Pcs, Goto(q, pc)
    PROVE  req' \in [Requests -> ReqStates]
<1>1. [req[q] EXCEPT !.pc = pc] \in ReqStates
  BY DEF TypeOK, ReqStates
<1>2. req' = [req EXCEPT ![q] = [req[q] EXCEPT !.pc = pc]]
  BY DEF Goto
<1> QED
  BY <1>1, <1>2 DEF TypeOK

(* The dispatch: every retailer is to do.                                   *)
LEMMA DispatchType ==
    ASSUME TypeOK, NEW q \in Requests, Dispatch(q)
    PROVE  req' \in [Requests -> ReqStates]
<1>1. [req[q] EXCEPT !.pc = "run", !.todo = Retailers] \in ReqStates
  BY DEF TypeOK, ReqStates, Pcs
<1>2. req' = [req EXCEPT ![q] = [req[q] EXCEPT !.pc = "run", !.todo = Retailers]]
  BY DEF Dispatch
<1> QED
  BY <1>1, <1>2 DEF TypeOK

(* An answer found in a cache.                                              *)
LEMMA ServeType ==
    ASSUME TypeOK, NEW q \in Requests, NEW pc \in Pcs, NEW got \in Snapshots,
           NEW partial \in BOOLEAN, Serve(q, pc, got, partial)
    PROVE  req' \in [Requests -> ReqStates]
<1>1. [req[q] EXCEPT !.pc = pc, !.got = got, !.partial = partial] \in ReqStates
  BY DEF TypeOK, ReqStates
<1>2. req' = [req EXCEPT ![q] =
                [req[q] EXCEPT !.pc = pc, !.got = got, !.partial = partial]]
  BY DEF Serve
<1> QED
  BY <1>1, <1>2 DEF TypeOK

(* The end of a request, however it comes.                                  *)
LEMMA EndType ==
    ASSUME TypeOK, NEW q \in Requests, End(q)
    PROVE  /\ req' \in [Requests -> ReqStates]
           /\ txn' \in [Requests -> [Rows -> Scopes \cup {NoRow}]]
BY IdleType DEF TypeOK, End, NoWrites

(* One retailer's classified result.                                        *)
LEMMA OutcomeType ==
    ASSUME TypeOK, NEW q \in Requests, NEW ok \in BOOLEAN
    PROVE  Outcome(q, ok) \in Results
BY DEF TypeOK, ReqStates, Outcome, Results

(* The records that come of the steps of a dispatch.  A batch has a result *)
(* for every retailer at once,                                             *)
LEMMA CollectAs ==
    ASSUME TypeOK, NEW q \in Requests, Collect(q)
    PROVE  /\ UNCHANGED <<cache, inflight, prices, image, txn>>
           /\ \E x \in ReqStates :
                 /\ req' = [req EXCEPT ![q] = x]
                 /\ x.pc = "upsert" /\ x.kind = req[q].kind /\ x.scope = req[q].scope
                 /\ x.partial = req[q].partial /\ x.owned = req[q].owned
                 /\ \A r \in Retailers :
                       x.got[r] # NoResult /\ x.got[r].scope = req[q].scope
<1>1. PICK ok \in [Retailers -> BOOLEAN], cond \in [Retailers -> Conditions] :
        req' = [req EXCEPT ![q].pc = "upsert", ![q].cond = cond,
                           ![q].got = [r \in Retailers |-> Outcome(q, ok[r])],
                           ![q].todo = {r \in Retailers : ok[r]}]
  BY DEF Collect
<1>2. PICK got \in Snapshots : got = [r \in Retailers |-> Outcome(q, ok[r])]
  BY OutcomeType DEF Snapshots
<1>3. PICK todo \in SUBSET Retailers : todo = {r \in Retailers : ok[r]}
  OBVIOUS
<1>4. PICK x : x = [req[q] EXCEPT !.pc = "upsert", !.cond = cond, !.got = got,
                                  !.todo = todo]
  OBVIOUS
<1>5. req' = [req EXCEPT ![q] = x]
  BY <1>1, <1>2, <1>3, <1>4
<1>6. /\ x \in ReqStates
      /\ x.pc = "upsert" /\ x.kind = req[q].kind /\ x.scope = req[q].scope
      /\ x.partial = req[q].partial /\ x.owned = req[q].owned /\ x.got = got
  BY <1>4 DEF TypeOK, ReqStates, Pcs
<1>7. ASSUME NEW r \in Retailers
      PROVE  got[r] # NoResult /\ got[r].scope = req[q].scope
  <2>1. got[r] = Outcome(q, ok[r]) /\ got[r] \in Results
    BY <1>2, OutcomeType
  <2> QED
    BY <2>1, MarkersAssumption DEF Outcome
<1> QED
  BY <1>5, <1>6, <1>7 DEF Collect

(* a stream one result at a time,                                          *)
LEMMA ArriveAs ==
    ASSUME TypeOK, NEW q \in Requests, NEW r \in Retailers, Arrive(q, r)
    PROVE  /\ UNCHANGED <<cache, inflight, prices, image, txn>>
           /\ \E x \in ReqStates :
                 /\ req' = [req EXCEPT ![q] = x]
                 /\ x.pc \in {"upsert", "publish"} /\ x.kind = "stream"
                 /\ x.scope = req[q].scope /\ x.todo = req[q].todo
                 /\ x.partial = req[q].partial /\ x.owned = req[q].owned
                 /\ x.got[r] # NoResult /\ x.got[r].scope = req[q].scope
                 /\ \A o \in Retailers : o # r => x.got[o] = req[q].got[o]
<1>1. PICK ok \in BOOLEAN, c \in Conditions :
        req' = [req EXCEPT ![q].pc = IF ok THEN "upsert" ELSE "publish",
                           ![q].got[r] = Outcome(q, ok), ![q].cond[r] = c]
  BY DEF Arrive
<1>2. PICK pc \in {"upsert", "publish"} : pc = IF ok THEN "upsert" ELSE "publish"
  OBVIOUS
<1>3. PICK got \in Snapshots : got = [req[q].got EXCEPT ![r] = Outcome(q, ok)]
  BY OutcomeType DEF Snapshots, TypeOK, ReqStates
<1>4. PICK cond \in [Retailers -> Conditions] : cond = [req[q].cond EXCEPT ![r] = c]
  BY DEF TypeOK, ReqStates
<1>5. PICK x : x = [req[q] EXCEPT !.pc = pc, !.got = got, !.cond = cond]
  OBVIOUS
<1>6. req' = [req EXCEPT ![q] = x]
  BY <1>1, <1>2, <1>3, <1>4, <1>5
<1>7. /\ x \in ReqStates
      /\ x.pc = pc /\ x.kind = req[q].kind /\ x.scope = req[q].scope
      /\ x.todo = req[q].todo /\ x.partial = req[q].partial
      /\ x.owned = req[q].owned /\ x.got = got
  BY <1>5 DEF TypeOK, ReqStates, Pcs
<1>8. got[r] # NoResult /\ got[r].scope = req[q].scope
  <2>1. got[r] = Outcome(q, ok) /\ got[r] \in Results
    BY <1>3, OutcomeType DEF TypeOK, ReqStates, Snapshots
  <2> QED
    BY <2>1, MarkersAssumption DEF Outcome
<1>9. \A o \in Retailers : o # r => got[o] = req[q].got[o]
  BY <1>3 DEF TypeOK, ReqStates, Snapshots
<1> QED
  BY <1>6, <1>7, <1>8, <1>9 DEF Arrive

(* the image is flushed,                                                   *)
LEMMA WriteImageAs ==
    ASSUME TypeOK, NEW q \in Requests, WriteImage(q)
    PROVE  /\ UNCHANGED <<cache, inflight, prices, image, txn>>
           /\ req[q].image = "assigned"
           /\ req[q].pc \in {"upsert", "commit", "run"}
           /\ \E x \in ReqStates :
                 /\ req' = [req EXCEPT ![q] = x]
                 /\ x.pc = req[q].pc /\ x.kind = req[q].kind
                 /\ x.scope = req[q].scope /\ x.got = req[q].got
                 /\ x.todo = req[q].todo /\ x.partial = req[q].partial
                 /\ x.owned = req[q].owned
<1>1. PICK x : x = [req[q] EXCEPT !.image = "written"]
  OBVIOUS
<1>2. req' = [req EXCEPT ![q] = x]
  BY <1>1 DEF WriteImage
<1>3. /\ x \in ReqStates
      /\ x.pc = req[q].pc /\ x.kind = req[q].kind
      /\ x.scope = req[q].scope /\ x.got = req[q].got
      /\ x.todo = req[q].todo /\ x.partial = req[q].partial
      /\ x.owned = req[q].owned
  BY <1>1 DEF TypeOK, ReqStates, Images
<1> QED
  BY <1>2, <1>3 DEF WriteImage, AtStatement, At

(* a row is written,                                                       *)
LEMMA UpsertAs ==
    ASSUME TypeOK, NEW q \in Requests, Upsert(q)
    PROVE  /\ UNCHANGED <<cache, inflight, prices, image>>
           /\ req[q].pc = "upsert"
           /\ \E r \in First(q), row \in Rows, x \in ReqStates :
                 /\ row = RowOf(q, r)
                 /\ txn' = [txn EXCEPT ![q] = [@ EXCEPT ![row] = req[q].scope]]
                 /\ req' = [req EXCEPT ![q] = x]
                 /\ x.kind = req[q].kind /\ x.scope = req[q].scope
                 /\ x.got = req[q].got /\ x.partial = req[q].partial
                 /\ x.owned = req[q].owned
                 /\ req[q].kind = "stream" => x.pc = "publish" /\ x.todo = req[q].todo
                 /\ req[q].kind # "stream" =>
                       x.pc = "upsert" /\ x.todo = req[q].todo \ {r}
<1>1. PICK r \in First(q) : Persist(q, r)
  BY DEF Upsert
<1>2. PICK img \in ImageAfter(q) : req' = [req EXCEPT ![q] = Persisted(q, r, img)]
  BY <1>1 DEF Persist
<1>3. r \in Retailers /\ img \in Images /\ req[q] \in ReqStates
  BY DEF First, InHand, ImageAfter, Images, TypeOK, ReqStates
<1>4. PICK pc \in Pcs : pc = IF req[q].kind = "stream" THEN "publish" ELSE "upsert"
  BY DEF Pcs
<1>5. PICK todo \in SUBSET Retailers :
        todo = IF req[q].kind = "stream" THEN req[q].todo ELSE req[q].todo \ {r}
  BY <1>3 DEF ReqStates
<1>6. PICK cond \in [Retailers -> Conditions] : cond = [req[q].cond EXCEPT ![r] = New]
  BY <1>3, RowsAssumption DEF ReqStates
<1>7. PICK x : x = [req[q] EXCEPT !.pc = pc, !.todo = todo, !.cond = cond,
                                  !.image = img]
  OBVIOUS
<1>8. req' = [req EXCEPT ![q] = x]
  BY <1>2, <1>4, <1>5, <1>6, <1>7 DEF Persisted
<1>9. /\ x \in ReqStates
      /\ x.kind = req[q].kind /\ x.scope = req[q].scope
      /\ x.got = req[q].got /\ x.partial = req[q].partial
      /\ x.owned = req[q].owned /\ x.pc = pc /\ x.todo = todo
  BY <1>3, <1>7 DEF ReqStates
<1>10. PICK row \in Rows : row = RowOf(q, r)
  BY <1>3 DEF RowOf, Rows, ReqStates
<1>11. txn' = [txn EXCEPT ![q] = [@ EXCEPT ![row] = req[q].scope]]
  BY <1>1, <1>10 DEF Persist
<1>12. req[q].kind = "stream" => x.pc = "publish" /\ x.todo = req[q].todo
  BY <1>4, <1>5, <1>9
<1>13. req[q].kind # "stream" => x.pc = "upsert" /\ x.todo = req[q].todo \ {r}
  BY <1>4, <1>5, <1>9
<1>14. UNCHANGED <<cache, inflight, prices, image>> /\ req[q].pc = "upsert"
  BY <1>1 DEF Upsert, Persist, At
<1> QED
  BY <1>8, <1>9, <1>10, <1>11, <1>12, <1>13, <1>14, Zenon

(* and published.                                                          *)
LEMMA PublishAs ==
    ASSUME TypeOK, NEW q \in Requests, Publish(q)
    PROVE  /\ UNCHANGED <<cache, prices, image, txn>>
           /\ req[q].pc = "publish"
           /\ \E r \in InHand(q), x \in ReqStates :
                 /\ \/ inflight' = [inflight EXCEPT ![req[q].scope][r] = req[q].got[r]]
                    \/ inflight' = inflight
                 /\ req' = [req EXCEPT ![q] = x]
                 /\ x.pc = "run" /\ x.kind = req[q].kind
                 /\ x.scope = req[q].scope /\ x.got = req[q].got
                 /\ x.todo = req[q].todo \ {r} /\ x.partial = req[q].partial
                 /\ x.owned = req[q].owned
<1>1. PICK r \in InHand(q) :
        /\ \/ inflight' = [inflight EXCEPT ![req[q].scope][r] = req[q].got[r]]
           \/ inflight' = inflight
        /\ req' = [req EXCEPT ![q].pc = "run", ![q].todo = @ \ {r}]
  BY DEF Publish
<1>2. PICK x : x = [req[q] EXCEPT !.pc = "run", !.todo = @ \ {r}]
  OBVIOUS
<1>3. req' = [req EXCEPT ![q] = x]
  BY <1>1, <1>2
<1>4. /\ x \in ReqStates
      /\ x.pc = "run" /\ x.kind = req[q].kind
      /\ x.scope = req[q].scope /\ x.got = req[q].got
      /\ x.todo = req[q].todo \ {r} /\ x.partial = req[q].partial
      /\ x.owned = req[q].owned
  BY <1>2 DEF TypeOK, ReqStates, Pcs
<1> QED
  BY <1>1, <1>3, <1>4 DEF Publish, At

(* A nested get_prices loses its session.                                  *)
LEMMA LoseSessionAs ==
    ASSUME TypeOK, NEW q \in Requests, LoseSession(q)
    PROVE  /\ UNCHANGED <<cache, inflight, prices, image>>
           /\ req[q].kind = "batch"
           /\ txn' = [txn EXCEPT ![q] = NoWrites]
           /\ \E x \in ReqStates :
                 /\ req' = [req EXCEPT ![q] = x]
                 /\ x.pc = req[q].pc /\ x.kind = req[q].kind
                 /\ x.scope = req[q].scope /\ x.got = req[q].got
                 /\ x.todo = req[q].todo /\ x.partial = req[q].partial
<1>1. PICK x : x = [req[q] EXCEPT !.owned = FALSE, !.image = Loaded]
  OBVIOUS
<1>2. req' = [req EXCEPT ![q] = x]
  BY <1>1 DEF LoseSession
<1>3. /\ x \in ReqStates
      /\ x.pc = req[q].pc /\ x.kind = req[q].kind
      /\ x.scope = req[q].scope /\ x.got = req[q].got
      /\ x.todo = req[q].todo /\ x.partial = req[q].partial
  BY <1>1 DEF TypeOK, ReqStates, Images, Loaded
<1> QED
  BY <1>2, <1>3 DEF LoseSession

(* Every step keeps the types.                                              *)
LEMMA TypeStep == TypeOK /\ [Next]_vars => TypeOK'
<1> SUFFICES ASSUME TypeOK, [Next]_vars PROVE TypeOK'
  OBVIOUS
<1>1. ASSUME NEW q \in Requests, Begin(q) PROVE TypeOK'
  <2>1. PICK kind \in Kinds, s \in Scopes, force \in BOOLEAN :
          req' = [req EXCEPT ![q] = Begun(kind, s, force)]
    BY <1>1 DEF Begin
  <2>2. Begun(kind, s, force) \in ReqStates
    BY BegunType
  <2> QED
    BY <1>1, <2>1, <2>2 DEF Begin, TypeOK
<1>2. ASSUME NEW q \in Requests, CheckRedis(q) PROVE TypeOK'
  <2>1. req[q].scope \in Scopes /\ cache[req[q].scope] \in Snapshots \cup {NoEntry}
        /\ req[q].kind \in Kinds
    BY DEF TypeOK, ReqStates
  <2>2. req' \in [Requests -> ReqStates]
    BY <1>2, <2>1, DispatchType, GotoType, ServeType DEF CheckRedis, DbOrDispatch, Pcs, Kinds
  <2> QED
    BY <1>2, <2>2 DEF CheckRedis, TypeOK
<1>3. ASSUME NEW q \in Requests, CheckInflight(q) \/ CheckExists(q) PROVE TypeOK'
  <2>1. req[q].scope \in Scopes /\ inflight[req[q].scope] \in Snapshots
    BY DEF TypeOK, ReqStates
  <2>2. req' \in [Requests -> ReqStates]
    BY <1>3, <2>1, BlankType, DispatchType, GotoType, ServeType
       DEF CheckInflight, CheckExists, DbOrDispatch, Pcs
  <2> QED
    BY <1>3, <2>2 DEF CheckInflight, CheckExists, TypeOK
<1>4. ASSUME NEW q \in Requests, CheckDb(q) PROVE TypeOK'
  <2>1. PICK pick \in [Retailers -> Conditions] :
          /\ \A r \in Retailers : Fresh(r) # {} => pick[r] \in Fresh(r)
          /\ Serve(q, "backfill", DbSnapshot(pick), FALSE) \/ Dispatch(q)
    BY <1>4 DEF CheckDb
  <2>2. DbSnapshot(pick) \in Snapshots
    BY <2>1, DbSnapshotType
  <2>3. req' \in [Requests -> ReqStates]
    BY <2>1, <2>2, DispatchType, ServeType DEF Pcs
  <2> QED
    BY <1>4, <2>3 DEF CheckDb, TypeOK
<1>5. ASSUME NEW q \in Requests, BackfillCache(q) PROVE TypeOK'
  <2>2. req' \in [Requests -> ReqStates]
    BY <1>5, GotoType DEF BackfillCache, Pcs
  <2> QED
    BY <1>5, <2>2 DEF BackfillCache, TypeOK, ReqStates
<1>6. ASSUME NEW q \in Requests, Collect(q) PROVE TypeOK'
  BY <1>6, CollectAs DEF TypeOK
<1>7. ASSUME NEW q \in Requests, NEW r \in Retailers, Arrive(q, r) PROVE TypeOK'
  BY <1>7, ArriveAs DEF TypeOK
<1>8. ASSUME NEW q \in Requests, Upsert(q) PROVE TypeOK'
  <2>1. PICK row \in Rows, x \in ReqStates :
          /\ txn' = [txn EXCEPT ![q] = [@ EXCEPT ![row] = req[q].scope]]
          /\ req' = [req EXCEPT ![q] = x]
    BY <1>8, UpsertAs
  <2>2. [txn[q] EXCEPT ![row] = req[q].scope] \in [Rows -> Scopes \cup {NoRow}]
    BY DEF TypeOK, ReqStates
  <2>3. UNCHANGED <<cache, inflight, prices, image>>
    BY <1>8, UpsertAs
  <2> QED
    BY <2>1, <2>2, <2>3 DEF TypeOK
<1>9. ASSUME NEW q \in Requests, Publish(q) PROVE TypeOK'
  <2>1. PICK r \in InHand(q), x \in ReqStates :
          /\ \/ inflight' = [inflight EXCEPT ![req[q].scope][r] = req[q].got[r]]
             \/ inflight' = inflight
          /\ req' = [req EXCEPT ![q] = x]
    BY <1>9, PublishAs
  <2>2. r \in Retailers
    BY DEF InHand, TypeOK, ReqStates
  <2>3. /\ req[q].scope \in Scopes
        /\ [inflight[req[q].scope] EXCEPT ![r] = req[q].got[r]] \in Snapshots
    BY <2>2 DEF TypeOK, ReqStates, Snapshots
  <2>4. inflight' \in [Scopes -> Snapshots]
    BY <2>1, <2>3 DEF TypeOK
  <2>5. UNCHANGED <<cache, prices, image, txn>>
    BY <1>9, PublishAs
  <2> QED
    BY <2>1, <2>4, <2>5 DEF TypeOK
<1>10. ASSUME NEW q \in Requests, Finish(q) PROVE TypeOK'
  <2>1. req' \in [Requests -> ReqStates]
    BY <1>10, GotoType DEF Finish, Pcs
  <2> QED
    BY <1>10, <2>1 DEF Finish, TypeOK, ReqStates
<1>11. ASSUME NEW q \in Requests, ClearInflight(q) PROVE TypeOK'
  <2>1. req' \in [Requests -> ReqStates]
    BY <1>11, GotoType DEF ClearInflight, Pcs
  <2> QED
    BY <1>11, <2>1, BlankType DEF ClearInflight, TypeOK, ReqStates
<1>12. ASSUME NEW q \in Requests, Commit(q) PROVE TypeOK'
  BY <1>12, EndType DEF Commit, TypeOK
<1>13. ASSUME NEW q \in Requests, StreamError(q) PROVE TypeOK'
  <2>1. req' \in [Requests -> ReqStates]
    BY <1>13, GotoType DEF StreamError, Pcs
  <2> QED
    BY <1>13, <2>1 DEF StreamError, TypeOK
<1>14. ASSUME NEW q \in Requests, Discard(q) \/ Abort(q) \/ DeadlockVictim(q)
       PROVE  TypeOK'
  BY <1>14, EndType DEF Discard, Abort, DeadlockVictim, Rollback, TypeOK
<1>15. ASSUME NEW s \in Scopes, ExpireCache(s) \/ ExpireInflight(s) PROVE TypeOK'
  BY <1>15, BlankType DEF ExpireCache, ExpireInflight, TypeOK
<1>16. ASSUME NEW row \in Rows, AgeRow(row) PROVE TypeOK'
  BY <1>16 DEF AgeRow, TypeOK
<1>17. CASE UNCHANGED vars
  BY <1>17 DEF vars, TypeOK
<1>18. ASSUME NEW q \in Requests, WriteImage(q) PROVE TypeOK'
  BY <1>18, WriteImageAs DEF TypeOK
<1>19. ASSUME NEW q \in Requests, LoseSession(q) PROVE TypeOK'
  <2>1. NoWrites \in [Rows -> Scopes \cup {NoRow}]
    BY DEF NoWrites
  <2> QED
    BY <1>19, <2>1, LoseSessionAs DEF TypeOK
<1> QED
  BY <1>1, <1>2, <1>3, <1>4, <1>5, <1>6, <1>7, <1>8, <1>9, <1>10, <1>11,
     <1>12, <1>13, <1>14, <1>15, <1>16, <1>17, <1>18, <1>19, StepCases

(* Every variable keeps its type in every behaviour of the pipeline, for    *)
(* any sets of requests, retailers, queries and locations.                 *)
THEOREM TypeInvariant == Spec => []TypeOK
<1>1. Init => TypeOK
  BY BlankType, IdleType DEF Init, TypeOK, NoWrites
<1> QED
  BY <1>1, TypeStep, PTL DEF Spec

-----------------------------------------------------------------------------
(* What a step leaves alone keeps the invariant; so only the new value of  *)
(* one request, one bucket or one entry has to be looked at.               *)
LEMMA RequestsFrame ==
    ASSUME TypeOK, ScopeInv, NEW q \in Requests, NEW new,
           req' = [req EXCEPT ![q] = new], PayloadOK(new)
    PROVE  \A p \in Requests : PayloadOK(req'[p])
BY DEF TypeOK, ScopeInv

(* The two Redis stores, when a step leaves them alone.                     *)
LEMMA StoresFrame ==
    ASSUME ScopeInv, UNCHANGED <<cache, inflight>>
    PROVE  \A s \in Scopes : BucketOK(s, inflight'[s]) /\ EntryOK(s, cache'[s])
BY DEF ScopeInv, BucketOK, EntryOK

(* The invariant of the next state, from its parts.                         *)
LEMMA ScopeInvPrime ==
    ASSUME \A s \in Scopes : BucketOK(s, inflight'[s]) /\ EntryOK(s, cache'[s]),
           \A p \in Requests : PayloadOK(req'[p])
    PROVE  ScopeInv'
BY DEF ScopeInv, BucketOK, EntryOK, PayloadOK, Blank

(* The empty payload belongs to any scope.                                  *)
LEMMA BlankOK ==
    ASSUME NEW s
    PROVE  BucketOK(s, Blank)
BY DEF BucketOK, Blank

(* A request that has not begun has nothing in hand.                        *)
LEMMA IdleOK == PayloadOK(Idle)
BY BlankOK DEF PayloadOK, Idle

(* Moving on, with the payload in hand as it is.                           *)
LEMMA GotoOK ==
    ASSUME TypeOK, ScopeInv, NEW q \in Requests, NEW pc, Goto(q, pc),
           PayloadOK([req[q] EXCEPT !.pc = pc])
    PROVE  \A p \in Requests : PayloadOK(req'[p])
<1>1. req' = [req EXCEPT ![q] = [req[q] EXCEPT !.pc = pc]]
  BY DEF Goto
<1> QED
  BY <1>1, RequestsFrame

(* The dispatch starts with empty hands.                                    *)
LEMMA DispatchOK ==
    ASSUME TypeOK, ScopeInv, NEW q \in Requests, Dispatch(q),
           req[q].pc \in {"redis", "inflight", "exists", "db"}
    PROVE  \A p \in Requests : PayloadOK(req'[p])
<1> DEFINE new == [req[q] EXCEPT !.pc = "run", !.todo = Retailers]
<1>1. req' = [req EXCEPT ![q] = new]
  BY DEF Dispatch
<1>2. req[q].got = Blank
  BY DEF ScopeInv, PayloadOK
<1>3. new.pc = "run" /\ new.todo = Retailers /\ new.got = Blank
  BY <1>2 DEF TypeOK, ReqStates
<1>4. PayloadOK(new)
  BY <1>3, BlankOK DEF PayloadOK
<1> HIDE DEF new
<1> QED
  BY <1>1, <1>4, RequestsFrame

(* The step to the prices table or past it: the table only without an      *)
(* override.                                                               *)
LEMMA DbOrDispatchOK ==
    ASSUME TypeOK, ScopeInv, NEW q \in Requests, DbOrDispatch(q),
           req[q].pc \in {"redis", "inflight", "exists"}
    PROVE  \A p \in Requests : PayloadOK(req'[p])
<1>1. CASE DbReadable(req[q].kind, req[q].scope)
  <2> DEFINE new == [req[q] EXCEPT !.pc = "db"]
  <2>1. Goto(q, "db") /\ req[q].scope.query = NoQuery
    BY <1>1 DEF DbOrDispatch, DbReadable
  <2>2. /\ new.pc = "db" /\ new.scope = req[q].scope
        /\ new.got = Blank
    BY DEF TypeOK, ReqStates, ScopeInv, PayloadOK
  <2>3. PayloadOK(new)
    BY <2>1, <2>2 DEF PayloadOK
  <2> QED
    BY <2>1, <2>3, GotoOK
<1>2. CASE ~DbReadable(req[q].kind, req[q].scope)
  BY <1>2, DispatchOK DEF DbOrDispatch
<1> QED
  BY <1>1, <1>2

(* An answer in hand, on the way to the commit.                            *)
LEMMA ServeOK ==
    ASSUME TypeOK, ScopeInv, NEW q \in Requests, NEW got, NEW partial,
           Serve(q, "commit", got, partial),
           req[q].scope.query # NoQuery => BucketOK(req[q].scope, got)
    PROVE  \A p \in Requests : PayloadOK(req'[p])
<1> DEFINE new == [req[q] EXCEPT !.pc = "commit", !.got = got, !.partial = partial]
<1>1. req' = [req EXCEPT ![q] = new]
  BY DEF Serve
<1>2. new.pc = "commit" /\ new.got = got /\ new.scope = req[q].scope
  BY DEF TypeOK, ReqStates
<1>3. PayloadOK(new)
  BY <1>2 DEF PayloadOK
<1> HIDE DEF new
<1> QED
  BY <1>1, <1>3, RequestsFrame

(* The end of a request empties its hands.                                  *)
LEMMA EndOK ==
    ASSUME TypeOK, ScopeInv, NEW q \in Requests, End(q)
    PROVE  \A p \in Requests : PayloadOK(req'[p])
BY IdleOK, RequestsFrame DEF End

-----------------------------------------------------------------------------
(* Each step keeps the scope invariant, which holds at the start.          *)
LEMMA ScopeInit == Init => ScopeInv
BY BlankOK, IdleOK DEF Init, ScopeInv, EntryOK

(* The steps that look the answer up.                                       *)
LEMMA ReadingKeeps ==
    ASSUME TypeOK, ScopeInv, NEW q \in Requests,
           \/ Begin(q) \/ CheckRedis(q) \/ CheckInflight(q) \/ CheckExists(q)
           \/ CheckDb(q)
    PROVE  ScopeInv'
<1> \A s \in Scopes : BucketOK(s, inflight'[s]) /\ EntryOK(s, cache'[s])
  BY StoresFrame DEF Begin, CheckRedis, CheckInflight, CheckExists, CheckDb
<1> SUFFICES \A p \in Requests : PayloadOK(req'[p])
  BY ScopeInvPrime
<1>0. req[q].scope \in Scopes /\ req[q].kind \in Kinds
  BY DEF TypeOK, ReqStates
<1>1. CASE Begin(q)
  <2>0. PICK kind \in Kinds, s \in Scopes, force \in BOOLEAN :
          req' = [req EXCEPT ![q] = Begun(kind, s, force)]
    BY <1>1 DEF Begin
  <2>1. PICK new :
          new = Begun(kind, s, force) /\ req' = [req EXCEPT ![q] = new]
    BY <2>0
  <2>2. PayloadOK(new)
    BY <2>1, BegunType, BlankOK DEF PayloadOK
  <2> QED
    BY <2>1, <2>2, RequestsFrame
<1>2. CASE CheckRedis(q)
  <2>1. CASE cache[req[q].scope] # NoEntry
    <3>1. Serve(q, "commit", cache[req[q].scope], FALSE)
      BY <1>2, <2>1 DEF CheckRedis
    <3>2. req[q].scope.query # NoQuery => BucketOK(req[q].scope, cache[req[q].scope])
      BY <1>0, <2>1 DEF ScopeInv, EntryOK
    <3> QED
      BY <3>1, <3>2, ServeOK
  <2>2. CASE cache[req[q].scope] = NoEntry /\ req[q].kind = "batch"
    <3>1. Goto(q, "inflight")
      BY <1>2, <2>2 DEF CheckRedis
    <3> DEFINE new == [req[q] EXCEPT !.pc = "inflight"]
    <3>2. new.pc = "inflight" /\ new.got = Blank
      BY <1>2 DEF TypeOK, ReqStates, ScopeInv, PayloadOK, CheckRedis, At
    <3>3. PayloadOK(new)
      BY <3>2, BlankOK DEF PayloadOK
    <3> QED
      BY <3>1, <3>3, GotoOK
  <2>3. CASE cache[req[q].scope] = NoEntry /\ req[q].kind = "stream"
    <3>1. DbOrDispatch(q) /\ req[q].pc = "redis"
      BY <1>2, <2>3 DEF CheckRedis, At
    <3> QED
      BY <3>1, DbOrDispatchOK
  <2> QED
    BY <1>0, <2>1, <2>2, <2>3 DEF Kinds
<1>3. CASE CheckInflight(q)
  <2>1. CASE Serve(q, "commit", inflight[req[q].scope], TRUE)
    <3>1. BucketOK(req[q].scope, inflight[req[q].scope])
      BY <1>0 DEF ScopeInv
    <3> QED
      BY <2>1, <3>1, ServeOK
  <2>2. CASE Goto(q, "exists")
    <3> DEFINE new == [req[q] EXCEPT !.pc = "exists"]
    <3>1. new.pc = "exists" /\ new.got = Blank
      BY <1>3 DEF TypeOK, ReqStates, ScopeInv, PayloadOK, CheckInflight, At
    <3>2. PayloadOK(new)
      BY <3>1, BlankOK DEF PayloadOK
    <3> QED
      BY <2>2, <3>2, GotoOK
  <2>3. CASE DbOrDispatch(q)
    BY <1>3, <2>3, DbOrDispatchOK DEF CheckInflight, At
  <2> QED
    BY <1>3, <2>1, <2>2, <2>3 DEF CheckInflight
<1>4. CASE CheckExists(q)
  <2>1. CASE Serve(q, "commit", Blank, TRUE)
    BY <2>1, BlankOK, ServeOK
  <2>2. CASE DbOrDispatch(q)
    BY <1>4, <2>2, DbOrDispatchOK DEF CheckExists, At
  <2> QED
    BY <1>4, <2>1, <2>2 DEF CheckExists
<1>5. CASE CheckDb(q)
  <2>1. PICK pick \in [Retailers -> Conditions] :
          /\ \A r \in Retailers : Fresh(r) # {} => pick[r] \in Fresh(r)
          /\ Serve(q, "backfill", DbSnapshot(pick), FALSE) \/ Dispatch(q)
    BY <1>5 DEF CheckDb
  <2>2. CASE Serve(q, "backfill", DbSnapshot(pick), FALSE)
    <3>1. PICK got : got = DbSnapshot(pick)
      OBVIOUS
    <3>2. PICK new : new = [req[q] EXCEPT !.pc = "backfill", !.got = got,
                                          !.partial = FALSE]
      OBVIOUS
    <3>3. req' = [req EXCEPT ![q] = new]
      BY <2>2, <3>1, <3>2 DEF Serve
    <3>4. new.pc = "backfill" /\ new.got = got /\ new.scope = req[q].scope
      BY <3>2 DEF TypeOK, ReqStates
    <3>5. req[q].scope.query = NoQuery
      BY <1>5 DEF CheckDb, At, ScopeInv, PayloadOK
    <3>6. \A r \in Retailers : got[r] # NoResult => got[r].ok
      BY <2>1, <3>1, DbSnapshotType
    <3>7. PayloadOK(new)
      BY <3>4, <3>5, <3>6 DEF PayloadOK
    <3> QED
      BY <3>3, <3>7, RequestsFrame
  <2>3. CASE Dispatch(q)
    BY <1>5, <2>3, DispatchOK DEF CheckDb, At
  <2> QED
    BY <2>1, <2>2, <2>3
<1> QED
  BY <1>1, <1>2, <1>3, <1>4, <1>5

(* Results come into hand under the scope of the run that fetched them.    *)
LEMMA FetchingKeeps ==
    ASSUME TypeOK, ScopeInv, NEW q \in Requests,
           Collect(q) \/ \E r \in Retailers : Arrive(q, r)
    PROVE  ScopeInv'
<1> \A s \in Scopes : BucketOK(s, inflight'[s]) /\ EntryOK(s, cache'[s])
  BY StoresFrame DEF Collect, Arrive
<1> SUFFICES \A p \in Requests : PayloadOK(req'[p])
  BY ScopeInvPrime
<1>0. req[q].pc = "run" /\ PayloadOK(req[q])
  BY DEF Collect, Arrive, At, ScopeInv
<1>1. CASE Collect(q)
  <2>1. PICK x \in ReqStates :
          /\ req' = [req EXCEPT ![q] = x]
          /\ x.pc = "upsert" /\ x.scope = req[q].scope
          /\ \A r \in Retailers : x.got[r] # NoResult /\ x.got[r].scope = req[q].scope
    BY <1>1, CollectAs
  <2>2. PayloadOK(x)
    BY <2>1 DEF PayloadOK, BucketOK
  <2> QED
    BY <2>1, <2>2, RequestsFrame
<1>2. ASSUME NEW r \in Retailers, Arrive(q, r)
      PROVE  \A p \in Requests : PayloadOK(req'[p])
  <2>1. PICK x \in ReqStates :
          /\ req' = [req EXCEPT ![q] = x]
          /\ x.pc \in {"upsert", "publish"}
          /\ x.scope = req[q].scope /\ x.todo = req[q].todo
          /\ x.got[r] # NoResult /\ x.got[r].scope = req[q].scope
          /\ \A o \in Retailers : o # r => x.got[o] = req[q].got[o]
    BY <1>2, ArriveAs
  <2>2. PayloadOK(x)
    BY <1>0, <2>1 DEF PayloadOK, BucketOK
  <2> QED
    BY <2>1, <2>2, RequestsFrame
<1> QED
  BY <1>1, <1>2

(* Flushing the image, and losing the session, leave the payload alone.    *)
LEMMA PayloadKept ==
    ASSUME TypeOK, ScopeInv, NEW q \in Requests, WriteImage(q) \/ LoseSession(q)
    PROVE  ScopeInv'
<1>1. PICK x : /\ req' = [req EXCEPT ![q] = x]
               /\ x.pc = req[q].pc /\ x.scope = req[q].scope
               /\ x.got = req[q].got /\ x.todo = req[q].todo
  BY WriteImageAs, LoseSessionAs
<1>2. PayloadOK(x)
  BY <1>1 DEF PayloadOK, ScopeInv
<1>3. \A p \in Requests : PayloadOK(req'[p])
  BY <1>1, <1>2, RequestsFrame
<1>4. \A s \in Scopes : BucketOK(s, inflight'[s]) /\ EntryOK(s, cache'[s])
  BY StoresFrame DEF WriteImage, LoseSession
<1> QED
  BY <1>3, <1>4, ScopeInvPrime

(* Results go from the hand to the row, the bucket and, once none is left  *)
(* to do, to the canonical entry.                                          *)
LEMMA UpsertKeeps ==
    ASSUME TypeOK, ScopeInv, NEW q \in Requests, Upsert(q)
    PROVE  ScopeInv'
<1>1. PICK r \in First(q), x \in ReqStates :
        /\ req' = [req EXCEPT ![q] = x]
        /\ x.scope = req[q].scope /\ x.got = req[q].got
        /\ req[q].kind = "stream" => x.pc = "publish" /\ x.todo = req[q].todo
        /\ req[q].kind # "stream" => x.pc = "upsert" /\ x.todo = req[q].todo \ {r}
  BY UpsertAs
<1>2. req[q].pc = "upsert" /\ PayloadOK(req[q]) /\ req[q].got[r] # NoResult
  BY DEF Upsert, At, ScopeInv, First, InHand
<1>3. PayloadOK(x)
  BY <1>1, <1>2 DEF PayloadOK
<1>4. \A p \in Requests : PayloadOK(req'[p])
  BY <1>1, <1>3, RequestsFrame
<1>5. \A s \in Scopes : BucketOK(s, inflight'[s]) /\ EntryOK(s, cache'[s])
  BY StoresFrame, UpsertAs
<1> QED
  BY <1>4, <1>5, ScopeInvPrime

(* _write_inflight, or its failure.                                         *)
LEMMA PublishKeeps ==
    ASSUME TypeOK, ScopeInv, NEW q \in Requests, Publish(q)
    PROVE  ScopeInv'
<1>0. /\ req[q].pc = "publish" /\ PayloadOK(req[q])
      /\ req[q] \in ReqStates /\ req[q].scope \in Scopes
  BY DEF Publish, At, ScopeInv, TypeOK, ReqStates
<1> PICK r \in InHand(q), x \in ReqStates :
      /\ \/ inflight' = [inflight EXCEPT ![req[q].scope][r] = req[q].got[r]]
         \/ inflight' = inflight
      /\ req' = [req EXCEPT ![q] = x]
      /\ x.pc = "run" /\ x.kind = req[q].kind
      /\ x.scope = req[q].scope /\ x.got = req[q].got
      /\ x.todo = req[q].todo \ {r} /\ x.partial = req[q].partial
      /\ x.owned = req[q].owned
  BY PublishAs, Zenon
<1>1. r \in Retailers /\ req[q].got[r] # NoResult
  BY <1>0 DEF InHand, ReqStates
<1>2. req[q].got[r].scope = req[q].scope
  BY <1>0, <1>1 DEF PayloadOK, BucketOK
<1>3. ASSUME NEW s \in Scopes PROVE BucketOK(s, inflight'[s])
  <2>1. \A o \in Retailers :
           inflight'[s][o] = inflight[s][o] \/ (s = req[q].scope /\ o = r
                                               /\ inflight'[s][o] = req[q].got[r])
    BY <1>0, <1>1 DEF TypeOK, Snapshots
  <2> QED
    BY <1>2, <2>1 DEF BucketOK, ScopeInv
<1>4. \A s \in Scopes : EntryOK(s, cache'[s])
  BY DEF Publish, ScopeInv, EntryOK, BucketOK
<1>5. \A p \in Requests : PayloadOK(req'[p])
  <2>1. PayloadOK(x)
    BY <1>0, <1>1 DEF PayloadOK
  <2> QED
    BY <2>1, RequestsFrame
<1> QED
  BY <1>3, <1>4, <1>5, ScopeInvPrime

(* Writing the payload in hand as the canonical entry of its scope.        *)
LEMMA CacheWriteOK ==
    ASSUME TypeOK, ScopeInv, NEW q \in Requests, EntryOK(req[q].scope, req[q].got),
           cache' = [cache EXCEPT ![req[q].scope] = req[q].got],
           UNCHANGED inflight
    PROVE  \A s \in Scopes : BucketOK(s, inflight'[s]) /\ EntryOK(s, cache'[s])
<1>1. \A s \in Scopes :
         cache'[s] = IF s = req[q].scope THEN req[q].got ELSE cache[s]
  BY DEF TypeOK
<1> QED
  BY <1>1 DEF ScopeInv, EntryOK, BucketOK

(* The canonical write at the end of a run, none being left to do.          *)
LEMMA FinishKeeps ==
    ASSUME TypeOK, ScopeInv, NEW q \in Requests, Finish(q)
    PROVE  ScopeInv'
<1>0. /\ req[q].pc \in {"run", "upsert"} /\ req[q].todo = {} /\ PayloadOK(req[q])
      /\ req[q] \in ReqStates /\ req[q].scope \in Scopes
  BY DEF Finish, At, ScopeInv, TypeOK, ReqStates
<1>1. EntryOK(req[q].scope, req[q].got)
  BY <1>0 DEF PayloadOK, EntryOK
<1>2. \A s \in Scopes : BucketOK(s, inflight'[s]) /\ EntryOK(s, cache'[s])
  BY <1>1, CacheWriteOK DEF Finish
<1>3. PICK pc \in {"clear", "commit"} : Goto(q, pc)
  BY DEF Finish
<1>4. PayloadOK([req[q] EXCEPT !.pc = pc])
  <2> DEFINE new == [req[q] EXCEPT !.pc = pc]
  <2>1. new.pc = pc /\ new.scope = req[q].scope /\ new.got = req[q].got
    BY <1>0 DEF ReqStates
  <2> QED
    BY <1>0, <2>1 DEF PayloadOK
<1> QED
  BY <1>2, <1>3, <1>4, GotoOK, ScopeInvPrime

(* The canonical write of rows read from the prices table.                  *)
LEMMA BackfillKeeps ==
    ASSUME TypeOK, ScopeInv, NEW q \in Requests, BackfillCache(q)
    PROVE  ScopeInv'
<1>0. /\ req[q].pc = "backfill" /\ PayloadOK(req[q])
      /\ req[q] \in ReqStates /\ req[q].scope \in Scopes
  BY DEF BackfillCache, At, ScopeInv, TypeOK, ReqStates
<1>1. EntryOK(req[q].scope, req[q].got)
  BY <1>0 DEF PayloadOK, EntryOK
<1>2. \A s \in Scopes : BucketOK(s, inflight'[s]) /\ EntryOK(s, cache'[s])
  BY <1>1, CacheWriteOK DEF BackfillCache
<1>3. Goto(q, "commit")
  BY DEF BackfillCache
<1>4. PayloadOK([req[q] EXCEPT !.pc = "commit"])
  <2> DEFINE new == [req[q] EXCEPT !.pc = "commit"]
  <2>1. new.pc = "commit" /\ new.scope = req[q].scope /\ new.got = req[q].got
    BY <1>0 DEF ReqStates
  <2> QED
    BY <1>0, <2>1 DEF PayloadOK
<1> QED
  BY <1>2, <1>3, <1>4, GotoOK, ScopeInvPrime

(* _clear_inflight, or its failure.                                         *)
LEMMA ClearKeeps ==
    ASSUME TypeOK, ScopeInv, NEW q \in Requests, ClearInflight(q)
    PROVE  ScopeInv'
<1>0. /\ req[q].pc = "clear" /\ PayloadOK(req[q])
      /\ req[q] \in ReqStates /\ req[q].scope \in Scopes
  BY DEF ClearInflight, At, ScopeInv, TypeOK, ReqStates
<1>1. \A s \in Scopes : inflight'[s] = inflight[s] \/ inflight'[s] = Blank
  BY <1>0 DEF ClearInflight, TypeOK
<1>2. \A s \in Scopes : BucketOK(s, inflight'[s]) /\ EntryOK(s, cache'[s])
  BY <1>1, BlankOK DEF ClearInflight, ScopeInv, EntryOK
<1>3. Goto(q, "commit")
  BY DEF ClearInflight
<1>4. PayloadOK([req[q] EXCEPT !.pc = "commit"])
  <2> DEFINE new == [req[q] EXCEPT !.pc = "commit"]
  <2>1. new.pc = "commit" /\ new.scope = req[q].scope /\ new.got = req[q].got
    BY <1>0 DEF ReqStates
  <2> QED
    BY <1>0, <2>1 DEF PayloadOK
<1> QED
  BY <1>2, <1>3, <1>4, GotoOK, ScopeInvPrime

(* However a request ends, it takes nothing into the stores.               *)
LEMMA EndingKeeps ==
    ASSUME TypeOK, ScopeInv, NEW q \in Requests,
           \/ Commit(q) \/ StreamError(q) \/ Discard(q) \/ Abort(q)
           \/ DeadlockVictim(q)
    PROVE  ScopeInv'
<1> \A s \in Scopes : BucketOK(s, inflight'[s]) /\ EntryOK(s, cache'[s])
  BY StoresFrame DEF Commit, StreamError, Discard, Abort, DeadlockVictim, Rollback
<1> SUFFICES \A p \in Requests : PayloadOK(req'[p])
  BY ScopeInvPrime
<1>1. CASE StreamError(q)
  <2>0. /\ req[q].pc \in {"run", "upsert", "publish"} /\ PayloadOK(req[q])
        /\ req[q] \in ReqStates
    BY <1>1 DEF StreamError, ScopeInv, TypeOK
  <2> DEFINE new == [req[q] EXCEPT !.pc = "commit"]
  <2>1. new.pc = "commit" /\ new.scope = req[q].scope /\ new.got = req[q].got
    BY <2>0 DEF ReqStates
  <2>2. PayloadOK(new)
    BY <2>0, <2>1 DEF PayloadOK
  <2> QED
    BY <1>1, <2>2, GotoOK DEF StreamError
<1>2. CASE Commit(q) \/ Discard(q) \/ Abort(q) \/ DeadlockVictim(q)
  BY <1>2, EndOK DEF Commit, Discard, Abort, DeadlockVictim, Rollback
<1> QED
  BY <1>1, <1>2

(* The TTLs and the freshness window only take away.                       *)
LEMMA EnvironmentKeeps ==
    ASSUME TypeOK, ScopeInv, Environment
    PROVE  ScopeInv'
<1>1. req' = req
  BY DEF Environment, ExpireCache, ExpireInflight, AgeRow
<1>2. \A s \in Scopes : /\ cache'[s] = cache[s] \/ cache'[s] = NoEntry
                        /\ inflight'[s] = inflight[s] \/ inflight'[s] = Blank
  <2>1. CASE \E s \in Scopes : ExpireCache(s)
    BY <2>1 DEF ExpireCache, TypeOK
  <2>2. CASE \E s \in Scopes : ExpireInflight(s)
    BY <2>2 DEF ExpireInflight, TypeOK
  <2>3. CASE \E row \in Rows : AgeRow(row)
    BY <2>3 DEF AgeRow
  <2> QED
    BY <2>1, <2>2, <2>3 DEF Environment
<1>3. \A s \in Scopes : BucketOK(s, inflight'[s]) /\ EntryOK(s, cache'[s])
  BY <1>2, BlankOK DEF ScopeInv, EntryOK
<1>4. \A p \in Requests : PayloadOK(req'[p])
  BY <1>1 DEF ScopeInv
<1> QED
  BY <1>3, <1>4, ScopeInvPrime

(* Every step keeps it, given the types.                                   *)
LEMMA ScopeInvStep == TypeOK /\ ScopeInv /\ [Next]_vars => ScopeInv'
<1> SUFFICES ASSUME TypeOK, ScopeInv, [Next]_vars PROVE ScopeInv'
  OBVIOUS
<1>1. CASE UNCHANGED vars
  BY <1>1 DEF vars, ScopeInv, BucketOK, EntryOK, PayloadOK, Blank
<1>2. ASSUME NEW q \in Requests, Step(q) \/ Fail(q) PROVE ScopeInv'
  BY <1>2, ReadingKeeps, FetchingKeeps, PayloadKept, UpsertKeeps, PublishKeeps, FinishKeeps,
     BackfillKeeps, ClearKeeps, EndingKeeps DEF Step, Fail
<1>3. CASE Environment
  BY <1>3, EnvironmentKeeps
<1> QED
  BY <1>1, <1>2, <1>3 DEF Next

(* The scope invariant holds of every behaviour, whatever the numbers of   *)
(* requests, retailers, queries and locations.                             *)
THEOREM ScopeInvariant == Spec => []ScopeInv
<1>1. ScopeInv /\ TypeOK /\ [Next]_vars => ScopeInv'
  BY ScopeInvStep
<1> QED
  BY <1>1, ScopeInit, TypeInvariant, PTL DEF Spec

(* A bare-name search is served nothing that another search fetched.       *)
THEOREM OverrideIsolated == Spec => []OverrideIsolation
<1>1. ScopeInv => OverrideIsolation
  BY DEF ScopeInv, BucketOK, EntryOK, PayloadOK, OverrideIsolation, InflightPure,
         OverrideEntriesPure, OverrideRepliesPure, Entries
<1> QED
  BY <1>1, ScopeInvariant, PTL

(* No partial payload becomes a canonical entry.                           *)
THEOREM CanonicalEntriesWhole == Spec => []PartialNeverCanonical
<1>1. ScopeInv => PartialNeverCanonical
  BY DEF ScopeInv, EntryOK, PartialNeverCanonical, Entries
<1> QED
  BY <1>1, ScopeInvariant, PTL

-----------------------------------------------------------------------------
(* What the order of the pipeline's steps guarantees: batches never        *)
(* deadlock over the prices table alone, as they lock its rows in the      *)
(* order of the ports, and a bucket is dropped only once the canonical     *)
(* entry stands in for it.                                                 *)

(* What LocksOK says of one request, its record and its writes given.      *)
LocksFine(x, writes) ==
    /\ x.pc \in {"publish", "clear"} => x.kind = "stream"
    /\ \/ x.pc \in {"idle", "redis", "inflight", "exists", "db", "backfill"}
       \/ x.pc = "run" /\ x.kind = "batch"
       => \A row \in Rows : writes[row] = NoRow
    /\ x.kind = "batch" =>
          /\ x.pc = "upsert" => \A o \in x.todo : x.got[o] # NoResult
          /\ \A r \in Retailers, c \in Conditions, o \in x.todo :
                writes[<<r, c>>] # NoRow => PortRank[r] < PortRank[o]

LEMMA LocksByRequest == LocksOK <=> \A q \in Requests : LocksFine(req[q], txn[q])
BY DEF LocksOK, LocksFine

(* A step of one request that leaves the others alone.                     *)
LEMMA LocksFrame ==
  ASSUME TypeOK, LocksOK, NEW q \in Requests, NEW x, NEW writes,
         req' = [req EXCEPT ![q] = x], txn' = [txn EXCEPT ![q] = writes],
         LocksFine(x, writes)
  PROVE  LocksOK'
<1>1. \A p \in Requests : LocksFine(req'[p], txn'[p])
  BY LocksByRequest DEF TypeOK
<1> QED
  BY <1>1 DEF LocksOK, LocksFine

(* One that writes no row.                                                 *)
LEMMA LocksFrameReq ==
  ASSUME TypeOK, LocksOK, NEW q \in Requests, NEW x,
         req' = [req EXCEPT ![q] = x], txn' = txn, LocksFine(x, txn[q])
  PROVE  LocksOK'
<1>1. txn' = [txn EXCEPT ![q] = txn[q]]
  BY DEF TypeOK
<1> QED
  BY <1>1, LocksFrame

LEMMA LocksInit == Init => LocksOK
BY DEF Init, LocksOK, Idle, NoWrites

(* Reading: no row is written before the dispatch, or after it on a hit.   *)
LEMMA LocksReading ==
  ASSUME TypeOK, LocksOK, NEW q \in Requests,
         \/ CheckRedis(q) \/ CheckInflight(q) \/ CheckExists(q) \/ CheckDb(q)
         \/ BackfillCache(q)
  PROVE  LocksOK'
<1>0. req[q] \in ReqStates /\ txn' = txn /\ LocksFine(req[q], txn[q])
  BY LocksByRequest
     DEF TypeOK, CheckRedis, CheckInflight, CheckExists, CheckDb, BackfillCache
<1>1. \A row \in Rows : txn[q][row] = NoRow
  BY <1>0
     DEF LocksFine, CheckRedis, CheckInflight, CheckExists, CheckDb, BackfillCache, At
<1>a. \A r \in Retailers, c \in Conditions : txn[q][<<r, c>>] = NoRow
  BY <1>1 DEF Rows
<1>2. ASSUME NEW pc \in {"inflight", "exists", "db", "commit"}, Goto(q, pc) PROVE LocksOK'
  <2> DEFINE x == [req[q] EXCEPT !.pc = pc]
  <2>1. req' = [req EXCEPT ![q] = x]
    BY <1>2 DEF Goto
  <2>2. LocksFine(x, txn[q])
    BY <1>0, <1>1, <1>a DEF LocksFine, ReqStates
  <2> QED
    BY <1>0, <2>1, <2>2, LocksFrameReq
<1>3. ASSUME Dispatch(q) PROVE LocksOK'
  <2> DEFINE x == [req[q] EXCEPT !.pc = "run", !.todo = Retailers]
  <2>1. req' = [req EXCEPT ![q] = x]
    BY <1>3 DEF Dispatch
  <2>2. LocksFine(x, txn[q])
    BY <1>0, <1>1, <1>a DEF LocksFine, ReqStates
  <2> QED
    BY <1>0, <2>1, <2>2, LocksFrameReq
<1>4. ASSUME NEW pc \in {"backfill", "commit"}, NEW got, NEW partial,
             Serve(q, pc, got, partial)
      PROVE  LocksOK'
  <2> DEFINE x == [req[q] EXCEPT !.pc = pc, !.got = got, !.partial = partial]
  <2>1. req' = [req EXCEPT ![q] = x]
    BY <1>4 DEF Serve
  <2>2. LocksFine(x, txn[q])
    BY <1>0, <1>1, <1>a DEF LocksFine, ReqStates
  <2> QED
    BY <1>0, <2>1, <2>2, LocksFrameReq
<1>5. CASE CheckRedis(q)
  <2>1. \/ Serve(q, "commit", cache[req[q].scope], FALSE)
        \/ Goto(q, "inflight") \/ DbOrDispatch(q)
    <3>1. req[q].kind \in Kinds
      BY <1>0 DEF ReqStates
    <3> QED
      BY <1>5, <3>1 DEF CheckRedis, Kinds
  <2> QED
    BY <1>2, <1>3, <1>4, <2>1 DEF DbOrDispatch
<1>6. CASE CheckInflight(q) \/ CheckExists(q)
  BY <1>2, <1>3, <1>4, <1>6 DEF CheckInflight, CheckExists, DbOrDispatch
<1>7. CASE CheckDb(q)
  BY <1>3, <1>4, <1>7 DEF CheckDb
<1>8. CASE BackfillCache(q)
  BY <1>2, <1>8 DEF BackfillCache
<1> QED
  BY <1>5, <1>6, <1>7, <1>8

(* Beginning, and collecting a batch: nothing is locked yet.               *)
LEMMA LocksFetching ==
  ASSUME TypeOK, LocksOK, NEW q \in Requests,
         Begin(q) \/ Collect(q) \/ \E r \in Retailers : Arrive(q, r)
  PROVE  LocksOK'
<1>0. req[q] \in ReqStates /\ txn' = txn /\ LocksFine(req[q], txn[q])
  BY LocksByRequest DEF TypeOK, Begin, Collect, Arrive
<1>1. CASE Begin(q)
  <2>0. PICK kind \in Kinds, s \in Scopes, force \in BOOLEAN :
          req' = [req EXCEPT ![q] = Begun(kind, s, force)]
    BY <1>1 DEF Begin
  <2>1. PICK x :
          x = Begun(kind, s, force) /\ req' = [req EXCEPT ![q] = x]
    BY <2>0
  <2>2. /\ \A row \in Rows : txn[q][row] = NoRow
        /\ \A r \in Retailers, c \in Conditions : txn[q][<<r, c>>] = NoRow
    BY <1>0, <1>1 DEF LocksFine, Begin, At, Rows
  <2>3. x.pc \in {"redis", "run"}
    BY <2>1, BegunType
  <2>4. LocksFine(x, txn[q])
    BY <2>2, <2>3 DEF LocksFine
  <2> QED
    BY <1>0, <2>1, <2>4, LocksFrameReq
<1>2. CASE Collect(q)
  <2>1. PICK x \in ReqStates :
          /\ req' = [req EXCEPT ![q] = x]
          /\ x.pc = "upsert"
          /\ \A r \in Retailers : x.got[r] # NoResult
    BY <1>2, CollectAs
  <2>2. \A r \in Retailers, c \in Conditions : txn[q][<<r, c>>] = NoRow
    BY <1>0, <1>2 DEF LocksFine, Collect, At, Rows
  <2>3. x.todo \subseteq Retailers
    BY DEF ReqStates
  <2>4. LocksFine(x, txn[q])
    BY <2>1, <2>2, <2>3 DEF LocksFine
  <2> QED
    BY <1>0, <2>1, <2>4, LocksFrameReq
<1>3. ASSUME NEW r \in Retailers, Arrive(q, r) PROVE LocksOK'
  <2>1. PICK x \in ReqStates :
          /\ req' = [req EXCEPT ![q] = x]
          /\ x.pc \in {"upsert", "publish"} /\ x.kind = "stream"
    BY <1>3, ArriveAs
  <2>2. LocksFine(x, txn[q])
    BY <2>1 DEF LocksFine
  <2> QED
    BY <1>0, <2>1, <2>2, LocksFrameReq
<1> QED
  BY <1>1, <1>2, <1>3

(* Flushing the image locks no row of the table, and a lost session frees  *)
(* them all.                                                               *)
LEMMA LocksKept ==
  ASSUME TypeOK, LocksOK, NEW q \in Requests, WriteImage(q) \/ LoseSession(q)
  PROVE  LocksOK'
<1>0. LocksFine(req[q], txn[q])
  BY LocksByRequest
<1>1. CASE WriteImage(q)
  <2>1. PICK x \in ReqStates :
          /\ req' = [req EXCEPT ![q] = x]
          /\ x.pc = req[q].pc /\ x.kind = req[q].kind
          /\ x.got = req[q].got /\ x.todo = req[q].todo
    BY <1>1, WriteImageAs
  <2>2. LocksFine(x, txn[q])
    BY <1>0, <2>1 DEF LocksFine
  <2> QED
    BY <1>1, <2>1, <2>2, LocksFrameReq, WriteImageAs
<1>2. CASE LoseSession(q)
  <2>1. PICK x \in ReqStates :
          /\ req' = [req EXCEPT ![q] = x]
          /\ x.pc = req[q].pc /\ x.kind = req[q].kind
          /\ x.got = req[q].got /\ x.todo = req[q].todo
    BY <1>2, LoseSessionAs
  <2>2. LocksFine(x, NoWrites)
    <3>1. \A row \in Rows : NoWrites[row] = NoRow
      BY DEF NoWrites
    <3>2. \A r \in Retailers, c \in Conditions : NoWrites[<<r, c>>] = NoRow
      BY <3>1 DEF Rows
    <3> QED
      BY <1>0, <2>1, <3>1, <3>2 DEF LocksFine
  <2> QED
    BY <1>2, <2>1, <2>2, LocksFrame, LoseSessionAs
<1> QED
  BY <1>1, <1>2

(* The lock a batch takes is of an earlier port than all that is left.     *)
LEMMA LocksUpsert ==
  ASSUME TypeOK, LocksOK, NEW q \in Requests, Upsert(q)
  PROVE  LocksOK'
<1>0. /\ req[q] \in ReqStates /\ txn[q] \in [Rows -> Scopes \cup {NoRow}]
      /\ LocksFine(req[q], txn[q]) /\ req[q].pc = "upsert"
  BY LocksByRequest DEF TypeOK, Upsert, At
<1>1. PICK r \in First(q), row \in Rows, x \in ReqStates :
        /\ row = RowOf(q, r)
        /\ txn' = [txn EXCEPT ![q] = [@ EXCEPT ![row] = req[q].scope]]
        /\ req' = [req EXCEPT ![q] = x]
        /\ x.kind = req[q].kind /\ x.got = req[q].got
        /\ req[q].kind = "stream" => x.pc = "publish" /\ x.todo = req[q].todo
        /\ req[q].kind # "stream" => x.pc = "upsert" /\ x.todo = req[q].todo \ {r}
  BY UpsertAs
<1>2. r \in Retailers /\ r \in req[q].todo
  BY <1>0 DEF First, InHand, ReqStates
<1>3. PICK writes : writes = [txn[q] EXCEPT ![row] = req[q].scope]
  OBVIOUS
<1>4. txn' = [txn EXCEPT ![q] = writes]
  BY <1>1, <1>3
<1>5. CASE req[q].kind = "stream"
  <2>1. LocksFine(x, writes)
    BY <1>1, <1>5 DEF LocksFine
  <2> QED
    BY <1>1, <1>4, <2>1, LocksFrame
<1>6. CASE req[q].kind # "stream"
  <2>1. req[q].kind = "batch"
    BY <1>0, <1>6 DEF ReqStates, Kinds
  <2>2. ASSUME NEW o \in req[q].todo \ {r} PROVE PortRank[r] < PortRank[o]
    <3>1. o \in InHand(q) /\ o \in Retailers
      BY <1>0, <2>1 DEF InHand, LocksFine, ReqStates
    <3>2. PortRank[r] <= PortRank[o]
      BY <3>1 DEF First
    <3> QED
      BY <1>2, <3>1, <3>2, PortRankAssumption
  <2>3. ASSUME NEW t \in Retailers, NEW c \in Conditions, NEW o \in x.todo,
               writes[<<t, c>>] # NoRow
        PROVE  PortRank[t] < PortRank[o]
    <3>1. CASE t = r
      BY <1>1, <1>6, <2>2, <3>1
    <3>2. CASE t # r
      <4>1. <<t, c>> \in Rows /\ <<t, c>> # row
        BY <1>1, <3>2 DEF RowOf, Rows
      <4>2. txn[q][<<t, c>>] # NoRow
        BY <1>0, <1>3, <2>3, <4>1
      <4> QED
        BY <1>0, <1>1, <1>6, <2>1, <4>2 DEF LocksFine
    <3> QED
      BY <3>1, <3>2
  <2>4. LocksFine(x, writes)
    BY <1>0, <1>1, <1>6, <2>1, <2>3 DEF LocksFine
  <2> QED
    BY <1>1, <1>4, <2>4, LocksFrame
<1> QED
  BY <1>5, <1>6

(* What only a stream does, and the steps that end a request.              *)
LEMMA LocksFinishing ==
  ASSUME TypeOK, LocksOK, NEW q \in Requests,
         Publish(q) \/ Finish(q) \/ ClearInflight(q) \/ StreamError(q)
  PROVE  LocksOK'
<1>0. req[q] \in ReqStates /\ txn' = txn /\ LocksFine(req[q], txn[q])
  BY LocksByRequest DEF TypeOK, Publish, Finish, ClearInflight, StreamError
<1>1. CASE Publish(q)
  <2>1. PICK x \in ReqStates :
          req' = [req EXCEPT ![q] = x] /\ x.pc = "run" /\ x.kind = req[q].kind
    BY <1>1, PublishAs
  <2>2. req[q].kind = "stream"
    BY <1>0, <1>1 DEF Publish, At, LocksFine
  <2>3. LocksFine(x, txn[q])
    BY <2>1, <2>2 DEF LocksFine
  <2> QED
    BY <1>0, <2>1, <2>3, LocksFrameReq
<1>2. ASSUME NEW pc \in {"clear", "commit"}, Goto(q, pc),
             pc = "clear" => req[q].kind = "stream"
      PROVE  LocksOK'
  <2> DEFINE x == [req[q] EXCEPT !.pc = pc]
  <2>1. req' = [req EXCEPT ![q] = x]
    BY <1>2 DEF Goto
  <2>2. LocksFine(x, txn[q])
    BY <1>0, <1>2 DEF LocksFine, ReqStates
  <2> QED
    BY <1>0, <2>1, <2>2, LocksFrameReq
<1>3. CASE Finish(q)
  BY <1>2, <1>3 DEF Finish
<1>4. CASE ClearInflight(q) \/ StreamError(q)
  BY <1>2, <1>4 DEF ClearInflight, StreamError
<1> QED
  BY <1>1, <1>3, <1>4

LEMMA LocksEnding ==
  ASSUME TypeOK, LocksOK, NEW q \in Requests, End(q)
  PROVE  LocksOK'
<1>1. LocksFine(Idle, NoWrites)
  BY DEF LocksFine, Idle, NoWrites
<1> QED
  BY <1>1, LocksFrame DEF End

LEMMA LocksStep == TypeOK /\ LocksOK /\ [Next]_vars => LocksOK'
<1> SUFFICES ASSUME TypeOK, LocksOK, [Next]_vars PROVE LocksOK'
  OBVIOUS
<1>1. ASSUME NEW q \in Requests,
             \/ CheckRedis(q) \/ CheckInflight(q) \/ CheckExists(q)
             \/ CheckDb(q) \/ BackfillCache(q)
      PROVE  LocksOK'
  BY <1>1, LocksReading
<1>2. ASSUME NEW q \in Requests,
             Begin(q) \/ Collect(q) \/ \E r \in Retailers : Arrive(q, r)
      PROVE  LocksOK'
  BY <1>2, LocksFetching
<1>3. ASSUME NEW q \in Requests, Upsert(q) PROVE LocksOK'
  BY <1>3, LocksUpsert
<1>4. ASSUME NEW q \in Requests,
             Publish(q) \/ Finish(q) \/ ClearInflight(q) \/ StreamError(q)
      PROVE  LocksOK'
  BY <1>4, LocksFinishing
<1>5. ASSUME NEW q \in Requests,
             Commit(q) \/ Discard(q) \/ Abort(q) \/ DeadlockVictim(q)
      PROVE  LocksOK'
  BY <1>5, LocksEnding DEF Commit, Discard, Abort, DeadlockVictim, Rollback
<1>6. ASSUME UNCHANGED <<req, txn>> PROVE LocksOK'
  BY <1>6 DEF LocksOK
<1>7. UNCHANGED <<req, txn>> \/ Next
  BY DEF vars
<1>8. ASSUME (\E s \in Scopes : ExpireCache(s) \/ ExpireInflight(s))
             \/ \E row \in Rows : AgeRow(row)
      PROVE  LocksOK'
  BY <1>6, <1>8 DEF ExpireCache, ExpireInflight, AgeRow
<1>9. ASSUME NEW q \in Requests, WriteImage(q) \/ LoseSession(q) PROVE LocksOK'
  BY <1>9, LocksKept
<1> QED
  BY <1>1, <1>2, <1>3, <1>4, <1>5, <1>6, <1>7, <1>8, <1>9, StepCases

(* Around a circle of batches that wait for rows of the prices table the   *)
(* ranks of what is waited for would decrease for ever.                    *)
LEMMA NoBatchCircle ==
  ASSUME TypeOK, LocksOK, NEW S \in SUBSET Requests, DeadlockSet(S),
         \A q \in S : req[q].kind = "batch",
         \A q, p \in S : ~WaitsForProduct(q, p)
  PROVE  FALSE
<1> DEFINE Less == {ss \in Nat \X Nat : ss[1] < ss[2]}
           Ranks == {n \in Nat : \E q \in S : \E r \in First(q) : n = PortRank[r]}
<1>1. \A q \in S : \E p \in S : p # q /\ At(p, "upsert")
                              /\ \E r \in First(p) : txn[q][RowOf(p, r)] # NoRow
  BY DEF DeadlockSet, WaitsFor, WaitsForRow
<1>2. \A q \in S : \A r \in First(q) : r \in Retailers /\ r \in req[q].todo
                                     /\ PortRank[r] \in Nat
  BY PortRankAssumption DEF First, InHand, TypeOK, ReqStates
<1>3. Ranks # {}
  <2>1. PICK q \in S : TRUE
    BY DEF DeadlockSet
  <2>2. PICK p \in S : \E t \in First(p) : txn[q][RowOf(p, t)] # NoRow
    BY <1>1
  <2>3. PICK t \in First(p) : TRUE
    BY <2>2
  <2>4. PortRank[t] \in Ranks
    BY <1>2
  <2> QED
    BY <2>4
<1>4. IsWellFoundedOn(Less, Nat)
  BY NatLessThanWellFounded DEF OpToRel
<1>5. PICK n \in Ranks : \A k \in Ranks : ~ (<<k, n>> \in Less)
  <2>1. Ranks \subseteq Nat
    OBVIOUS
  <2> HIDE DEF Less, Ranks
  <2> QED
    BY <1>3, <1>4, <2>1, WFMin
<1>6. PICK q \in S : \E r \in First(q) : n = PortRank[r]
  OBVIOUS
<1>7. PICK r \in First(q) : n = PortRank[r]
  BY <1>6
<1>8. PICK p \in S : \E t \in First(p) : txn[q][RowOf(p, t)] # NoRow
  BY <1>1
<1>9. PICK t \in First(p) : txn[q][RowOf(p, t)] # NoRow
  BY <1>8
<1>10. PortRank[t] < PortRank[r]
  <2>1. PICK c \in Conditions : RowOf(p, t) = <<t, c>>
    BY <1>2 DEF RowOf, TypeOK, ReqStates
  <2> QED
    BY <1>2, <1>9, <2>1 DEF LocksOK
<1>11. PortRank[t] \in Ranks /\ <<PortRank[t], n>> \in Less
  BY <1>2, <1>7, <1>10
<1> QED
  BY <1>5, <1>11

LEMMA LocksInvariant == Spec => []LocksOK
<1>1. TypeOK /\ LocksOK /\ [Next]_vars => LocksOK'
  BY LocksStep
<1> QED
  BY LocksInit, <1>1, TypeInvariant, PTL DEF Spec

(* However many batches wait for one another in a circle, one of them      *)
(* waits to write the image of the product that another has written: the   *)
(* order of their upserts keeps the prices table out of it.                *)
THEOREM BatchesDeadlockOnlyOverTheImage == Spec => []BatchesDeadlockOverImage
<1>1. TypeOK /\ LocksOK => BatchesDeadlockOverImage
  BY NoBatchCircle DEF BatchesDeadlockOverImage
<1> QED
  BY <1>1, TypeInvariant, LocksInvariant, PTL

-----------------------------------------------------------------------------
(* A stream about to clear its bucket has written its entry, and the entry *)
(* is still there.                                                         *)
ClearOK == \A q \in Requests : At(q, "clear") => cache[req[q].scope] # NoEntry

LEMMA ClearStep == TypeOK /\ ClearOK /\ [Next]_vars => ClearOK'
<1> SUFFICES ASSUME TypeOK, ClearOK, [Next]_vars PROVE ClearOK'
  OBVIOUS
<1>0. /\ req \in [Requests -> ReqStates] /\ NoEntry \notin Snapshots
      /\ cache \in [Scopes -> Snapshots \cup {NoEntry}]
  BY MarkersAssumption DEF TypeOK, Snapshots
<1>1. ASSUME NEW q \in Requests, NEW x, req' = [req EXCEPT ![q] = x],
             x.pc # "clear", cache' = cache
      PROVE  ClearOK'
  BY <1>0, <1>1 DEF ClearOK, At
<1>2. ASSUME NEW q \in Requests,
             NEW pc \in Pcs \ {"clear"}, Goto(q, pc), cache' = cache
      PROVE  ClearOK'
  <2> DEFINE x == [req[q] EXCEPT !.pc = pc]
  <2>1. req' = [req EXCEPT ![q] = x]
    BY <1>2 DEF Goto
  <2>2. x.pc # "clear"
    BY <1>0 DEF ReqStates
  <2> QED
    BY <1>1, <1>2, <2>1, <2>2
<1>3. ASSUME NEW q \in Requests, Dispatch(q), cache' = cache PROVE ClearOK'
  <2> DEFINE x == [req[q] EXCEPT !.pc = "run", !.todo = Retailers]
  <2>1. req' = [req EXCEPT ![q] = x]
    BY <1>3 DEF Dispatch
  <2>2. x.pc # "clear"
    BY <1>0 DEF ReqStates
  <2> QED
    BY <1>1, <1>3, <2>1, <2>2
<1>4. ASSUME NEW q \in Requests, NEW pc \in {"backfill", "commit"}, NEW got, NEW partial,
             Serve(q, pc, got, partial), cache' = cache
      PROVE  ClearOK'
  <2> DEFINE x == [req[q] EXCEPT !.pc = pc, !.got = got, !.partial = partial]
  <2>1. req' = [req EXCEPT ![q] = x]
    BY <1>4 DEF Serve
  <2>2. x.pc # "clear"
    BY <1>0 DEF ReqStates
  <2> QED
    BY <1>1, <1>4, <2>1, <2>2
<1>5. ASSUME NEW q \in Requests,
             CheckRedis(q) \/ CheckInflight(q) \/ CheckExists(q) \/ CheckDb(q)
      PROVE  ClearOK'
  <2>1. cache' = cache
    BY <1>5 DEF CheckRedis, CheckInflight, CheckExists, CheckDb
  <2>2. \/ \E pc \in {"inflight", "exists", "db"} : Goto(q, pc)
        \/ Dispatch(q)
        \/ \E pc \in {"backfill", "commit"} : \E got, partial : Serve(q, pc, got, partial)
    <3>1. req[q].kind \in {"batch", "stream"}
      BY <1>0 DEF ReqStates, Kinds
    <3>2. CASE CheckRedis(q)
      <4>1. \/ Serve(q, "commit", cache[req[q].scope], FALSE)
            \/ Goto(q, "inflight") \/ DbOrDispatch(q)
        BY <3>1, <3>2 DEF CheckRedis
      <4> QED
        BY <4>1 DEF DbOrDispatch
    <3>3. CASE CheckInflight(q) \/ CheckExists(q)
      BY <3>3 DEF CheckInflight, CheckExists, DbOrDispatch
    <3>4. CASE CheckDb(q)
      BY <3>4 DEF CheckDb
    <3> QED
      BY <1>5, <3>2, <3>3, <3>4
  <2> QED
    BY <1>2, <1>3, <1>4, <2>1, <2>2 DEF Pcs
<1>6. ASSUME NEW q \in Requests, BackfillCache(q) \/ Finish(q) PROVE ClearOK'
  <2>1. cache' = [cache EXCEPT ![req[q].scope] = req[q].got]
    BY <1>6 DEF BackfillCache, Finish
  <2>2. \A s \in Scopes : cache[s] # NoEntry => cache'[s] # NoEntry
    BY <1>0, <2>1 DEF ReqStates
  <2>3. req[q].scope \in Scopes /\ cache'[req[q].scope] # NoEntry
    BY <1>0, <2>1 DEF ReqStates
  <2>4. \A p \in Requests : /\ req'[p].scope = req[p].scope /\ req[p].scope \in Scopes
                            /\ p # q => req'[p].pc = req[p].pc
    <3>1. \E pc \in Pcs : req' = [req EXCEPT ![q].pc = pc]
      BY <1>6 DEF BackfillCache, Finish, Goto, Pcs
    <3> QED
      BY <1>0, <3>1 DEF ReqStates
  <2> QED
    BY <2>2, <2>3, <2>4 DEF ClearOK, At
<1>7. ASSUME NEW q \in Requests, Begin(q) PROVE ClearOK'
  <2>0. PICK kind \in Kinds, s \in Scopes, force \in BOOLEAN :
          req' = [req EXCEPT ![q] = Begun(kind, s, force)]
    BY <1>7 DEF Begin
  <2>1. PICK x :
          x = Begun(kind, s, force) /\ req' = [req EXCEPT ![q] = x]
    BY <2>0
  <2>2. x.pc # "clear" /\ cache' = cache
    BY <1>7, <2>1, BegunType DEF Begin
  <2> QED
    BY <1>1, <2>1, <2>2
<1>8. ASSUME NEW q \in Requests, Collect(q) \/ (\E r \in Retailers : Arrive(q, r))
                                \/ Upsert(q) \/ Publish(q)
      PROVE  ClearOK'
  <2>1. cache' = cache
    BY <1>8 DEF Collect, Arrive, Upsert, Persist, Publish
  <2>2. PICK x : req' = [req EXCEPT ![q] = x] /\ x.pc \in {"upsert", "publish", "run"}
    <3>1. CASE Collect(q)
      BY <3>1, CollectAs
    <3>2. CASE \E r \in Retailers : Arrive(q, r)
      BY <3>2, ArriveAs
    <3>3. CASE Upsert(q)
      BY <3>3, UpsertAs
    <3>4. CASE Publish(q)
      BY <3>4, PublishAs
    <3> QED
      BY <1>8, <3>1, <3>2, <3>3, <3>4
  <2> QED
    BY <1>1, <2>1, <2>2
<1>9. ASSUME NEW q \in Requests, ClearInflight(q) \/ StreamError(q) PROVE ClearOK'
  BY <1>2, <1>9 DEF ClearInflight, StreamError, Pcs
<1>10. ASSUME NEW q \in Requests,
              Commit(q) \/ Discard(q) \/ Abort(q) \/ DeadlockVictim(q)
       PROVE  ClearOK'
  <2>1. req' = [req EXCEPT ![q] = Idle] /\ cache' = cache
    BY <1>10 DEF Commit, Discard, Abort, DeadlockVictim, Rollback, End
  <2>2. Idle.pc # "clear"
    BY DEF Idle
  <2> QED
    BY <1>1, <2>1, <2>2
<1>11. ASSUME NEW s \in Scopes, ExpireCache(s) PROVE ClearOK'
  BY <1>0, <1>11 DEF ExpireCache, ClearOK, At, ReqStates
<1>12. ASSUME UNCHANGED <<req, cache>> PROVE ClearOK'
  BY <1>12 DEF ClearOK, At
<1>13. ASSUME (\E s \in Scopes : ExpireInflight(s)) \/ (\E row \in Rows : AgeRow(row))
              \/ UNCHANGED vars
       PROVE  ClearOK'
  BY <1>12, <1>13 DEF ExpireInflight, AgeRow, vars
<1>14. ASSUME NEW q \in Requests, WriteImage(q) \/ LoseSession(q) PROVE ClearOK'
  <2>1. PICK x : /\ req' = [req EXCEPT ![q] = x]
                 /\ x.pc = req[q].pc /\ x.scope = req[q].scope
    BY <1>14, WriteImageAs, LoseSessionAs
  <2>2. cache' = cache
    BY <1>14 DEF WriteImage, LoseSession
  <2> QED
    BY <1>0, <2>1, <2>2 DEF ClearOK, At
<1> QED
  BY <1>5, <1>6, <1>7, <1>8, <1>9, <1>10, <1>11, <1>13, <1>14, StepCases

(* A bucket becomes blank only by its TTL or by a stream's clear.          *)
LEMMA GapStep ==
  ASSUME TypeOK, ScopeInv, ClearOK, [Next]_vars, NEW s \in Scopes,
         inflight[s] # Blank, inflight'[s] = Blank
  PROVE  ExpireInflight(s) \/ cache'[s] # NoEntry
<1>0. /\ req \in [Requests -> ReqStates] /\ inflight \in [Scopes -> Snapshots]
  BY DEF TypeOK
<1>1. ASSUME NEW q \in Requests, Publish(q) PROVE FALSE
  <2>1. PICK r \in InHand(q) :
          \/ inflight' = [inflight EXCEPT ![req[q].scope][r] = req[q].got[r]]
          \/ inflight' = inflight
    BY <1>1 DEF Publish
  <2>2. r \in Retailers /\ req[q].got[r] # NoResult
    BY <1>0 DEF InHand, ReqStates
  <2>3. inflight'[s] # inflight[s]
    OBVIOUS
  <2>4. inflight'[s][r] = req[q].got[r]
    BY <1>0, <2>1, <2>2, <2>3 DEF Snapshots
  <2> QED
    BY <2>2, <2>4 DEF Blank
<1>2. ASSUME NEW q \in Requests, ClearInflight(q) PROVE cache'[s] # NoEntry
  <2>1. s = req[q].scope
    BY <1>0, <1>2 DEF ClearInflight
  <2> QED
    BY <1>2, <2>1 DEF ClearInflight, ClearOK
<1>3. ASSUME NEW t \in Scopes, ExpireInflight(t) PROVE ExpireInflight(s)
  <2>1. s = t
    BY <1>0, <1>3 DEF ExpireInflight
  <2> QED
    BY <1>3, <2>1
<1>4. inflight' # inflight
  OBVIOUS
<1>5. \/ \E q \in Requests : Publish(q) \/ ClearInflight(q)
      \/ \E t \in Scopes : ExpireInflight(t)
  BY <1>4, StepCases
     DEF vars, Begin, CheckRedis, CheckInflight, CheckExists, CheckDb, BackfillCache,
         Collect, Arrive, WriteImage, Upsert, Persist, Finish, Commit, Discard,
         StreamError, LoseSession, Abort, DeadlockVictim, Rollback, ExpireCache, AgeRow
<1> QED
  BY <1>1, <1>2, <1>3, <1>5

(* A reader of a scope never finds both its bucket and its entry gone, but *)
(* for the TTL of the bucket.                                              *)
THEOREM BucketOutlivesTheGap == Spec => NoVisibilityGap
<1>1. Init => ClearOK
  BY DEF Init, ClearOK, At, Idle
<1>2. TypeOK /\ ClearOK /\ [Next]_vars => ClearOK'
  BY ClearStep
<1>3. Spec => []ClearOK
  BY <1>1, <1>2, TypeInvariant, PTL DEF Spec
<1>4. TypeOK /\ ScopeInv /\ ClearOK /\ [Next]_vars
        => [\A s \in Scopes : inflight[s] # Blank /\ inflight'[s] = Blank
               => ExpireInflight(s) \/ cache'[s] # NoEntry]_vars
  BY GapStep
<1> QED
  BY <1>3, <1>4, TypeInvariant, ScopeInvariant, PTL DEF Spec, NoVisibilityGap
=============================================================================
