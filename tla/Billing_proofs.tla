----------------------------- MODULE Billing_proofs -----------------------------
(* Proofs about Billing: its types, and the three properties its run checks. *)
EXTENDS Billing, TLAPS

HandlerStates == [pc : HandlerPcs, ev : EventIds \cup {0}]
ReaderStates == [pc : {"idle", "select", "write"}, tier : Tiers]

(* _resolve_state answers a row, whatever the event.                       *)
LEMMA ResolvedRow ==
    ASSUME NEW e \in Events
    PROVE  ResolveState(e) \in UserRows
  <1>1. e.expires \in Times \cup {Never}
    BY BillingAssumption DEF Events, Times
  <1> QED
    BY <1>1 DEF ResolveState, UserRows, Tiers

LEMMA EffectiveTier ==
    ASSUME NEW r, NEW t
    PROVE  Effective(r, t) \in Tiers
  BY DEF Effective, Tiers

(* The initial state.                                                      *)
LEMMA InitInv == Init => BillingInv
  <1> SUFFICES ASSUME Init PROVE BillingInv
    OBVIOUS
  <1> USE DEF Init
  <1>1. TypeOK
    <2>1. 0 \in Times /\ \A t \in Times : t = 0 => {"free"} \in SUBSET Tiers
      BY BillingAssumption DEF Times, Tiers
    <2>2. handler \in [Handlers -> HandlerStates]
      BY DEF IdleHandler, HandlerStates, HandlerPcs
    <2>3. reader \in [Readers -> ReaderStates]
      BY DEF IdleReader, ReaderStates, Tiers
    <2>4. seen \in [Times -> SUBSET Tiers]
      BY DEF Tiers
    <2> QED
      BY <2>1, <2>2, <2>3, <2>4, BillingAssumption DEF TypeOK, HandlerStates, ReaderStates
  <1>2. HandlersOK /\ ClaimsOK /\ OrderOK
    BY DEF HandlersOK, ClaimsOK, OrderOK, OneDelivery, InTurn, AckedAtCommit, AckedIsApplied,
           ClaimIsUsed, NoneLaterApplied, RowOfTheLast, Active, PastClaim, Locks, IdleHandler
  <1>3. SeenOK /\ TierFresh
    BY BillingAssumption DEF SeenOK, TierFresh, Effective, IdleReader, Times
  <1> QED
    BY <1>1, <1>2, <1>3 DEF BillingInv

-----------------------------------------------------------------------------
(* The types.                                                              *)

LEMMA TypeStep == TypeOK /\ HandlersOK /\ Next => TypeOK'
  <1> SUFFICES ASSUME TypeOK, HandlersOK, Next PROVE TypeOK'
    OBVIOUS
  <1> USE BillingAssumption DEF TypeOK
  <1>1. CASE Emit
    <2>1. PICK e \in Events : emitted' = Append(emitted, e)
      BY <1>1 DEF Emit
    <2>2. /\ emitted' \in Seq(Events) /\ Len(emitted') = Len(emitted) + 1
          /\ Len(emitted') <= MaxEvents
      BY <1>1, <2>1 DEF Emit
    <2> QED
      BY <1>1, <2>2 DEF Emit
  <1>2. CASE Tick
    <2>1. now' \in Times
      BY <1>2 DEF Tick, Times
    <2>2. seen' \in [Times -> SUBSET Tiers]
      BY <1>2, <2>1, EffectiveTier DEF Tick
    <2> QED
      BY <1>2, <2>1, <2>2 DEF Tick
  <1>3. ASSUME NEW h \in Handlers, NEW i \in EventIds, Deliver(h, i) PROVE TypeOK'
    BY <1>3 DEF Deliver, HandlerPcs
  <1>4. ASSUME NEW h \in Handlers, Claim(h) PROVE TypeOK'
    <2>1. handler[h].ev \in 1..Len(emitted)
      BY <1>4 DEF Claim, HandlersOK, Active
    <2>2. handler' \in [Handlers -> HandlerStates]
      BY <1>4 DEF Claim, Goto, IdleHandler, HandlerStates, HandlerPcs
    <2> QED
      BY <1>4, <2>1, <2>2 DEF Claim, Answered, HandlerStates
  <1>5. ASSUME NEW h \in Handlers, Upsert(h) PROVE TypeOK'
    BY <1>5 DEF Upsert, Goto, HandlerPcs
  <1>6. ASSUME NEW h \in Handlers, Bust(h) PROVE TypeOK'
    BY <1>6 DEF Bust, Goto, HandlerPcs
  <1>7. ASSUME NEW h \in Handlers, Commit(h) PROVE TypeOK'
    <2>1. handler[h].ev \in 1..Len(emitted)
      BY <1>7 DEF Commit, HandlersOK, Active
    <2>2. row' \in UserRows
      BY <1>7, <2>1, ResolvedRow DEF Commit, Committed
    <2>3. seen' \in [Times -> SUBSET Tiers]
      BY <1>7, EffectiveTier DEF Commit, Committed
    <2>4. handler' \in [Handlers -> HandlerStates]
      BY <1>7 DEF Commit, Committed, IdleHandler, HandlerStates, HandlerPcs
    <2> QED
      BY <1>7, <2>1, <2>2, <2>3, <2>4 DEF Commit, Committed, HandlerStates
  <1>8. ASSUME NEW h \in Handlers, Respond(h) PROVE TypeOK'
    <2>1. handler[h].ev \in 1..Len(emitted)
      BY <1>8 DEF Respond, HandlersOK, Active
    <2> QED
      BY <1>8, <2>1 DEF Respond, Answered, Goto, HandlerPcs
  <1>9. ASSUME NEW h \in Handlers, Fail(h) PROVE TypeOK'
    BY <1>9 DEF Fail, IdleHandler, HandlerPcs
  <1>10. ASSUME NEW r \in Readers, Miss(r) PROVE TypeOK'
    BY <1>10 DEF Miss
  <1>11. ASSUME NEW r \in Readers, Select(r) PROVE TypeOK'
    <2>1. Effective(row, now) \in Tiers
      BY EffectiveTier
    <2>2. reader' \in [Readers -> ReaderStates]
      BY <1>11, <2>1 DEF Select, ReaderStates
    <2> QED
      BY <1>11, <2>2 DEF Select, ReaderStates
  <1>12. ASSUME NEW r \in Readers, Store(r) PROVE TypeOK'
    <2>1. tierCache' \in [tier : Tiers, until : Nat] \cup {NoTier}
      BY <1>12 DEF Store, Times
    <2>2. reader' \in [Readers -> ReaderStates]
      BY <1>12 DEF Store, IdleReader, ReaderStates, Tiers
    <2> QED
      BY <1>12, <2>1, <2>2 DEF Store, ReaderStates
  <1> QED
    BY <1>1, <1>2, <1>3, <1>4, <1>5, <1>6, <1>7, <1>8, <1>9, <1>10, <1>11, <1>12 DEF Next

-----------------------------------------------------------------------------
(* What a step does to the webhooks: it takes one of them along, and does  *)
(* not touch the others.                                                   *)

Moves(h, pc, ev) ==
    /\ handler'[h].pc = pc /\ handler'[h].ev = ev
    /\ \A g \in Handlers : g # h => handler'[g] = handler[g]

LEMMA WebhookSteps ==
    ASSUME TypeOK, NEW h \in Handlers
    PROVE  /\ \A i \in EventIds : Deliver(h, i) => Moves(h, "claim", i)
           /\ Claim(h) => \/ Moves(h, "upsert", handler[h].ev)
                          \/ Moves(h, "idle", 0) /\ handler[h].ev \in claimed
           /\ Upsert(h) => Moves(h, "bust", handler[h].ev)
           /\ Bust(h) => Moves(h, "respond", handler[h].ev)
           /\ Respond(h) => Moves(h, "commit", handler[h].ev)
           /\ Commit(h) => Moves(h, "idle", 0)
           /\ Fail(h) => Moves(h, "idle", 0)
  <1> USE DEF TypeOK, Moves
  <1>1. \A i \in EventIds : Deliver(h, i) => Moves(h, "claim", i)
    BY DEF Deliver
  <1>2. Claim(h) => \/ Moves(h, "upsert", handler[h].ev)
                    \/ Moves(h, "idle", 0) /\ handler[h].ev \in claimed
    BY DEF Claim, Goto, IdleHandler
  <1>3. Upsert(h) => Moves(h, "bust", handler[h].ev)
    BY DEF Upsert, Goto
  <1>4. Bust(h) => Moves(h, "respond", handler[h].ev)
    BY DEF Bust, Goto
  <1>5. Respond(h) => Moves(h, "commit", handler[h].ev)
    BY DEF Respond, Goto
  <1>6. Commit(h) => Moves(h, "idle", 0)
    BY DEF Commit, Committed, IdleHandler
  <1>7. Fail(h) => Moves(h, "idle", 0)
    BY DEF Fail, IdleHandler
  <1> QED
    BY <1>1, <1>2, <1>3, <1>4, <1>5, <1>6, <1>7

(* Webhooks carry events that happened, and one of them holds the row.     *)
LEMMA HandlersStep == TypeOK /\ HandlersOK /\ Next => HandlersOK'
  <1> SUFFICES ASSUME TypeOK, HandlersOK, Next PROVE HandlersOK'
    OBVIOUS
  <1> USE DEF HandlersOK, Active, Locks
  <1>1. CASE Emit
    <2>1. handler' = handler /\ 1..Len(emitted) \subseteq 1..Len(emitted')
      BY <1>1 DEF Emit, TypeOK
    <2> QED
      BY <2>1
  <1>2. CASE Tick
    BY <1>2 DEF Tick
  <1>3. ASSUME NEW h \in Handlers, NEW i \in EventIds, Deliver(h, i) PROVE HandlersOK'
    <2>1. Moves(h, "claim", i) /\ i \in 1..Len(emitted) /\ emitted' = emitted
      BY <1>3, WebhookSteps DEF Deliver
    <2> QED
      BY <2>1 DEF Moves, EventIds, TypeOK
  <1>4. ASSUME NEW h \in Handlers, Claim(h) PROVE HandlersOK'
    BY <1>4, WebhookSteps DEF Moves, Claim
  <1>5. ASSUME NEW h \in Handlers, Upsert(h) PROVE HandlersOK'
    BY <1>5, WebhookSteps DEF Moves, Upsert
  <1>6. ASSUME NEW h \in Handlers, Bust(h) PROVE HandlersOK'
    BY <1>6, WebhookSteps DEF Moves, Bust
  <1>7. ASSUME NEW h \in Handlers, Commit(h) PROVE HandlersOK'
    BY <1>7, WebhookSteps DEF Moves, Commit, Committed
  <1>8. ASSUME NEW h \in Handlers, Respond(h) PROVE HandlersOK'
    BY <1>8, WebhookSteps DEF Moves, Respond
  <1>9. ASSUME NEW h \in Handlers, Fail(h) PROVE HandlersOK'
    <2>1. Moves(h, "idle", 0) /\ emitted' = emitted
      BY <1>9, WebhookSteps DEF Fail
    <2> QED
      BY <2>1 DEF Moves
  <1>10. ASSUME NEW r \in Readers, Miss(r) \/ Select(r) \/ Store(r) PROVE HandlersOK'
    BY <1>10 DEF Miss, Select, Store
  <1> QED
    BY <1>1, <1>2, <1>3, <1>4, <1>5, <1>6, <1>7, <1>8, <1>9, <1>10 DEF Next

-----------------------------------------------------------------------------
(* The tier cache.                                                         *)

(* What a step leaves of the tiers seen: the row may change at a commit    *)
(* only, which adds the new tier, and a tick starts a new entry.           *)
LEMMA SeenStep == TypeOK /\ TypeOK' /\ SeenOK /\ Next => SeenOK'
  <1> SUFFICES ASSUME TypeOK, TypeOK', SeenOK, Next PROVE SeenOK'
    OBVIOUS
  <1> USE DEF SeenOK
  <1>1. CASE Emit
    BY <1>1 DEF Emit
  <1>2. CASE Tick
    <2>1. seen'[now'] = {Effective(row, now')}
      BY <1>2 DEF Tick, TypeOK
    <2> QED
      BY <1>2, <2>1 DEF Tick
  <1>3. ASSUME NEW h \in Handlers, NEW i \in EventIds, Deliver(h, i) PROVE SeenOK'
    BY <1>3 DEF Deliver
  <1>4. ASSUME NEW h \in Handlers, Claim(h) \/ Upsert(h) \/ Bust(h) \/ Respond(h) \/ Fail(h)
        PROVE SeenOK'
    BY <1>4 DEF Claim, Upsert, Bust, Respond, Fail
  <1>5. ASSUME NEW h \in Handlers, Commit(h) PROVE SeenOK'
    <2>1. seen'[now] = seen[now] \cup {Effective(row', now)}
      BY <1>5 DEF Commit, Committed, TypeOK
    <2> QED
      BY <1>5, <2>1 DEF Commit, Committed
  <1>6. ASSUME NEW r \in Readers, Miss(r) PROVE SeenOK'
    BY <1>6 DEF Miss, TypeOK
  <1>7. ASSUME NEW r \in Readers, Select(r) PROVE SeenOK'
    <2>1. \A q \in Readers : reader'[q].pc = "write" => reader'[q].tier \in seen[now]
      <3> TAKE q \in Readers
      <3>1. CASE q = r
        BY <1>7, <3>1 DEF Select, TypeOK
      <3>2. CASE q # r
        BY <1>7, <3>2 DEF Select, TypeOK
      <3> QED
        BY <3>1, <3>2
    <2> QED
      BY <1>7, <2>1 DEF Select
  <1>8. ASSUME NEW r \in Readers, Store(r) PROVE SeenOK'
    BY <1>8 DEF Store, TypeOK, IdleReader
  <1> QED
    BY <1>1, <1>2, <1>3, <1>4, <1>5, <1>6, <1>7, <1>8 DEF Next

LEMMA FreshStep == TypeOK /\ TypeOK' /\ SeenOK /\ TierFresh /\ Next => TierFresh'
  <1> SUFFICES ASSUME TypeOK, TypeOK', SeenOK, TierFresh, Next PROVE TierFresh'
    OBVIOUS
  <1>1. ASSUME UNCHANGED <<now, seen>>, tierCache' \in {tierCache, NoTier} PROVE TierFresh'
    BY <1>1 DEF TierFresh
  <1>2. CASE Emit
    BY <1>1, <1>2 DEF Emit
  <1>3. CASE Tick
    <2> SUFFICES ASSUME tierCache' # NoTier PROVE TierFresh'
      BY DEF TierFresh
    <2>1. /\ tierCache' = tierCache /\ now' = now + 1 /\ ~(tierCache.until <= now')
          /\ \A t \in Times : t <= now => seen'[t] = seen[t]
      BY <1>3 DEF Tick, TypeOK, Times
    <2>2. now \in Nat /\ CacheTTL \in Nat /\ tierCache.until \in Nat
      BY <2>1, BillingAssumption DEF TypeOK, Times
    <2>3. PICK t \in Times : /\ t <= now /\ t + CacheTTL >= tierCache.until
                             /\ tierCache.tier \in seen[t]
      BY <2>1 DEF TierFresh
    <2>4. /\ t \in Nat /\ t <= now' /\ tierCache'.tier \in seen'[t]
      BY <2>1, <2>2, <2>3 DEF Times
    <2>5. tierCache'.until > now' /\ tierCache'.until <= now' + CacheTTL
      BY <2>1, <2>2 DEF TierFresh
    <2> QED
      BY <2>1, <2>2, <2>3, <2>4, <2>5 DEF TierFresh
  <1>4. ASSUME NEW h \in Handlers, NEW i \in EventIds, Deliver(h, i) PROVE TierFresh'
    BY <1>1, <1>4 DEF Deliver
  <1>5. ASSUME NEW h \in Handlers, Claim(h) \/ Upsert(h) \/ Bust(h) \/ Respond(h) \/ Fail(h)
        PROVE TierFresh'
    BY <1>1, <1>5 DEF Claim, Upsert, Bust, Respond, Fail
  <1>6. ASSUME NEW h \in Handlers, Commit(h) PROVE TierFresh'
    <2>1. /\ UNCHANGED <<now, tierCache>>
          /\ \A t \in Times : seen[t] \subseteq seen'[t]
      BY <1>6 DEF Commit, Committed, TypeOK
    <2> QED
      BY <2>1 DEF TierFresh
  <1>7. ASSUME NEW r \in Readers, Miss(r) \/ Select(r) PROVE TierFresh'
    BY <1>1, <1>7 DEF Miss, Select
  <1>8. ASSUME NEW r \in Readers, Store(r) PROVE TierFresh'
    <2>1. CASE tierCache' = tierCache
      BY <1>1, <1>8, <2>1 DEF Store
    <2>2. CASE tierCache' = [tier |-> reader[r].tier, until |-> now + CacheTTL]
      <3>1. reader[r].tier \in seen[now] /\ UNCHANGED <<now, seen>>
        BY <1>8 DEF Store, SeenOK
      <3>2. now \in Times /\ now \in Nat /\ CacheTTL \in Nat /\ CacheTTL > 0
        BY BillingAssumption DEF TypeOK, Times
      <3>3. tierCache'.until = now + CacheTTL /\ tierCache'.tier \in seen[now]
        BY <2>2, <3>1
      <3> QED
        BY <3>1, <3>2, <3>3 DEF TierFresh
    <2> QED
      BY <1>8, <2>1, <2>2 DEF Store
  <1> QED
    BY <1>2, <1>3, <1>4, <1>5, <1>6, <1>7, <1>8 DEF Next

-----------------------------------------------------------------------------
(* One application of an event while Redis answers.                        *)

LEMMA ClaimsStep == TypeOK /\ HandlersOK /\ ClaimsOK /\ Next => ClaimsOK'
  <1> SUFFICES ASSUME TypeOK, HandlersOK, ClaimsOK, Next, "dedup" \notin trouble'
               PROVE  ClaimsOK'
    BY DEF ClaimsOK
  <1> USE DEF ClaimsOK, PastClaim
  <1>1. CASE Emit
    BY <1>1 DEF Emit
  <1>2. CASE Tick
    BY <1>2 DEF Tick
  <1>3. ASSUME NEW h \in Handlers, NEW i \in EventIds, Deliver(h, i) PROVE ClaimsOK'
    <2>1. Moves(h, "claim", i) /\ UNCHANGED <<applied, claimed>> /\ "dedup" \notin trouble
      BY <1>3, WebhookSteps DEF Deliver
    <2> QED
      BY <2>1 DEF Moves
  <1>4. ASSUME NEW h \in Handlers, Claim(h) PROVE ClaimsOK'
    <2>1. /\ applied' = applied /\ "dedup" \notin trouble
          /\ \/ /\ handler[h].ev \notin claimed /\ claimed' = claimed \cup {handler[h].ev}
                /\ Moves(h, "upsert", handler[h].ev)
             \/ claimed' = claimed /\ Moves(h, "idle", 0)
      <3>1. \/ /\ handler[h].ev \notin claimed /\ claimed' = claimed \cup {handler[h].ev}
               /\ Goto(h, "upsert")
            \/ claimed' = claimed /\ handler' = [handler EXCEPT ![h] = IdleHandler]
        BY <1>4 DEF Claim
      <3>2. Goto(h, "upsert") => Moves(h, "upsert", handler[h].ev)
        BY DEF Goto, Moves, TypeOK
      <3>3. handler' = [handler EXCEPT ![h] = IdleHandler] => Moves(h, "idle", 0)
        BY DEF Moves, TypeOK, IdleHandler
      <3> QED
        BY <1>4, <3>1, <3>2, <3>3 DEF Claim
    <2> QED
      BY <2>1 DEF Moves
  <1>5. ASSUME NEW h \in Handlers, Upsert(h) PROVE ClaimsOK'
    <2>1. /\ Moves(h, "bust", handler[h].ev) /\ PastClaim(h)
          /\ UNCHANGED <<applied, claimed, trouble>>
      BY <1>5, WebhookSteps DEF Upsert
    <2> QED
      BY <2>1 DEF Moves
  <1>6. ASSUME NEW h \in Handlers, Bust(h) PROVE ClaimsOK'
    <2>1. /\ Moves(h, "respond", handler[h].ev) /\ PastClaim(h)
          /\ UNCHANGED <<applied, claimed, trouble>>
      BY <1>6, WebhookSteps DEF Bust
    <2> QED
      BY <2>1 DEF Moves
  <1>7. ASSUME NEW h \in Handlers, Commit(h) PROVE ClaimsOK'
    <2>1. /\ Moves(h, "idle", 0) /\ PastClaim(h) /\ applied' = applied \cup {handler[h].ev}
          /\ UNCHANGED <<claimed, trouble>>
      BY <1>7, WebhookSteps DEF Commit, Committed
    <2> QED
      BY <2>1 DEF Moves
  <1>8. ASSUME NEW h \in Handlers, Respond(h) PROVE ClaimsOK'
    <2>1. /\ Moves(h, "commit", handler[h].ev) /\ PastClaim(h)
          /\ UNCHANGED <<applied, claimed, trouble>>
      BY <1>8, WebhookSteps DEF Respond
    <2> QED
      BY <2>1 DEF Moves
  <1>9. ASSUME NEW h \in Handlers, Fail(h) PROVE ClaimsOK'
    <2>1. Moves(h, "idle", 0) /\ UNCHANGED <<applied, claimed>> /\ "dedup" \notin trouble
      BY <1>9, WebhookSteps DEF Fail
    <2> QED
      BY <2>1 DEF Moves
  <1>10. ASSUME NEW r \in Readers, Miss(r) \/ Select(r) \/ Store(r) PROVE ClaimsOK'
    BY <1>10 DEF Miss, Select, Store
  <1> QED
    BY <1>1, <1>2, <1>3, <1>4, <1>5, <1>6, <1>7, <1>8, <1>9, <1>10 DEF Next

-----------------------------------------------------------------------------
(* Order: the cases of OrderOK in which no webhook has failed and every    *)
(* delivery was in order.                                                  *)

Orderly == trouble \subseteq {"dedup"}

(* A webhook that goes on from its claim to its commit, being answered at  *)
(* most when it gets there.                                                *)
LEMMA OrderAlong ==
    ASSUME TypeOK, Orderly, Orderly', OrderOK, NEW h \in Handlers,
           NEW pc \in {"bust", "respond", "commit"}, Moves(h, pc, handler[h].ev),
           handler[h].pc \in {"upsert", "bust", "respond"},
           acked' = acked \/ (pc = "commit" /\ acked' = acked \cup {handler[h].ev}),
           UNCHANGED <<emitted, claimed, row, applied>>
    PROVE  OrderOK'
  <1> USE DEF Orderly, OrderOK, Active, PastClaim, Moves
  <1>1. \A g \in Handlers : /\ handler'[g].ev = handler[g].ev
                            /\ Active(g)' <=> Active(g)
                            /\ handler[g].pc = "commit" => handler'[g].pc = "commit"
                            /\ PastClaim(g)' <=> PastClaim(g)
    OBVIOUS
  <1>2. OneDelivery' /\ InTurn' /\ NoneLaterApplied' /\ RowOfTheLast'
    BY <1>1 DEF OneDelivery, InTurn, NoneLaterApplied, RowOfTheLast
  <1>3. AckedAtCommit'
    BY <1>1 DEF AckedAtCommit, OneDelivery
  <1>4. AckedIsApplied'
    <2> SUFFICES ASSUME NEW i \in acked', i \notin applied
                 PROVE  \E g \in Handlers : handler'[g].pc = "commit" /\ handler'[g].ev = i
      BY DEF AckedIsApplied
    <2>1. CASE i \in acked
      BY <1>1, <2>1 DEF AckedIsApplied
    <2>2. CASE i \notin acked
      BY <2>2
    <2> QED
      BY <2>1, <2>2
  <1>5. ClaimIsUsed'
    BY <1>1 DEF ClaimIsUsed
  <1> QED
    BY <1>2, <1>3, <1>4, <1>5

LEMMA OrderStep == TypeOK /\ HandlersOK /\ OrderOK /\ Next => OrderOK'
  <1> SUFFICES ASSUME TypeOK, HandlersOK, OrderOK, Next, Orderly'
               PROVE  OrderOK'
    BY DEF OrderOK, Orderly
  <1> USE DEF OrderOK, Orderly
  <1>0. /\ emitted \in Seq(Events) /\ Len(emitted) \in Nat
        /\ applied \subseteq 1..Len(emitted) /\ claimed \subseteq 1..Len(emitted)
        /\ acked \subseteq 1..Len(emitted)
        /\ \A h \in Handlers : handler[h].ev \in Nat
    BY BillingAssumption DEF TypeOK, EventIds
  <1>1. CASE Emit
    <2>1. PICK e \in Events : emitted' = Append(emitted, e)
      BY <1>1 DEF Emit
    <2>2. \A i \in applied : emitted'[i] = emitted[i]
      BY <1>0, <2>1
    <2>3. UNCHANGED <<acked, claimed, row, handler, applied, trouble>>
      BY <1>1 DEF Emit
    <2> QED
      BY <2>2, <2>3 DEF OneDelivery, InTurn, AckedAtCommit, AckedIsApplied, ClaimIsUsed,
                        NoneLaterApplied, RowOfTheLast, Active, PastClaim
  <1>2. CASE Tick
    BY <1>2 DEF Tick, OneDelivery, InTurn, AckedAtCommit, AckedIsApplied, ClaimIsUsed,
                NoneLaterApplied, RowOfTheLast, Active, PastClaim
  <1>3. ASSUME NEW h \in Handlers, NEW i \in EventIds, Deliver(h, i) PROVE OrderOK'
    <2>1. /\ Moves(h, "claim", i) /\ handler[h].pc = "idle" /\ i \notin acked
          /\ UNCHANGED <<emitted, acked, claimed, row, applied>>
      BY <1>3, WebhookSteps DEF Deliver
    <2>2. /\ Orderly /\ \A j \in 1..(i - 1) : j \in acked
          /\ \A g \in Handlers : handler[g].ev # i
      BY <1>3 DEF Deliver
    <2>3. \A j \in applied : j <= i
      BY <1>0, <2>1, <2>2 DEF EventIds, InTurn
    <2> USE <1>0, <2>1, <2>2, <2>3 DEF Moves, Active, PastClaim
    <2>4. OneDelivery'
      BY DEF OneDelivery
    <2>11. InTurn'
      BY DEF InTurn
    <2>12. AckedAtCommit'
      BY DEF AckedAtCommit
    <2>5. AckedIsApplied' /\ ClaimIsUsed'
      BY DEF AckedIsApplied, ClaimIsUsed
    <2>6. NoneLaterApplied' /\ RowOfTheLast'
      BY DEF NoneLaterApplied, RowOfTheLast
    <2> QED
      BY <2>4, <2>11, <2>12, <2>5, <2>6
  <1>4. ASSUME NEW h \in Handlers, Claim(h) PROVE OrderOK'
    <2>1. handler[h].pc = "claim" /\ UNCHANGED <<emitted, row, applied>> /\ Orderly
      BY <1>4 DEF Claim
    <2>2. CASE /\ Moves(h, "upsert", handler[h].ev) /\ acked' = acked
               /\ claimed' \in {claimed, claimed \cup {handler[h].ev}}
      <3> USE <2>1, <2>2 DEF Moves, Active, PastClaim
      <3>1. \A g \in Handlers : handler'[g].ev = handler[g].ev /\ (Active(g)' <=> Active(g))
        OBVIOUS
      <3>2. OneDelivery' /\ InTurn' /\ NoneLaterApplied' /\ RowOfTheLast'
        BY <3>1 DEF OneDelivery, InTurn, NoneLaterApplied, RowOfTheLast
      <3>3. AckedAtCommit' /\ AckedIsApplied'
        BY DEF AckedAtCommit, AckedIsApplied
      <3>4. ClaimIsUsed'
        BY DEF ClaimIsUsed
      <3> QED
        BY <3>2, <3>3, <3>4
    <2>3. CASE /\ Moves(h, "idle", 0) /\ handler[h].ev \in claimed /\ claimed' = claimed
               /\ acked' \in {acked, acked \cup {handler[h].ev}}
      <3> USE <2>1, <2>3 DEF Moves, Active, PastClaim
      <3>1. handler[h].ev \in applied
        BY DEF ClaimIsUsed, OneDelivery
      <3>2. OneDelivery'
        <4>1. \A g \in Handlers : Active(g) => handler[g].ev # 0
          BY DEF HandlersOK
        <4> QED
          BY <4>1 DEF OneDelivery
      <3>5. InTurn' /\ NoneLaterApplied' /\ RowOfTheLast'
        BY DEF InTurn, NoneLaterApplied, RowOfTheLast
      <3>3. AckedAtCommit'
        BY DEF AckedAtCommit, OneDelivery
      <3>4. AckedIsApplied' /\ ClaimIsUsed'
        BY <3>1 DEF AckedIsApplied, ClaimIsUsed
      <3> QED
        BY <3>2, <3>5, <3>3, <3>4
    <2> QED
      <3>1. \/ Goto(h, "upsert") /\ acked' = acked
               /\ claimed' \in {claimed, claimed \cup {handler[h].ev}}
            \/ /\ handler[h].ev \in claimed /\ claimed' = claimed
               /\ handler' = [handler EXCEPT ![h] = IdleHandler]
               /\ acked' \in {acked, acked \cup {handler[h].ev}}
        BY <1>4 DEF Claim, Answered
      <3>2. Goto(h, "upsert") => Moves(h, "upsert", handler[h].ev)
        BY DEF Goto, Moves, TypeOK
      <3>3. handler' = [handler EXCEPT ![h] = IdleHandler] => Moves(h, "idle", 0)
        BY DEF Moves, TypeOK, IdleHandler
      <3> QED
        BY <2>2, <2>3, <3>1, <3>2, <3>3
  <1>5. ASSUME NEW h \in Handlers, Upsert(h) PROVE OrderOK'
    <2>1. /\ Moves(h, "bust", handler[h].ev) /\ handler[h].pc = "upsert"
          /\ UNCHANGED <<emitted, acked, claimed, row, applied, trouble>>
      BY <1>5, WebhookSteps DEF Upsert
    <2> QED
      BY <2>1, OrderAlong
  <1>6. ASSUME NEW h \in Handlers, Bust(h) PROVE OrderOK'
    <2>1. /\ Moves(h, "respond", handler[h].ev) /\ handler[h].pc = "bust"
          /\ UNCHANGED <<emitted, acked, claimed, row, applied, trouble>>
      BY <1>6, WebhookSteps DEF Bust
    <2> QED
      BY <2>1, OrderAlong
  <1>7. ASSUME NEW h \in Handlers, Commit(h) PROVE OrderOK'
    <2> DEFINE i == handler[h].ev
    <2>1. /\ Moves(h, "idle", 0) /\ handler[h].pc = "commit" /\ i \in 1..Len(emitted)
          /\ row' = ResolveState(emitted[i]) /\ applied' = applied \cup {i}
          /\ UNCHANGED <<emitted, acked, claimed, trouble>>
      BY <1>7, WebhookSteps DEF Commit, Committed, HandlersOK, Active
    <2>2. \A g \in Handlers : g # h => ~(handler[g].pc \in {"bust", "respond", "commit"})
      BY <2>1 DEF HandlersOK, Locks
    <2>3. i \in Nat /\ \A j \in applied : j \in Nat /\ j <= i
      BY <1>0, <2>1 DEF NoneLaterApplied, Active
    <2>4. \A j \in 1..(i - 1) : j \in acked /\ j \in applied
      <3>1. \A j \in 1..(i - 1) : j \in acked /\ j # i
        BY <2>1, <2>3 DEF InTurn, Active
      <3> QED
        BY <2>1, <2>2, <3>1 DEF AckedIsApplied
    <2>5. \A g \in Handlers : g # h /\ Active(g) => i <= handler[g].ev
      <3> SUFFICES ASSUME NEW g \in Handlers, g # h, Active(g), handler[g].ev < i
                   PROVE  FALSE
        BY <1>0, <2>3
      <3>1. handler[g].ev \in 1..(i - 1)
        BY <1>0, <2>3 DEF HandlersOK
      <3>2. handler[g].ev \in acked
        BY <2>4, <3>1
      <3> QED
        BY <2>1, <2>2, <3>2 DEF AckedAtCommit, Active
    <2> HIDE DEF i
    <2>6. OneDelivery'
      <3>1. \A g \in Handlers : Active(g) => handler[g].ev # 0
        BY DEF HandlersOK
      <3> QED
        BY <2>1, <3>1 DEF OneDelivery, Moves, Active
    <2>11. AckedAtCommit'
      BY <2>1 DEF AckedAtCommit, Moves, Active
    <2>7. InTurn'
      BY <2>1, <2>4 DEF InTurn, Moves, Active
    <2>8. AckedIsApplied' /\ ClaimIsUsed'
      BY <2>1 DEF AckedIsApplied, ClaimIsUsed, Moves, PastClaim, i
    <2>9. NoneLaterApplied'
      BY <2>1, <2>5 DEF NoneLaterApplied, Moves, Active
    <2>10. RowOfTheLast'
      <3> SUFFICES ASSUME NEW j \in applied', \A k \in applied' : k <= j
                   PROVE  row' = ResolveState(emitted'[j])
        BY DEF RowOfTheLast
      <3>1. j = i
        <4>1. applied' = applied \cup {i}
          BY <2>1
        <4>2. i <= j
          BY <4>1
        <4>3. j \in Nat /\ j <= i
          BY <2>3, <4>1
        <4> QED
          BY <2>3, <4>2, <4>3
      <3> QED
        BY <2>1, <3>1
    <2> QED
      BY <2>6, <2>11, <2>7, <2>8, <2>9, <2>10
  <1>8. ASSUME NEW h \in Handlers, Respond(h) PROVE OrderOK'
    <2>1. /\ Moves(h, "commit", handler[h].ev) /\ handler[h].pc = "respond"
          /\ acked' \in {acked, acked \cup {handler[h].ev}}
          /\ UNCHANGED <<emitted, claimed, row, applied, trouble>>
      BY <1>8, WebhookSteps DEF Respond, Answered
    <2> QED
      BY <2>1, OrderAlong
  <1>9. ASSUME NEW h \in Handlers, Fail(h) PROVE OrderOK'
    BY <1>9 DEF Fail
  <1>10. ASSUME NEW r \in Readers, Miss(r) \/ Select(r) \/ Store(r) PROVE OrderOK'
    <2>1. UNCHANGED <<emitted, acked, claimed, row, handler, applied, trouble>>
      BY <1>10 DEF Miss, Select, Store
    <2> QED
      BY <2>1 DEF OneDelivery, InTurn, AckedAtCommit, AckedIsApplied, ClaimIsUsed,
                  NoneLaterApplied, RowOfTheLast, Active, PastClaim
  <1> QED
    BY <1>1, <1>2, <1>3, <1>4, <1>5, <1>6, <1>7, <1>8, <1>9, <1>10 DEF Next

-----------------------------------------------------------------------------
(* The theorems.                                                           *)

LEMMA StepInv == BillingInv /\ [Next]_vars => BillingInv'
  <1> SUFFICES ASSUME BillingInv, [Next]_vars PROVE BillingInv'
    OBVIOUS
  <1>1. CASE Next
    BY <1>1, TypeStep, HandlersStep, SeenStep, FreshStep, ClaimsStep, OrderStep DEF BillingInv
  <1>2. CASE UNCHANGED vars
    <2> USE <1>2 DEF vars, BillingInv
    <2>1. TypeOK' /\ SeenOK' /\ TierFresh'
      BY DEF TypeOK, SeenOK, TierFresh
    <2>2. HandlersOK' /\ ClaimsOK'
      BY DEF HandlersOK, ClaimsOK, Active, Locks, PastClaim
    <2>3. OrderOK'
      BY DEF OrderOK, OneDelivery, InTurn, AckedAtCommit, AckedIsApplied, ClaimIsUsed,
             NoneLaterApplied, RowOfTheLast, Active, PastClaim
    <2> QED
      BY <2>1, <2>2, <2>3
  <1> QED
    BY <1>1, <1>2

(* The inductive invariant: BillingInv holds in every state.               *)
THEOREM BillingInvariant == Spec => []BillingInv
  BY InitInv, StepInv, PTL DEF Spec

(* Every variable keeps its type, for any events, handlers and readers.    *)
THEOREM BillingTypes == Spec => []TypeOK
  <1>1. BillingInv => TypeOK
    BY DEF BillingInv
  <1> QED
    BY <1>1, BillingInvariant, PTL

(* A cached tier was in effect less than a TTL ago (`_resolve_user_tier`), *)
(* whatever webhooks and readers do, and however long the TTL.             *)
THEOREM CachedTierIsFresh == Spec => []TierFresh
  <1>1. BillingInv => TierFresh
    BY DEF BillingInv
  <1> QED
    BY <1>1, BillingInvariant, PTL

(* However many deliveries of however many events overlap, SET NX lets one *)
(* write the row, as long as Redis answers (`process_webhook`).            *)
THEOREM EventsApplyOnce == Spec => AppliedOnce
  <1>1. BillingInv /\ [Next]_vars =>
          [\A h \in Handlers :
              Commit(h) /\ "dedup" \notin trouble => handler[h].ev \notin applied]_vars
    BY DEF BillingInv, ClaimsOK, PastClaim, Commit
  <1> QED
    BY <1>1, BillingInvariant, PTL DEF Spec, AppliedOnce

(* When every event is acknowledged and no webhook runs, the row is that   *)
(* of the latest event, if deliveries were orderly and none failed.        *)
THEOREM LatestEventWins == Spec => []RowIsLatest
  <1>1. BillingInv => RowIsLatest
    <2> SUFFICES ASSUME BillingInv, Quiet, emitted # <<>>, acked = 1..Len(emitted),
                        trouble \subseteq {"dedup"}
                 PROVE  row = ResolveState(emitted[Len(emitted)])
      BY DEF RowIsLatest
    <2>1. /\ Len(emitted) \in Nat \ {0} /\ applied \subseteq 1..Len(emitted)
          /\ AckedIsApplied /\ RowOfTheLast
      BY DEF BillingInv, TypeOK, OrderOK
    <2>2. Len(emitted) \in applied /\ \A j \in applied : j <= Len(emitted)
      BY <2>1 DEF AckedIsApplied, Quiet
    <2> QED
      BY <2>1, <2>2 DEF RowOfTheLast
  <1> QED
    BY <1>1, BillingInvariant, PTL
=============================================================================
