-------------------------------- MODULE Billing --------------------------------
(***************************************************************************)
(* The subscription of one user: RevenueCat's webhook                      *)
(* (`BillingService.process_webhook`, backend/modules/m11_billing) and the *)
(* rate limiter's cached reading of the tier (`_resolve_user_tier`,        *)
(* backend/app/dependencies.py).                                           *)
(*                                                                         *)
(* RevenueCat is the environment: it emits events, delivers each at least  *)
(* once and delivers again after an error or a silence.  A handler is one  *)
(* POST /webhook: claim the event id in Redis, upsert the users row, bust  *)
(* the tier cache, respond, commit (get_db commits when the request's      *)
(* dependencies are closed, after the response).  Time advances in ticks,  *)
(* each far longer than a command to Redis or PostgreSQL.                  *)
(***************************************************************************)
EXTENDS Naturals, Sequences, FiniteSets

CONSTANTS
    Handlers, Readers,
    Types,           \* the STATE_CHANGING_EVENTS that occur
    Expiries,        \* the values of expiration_at_ms that occur
    MaxEvents,       \* bound: events RevenueCat emits
    MaxTime,         \* bound: ticks
    CacheTTL,        \* _TIER_CACHE_TTL_SECONDS, in ticks
    Never,           \* expires_at IS NULL
    NoUser, NoTier

ASSUME BillingAssumption ==
    /\ MaxEvents \in Nat /\ MaxTime \in Nat /\ CacheTTL \in Nat \ {0}
    /\ Never \notin 0..MaxTime
    /\ Expiries \subseteq 0..MaxTime \cup {Never}

Times == 0..MaxTime
Tiers == {"free", "pro"}
UserRows == [tier : Tiers, expires : Times \cup {Never}]
Events == [type : Types, expires : Expiries]

ASSUME BillingMarkers ==
    /\ NoUser \notin UserRows
    /\ NoTier \notin [tier : Tiers, until : Nat]

VARIABLES
    now,
    emitted,      \* RevenueCat: the events so far, in the order they happened
    acked,        \*             those a 200 was received for
    claimed,      \* Redis: `revenuecat:processed:{id}` keys
    tierCache,    \* Redis: `tier:{user}` with its expiry
    row,          \* PostgreSQL: the users row, committed
    handler,      \* running webhooks
    reader,       \* running rate-limit checks
    applied,      \* history: the events whose transaction committed
    seen,         \* history: the tiers in effect during each tick
    trouble       \* history: what has gone wrong so far

vars == <<now, emitted, acked, claimed, tierCache, row, handler, reader, applied,
          seen, trouble>>

EventIds == 1..MaxEvents
HandlerPcs == {"idle", "claim", "upsert", "bust", "respond", "commit"}

TypeOK ==
    /\ now \in Times
    /\ emitted \in Seq(Events) /\ Len(emitted) <= MaxEvents
    /\ acked \subseteq 1..Len(emitted)
    /\ claimed \subseteq 1..Len(emitted)
    /\ applied \subseteq 1..Len(emitted)
    /\ tierCache \in [tier : Tiers, until : Nat] \cup {NoTier}
    /\ row \in UserRows \cup {NoUser}
    /\ handler \in [Handlers -> [pc : HandlerPcs, ev : EventIds \cup {0}]]
    /\ reader \in [Readers -> [pc : {"idle", "select", "write"}, tier : Tiers]]
    /\ seen \in [Times -> SUBSET Tiers]
    /\ trouble \subseteq {"disorder", "failure", "dedup"}

(* _is_active, and the same test in _resolve_user_tier.                    *)
Effective(r, t) ==
    IF r # NoUser /\ r.tier = "pro" /\ (r.expires = Never \/ r.expires > t)
    THEN "pro" ELSE "free"

(* _resolve_state                                                          *)
ResolveState(e) ==
    CASE e.type = "EXPIRATION"            -> [tier |-> "free", expires |-> Never]
      [] e.type = "NON_RENEWING_PURCHASE" -> [tier |-> "pro", expires |-> Never]
      [] OTHER                            -> [tier |-> "pro", expires |-> e.expires]

IdleHandler == [pc |-> "idle", ev |-> 0]
IdleReader == [pc |-> "idle", tier |-> "free"]

Init ==
    /\ now = 0
    /\ emitted = <<>> /\ acked = {} /\ claimed = {} /\ applied = {}
    /\ tierCache = NoTier
    /\ row = NoUser
    /\ handler = [h \in Handlers |-> IdleHandler]
    /\ reader = [r \in Readers |-> IdleReader]
    /\ seen = [t \in Times |-> IF t = 0 THEN {"free"} ELSE {}]
    /\ trouble = {}

-----------------------------------------------------------------------------
(* RevenueCat                                                              *)

Emit ==
    /\ Len(emitted) < MaxEvents
    /\ \E e \in Events : emitted' = Append(emitted, e)
    /\ UNCHANGED <<now, acked, claimed, tierCache, row, handler, reader, applied, seen, trouble>>

(* It may deliver an event before an earlier one is acknowledged, and      *)
(* again while a delivery of it is still running.                          *)
Deliver(h, i) ==
    /\ handler[h].pc = "idle"
    /\ i \in 1..Len(emitted) /\ i \notin acked
    /\ LET orderly == /\ \A j \in 1..(i - 1) : j \in acked
                      /\ \A g \in Handlers : handler[g].ev # i
       IN  trouble' = IF orderly THEN trouble ELSE trouble \cup {"disorder"}
    /\ handler' = [handler EXCEPT ![h] = [pc |-> "claim", ev |-> i]]
    /\ UNCHANGED <<now, emitted, acked, claimed, tierCache, row, reader, applied, seen>>

(* A 200, which may get lost on its way.                                   *)
Answered(h) == acked' \in {acked, acked \cup {handler[h].ev}}

-----------------------------------------------------------------------------
(* The webhook                                                             *)

Goto(h, pc) == handler' = [handler EXCEPT ![h].pc = pc]

(* Mutant: EXISTS, then SET.                                               *)
ClaimUnchecked(h) ==
    /\ handler[h].pc = "claim"
    /\ \/ claimed' = claimed \cup {handler[h].ev} /\ Goto(h, "upsert") /\ UNCHANGED acked
       \/ /\ handler[h].ev \in claimed /\ Answered(h)
          /\ handler' = [handler EXCEPT ![h] = IdleHandler] /\ UNCHANGED claimed
    /\ UNCHANGED <<now, emitted, tierCache, row, reader, applied, seen, trouble>>

(* SET NX.  A Redis error falls open, whether or not the server saw the    *)
(* command.                                                                *)
Claim(h) ==
    /\ handler[h].pc = "claim"
    /\ \/ /\ handler[h].ev \notin claimed
          /\ claimed' = claimed \cup {handler[h].ev}
          /\ Goto(h, "upsert")
          /\ UNCHANGED <<acked, trouble>>
       \/ /\ handler[h].ev \in claimed                    \* "duplicate"
          /\ Answered(h)
          /\ handler' = [handler EXCEPT ![h] = IdleHandler]
          /\ UNCHANGED <<claimed, trouble>>
       \/ /\ claimed' \in {claimed, claimed \cup {handler[h].ev}}
          /\ trouble' = trouble \cup {"dedup"}            \* Redis error
          /\ Goto(h, "upsert")
          /\ UNCHANGED acked
    /\ UNCHANGED <<now, emitted, tierCache, row, reader, applied, seen>>

(* The row is locked from here until the transaction ends.                 *)
Upsert(h) ==
    /\ handler[h].pc = "upsert"
    /\ \A g \in Handlers : handler[g].pc \notin {"bust", "respond", "commit"}
    /\ Goto(h, "bust")
    /\ UNCHANGED <<now, emitted, acked, claimed, tierCache, row, reader, applied, seen, trouble>>

(* The DELETE, or a Redis error.                                           *)
Bust(h) ==
    /\ handler[h].pc = "bust"
    /\ tierCache' \in {NoTier, tierCache}
    /\ Goto(h, "respond")
    /\ UNCHANGED <<now, emitted, acked, claimed, row, reader, applied, seen, trouble>>

Respond(h) ==
    /\ handler[h].pc = "respond"
    /\ Answered(h)
    /\ Goto(h, "commit")
    /\ UNCHANGED <<now, emitted, claimed, tierCache, row, reader, applied, seen, trouble>>

Committed(h, r) ==
    /\ handler[h].pc = "commit"
    /\ row' = r
    /\ seen' = [seen EXCEPT ![now] = @ \cup {Effective(r, now)}]
    /\ applied' = applied \cup {handler[h].ev}
    /\ handler' = [handler EXCEPT ![h] = IdleHandler]
    /\ UNCHANGED <<now, emitted, acked, claimed, tierCache, reader, trouble>>

(* Mutant: ON CONFLICT DO NOTHING.                                         *)
CommitKeepsRow(h) ==
    Committed(h, IF row = NoUser THEN ResolveState(emitted[handler[h].ev]) ELSE row)

Commit(h) ==
    /\ handler[h].pc = "commit"
    /\ Committed(h, ResolveState(emitted[handler[h].ev]))

(* The upsert or the commit raises, or the process dies: the transaction   *)
(* rolls back, and the claim stays in Redis.                               *)
Fail(h) ==
    /\ handler[h].pc \in {"claim", "upsert", "bust", "respond", "commit"}
    /\ trouble' = trouble \cup {"failure"}
    /\ handler' = [handler EXCEPT ![h] = IdleHandler]
    /\ UNCHANGED <<now, emitted, acked, claimed, tierCache, row, reader, applied, seen>>

-----------------------------------------------------------------------------
(* The rate limiter's reading of the tier                                  *)

(* A hit changes nothing.  A miss goes to the users row, and so does a     *)
(* Redis error, hit or no hit.                                             *)
Miss(r) ==
    /\ reader[r].pc = "idle"
    /\ reader' = [reader EXCEPT ![r].pc = "select"]
    /\ UNCHANGED <<now, emitted, acked, claimed, tierCache, row, handler, applied, seen, trouble>>

(* An error of the database answers "free", and caches nothing.            *)
Select(r) ==
    /\ reader[r].pc = "select"
    /\ \/ reader' = [reader EXCEPT ![r] = [pc |-> "write", tier |-> Effective(row, now)]]
       \/ reader' = [reader EXCEPT ![r].pc = "idle"]
    /\ UNCHANGED <<now, emitted, acked, claimed, tierCache, row, handler, applied, seen, trouble>>

(* Mutant: SET without the expiry.                                         *)
StoreForever(r) ==
    /\ reader[r].pc = "write"
    /\ tierCache' = [tier |-> reader[r].tier, until |-> MaxTime + CacheTTL]
    /\ reader' = [reader EXCEPT ![r] = IdleReader]
    /\ UNCHANGED <<now, emitted, acked, claimed, row, handler, applied, seen, trouble>>

Store(r) ==
    /\ reader[r].pc = "write"
    /\ tierCache' \in {[tier |-> reader[r].tier, until |-> now + CacheTTL], tierCache}
    /\ reader' = [reader EXCEPT ![r] = IdleReader]
    /\ UNCHANGED <<now, emitted, acked, claimed, row, handler, applied, seen, trouble>>

(* A tick: the SELECT of a reader and its SETEX fall in the same one.      *)
Tick ==
    /\ now < MaxTime
    /\ \A r \in Readers : reader[r].pc # "write"
    /\ now' = now + 1
    /\ tierCache' = IF tierCache # NoTier /\ tierCache.until <= now' THEN NoTier
                    ELSE tierCache
    /\ seen' = [seen EXCEPT ![now'] = {Effective(row, now')}]
    /\ UNCHANGED <<emitted, acked, claimed, row, handler, reader, applied, trouble>>

-----------------------------------------------------------------------------
Next ==
    \/ Emit \/ Tick
    \/ \E h \in Handlers :
          \/ \E i \in EventIds : Deliver(h, i)
          \/ Claim(h) \/ Upsert(h) \/ Bust(h) \/ Commit(h) \/ Respond(h) \/ Fail(h)
    \/ \E r \in Readers : Miss(r) \/ Select(r) \/ Store(r)

Spec == Init /\ [][Next]_vars

-----------------------------------------------------------------------------
(* Whatever webhooks run, a cached tier was in effect at some moment since *)
(* it was written, and it was written less than a TTL ago                  *)
(* (`_resolve_user_tier`: changes "propagate within the TTL").             *)
TierFresh ==
    tierCache # NoTier =>
        /\ tierCache.until > now /\ tierCache.until <= now + CacheTTL
        /\ \E t \in Times : /\ t <= now /\ t + CacheTTL >= tierCache.until
                            /\ tierCache.tier \in seen[t]

(* However deliveries of one event overlap, repeat or fail, SET NX lets    *)
(* one of them at most write the users row, as long as it answers.         *)
AppliedOnce ==
    [][\A h \in Handlers :
          Commit(h) /\ "dedup" \notin trouble => handler[h].ev \notin applied]_vars

Quiet == \A h \in Handlers : handler[h].pc = "idle"

(* If events are delivered in order, none while another delivery of it     *)
(* runs, and no transaction fails, then the row is that of the latest      *)
(* event once RevenueCat holds an acknowledgement of each, lost responses, *)
(* redelivered events and Redis errors notwithstanding.                    *)
RowIsLatest ==
    /\ Quiet /\ emitted # <<>> /\ acked = 1..Len(emitted)
    /\ trouble \subseteq {"dedup"}
    => row = ResolveState(emitted[Len(emitted)])

-----------------------------------------------------------------------------
(* What holds between the steps, and makes the three of them hold.  The    *)
(* proofs are in Billing_proofs.                                           *)

Active(h) == handler[h].pc # "idle"
PastClaim(h) == handler[h].pc \in {"upsert", "bust", "respond", "commit"}
Locks(h) == handler[h].pc \in {"bust", "respond", "commit"}

(* A webhook carries an event that has happened, and one holds the row.    *)
HandlersOK ==
    /\ \A h \in Handlers : Active(h) <=> handler[h].ev # 0
    /\ \A h \in Handlers : Active(h) => handler[h].ev \in 1..Len(emitted)
    /\ \A g, h \in Handlers : Locks(g) /\ Locks(h) => g = h

(* The tier a reader is about to store is one of this tick, as is the row's. *)
SeenOK ==
    /\ Effective(row, now) \in seen[now]
    /\ \A r \in Readers : reader[r].pc = "write" => reader[r].tier \in seen[now]

(* While Redis answers, a claim belongs to one webhook, or to an event      *)
(* applied, or to one whose webhook failed.                                 *)
ClaimsOK ==
    "dedup" \notin trouble =>
        /\ applied \subseteq claimed
        /\ \A h \in Handlers : PastClaim(h) =>
              handler[h].ev \in claimed /\ handler[h].ev \notin applied
        /\ \A g, h \in Handlers :
              PastClaim(g) /\ PastClaim(h) /\ handler[g].ev = handler[h].ev => g = h

(* While deliveries are orderly and none fails: an event is delivered once *)
(* at a time, when those before it are acknowledged; what is acknowledged  *)
(* is applied or waits for its commit, which the row's lock puts before    *)
(* those of later events.                                                  *)
OneDelivery ==
    \A g, h \in Handlers : Active(g) /\ handler[g].ev = handler[h].ev => g = h
InTurn ==
    /\ \A h \in Handlers : Active(h) => \A j \in 1..(handler[h].ev - 1) : j \in acked
    /\ \A i \in applied : \A j \in 1..(i - 1) : j \in acked
AckedAtCommit ==
    \A h \in Handlers : Active(h) /\ handler[h].ev \in acked => handler[h].pc = "commit"
AckedIsApplied ==
    \A i \in acked : i \in applied
        \/ \E h \in Handlers : handler[h].pc = "commit" /\ handler[h].ev = i
ClaimIsUsed ==
    \A i \in claimed : i \in applied
        \/ \E h \in Handlers : PastClaim(h) /\ handler[h].ev = i
NoneLaterApplied ==
    \A h \in Handlers : Active(h) => \A j \in applied : j <= handler[h].ev
RowOfTheLast ==
    \A i \in applied :
        (\A j \in applied : j <= i) => row = ResolveState(emitted[i])

OrderOK ==
    trouble \subseteq {"dedup"} =>
        OneDelivery /\ InTurn /\ AckedAtCommit /\ AckedIsApplied /\ ClaimIsUsed
        /\ NoneLaterApplied /\ RowOfTheLast

BillingInv == TypeOK /\ HandlersOK /\ SeenOK /\ TierFresh /\ ClaimsOK /\ OrderOK

-----------------------------------------------------------------------------
(* "Event processing is idempotent via Redis dedup (7 day TTL) so replays  *)
(* are safe" (the docstring of the route): an event RevenueCat may forget  *)
(* has been applied.  It need not have been: the claim outlives a          *)
(* transaction that fails, and makes a duplicate of the retry.             *)
AckedMeansApplied == Quiet => acked \subseteq applied
=============================================================================
