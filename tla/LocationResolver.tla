--------------------------- MODULE LocationResolver ---------------------------
(***************************************************************************)
(* `FbLocationResolver.resolve` in backend/modules/m2_prices/adapters/     *)
(* fb_marketplace_location_resolver.py: from a city to its Facebook        *)
(* Marketplace id, through Redis (L1), PostgreSQL (L2) and, under a Redis  *)
(* lock per city, the search engines (L3).  The winner of the lock         *)
(* publishes what it found; the losers subscribe, look at L1 once more and *)
(* wait for the message or their timeout.                                  *)
(*                                                                         *)
(* A request is one call of resolve in one process.  The search engines    *)
(* are the environment: they find an id, find none, or are all throttled.  *)
(***************************************************************************)
EXTENDS Naturals, FiniteSets

CONSTANTS
    Requests,
    Cities,          \* the (country, state, city) keys
    Ids,             \* location ids
    Permits,         \* of _LIVE_RESOLVE_SEMAPHORE
    Unresolved,      \* "__U__" in Redis, a NULL location_id in PostgreSQL
    Throttled,       \* "__T__" in Redis
    Nothing          \* no key, no row, no message, no answer

ASSUME ResolverAssumption ==
    /\ Permits \in Nat \ {0}
    /\ Unresolved \notin Ids
    /\ Throttled \notin Ids \cup {Unresolved}
    /\ Nothing \notin Ids \cup {Unresolved, Throttled}

Answers == Ids \cup {Unresolved, Throttled}

VARIABLES
    l1,          \* Redis: the cached answer of a city
    l2,          \* PostgreSQL: the row of a city
    lock,        \* Redis: the `lock:` keys that exist
    inbox,       \* pub/sub: the first message a subscriber was sent
    req,         \* the control state of each call
    faulty       \* history: something failed or expired

vars == <<l1, l2, lock, inbox, req, faulty>>

(* The steps of the winner of the lock, or of a call resolving without it; *)
(* and those of a subscriber.                                              *)
LivePcs == {"live", "persist", "cache"}
WaitPcs == {"recheck", "listen"}
Pcs == {"idle", "l1", "l2", "warm", "lock", "permit", "subscribe", "publish",
        "unlock"} \cup LivePcs \cup WaitPcs

TypeOK ==
    /\ l1 \in [Cities -> Answers \cup {Nothing}]
    /\ l2 \in [Cities -> Ids \cup {Unresolved, Nothing}]
    /\ lock \subseteq Cities
    /\ inbox \in [Requests -> Answers \cup {Nothing}]
    /\ req \in [Requests -> [pc : Pcs, city : Cities,
                             answer : Answers \cup {Nothing},
                             won : BOOLEAN]]      \* holds, or held, the lock
    /\ faulty \in BOOLEAN

At(q, pc) == req[q].pc = pc
Goto(q, pc) == req' = [req EXCEPT ![q].pc = pc]

(* The call returns or raises; its record keeps nothing but its city.      *)
Return(q) == req' = [req EXCEPT ![q].pc = "idle", ![q].answer = Nothing,
                                ![q].won = FALSE]

(* Rows may be there from the seed script or from earlier calls.           *)
Init ==
    /\ l1 = [c \in Cities |-> Nothing]
    /\ l2 \in [Cities -> Ids \cup {Unresolved, Nothing}]
    /\ lock = {}
    /\ inbox = [q \in Requests |-> Nothing]
    /\ req \in [Requests -> [pc : {"idle"}, city : Cities, answer : {Nothing},
                             won : {FALSE}]]
    /\ faulty = FALSE

-----------------------------------------------------------------------------
(* The two caches                                                          *)

Begin(q, c) ==
    /\ At(q, "idle")
    /\ req' = [req EXCEPT ![q].pc = "l1", ![q].city = c]
    /\ UNCHANGED <<l1, l2, lock, inbox, faulty>>

(* An error of Redis reads as a miss.                                      *)
ReadL1(q) ==
    /\ At(q, "l1")
    /\ \/ /\ l1[req[q].city] # Nothing
          /\ Return(q)
          /\ UNCHANGED faulty
       \/ /\ l1[req[q].city] = Nothing
          /\ Goto(q, "l2")
          /\ UNCHANGED faulty
       \/ /\ Goto(q, "l2")
          /\ faulty' = TRUE
    /\ UNCHANGED <<l1, l2, lock, inbox>>

ReadL2(q) ==
    /\ At(q, "l2")
    /\ IF l2[req[q].city] # Nothing
       THEN req' = [req EXCEPT ![q].pc = "warm", ![q].answer = l2[req[q].city]]
       ELSE Goto(q, "lock")
    /\ UNCHANGED <<l1, l2, lock, inbox, faulty>>

(* _redis_set swallows an error.                                           *)
WriteL1(q) ==
    \/ /\ l1' = [l1 EXCEPT ![req[q].city] = req[q].answer]
       /\ UNCHANGED faulty
    \/ /\ faulty' = TRUE
       /\ UNCHANGED l1

WarmL1(q) ==
    /\ At(q, "warm")
    /\ WriteL1(q)
    /\ Return(q)
    /\ UNCHANGED <<l2, lock, inbox>>

-----------------------------------------------------------------------------
(* The lock and its losers                                                 *)

(* Mutant: SET without NX.                                                 *)
LockBlindly(q) ==
    /\ At(q, "lock")
    /\ lock' = lock \cup {req[q].city}
    /\ req' = [req EXCEPT ![q].pc = "permit", ![q].won = TRUE]
    /\ UNCHANGED <<l1, l2, inbox, faulty>>

(* SET NX EX.  An error, whether or not the server saw the command, means  *)
(* a live resolve without the lock and without the semaphore.              *)
Lock(q) ==
    /\ At(q, "lock")
    /\ \/ /\ req[q].city \notin lock
          /\ lock' = lock \cup {req[q].city}
          /\ req' = [req EXCEPT ![q].pc = "permit", ![q].won = TRUE]
          /\ UNCHANGED faulty
       \/ /\ req[q].city \in lock
          /\ Goto(q, "subscribe")
          /\ UNCHANGED <<lock, faulty>>
       \/ /\ lock' \in {lock, lock \cup {req[q].city}}
          /\ Goto(q, "live")
          /\ faulty' = TRUE
    /\ UNCHANGED <<l1, l2, inbox>>

(* Mutant: straight from the SUBSCRIBE to the wait.                        *)
SubscribeAndListen(q) ==
    /\ At(q, "subscribe")
    /\ Goto(q, "listen")
    /\ UNCHANGED <<l1, l2, lock, inbox, faulty>>

Subscribe(q) ==
    /\ At(q, "subscribe")
    /\ Goto(q, "recheck")
    /\ UNCHANGED <<l1, l2, lock, inbox, faulty>>

(* Whatever ends the wait also ends the subscription.                      *)
Unsubscribe(q) == inbox' = [inbox EXCEPT ![q] = Nothing]

Recheck(q) ==
    /\ At(q, "recheck")
    /\ \/ /\ l1[req[q].city] # Nothing
          /\ Return(q) /\ Unsubscribe(q)
          /\ UNCHANGED faulty
       \/ /\ l1[req[q].city] = Nothing
          /\ Goto(q, "listen")
          /\ UNCHANGED <<inbox, faulty>>
       \/ /\ Goto(q, "listen")                        \* Redis error
          /\ faulty' = TRUE
          /\ UNCHANGED inbox
    /\ UNCHANGED <<l1, l2, lock>>

Hear(q) ==
    /\ At(q, "listen") /\ inbox[q] # Nothing
    /\ Return(q) /\ Unsubscribe(q)
    /\ UNCHANGED <<l1, l2, lock, faulty>>

(* Mutant: after the timeout, another round of waiting.                    *)
TimeoutListensOn(q) ==
    /\ At(q, "listen")
    /\ Goto(q, "subscribe") /\ Unsubscribe(q)
    /\ UNCHANGED <<l1, l2, lock, faulty>>

(* After _LOCK_TTL_S + 1 seconds: a live resolve without the lock and      *)
(* without the semaphore.                                                  *)
Timeout(q) ==
    /\ At(q, "listen")
    /\ Goto(q, "live") /\ Unsubscribe(q)
    /\ UNCHANGED <<l1, l2, lock, faulty>>

-----------------------------------------------------------------------------
(* The live resolve                                                        *)

InSemaphore == {q \in Requests : req[q].won /\ req[q].pc \in LivePcs}

Permit(q) ==
    /\ At(q, "permit")
    /\ Cardinality(InSemaphore) < Permits
    /\ Goto(q, "live")
    /\ UNCHANGED <<l1, l2, lock, inbox, faulty>>

(* The engines, each behind its token bucket: an id, a page without one,   *)
(* or no token to be had.  A throttled answer skips PostgreSQL.            *)
ResolveOnline(q) ==
    /\ At(q, "live")
    /\ \E a \in Answers :
          req' = [req EXCEPT ![q].answer = a,
                             ![q].pc = IF a = Throttled THEN "cache" ELSE "persist"]
    /\ UNCHANGED <<l1, l2, lock, inbox, faulty>>

(* Upsert and commit; an error is swallowed.                               *)
Persist(q) ==
    /\ At(q, "persist")
    /\ \/ /\ l2' = [l2 EXCEPT ![req[q].city] = req[q].answer]
          /\ UNCHANGED faulty
       \/ /\ faulty' = TRUE
          /\ UNCHANGED l2
    /\ Goto(q, "cache")
    /\ UNCHANGED <<l1, lock, inbox>>

CacheL1(q) ==
    /\ At(q, "cache")
    /\ WriteL1(q)
    /\ IF req[q].won THEN Goto(q, "publish") ELSE Return(q)
    /\ UNCHANGED <<l2, lock, inbox>>

(* To those that are subscribed now; only their first message counts.      *)
Subscribed(c) == {p \in Requests : req[p].city = c /\ req[p].pc \in WaitPcs}

Publish(q) ==
    /\ At(q, "publish")
    /\ \/ /\ inbox' = [p \in Requests |->
                IF p \in Subscribed(req[q].city) /\ inbox[p] = Nothing
                THEN req[q].answer ELSE inbox[p]]
          /\ UNCHANGED faulty
       \/ /\ faulty' = TRUE                           \* Redis error
          /\ UNCHANGED inbox
    /\ Goto(q, "unlock")
    /\ UNCHANGED <<l1, l2, lock>>

(* DELETE, whoever's the lock is by now; an error is swallowed.            *)
Unlock(q) ==
    /\ At(q, "unlock")
    /\ \/ /\ lock' = lock \ {req[q].city}
          /\ UNCHANGED faulty
       \/ /\ faulty' = TRUE
          /\ UNCHANGED lock
    /\ Return(q)
    /\ UNCHANGED <<l1, l2, inbox>>

-----------------------------------------------------------------------------
(* Failing                                                                 *)

(* The SELECT, the SUBSCRIBE or a token bucket's GET raises: the winner    *)
(* deletes its lock and publishes nothing.                                 *)
Raise(q) ==
    /\ req[q].pc \in {"l2", "subscribe", "live"}
    /\ IF req[q].won THEN Goto(q, "unlock") ELSE Return(q)
    /\ faulty' = TRUE
    /\ UNCHANGED <<l1, l2, lock, inbox>>

(* The process dies.                                                       *)
Crash(q) ==
    /\ ~At(q, "idle")
    /\ Return(q) /\ Unsubscribe(q)
    /\ faulty' = TRUE
    /\ UNCHANGED <<l1, l2, lock>>

ExpireL1(c) ==
    /\ l1[c] # Nothing
    /\ l1' = [l1 EXCEPT ![c] = Nothing]
    /\ faulty' = TRUE
    /\ UNCHANGED <<l2, lock, inbox, req>>

(* Three engines of ten seconds each, after a wait for the semaphore, may  *)
(* well take longer than the lock's thirty seconds.                        *)
ExpireLock(c) ==
    /\ c \in lock
    /\ lock' = lock \ {c}
    /\ faulty' = TRUE
    /\ UNCHANGED <<l1, l2, inbox, req>>

-----------------------------------------------------------------------------
Step(q) ==
    \/ ReadL1(q) \/ ReadL2(q) \/ WarmL1(q)
    \/ Lock(q) \/ Subscribe(q) \/ Recheck(q) \/ Hear(q) \/ Timeout(q)
    \/ Permit(q) \/ ResolveOnline(q) \/ Persist(q) \/ CacheL1(q)
    \/ Publish(q) \/ Unlock(q)

Next ==
    \/ \E q \in Requests : (\E c \in Cities : Begin(q, c)) \/ Step(q)
                           \/ Raise(q) \/ Crash(q)
    \/ \E c \in Cities : ExpireL1(c) \/ ExpireLock(c)

(* The event loop runs every call that can go on, timeouts fire, engines   *)
(* answer within theirs, and the semaphore is first come, first served.    *)
Fairness == \A q \in Requests : WF_vars(Step(q)) /\ SF_vars(Permit(q))
Spec == Init /\ [][Next]_vars /\ Fairness

-----------------------------------------------------------------------------
(* "Singleflight-locked per key": until something fails or expires, one    *)
(* call at most is between the lock of a city and its release.             *)
Winning(c) == {q \in Requests : req[q].won /\ req[q].city = c}
OneWinner ==
    ~faulty => \A c \in Cities :
        /\ \A p, q \in Winning(c) : p = q
        /\ c \in lock <=> Winning(c) # {}

(* "Subscribe BEFORE re-checking cache to close the race window": until    *)
(* something fails, a subscriber with no message is waiting for a winner   *)
(* that has yet to publish.                                                *)
YetToPublish(c) ==
    \E p \in Winning(c) : req[p].pc \in {"permit", "publish"} \cup LivePcs
NoLostWakeup ==
    ~faulty => \A q \in Requests :
        At(q, "listen") /\ inbox[q] = Nothing => YetToPublish(req[q].city)

(* Liveness: every call returns, whatever fails around it, the winner it   *)
(* waits for included.                                                     *)
EveryCallReturns == \A q \in Requests : ~At(q, "idle") ~> At(q, "idle")

-----------------------------------------------------------------------------
(* The inductive invariant behind OneWinner and NoLostWakeup.  Where the   *)
(* winner of a lock can be, and what is in its hand:                       *)
WinnersOK ==
    \A q \in Requests :
        /\ req[q].pc \in {"permit", "publish", "unlock"} => req[q].won
        /\ req[q].won => req[q].pc \in {"permit", "publish", "unlock"} \cup LivePcs
        /\ req[q].pc \in {"warm", "persist"} => req[q].answer \in Ids \cup {Unresolved}
        /\ req[q].pc \in {"cache", "publish"} => req[q].answer \in Answers

(* Once it comes to publish, L1 has its answer; so a loser of the lock,    *)
(* from before its SUBSCRIBE on, can count on a message or on L1.          *)
CachedBeforePublish ==
    ~faulty => \A q \in Requests :
        req[q].pc \in {"publish", "unlock"} => l1[req[q].city] # Nothing
LosersServed ==
    ~faulty => \A q \in Requests :
        /\ At(q, "subscribe") => YetToPublish(req[q].city) \/ l1[req[q].city] # Nothing
        /\ At(q, "recheck") => \/ YetToPublish(req[q].city)
                               \/ l1[req[q].city] # Nothing
                               \/ inbox[q] # Nothing

FlightInv ==
    /\ WinnersOK /\ OneWinner /\ CachedBeforePublish /\ LosersServed /\ NoLostWakeup

-----------------------------------------------------------------------------
(* "Numeric IDs are stable forever and unambiguous; once we have one, we   *)
(* keep it", as long as nothing fails.  But a call that missed both caches *)
(* before the winner's row was there takes the lock after it, resolves     *)
(* again, and may find nothing.                                            *)
IdsAreKept ==
    [][\A c \in Cities : ~faulty /\ l2[c] \in Ids => l2'[c] = l2[c]]_vars
=============================================================================
