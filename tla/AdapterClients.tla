----------------------------- MODULE AdapterClients -----------------------------
(***************************************************************************)
(* The calls that leave the backend: ContainerClient and the per-retailer  *)
(* HTTP adapters (backend/modules/m2_prices), the scraper containers they  *)
(* fall back to (containers/base/server.py), and the sourcing adapters     *)
(* (sourcing/m15_sourcing/adapters), which share M2's eBay token.          *)
(*                                                                         *)
(* A call goes out on a route and always ends in an answer, listings or    *)
(* the code of an error, never in an exception; which, nothing here tells  *)
(* apart.  The services are external: they reply what they like.           *)
(***************************************************************************)
EXTENDS Naturals, Sequences

CONSTANTS
    Calls, Nobody,
    Asked,            \* the routes asked for
    Configured,       \* those whose credentials are set
    Attempts,         \* of a route: 1 + CONTAINER_RETRY_COUNT, BESTBUY_MAX_ATTEMPTS,
                      \* CHALLENGE_MAX_ATTEMPTS, 1 for the others
    Lifetime, Buffer, \* of an eBay token; _TOKEN_REFRESH_BUFFER
    Interval,         \* _MIN_REQUEST_INTERVAL_S
    MaxTokens, MaxScripts, MaxNow   \* bounds

Routes == Asked \cup {"container"}

ASSUME ClientAssumption ==
    /\ Nobody \notin Calls
    /\ \A route \in Routes : Attempts[route] \in Nat \ {0}
    /\ {Lifetime, Buffer, Interval, MaxTokens, MaxScripts, MaxNow} \subseteq Nat

VARIABLES
    now,
    cached,       \* _token_cache: [id, expires]
    tokenLock,    \* who holds _token_lock
    issued,       \* eBay: when each token it issued expires
    revoked,      \* eBay: those it has rejected before that
    pace,         \* _rate_lock and _last_request_at
    scripts,      \* extractions running that nobody waits for
    call,         \* of a call: [pc, route, tries, token, at]
    rejected      \* history: tokens for which fetch_ebay has handled a 401

tokenVars == <<cached, tokenLock, issued, revoked, rejected>>
clientVars == <<now, tokenVars, pace, scripts, call>>

NoToken == [id |-> 0, expires |-> 0]
NoCall == [pc |-> "idle", route |-> "container", tries |-> 0, token |-> 0, at |-> 0]

ClientTypeOK ==
    /\ now \in 0..MaxNow /\ cached.id \in 0..Len(issued) /\ Len(issued) <= MaxTokens
    /\ {tokenLock, pace.holder} \subseteq Calls \cup {Nobody}
    /\ \A c \in Calls : call[c].tries < Attempts[call[c].route]

ClientInit ==
    /\ now = 0 /\ cached = NoToken /\ tokenLock = Nobody
    /\ issued = <<>> /\ revoked = {} /\ rejected = {}
    /\ pace = [holder |-> Nobody, last |-> 0]
    /\ scripts = 0
    /\ call = [c \in Calls |-> NoCall]

CallAt(c, pc) == call[c].pc = pc
CallGoes(c, pc) == call' = [call EXCEPT ![c].pc = pc]
Answer(c) == call' = [call EXCEPT ![c] = NoCall]

-----------------------------------------------------------------------------
(* _extract_one: a retailer whose adapter is not configured goes to its    *)
(* container; a sourcing adapter answers that it is not configured.        *)
Sourcing == {"ebay_gtin", "walmart_io"}

Dispatch(c, route) ==
    /\ CallAt(c, "idle")
    /\ call' = [call EXCEPT ![c] =
          CASE route \in Sourcing \ Configured -> NoCall
            [] route \in Configured \cap {"ebay", "ebay_gtin"} ->
                  [NoCall EXCEPT !.route = route, !.pc = "token"]
            [] route \in Configured \cap {"walmart_io"} ->
                  [NoCall EXCEPT !.route = route, !.pc = "pace"]
            [] OTHER -> [NoCall EXCEPT !.pc = "send",
                            !.route = IF route \in Configured THEN route ELSE "container"]]
    /\ UNCHANGED <<now, tokenVars, pace, scripts>>

(* _get_app_token: under the lock, the cached token if it lasts ...        *)
GetAppToken(c) ==
    /\ CallAt(c, "token") /\ tokenLock = Nobody
    /\ IF cached.id # 0 /\ cached.expires > now + Buffer
       THEN /\ call' = [call EXCEPT ![c].pc = "send", ![c].token = cached.id]
            /\ UNCHANGED tokenLock
       ELSE /\ call' = [call EXCEPT ![c].pc = "oauth", ![c].at = now]
            /\ tokenLock' = c
    /\ UNCHANGED <<now, cached, issued, revoked, rejected, pace, scripts>>

(* ... or a new one, whose lifetime is counted from before the exchange.   *)
Exchange(c) ==
    /\ CallAt(c, "oauth") /\ Len(issued) < MaxTokens
    /\ issued' = Append(issued, now + Lifetime)
    /\ cached' = [id |-> Len(issued'), expires |-> call[c].at + Lifetime]
    /\ call' = [call EXCEPT ![c].pc = "send", ![c].token = Len(issued')]
    /\ tokenLock' = Nobody
    /\ UNCHANGED <<now, revoked, rejected, pace, scripts>>

ExchangeFails(c) ==
    /\ CallAt(c, "oauth")
    /\ Answer(c)
    /\ tokenLock' = Nobody
    /\ UNCHANGED <<now, cached, issued, revoked, rejected, pace, scripts>>

Accepts(t) == t \notin revoked /\ issued[t] > now

(* Mutant: a 401 is an error like the others.                              *)
SearchEbayKeepsToken(c) ==
    /\ CallAt(c, "send") /\ call[c].route \in {"ebay", "ebay_gtin"}
    /\ Answer(c)
    /\ rejected' = IF call[c].route = "ebay" /\ ~Accepts(call[c].token)
                   THEN rejected \cup {call[c].token} ELSE rejected
    /\ UNCHANGED <<now, cached, tokenLock, issued, revoked, pace, scripts>>

(* fetch_ebay, lookup_thumbnail and, by GTIN, lookup_by_gtin.  A 401 makes *)
(* the first two clear the cache, whatever token is in it by then; the     *)
(* sourcing adapter leaves it.                                             *)
SearchEbay(c) ==
    /\ CallAt(c, "send") /\ call[c].route \in {"ebay", "ebay_gtin"}
    /\ Answer(c)
    /\ IF call[c].route = "ebay" /\ ~Accepts(call[c].token)
       THEN cached' = NoToken /\ rejected' = rejected \cup {call[c].token}
       ELSE UNCHANGED <<cached, rejected>>
    /\ UNCHANGED <<now, tokenLock, issued, revoked, pace, scripts>>

-----------------------------------------------------------------------------
(* walmart_io: the floor between calls, kept under a lock.                 *)

(* Mutant: the lock is let go for the sleep.                               *)
PaceUnlocked(c) ==
    /\ CallAt(c, "pace") /\ pace.holder = Nobody
    /\ call' = [call EXCEPT ![c].pc = "sleep", ![c].at = pace.last + Interval]
    /\ UNCHANGED <<now, tokenVars, pace, scripts>>

Pace(c) ==
    /\ CallAt(c, "pace") /\ pace.holder = Nobody
    /\ pace' = [pace EXCEPT !.holder = c]
    /\ call' = [call EXCEPT ![c].pc = "sleep", ![c].at = pace.last + Interval]
    /\ UNCHANGED <<now, tokenVars, scripts>>

LetThrough(c) ==
    /\ CallAt(c, "sleep") /\ now >= call[c].at
    /\ pace' = [holder |-> Nobody, last |-> now]
    /\ CallGoes(c, "send")
    /\ UNCHANGED <<now, tokenVars, scripts>>

-----------------------------------------------------------------------------
(* The attempts.  An answer, good or not, is final but for the replies an  *)
(* adapter thinks worth another attempt, while it has one.                 *)
Sending(c, route) == CallAt(c, "send") /\ call[c].route = route

(* Mutant: one more.                                                       *)
AgainOnceMore(c) ==
    IF call[c].tries < Attempts[call[c].route]
    THEN call' = [call EXCEPT ![c].tries = @ + 1]
    ELSE Answer(c)

Again(c) ==
    IF call[c].tries + 1 < Attempts[call[c].route]
    THEN call' = [call EXCEPT ![c].tries = @ + 1]
    ELSE Answer(c)

(* fetch_amazon: the parse may fail in many ways; nothing is tried again.  *)
FetchAmazon(c) ==
    /\ Sending(c, "amazon")
    /\ Answer(c)
    /\ UNCHANGED <<now, tokenVars, pace, scripts>>

(* lookup_by_upc, let through: a 404 is an answer, the rest errors.        *)
LookupByUpc(c) ==
    /\ Sending(c, "walmart_io")
    /\ Answer(c)
    /\ UNCHANGED <<now, tokenVars, pace, scripts>>

(* fetch_best_buy: _RETRYABLE_STATUSES, after Retry-After.                 *)
FetchBestBuy(c) ==
    /\ Sending(c, "best_buy")
    /\ Answer(c) \/ Again(c)
    /\ UNCHANGED <<now, tokenVars, pace, scripts>>

(* fetch_walmart through the proxy: a challenge page, after a pause.       *)
FetchWalmart(c) ==
    /\ Sending(c, "walmart")
    /\ Answer(c) \/ Again(c)
    /\ UNCHANGED <<now, tokenVars, pace, scripts>>

(* fetch_walmart through Firecrawl: a challenge page.                      *)
FetchWalmartFirecrawl(c) ==
    /\ Sending(c, "firecrawl")
    /\ Answer(c) \/ Again(c)
    /\ UNCHANGED <<now, tokenVars, pace, scripts>>

(* extract: no connection is tried again, and so is a time-out, while the  *)
(* extraction it gave up on goes on in the container.                      *)
Extract(c) ==
    /\ Sending(c, "container")
    /\ \/ (Answer(c) \/ Again(c)) /\ UNCHANGED scripts
       \/ scripts < MaxScripts /\ scripts' = scripts + 1 /\ Again(c)
    /\ UNCHANGED <<now, tokenVars, pace>>

(* The server's own EXTRACT_TIMEOUT (six times the client's) answers, but  *)
(* does not kill the script: it ends when it ends.                         *)
ScriptEnds ==
    /\ scripts > 0 /\ scripts' = scripts - 1
    /\ UNCHANGED <<now, tokenVars, pace, call>>

(* A client that goes away cancels its calls, which release their locks.   *)
Cancel(c) ==
    /\ ~CallAt(c, "idle")
    /\ Answer(c)
    /\ tokenLock' = IF tokenLock = c THEN Nobody ELSE tokenLock
    /\ pace' = IF pace.holder = c THEN [pace EXCEPT !.holder = Nobody] ELSE pace
    /\ UNCHANGED <<now, cached, issued, revoked, rejected, scripts>>

Revoke(t) ==
    /\ t \notin revoked /\ revoked' = revoked \cup {t}
    /\ UNCHANGED <<now, cached, tokenLock, issued, rejected, pace, scripts, call>>

Tick ==
    /\ now < MaxNow /\ now' = now + 1
    /\ UNCHANGED <<tokenVars, pace, scripts, call>>

ClientNext ==
    \/ \E c \in Calls :
          \/ \E route \in Asked : Dispatch(c, route)
          \/ GetAppToken(c) \/ Exchange(c) \/ ExchangeFails(c) \/ SearchEbay(c)
          \/ Pace(c) \/ LetThrough(c) \/ LookupByUpc(c) \/ FetchAmazon(c) \/ FetchBestBuy(c)
          \/ FetchWalmart(c) \/ FetchWalmartFirecrawl(c) \/ Extract(c) \/ Cancel(c)
    \/ \E t \in DOMAIN issued : Revoke(t)
    \/ ScriptEnds \/ Tick

ClientSpec == ClientInit /\ [][ClientNext]_clientVars

-----------------------------------------------------------------------------
(* "401 likely means our cached token was invalidated server-side; clear   *)
(* so the next call forces a refresh": a token for which M2 has handled a  *)
(* 401 is never handed out of the cache again, and one handed out of it is *)
(* good for longer than the buffer unless eBay revokes it.  (A call that   *)
(* took it before the 401 was handled may still send it.)                  *)
TokensUsable ==
    [][\A c \in Calls : CallAt(c, "token") /\ call'[c].pc = "send" =>
          /\ call'[c].token \notin rejected
          /\ issued[call'[c].token] > now + Buffer]_clientVars

(* "Held across the sleep so concurrent callers queue": however calls      *)
(* overlap and whichever are cancelled, two are never let through closer   *)
(* together than the floor.                                                *)
WalmartPaced ==
    [][\A c \in Calls : CallAt(c, "sleep") /\ call'[c].pc = "send" =>
          now >= pace.last + Interval]_clientVars

(* The inductive invariant behind both.  A token that M2 has been refused  *)
(* is not the cached one, which lasts at least as long as the cache says;  *)
(* and who sleeps holds the lock, on a wake-up time nobody can make stale. *)
CallStates == [pc : {"idle", "token", "oauth", "send", "pace", "sleep"}, route : Routes,
               tries : Nat, token : Nat, at : Nat]

CallsTyped ==
    /\ call \in [Calls -> CallStates] /\ issued \in Seq(Nat)
    /\ cached \in [id : Nat, expires : Nat]
    /\ pace \in [holder : Calls \cup {Nobody}, last : Nat]

TokensKnown ==
    /\ rejected \subseteq 1..Len(issued)
    /\ cached.id # 0 => cached.id \notin rejected /\ issued[cached.id] >= cached.expires
    /\ \A c \in Calls : CallAt(c, "send") /\ call[c].route \in {"ebay", "ebay_gtin"} =>
                             call[c].token \in 1..Len(issued)

OneExchange == \A c \in Calls : CallAt(c, "oauth") => tokenLock = c /\ call[c].at <= now

OneSleeper ==
    \A c \in Calls :
        /\ CallAt(c, "sleep") => pace.holder = c /\ call[c].at = pace.last + Interval
        /\ call[c].pc \in {"pace", "sleep"} => call[c].route = "walmart_io"

ClientInv == CallsTyped /\ ClientTypeOK /\ TokensKnown /\ OneExchange /\ OneSleeper
=============================================================================
