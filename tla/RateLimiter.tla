------------------------------ MODULE RateLimiter ------------------------------
(***************************************************************************)
(* get_rate_limiter (backend/app/dependencies.py) for one user and one     *)
(* category: a sorted set of instants in Redis is trimmed, added to,       *)
(* counted and given a new expiry by one MULTI/EXEC, and a request over    *)
(* the limit is told when to come back.  What is rejected stays counted.   *)
(*                                                                         *)
(* The member of a request is str(time.time()): two requests that read the *)
(* same instant are one member.  An instant is a number; instants less     *)
(* than Window apart share a window.  Redis runs on the same clock.  A     *)
(* request reads the clock and then awaits its pipeline, so that one with  *)
(* a later instant may be executed first, and trims by its own instant.    *)
(***************************************************************************)
EXTENDS Integers, FiniteSets, FiniteSetsExt

CONSTANTS
    Requests,
    Window,       \* 60 seconds
    Lag,          \* the longest a request takes from its clock to its pipeline
    BaseLimit, ProMultiplier,
    Exempt,       \* the category is in _NO_PRO_MULTIPLIER_CATEGORIES
    MaxClock      \* bound: instants

ASSUME LimiterAssumption ==
    /\ Window \in Nat \ {0} /\ Lag \in Nat /\ BaseLimit \in Nat /\ ProMultiplier \in Nat \ {0}
    /\ Exempt \in BOOLEAN /\ MaxClock \in Nat

VARIABLES
    clock,
    members,      \* Redis: the sorted set, as its scores
    expireAt,     \*        when the key as a whole expires
    request,
    admitted      \* history: the instants of requests let through

limiterVars == <<clock, members, expireAt, request, admitted>>

LimiterTypeOK ==
    /\ clock \in 0..MaxClock
    /\ members \subseteq 0..MaxClock
    /\ expireAt \in 0..(MaxClock + Window)
    /\ admitted \subseteq 0..MaxClock
    /\ request \in [Requests -> [pc : {"idle", "exec", "oldest"}, at : 0..MaxClock,
                               limit : Nat, wait : Nat]]

Limit(tier) == IF ~Exempt /\ tier = "pro" THEN BaseLimit * ProMultiplier ELSE BaseLimit

LimiterInit ==
    /\ clock = 0
    /\ members = {} /\ expireAt = 0
    /\ request = [r \in Requests |-> [pc |-> "idle", at |-> 0, limit |-> 0, wait |-> 0]]
    /\ admitted = {}

(* The limit of the tier the user has at that moment, and the instant.     *)
Arrive(r) ==
    /\ request[r].pc = "idle"
    /\ \E tier \in {"free", "pro"} :
         request' = [request EXCEPT ![r] = [pc |-> "exec", at |-> clock,
                                               limit |-> Limit(tier), wait |-> 0]]
    /\ UNCHANGED <<clock, members, expireAt, admitted>>

Left(now) == {m \in members : m > now - Window}

Ended(r) == request' = [request EXCEPT ![r].pc = "idle"]

(* The pipeline of a request at `now`, with the set it leaves behind.      *)
Counted(r, left) ==
    LET now == request[r].at
    IN  /\ request[r].pc = "exec"
        /\ members' = left
        /\ expireAt' = clock + Window
        /\ IF Cardinality(left) > request[r].limit
           THEN /\ request' = [request EXCEPT ![r].pc = "oldest"]
                /\ UNCHANGED admitted
           ELSE Ended(r) /\ admitted' = admitted \cup {now}
        /\ UNCHANGED clock

(* Mutant: the instant that asks is not among those it trims and counts.   *)
ExecCountFirst(r) ==
    LET now == request[r].at IN
    /\ request[r].pc = "exec"
    /\ members' = Left(now) \cup {now}
    /\ expireAt' = clock + Window
    /\ IF Cardinality(Left(now)) > request[r].limit
       THEN request' = [request EXCEPT ![r].pc = "oldest"] /\ UNCHANGED admitted
       ELSE Ended(r) /\ admitted' = admitted \cup {now}
    /\ UNCHANGED clock

Exec(r) == Counted(r, Left(request[r].at) \cup {request[r].at})

(* ZRANGE 0 0 in a command of its own; a wait of a second at least is      *)
(* answered with the 429.                                                  *)
RetryAfter(r) ==
    LET wait == IF members = {} THEN Window ELSE Window - (request[r].at - Min(members))
    IN  IF wait < 1 THEN 1 ELSE wait

Reject(r) ==
    /\ request[r].pc = "oldest"
    /\ request' = [request EXCEPT ![r].pc = "idle", ![r].wait = RetryAfter(r)]
    /\ UNCHANGED <<clock, members, expireAt, admitted>>

(* Time passes while requests await Redis.  The code bounds none of it: no *)
(* timeout is set on the connection.  Lag names what the wait for the      *)
(* pipeline comes to.                                                      *)
Pass ==
    /\ clock < MaxClock
    /\ \A r \in Requests : request[r].pc = "exec" => clock < request[r].at + Lag
    /\ clock' = clock + 1
    /\ members' = IF expireAt <= clock' THEN {} ELSE members
    /\ UNCHANGED <<expireAt, request, admitted>>

LimiterNext == Pass \/ \E r \in Requests : Arrive(r) \/ Exec(r) \/ Reject(r)

LimiterSpec == LimiterInit /\ [][LimiterNext]_limiterVars

-----------------------------------------------------------------------------
(* Whatever requests overlap, whenever the tier changes and the key        *)
(* expires, no Window - Lag consecutive instants hold more of admitted     *)
(* requests than the largest limit the user has had.  Of a whole Window    *)
(* this is only so when Lag is nothing: a request that reached Redis late  *)
(* finds trimmed what a later instant, executed first, put out of its own  *)
(* window.                                                                 *)
WindowBounded ==
    \A t \in 0..MaxClock :
        Cardinality({a \in admitted : a <= t /\ a > t - (Window - Lag)}) <= Limit("pro")

-----------------------------------------------------------------------------
(* The inductive invariant behind WindowBounded: a request about to be     *)
(* executed has read the clock within the last Lag, under a limit the user *)
(* has had; whatever was admitted in the last Window is in the set; the    *)
(* key outlives its members.                                               *)
InFlight ==
    \A r \in Requests :
        /\ request[r].at <= clock
        /\ request[r].pc = "exec" => clock <= request[r].at + Lag
LimitKnown ==
    \A r \in Requests : request[r].pc = "exec" => request[r].limit <= Limit("pro")
Remembered ==
    /\ admitted \subseteq 0..clock /\ members \subseteq 0..clock
    /\ \A a \in admitted : a > clock - Window => a \in members
    /\ \A m \in members : m + Window <= expireAt
LimiterInv == InFlight /\ LimitKnown /\ Remembered /\ WindowBounded

=============================================================================
