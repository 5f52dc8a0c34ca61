----------------------------- MODULE RetailerHealth -----------------------------
(***************************************************************************)
(* retailer_health: the monitor polls a container and records the answer   *)
(* (HealthMonitorService, backend/modules/m2_prices/health_monitor.py);    *)
(* the watchdog tests extraction, classifies, retries, escalates or has    *)
(* the extraction script rewritten by a model (WatchdogSupervisor,         *)
(* backend/workers/watchdog.py, run by scripts/run_watchdog.py).           *)
(*                                                                         *)
(* A watchdog works through its retailers in one transaction: a row it has *)
(* written is locked, and its changes are unseen, until it commits.  What  *)
(* it spends on the model and writes to the staging directory is spent and *)
(* written at once.                                                        *)
(***************************************************************************)
EXTENDS Naturals, FiniteSets

CONSTANTS
    Retailers, Watchdogs,
    Degraded,      \* DEGRADED_THRESHOLD
    MaxHeals,      \* max_heal_attempts
    Retries,       \* MAX_TRANSIENT_RETRIES
    MaxFailures,   \* bound: failed polls counted
    MaxCalls,      \* bound: calls to the model
    NoHealth       \* the retailer has no row; no retailer

ASSUME HealthAssumption ==
    /\ IsFiniteSet(Watchdogs) /\ Watchdogs # {}
    /\ {Degraded, MaxHeals, Retries, MaxFailures, MaxCalls} \subseteq Nat /\ MaxFailures > 0
    /\ NoHealth \notin Retailers
    /\ NoHealth \notin [status : {"healthy", "degraded", "healing"},
                        failures : 0..MaxFailures, heals : 0..MaxCalls]

VARIABLES
    health,    \* retailer_health, committed
    dog,       \* [pc, todo: retailers to check, at: the one in hand, tx, tries, dry]
    calls,     \* history: calls to the model, of each retailer
    ended      \* history: "died", a watchdog with work done; "rowless", a heal without a row

healthVars == <<health, dog, calls, ended>>

Rows == [status : {"healthy", "degraded", "healing"},
         failures : 0..MaxFailures, heals : 0..MaxCalls]
Diagnoses == {"success", "transient", "blocked", "selector_drift"}
NoRows == [r \in {} |-> NoHealth]
Asleep == [pc |-> "off", todo |-> {}, at |-> NoHealth, tx |-> NoRows, tries |-> 0, dry |-> FALSE]

HealthTypeOK ==
    /\ health \in [Retailers -> Rows \cup {NoHealth}]
    /\ \A d \in Watchdogs :
         /\ dog[d].pc \in {"off", "check", "retry", "budget", "mark", "heal", "count", "record", "block"}
         /\ dog[d].todo \subseteq Retailers /\ dog[d].at \in Retailers \cup {NoHealth}
         /\ DOMAIN dog[d].tx \subseteq Retailers
         /\ \A r \in DOMAIN dog[d].tx : dog[d].tx[r] \in Rows
    /\ calls \in [Retailers -> 0..MaxCalls]
    /\ ended \subseteq {"died", "rowless"}

HealthInit ==
    /\ health \in [Retailers -> {NoHealth, [status |-> "healthy", failures |-> 0, heals |-> 0]}]
    /\ dog = [d \in Watchdogs |-> Asleep]
    /\ calls = [r \in Retailers |-> 0]
    /\ ended = {}

-----------------------------------------------------------------------------
(* What the health monitor makes of a row                                  *)

Recovered(row) ==
    IF row = NoHealth THEN [status |-> "healthy", failures |-> 0, heals |-> 0]
    ELSE [row EXCEPT !.status = "healthy", !.failures = 0]

(* The upsert counts; the UPDATE after it degrades at the threshold.  A    *)
(* retailer first seen failing starts degraded.                            *)
Failed(row) ==
    IF row = NoHealth THEN [status |-> "degraded", failures |-> 1, heals |-> 0]
    ELSE LET counted == [row EXCEPT !.failures = IF @ < MaxFailures THEN @ + 1 ELSE @]
         IN  IF counted.failures >= Degraded /\ counted.status # "healing"
             THEN [counted EXCEPT !.status = "degraded"] ELSE counted

Polled(row) == {Recovered(row), Failed(row)}

LockedBy(d, r) == r \in DOMAIN dog[d].tx

(* POST /health/retailers/check, in a transaction of its own.              *)
CheckOne(r) ==
    /\ \A d \in Watchdogs : ~LockedBy(d, r)
    /\ \E row \in Polled(health[r]) : health' = [health EXCEPT ![r] = row]
    /\ UNCHANGED <<dog, calls, ended>>

-----------------------------------------------------------------------------
(* The watchdog                                                            *)

DogAt(d, pc) == dog[d].pc = pc
Rid(d) == dog[d].at
View(d, r) == IF LockedBy(d, r) THEN dog[d].tx[r] ELSE health[r]
MayWrite(d, r) == \A e \in Watchdogs \ {d} : ~LockedBy(e, r)

(* An UPDATE of a row that is not there changes nothing and locks nothing. *)
Written(d, r, row) ==
    IF row = NoHealth THEN dog[d].tx
    ELSE [s \in DOMAIN dog[d].tx \cup {r} |-> IF s = r THEN row ELSE dog[d].tx[s]]

DogIs(d, t) == dog' = [dog EXCEPT ![d] = t]
DogGoes(d, pc) == DogIs(d, [dog[d] EXCEPT !.pc = pc])
DogMoves(d) == DogGoes(d, "check")

Wake(d) ==
    /\ DogAt(d, "off")
    /\ \E todo \in {Retailers} \cup { {r} : r \in Retailers }, dry \in BOOLEAN :
         DogIs(d, [Asleep EXCEPT !.pc = "check", !.todo = todo, !.dry = dry])
    /\ UNCHANGED <<health, calls, ended>>

(* The test extraction of a retailer and what its classification leads to. *)
ActOn(diagnosis, dry) ==
    CASE diagnosis = "success"   -> IF dry THEN "check" ELSE "record"
      [] diagnosis = "transient" -> "retry"
      [] diagnosis = "blocked"   -> IF dry THEN "check" ELSE "block"
      [] OTHER                   -> "budget"

Diagnose(d) ==
    /\ DogAt(d, "check")
    /\ \E r \in dog[d].todo, diagnosis \in Diagnoses :
         DogIs(d, [dog[d] EXCEPT !.pc = ActOn(diagnosis, dog[d].dry), !.todo = @ \ {r},
                                 !.at = r, !.tries = Retries])
    /\ UNCHANGED <<health, calls, ended>>

(* _handle_transient: backoff and another extraction.                      *)
RetryOnce(d) ==
    /\ DogAt(d, "retry")
    /\ \/ IF dog[d].dry THEN DogMoves(d) ELSE DogGoes(d, "record")        \* retry_resolved
       \/ IF dog[d].tries > 1 THEN DogIs(d, [dog[d] EXCEPT !.tries = @ - 1])
          ELSE DogMoves(d)                                           \* retry_exhausted
    /\ UNCHANGED <<health, calls, ended>>

(* check_one in the watchdog's session.                                    *)
Record(d) ==
    /\ DogAt(d, "record") /\ MayWrite(d, Rid(d))
    /\ \E row \in Polled(View(d, Rid(d))) :
         DogIs(d, [dog[d] EXCEPT !.pc = "check", !.tx = Written(d, Rid(d), row)])
    /\ UNCHANGED <<health, calls, ended>>

SetStatus(row, status) == IF row = NoHealth THEN NoHealth ELSE [row EXCEPT !.status = status]

(* _handle_blocked: escalated, and degraded whatever it was.               *)
Block(d) ==
    /\ DogAt(d, "block") /\ MayWrite(d, Rid(d))
    /\ LET row == SetStatus(View(d, Rid(d)), "degraded")
       IN  DogIs(d, [dog[d] EXCEPT !.pc = "check", !.tx = Written(d, Rid(d), row)])
    /\ UNCHANGED <<health, calls, ended>>

Spent(row) == IF row = NoHealth THEN 0 ELSE row.heals

(* _handle_selector_drift reads the budget,                                *)
Budget(d) ==
    /\ DogAt(d, "budget")
    /\ IF Spent(View(d, Rid(d))) >= MaxHeals \/ dog[d].dry
       THEN DogMoves(d) ELSE DogGoes(d, "mark")
    /\ UNCHANGED <<health, calls, ended>>

(* marks the row, and stops there if the script is not on disk,            *)
MarkHealing(d) ==
    /\ DogAt(d, "mark") /\ MayWrite(d, Rid(d))
    /\ \E pc \in {"heal", "check"} :
         LET row == SetStatus(View(d, Rid(d)), "healing")
         IN  DogIs(d, [dog[d] EXCEPT !.pc = pc, !.tx = Written(d, Rid(d), row)])
    /\ UNCHANGED <<health, calls, ended>>

(* Mutant: an answer without a script is not counted.                      *)
HealStagedOnly(d) ==
    /\ DogAt(d, "heal") /\ calls[Rid(d)] < MaxCalls
    /\ calls' = [calls EXCEPT ![Rid(d)] = @ + 1]
    /\ DogGoes(d, "count") \/ DogMoves(d)
    /\ ended' = ended \cup IF View(d, Rid(d)) = NoHealth THEN {"rowless"} ELSE {}
    /\ UNCHANGED health

(* asks the model, whose answer is a script, nothing or an error,          *)
Heal(d) ==
    /\ DogAt(d, "heal") /\ calls[Rid(d)] < MaxCalls
    /\ calls' = [calls EXCEPT ![Rid(d)] = @ + 1]
    /\ DogGoes(d, "count")
    /\ ended' = ended \cup IF View(d, Rid(d)) = NoHealth THEN {"rowless"} ELSE {}
    /\ UNCHANGED health

(* and counts the attempt in each of these cases.                          *)
CountHeal(d) ==
    /\ DogAt(d, "count") /\ MayWrite(d, Rid(d))
    /\ LET row == View(d, Rid(d))
           next == IF row = NoHealth THEN NoHealth ELSE [row EXCEPT !.heals = @ + 1]
       IN  DogIs(d, [dog[d] EXCEPT !.pc = "check", !.tx = Written(d, Rid(d), next)])
    /\ UNCHANGED <<health, calls, ended>>

(* The CLI commits once everything has been checked.                       *)
CommitDog(d) ==
    /\ DogAt(d, "check") /\ dog[d].todo = {}
    /\ health' = [r \in Retailers |-> View(d, r)]
    /\ DogIs(d, Asleep)
    /\ UNCHANGED <<calls, ended>>

(* A statement raises or the process dies, and with it the transaction.    *)
Die(d) ==
    /\ ~DogAt(d, "off")
    /\ ended' = ended \cup IF DOMAIN dog[d].tx # {} \/ DogAt(d, "count") THEN {"died"} ELSE {}
    /\ DogIs(d, Asleep)
    /\ UNCHANGED <<health, calls>>

HealthNext ==
    \/ \E r \in Retailers : CheckOne(r)
    \/ \E d \in Watchdogs :
         \/ Wake(d) \/ Diagnose(d) \/ RetryOnce(d) \/ Record(d) \/ Block(d) \/ Budget(d)
         \/ MarkHealing(d) \/ Heal(d) \/ CountHeal(d) \/ CommitDog(d) \/ Die(d)

HealthSpec == HealthInit /\ [][HealthNext]_healthVars

-----------------------------------------------------------------------------
(* "Max 3 heal attempts per retailer", nightly runs, manual ones and the   *)
(* monitor's polls notwithstanding: watchdogs that read the budget         *)
(* together overspend it by one call each at most.  It takes a row to      *)
(* count in, and watchdogs that live to commit what they counted.          *)
HealBudget ==
    ended = {} => \A r \in Retailers : calls[r] <= MaxHeals + Cardinality(Watchdogs) - 1
-----------------------------------------------------------------------------
(* Why: what a watchdog, in state t, owes a row: calls to the model that   *)
(* no committed row counts yet.                                            *)

DogStates ==
    [pc : {"off", "check", "retry", "budget", "mark", "heal", "count", "record", "block"},
     todo : SUBSET Retailers, at : Retailers \cup {NoHealth},
     tx : UNION {[S -> Rows] : S \in SUBSET Retailers}, tries : Nat, dry : BOOLEAN]

HealthTyped ==
    /\ health \in [Retailers -> Rows \cup {NoHealth}]
    /\ dog \in [Watchdogs -> DogStates]
    /\ calls \in [Retailers -> 0..MaxCalls]
    /\ ended \subseteq {"died", "rowless"}

(* A watchdog meets a retailer once: the row it is about to write is not   *)
(* one it has written, except for the mark before a heal.                  *)
OneVisit(t) ==
    /\ t.pc = "off" => t = Asleep
    /\ \A r \in DOMAIN t.tx : r \notin t.todo
    /\ t.at \notin t.todo
    /\ t.pc \notin {"off", "check"} => t.at \in Retailers
    /\ t.pc \in {"retry", "record", "block", "budget", "mark"} => t.at \notin DOMAIN t.tx

(* A row in its transaction is at most one heal ahead of the committed.    *)
OneAhead(t) ==
    \A r \in DOMAIN t.tx :
      /\ t.tx[r].heals \in {Spent(health[r]), Spent(health[r]) + 1}
      /\ t.pc \in {"heal", "count"} /\ r = t.at => t.tx[r].heals = Spent(health[r])

HasRow(t) == t.pc = "count" => t.at \in DOMAIN t.tx \/ health[t.at] # NoHealth

Owes(t, r) ==
    \/ t.pc = "count" /\ t.at = r
    \/ r \in DOMAIN t.tx /\ t.tx[r].heals = Spent(health[r]) + 1
Claims(t, r) == Owes(t, r) \/ (t.pc \in {"mark", "heal"} /\ t.at = r)

Owing(r) == {d \in Watchdogs : Owes(dog[d], r)}
Claiming(r) == {d \in Watchdogs : Claims(dog[d], r)}

LocksExclude ==
    \A d, e \in Watchdogs : d # e => \A r \in Retailers : ~(LockedBy(d, r) /\ LockedBy(e, r))

CallsAccounted ==
    \A r \in Retailers :
      /\ Spent(health[r]) + Cardinality(Owing(r)) <= calls[r]
      /\ ended = {} => calls[r] <= Spent(health[r]) + Cardinality(Owing(r))
      /\ Spent(health[r]) + Cardinality(Claiming(r)) <= MaxHeals + Cardinality(Watchdogs) - 1

HealthInv ==
    /\ HealthTyped /\ LocksExclude /\ CallsAccounted
    /\ \A d \in Watchdogs : OneVisit(dog[d]) /\ OneAhead(dog[d])
    /\ ended = {} => \A d \in Watchdogs : HasRow(dog[d])
=============================================================================
