------------------------------ MODULE PortalRates ------------------------------
(***************************************************************************)
(* Cashback portals: the worker that scrapes their rates                   *)
(* (backend/workers/portal_rates.py), its alerts                           *)
(* (backend/modules/m13_portal/alerting.py), run together in one           *)
(* transaction by infrastructure/lambda/portal_worker/handler.py, and the  *)
(* offers made from what it stored (PortalMonetizationService,             *)
(* backend/modules/m13_portal/service.py).                                 *)
(*                                                                         *)
(* A tick is the six hours between two runs; a rate is a percentage.       *)
(***************************************************************************)
EXTENDS Naturals, Sequences, FiniteSets, FiniteSetsExt, SequencesExt, Ordered

CONSTANTS
    Portals,           \* PORTAL_SOURCES, numbered in their alphabetical order
    Stores,            \* the retailers RETAILER_NAME_ALIASES knows
    Rates,             \* the rates that occur
    Was,               \* the baselines named by a page; 0 for a page without one
    Slugs,             \* pairs of portal and store with a page of their own
    Referrals,         \* the portals a referral URL is set for
    Enabled,           \* PORTAL_MONETIZATION_ENABLED: a set of the values tried
    AlertThreshold,    \* _FAILURE_ALERT_THRESHOLD
    Throttle,          \* _ALERT_THROTTLE, in ticks
    Staleness,         \* _STALENESS_THRESHOLD, in ticks
    MaxCtas,           \* _MAX_CTAS_PER_RETAILER
    LastTick,          \* bound: ticks
    NoBonus, NeverSent

ASSUME PortalAssumption ==
    /\ Portals \subseteq Nat /\ Rates \subseteq Nat /\ Was \subseteq Nat
    /\ IsFiniteSet(Portals) /\ IsFiniteSet(Stores)
    /\ {AlertThreshold, Throttle, Staleness, MaxCtas, LastTick} \subseteq Nat /\ NeverSent \notin Nat

VARIABLES
    tick,
    bonus,      \* portal_bonuses, committed
    watch,      \* portal_configs, committed: [failures, alerted]
    scrape,     \* the run: [pc, bonus, watch, counts, todo]
    mails,      \* history: the e-mails sent, as <<portal, tick>>
    lost        \* history: a run that mailed was rolled back

portalVars == <<tick, bonus, watch, scrape, mails, lost>>

Bonuses == [rate : Rates, normal : Rates \cup Was, verified : 0..LastTick]
Watches == [failures : 0..LastTick, alerted : 0..LastTick \cup {NeverSent}]
NoRun == [pc |-> "idle", bonus |-> <<>>, watch |-> <<>>, counts |-> <<>>, todo |-> {}]

PortalTypeOK ==
    /\ tick \in 0..LastTick
    /\ bonus \in [Portals \X Stores -> Bonuses \cup {NoBonus}]
    /\ watch \in [Portals -> Watches]
    /\ scrape.pc \in {"idle", "scrape", "alert"}
    /\ mails \in Seq(Portals \X (0..LastTick)) /\ lost \in BOOLEAN

PortalInit ==
    /\ tick = 0
    /\ bonus = [k \in Portals \X Stores |-> NoBonus]
    /\ watch = [p \in Portals |-> [failures |-> 0, alerted |-> NeverSent]]
    /\ scrape = NoRun
    /\ mails = <<>> /\ lost = FALSE

-----------------------------------------------------------------------------
(* The worker                                                              *)

(* upsert_portal_bonus.  The baseline is kept unless the page names one.   *)
(* `seen` is a page, and a `was` of 0 stands for none.                     *)
Upserted(old, seen) ==
    [rate |-> seen.rate, verified |-> tick,
     normal |-> IF seen.was # 0 THEN seen.was
                ELSE IF old = NoBonus THEN seen.rate ELSE old.normal]

(* is_elevated, a generated column.                                        *)
Elevated(b) == 2 * b.rate > 3 * b.normal

(* EventBridge fires once a tick.                                          *)
BeginScrape ==
    /\ tick < LastTick /\ scrape.pc = "idle"
    /\ tick' = tick + 1
    /\ scrape' = [pc |-> "scrape", bonus |-> bonus, watch |-> watch,
                  counts |-> [p \in Portals |-> 0], todo |-> Portals]
    /\ UNCHANGED <<bonus, watch, mails, lost>>

(* What a parser finds on its portal's page: some of the stores, at a rate *)
(* and perhaps a former one; on a page of another shape, nothing.          *)
Pages == [stores : SUBSET Stores, rate : Rates, was : Was]

(* The next portal: a network error, a block or an error status count as   *)
(* no rate.                                                                *)
ScrapePortal ==
    /\ scrape.pc = "scrape" /\ scrape.todo # {}
    /\ LET p == Min(scrape.todo)
       IN  \E page \in Pages :
             scrape' = [scrape EXCEPT
                !.bonus = [k \in DOMAIN @ |-> IF k[1] = p /\ k[2] \in page.stores
                              THEN Upserted(@[k], page) ELSE @[k]],
                !.counts[p] = Cardinality(page.stores), !.todo = @ \ {p}]
    /\ UNCHANGED <<tick, bonus, watch, mails, lost>>

ScrapeDone ==
    /\ scrape.pc = "scrape" /\ scrape.todo = {}
    /\ scrape' = [scrape EXCEPT !.pc = "alert", !.todo = Portals]
    /\ UNCHANGED <<tick, bonus, watch, mails, lost>>

WithinThrottle(alerted) == alerted # NeverSent /\ tick - alerted < Throttle

(* send_failure_alert_if_warranted for one portal, whose counter a run     *)
(* with rates resets: whether it keeps the time of the last alert.         *)
AlertKeeping(keeps) ==
    /\ scrape.pc = "alert" /\ scrape.todo # {}
    /\ LET p == Min(scrape.todo)
           w == scrape.watch[p]
           failed == [w EXCEPT !.failures = @ + 1]
           due == failed.failures >= AlertThreshold /\ ~WithinThrottle(w.alerted)
           Goes(v) == scrape' = [scrape EXCEPT !.watch[p] = v, !.todo = @ \ {p}]
       IN  \/ /\ scrape.counts[p] > 0
              /\ Goes([failures |-> 0, alerted |-> IF keeps THEN w.alerted ELSE NeverSent])
              /\ UNCHANGED mails
           \/ scrape.counts[p] = 0 /\ ~due /\ Goes(failed) /\ UNCHANGED mails
           \/ /\ scrape.counts[p] = 0 /\ due
              /\ \/ Goes([failed EXCEPT !.alerted = tick]) /\ mails' = Append(mails, <<p, tick>>)
                 \/ Goes(failed) /\ UNCHANGED mails      \* no credentials, or Resend raises
    /\ UNCHANGED <<tick, bonus, watch, lost>>

(* Mutant: a recovery forgets the last alert too.                          *)
AlertForgets == AlertKeeping(FALSE)

Alert == AlertKeeping(TRUE)

CommitScrape ==
    /\ scrape.pc = "alert" /\ scrape.todo = {}
    /\ bonus' = scrape.bonus /\ watch' = scrape.watch
    /\ scrape' = NoRun
    /\ UNCHANGED <<tick, mails, lost>>

(* A statement fails, or the Lambda is stopped: nothing is committed.      *)
AbortScrape ==
    /\ scrape.pc # "idle"
    /\ lost' = (lost \/ \E i \in 1..Len(mails) : mails[i][2] = tick)
    /\ scrape' = NoRun
    /\ UNCHANGED <<tick, bonus, watch, mails>>

-----------------------------------------------------------------------------
(* resolve_cta_list                                                        *)

IsFresh(b) == b # NoBonus /\ tick - b.verified <= Staleness

Mode(p, s, member, enabled) ==
    IF ~enabled THEN "guided_only"
    ELSE IF member /\ <<p, s>> \in Slugs THEN "member_deeplink"
    ELSE IF p \in Referrals THEN "signup_referral"
    ELSE "guided_only"

(* _build_cta: disclosure is required of a referral and of nothing else.   *)
Cta(p, s, member, enabled) ==
    [portal |-> p, rate |-> bonus[<<p, s>>].rate, elevated |-> Elevated(bonus[<<p, s>>]),
     verified |-> bonus[<<p, s>>].verified,
     mode |-> Mode(p, s, member, enabled),
     disclosure |-> Mode(p, s, member, enabled) = "signup_referral"]

CtaBefore(c, d) == c.rate > d.rate \/ (c.rate = d.rate /\ c.portal < d.portal)
Listed(ctas) == FirstOf(ctas, MaxCtas, {cd \in ctas \X ctas : CtaBefore(cd[1], cd[2])})

(* Mutant: whatever is stored is offered.                                  *)
CtaListStale(s, members, enabled) ==
    Listed({Cta(p, s, p \in members, enabled) : p \in {q \in Portals : bonus[<<q, s>>] # NoBonus}})

CtaList(s, members, enabled) ==
    Listed({Cta(p, s, p \in members, enabled) : p \in {q \in Portals : IsFresh(bonus[<<q, s>>])}})

-----------------------------------------------------------------------------
PortalNext ==
    \/ BeginScrape \/ ScrapePortal \/ ScrapeDone \/ Alert
    \/ CommitScrape \/ AbortScrape

PortalSpec == PortalInit /\ [][PortalNext]_portalVars

-----------------------------------------------------------------------------
(* "once every 24 hours at most" (the throttle): however a portal fails    *)
(* and recovers, two alerts about it are a day apart - unless a run was    *)
(* rolled back after it mailed: the mail is out before the time of it is   *)
(* committed.                                                              *)
AlertsThrottled ==
    lost \/ \A i, j \in 1..Len(mails) :
        i < j /\ mails[i][1] = mails[j][1] => mails[j][2] >= mails[i][2] + Throttle

(* "Stale rates are worse than no rates": whichever runs fail or list a    *)
(* store no longer, an offer names a rate seen in the last day, it comes   *)
(* first only if no other portal has a better one as fresh, and an offer   *)
(* withheld from the list is no better than those on it.                   *)
OffersAreCurrent ==
    \A s \in Stores, members \in SUBSET Portals, enabled \in Enabled :
        LET list == CtaList(s, members, enabled)
        IN  \A p \in Portals :
              LET on == \E i \in 1..Len(list) : list[i].portal = p
                  b == bonus[<<p, s>>]
              IN  /\ on => b # NoBonus /\ tick <= b.verified + Staleness
                  /\ ~on /\ b # NoBonus /\ b.verified + Staleness >= tick =>
                        Len(list) = MaxCtas /\ \A i \in 1..MaxCtas : list[i].rate >= b.rate

-----------------------------------------------------------------------------
(* Why AlertsThrottled: what the run at work will commit, or the store     *)
(* when none is, knows of every alert sent; the store itself of those sent *)
(* before this tick, which is all a rollback may fall back on.             *)
Runs == [pc : {"scrape", "alert"}, bonus : [Portals \X Stores -> Bonuses \cup {NoBonus}],
         watch : [Portals -> Watches], counts : [Portals -> Nat], todo : SUBSET Portals]

KnowsAlerts(w, until) ==
    \A i \in 1..Len(mails) : mails[i][2] <= until =>
        /\ w[mails[i][1]].alerted # NeverSent
        /\ mails[i][2] <= w[mails[i][1]].alerted

(* No portal was alerted about in the future, or failed more than once a   *)
(* tick.                                                                   *)
UpTo(w, instant, failures) ==
    w.alerted \in 0..instant \cup {NeverSent} /\ w.failures <= failures

StoreInv ==
    /\ \A p \in Portals : UpTo(watch[p], tick, tick)
    /\ \A i \in 1..Len(mails) : mails[i][2] <= tick
    /\ scrape = NoRun /\ ~lost => KnowsAlerts(watch, tick)

RunInv ==
    scrape # NoRun =>
      /\ scrape \in Runs /\ tick > 0
      /\ \A p \in Portals :
           /\ watch[p].failures <= tick - 1
           /\ UpTo(scrape.watch[p], tick,
                   IF p \in scrape.todo \/ scrape.pc = "scrape" THEN tick - 1 ELSE tick)
      /\ ~lost => KnowsAlerts(watch, tick - 1) /\ KnowsAlerts(scrape.watch, tick)

PortalInv == PortalTypeOK /\ StoreInv /\ RunInv /\ AlertsThrottled
=============================================================================
