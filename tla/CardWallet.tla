------------------------------- MODULE CardWallet -------------------------------
(***************************************************************************)
(* A user's profile, cards and category picks (CardService and             *)
(* IdentityService, backend/modules/m5_identity), and the deterministic    *)
(* recommendation that stacks an identity discount, a card and a portal on *)
(* each listing (backend/modules/m6_recommend/service.py).                 *)
(*                                                                         *)
(* Sessions run in READ COMMITTED transactions: a statement sees what was  *)
(* committed when it began, an UPDATE waits in turn for the rows others     *)
(* have written (its snapshot and its first row lock are one step here).   *)
(* All of this is one user's.                                              *)
(***************************************************************************)
EXTENDS Integers, FiniteSets, FiniteSetsExt

CONSTANTS
    Sessions,      \* requests, each with its database session
    Cards,         \* card_reward_programs, and the user_cards rows they may have
    Program,       \* of a card: [base, point, static, rotating, allowed, picked]
    Tags,          \* _RETAILER_CATEGORY_TAGS
    Listings,      \* the usable prices: [retailer, price, condition]
    Discounts,     \* estimated identity savings of a retailer, a set
    PortalBonuses  \* portal_bonuses: [portal, retailer, rate]

ASSUME WalletAssumption ==
    /\ IsFiniteSet(Listings) /\ Listings # {} /\ IsFiniteSet(PortalBonuses)
    /\ \A l \in Listings :
          /\ {l.retailer, l.price, l.condition} \subseteq Nat
          /\ IsFiniteSet(Discounts[l.retailer]) /\ Discounts[l.retailer] \subseteq Nat
    /\ \A c \in Cards :
          /\ {Program[c].base, Program[c].point, Program[c].picked} \subseteq Nat
          /\ IsFiniteSet(Program[c].static) /\ IsFiniteSet(Program[c].rotating)
    /\ \A S \in {PortalBonuses} \cup {Program[c].static : c \in Cards}
                              \cup {Program[c].rotating : c \in Cards} :
          \A b \in S : b.rate \in Nat

VARIABLES
    wallet,     \* user_cards, committed: [status, preferred]
    picks,      \* user_category_selections of the quarter: of a card, a row or none
    profile,    \* the user's profile row exists
    tx          \* of a request: [pc, op, card, loaded, seen, put, pick]

walletVars == <<wallet, picks, profile, tx>>

NoRow == [status |-> "absent", preferred |-> FALSE]
NoTx == [pc |-> "idle", op |-> "none", card |-> CHOOSE c \in Cards : TRUE,
         loaded |-> "absent", seen |-> {}, put |-> <<>>, pick |-> {}]
Statuses == {"absent", "active", "inactive"}

WalletTypeOK ==
    /\ wallet \in [Cards -> [status : Statuses, preferred : BOOLEAN]]
    /\ \A c \in Cards : picks[c] \subseteq SUBSET Program[c].allowed
    /\ profile \in BOOLEAN
    /\ \A q \in Sessions : tx[q].seen \subseteq Cards /\ DOMAIN tx[q].put \subseteq Cards

WalletInit ==
    /\ wallet = [c \in Cards |-> NoRow]
    /\ picks = [c \in Cards |-> {}]
    /\ profile = FALSE
    /\ tx = [q \in Sessions |-> NoTx]

-----------------------------------------------------------------------------
LockedByOthers(q) == UNION {DOMAIN tx[d].put : d \in Sessions \ {q}}
Set(q, t) == tx' = [tx EXCEPT ![q] = t]

(* The SELECT a request begins with; "unknown" and "not found" end it.     *)
Select(q, op, c) ==
    /\ tx[q].pc = "idle"
    /\ op \in {"prefer", "pick"} => wallet[c].status = "active"
    /\ op = "pick" => Program[c].allowed # {}
    /\ Set(q, [NoTx EXCEPT !.pc = "write", !.op = op, !.card = c,
                           !.loaded = IF op = "pick" /\ picks[c] # {} THEN "active"
                                      ELSE IF op = "pick" THEN "absent"
                                      ELSE wallet[c].status])
    /\ UNCHANGED <<wallet, picks, profile>>

Writing(q, op) == tx[q].pc = "write" /\ tx[q].op = op
Fail(q) == Set(q, NoTx)
Wrote(q, c, row) == Set(q, [tx[q] EXCEPT !.pc = "commit", !.put = [x \in {c} |-> row]])

(* The cards as a transaction that has written these rows sees them.       *)
With(put) == [c \in Cards |-> IF c \in DOMAIN put THEN put[c] ELSE wallet[c]]

(* add_card: a card not found is inserted, and a row inserted meanwhile is *)
(* an IntegrityError; one found inactive is activated; one found active is *)
(* not written, whatever has become of it since.                           *)
AddCard(q) ==
    LET c == tx[q].card IN
    /\ Writing(q, "add") /\ c \notin LockedByOthers(q)
    /\ CASE tx[q].loaded = "absent" ->
              IF wallet[c].status # "absent" THEN Fail(q)
              ELSE Wrote(q, c, [status |-> "active", preferred |-> FALSE])
         [] tx[q].loaded = "inactive" -> Wrote(q, c, [wallet[c] EXCEPT !.status = "active"])
         [] OTHER -> Set(q, [tx[q] EXCEPT !.pc = "commit"])
    /\ UNCHANGED <<wallet, picks, profile>>

(* remove_card: a single UPDATE.                                           *)
RemoveCard(q, c) ==
    /\ tx[q].pc = "idle" /\ wallet[c].status # "absent" /\ c \notin LockedByOthers(q)
    /\ Set(q, [NoTx EXCEPT !.pc = "commit", !.op = "remove", !.card = c,
                           !.put = [x \in {c} |-> [status |-> "inactive", preferred |-> FALSE]]])
    /\ UNCHANGED <<wallet, picks, profile>>

(* The rows of an UPDATE, locked at once or, behind who has one, in turn.  *)
Waiting(q) == \E d \in Sessions \ {q} : tx[d].pc = "unset"

Unsetting(q, seen) ==
    IF seen \cap LockedByOthers(q) = {}
    THEN [tx[q] EXCEPT !.pc = "mark",
                       !.put = [c \in seen |-> [wallet[c] EXCEPT !.preferred = FALSE]]]
    ELSE [tx[q] EXCEPT !.pc = "unset", !.seen = seen]

(* Mutant: only the row that is preferred is unset.                        *)
UnsetPreferred(q) ==
    /\ Writing(q, "prefer") /\ ~Waiting(q)
    /\ Set(q, Unsetting(q, {c \in Cards : wallet[c].preferred}))
    /\ UNCHANGED <<wallet, picks, profile>>

(* set_preferred: the UPDATE that unsets every card finds its rows ...     *)
Unset(q) ==
    /\ Writing(q, "prefer") /\ ~Waiting(q)
    /\ Set(q, Unsetting(q, {c \in Cards : wallet[c].status # "absent"}))
    /\ UNCHANGED <<wallet, picks, profile>>

(* ... and, if it waited, writes those rows as they are by then ...        *)
UnsetAfterWait(q) ==
    /\ tx[q].pc = "unset" /\ tx[q].seen \cap LockedByOthers(q) = {}
    /\ Set(q, Unsetting(q, tx[q].seen))
    /\ UNCHANGED <<wallet, picks, profile>>

(* ... and the second marks the card, which may be inactive by now.        *)
Mark(q) ==
    LET c == tx[q].card IN
    /\ tx[q].pc = "mark" /\ c \notin LockedByOthers(q)
    /\ Set(q, [tx[q] EXCEPT !.pc = "commit",
                            !.put = [x \in DOMAIN @ \cup {c} |->
                                IF x = c THEN [With(@)[c] EXCEPT !.preferred = TRUE] ELSE @[x]]])
    /\ UNCHANGED <<wallet, picks, profile>>

(* set_categories: the picks of the card and the quarter.                  *)
SetCategories(q) ==
    LET c == tx[q].card IN
    /\ Writing(q, "pick")
    /\ ~\E d \in Sessions \ {q} : tx[d].pc = "commit" /\ tx[d].op = "pick" /\ tx[d].card = c
    /\ IF tx[q].loaded = "absent" /\ picks[c] # {} THEN Fail(q)
       ELSE \E some \in SUBSET Program[c].allowed :
              Set(q, [tx[q] EXCEPT !.pc = "commit", !.pick = some])
    /\ UNCHANGED <<wallet, picks, profile>>

(* get_or_create_profile: a row somebody else inserted first is an         *)
(* IntegrityError, after which it is read.                                 *)
GetOrCreateProfile(q) ==
    /\ tx[q].pc = "idle"
    /\ IF profile THEN UNCHANGED tx
       ELSE /\ ~\E d \in Sessions : tx[d].op = "profile"
            /\ Set(q, [NoTx EXCEPT !.pc = "commit", !.op = "profile"])
    /\ UNCHANGED <<wallet, picks, profile>>

Commit(q) ==
    /\ tx[q].pc = "commit"
    /\ wallet' = With(tx[q].put)
    /\ picks' = IF tx[q].op = "pick" THEN [picks EXCEPT ![tx[q].card] = {tx[q].pick}] ELSE picks
    /\ profile' = (profile \/ tx[q].op = "profile")
    /\ Fail(q)

(* The request is cancelled or a statement fails.                          *)
Rollback(q) ==
    /\ tx[q].pc # "idle"
    /\ Fail(q)
    /\ UNCHANGED <<wallet, picks, profile>>

-----------------------------------------------------------------------------
(* _best_card_for_retailer: the best rate of a card, and the card that is  *)
(* worth most in dollars; of two that tie, the first the query returned.   *)
Active == {c \in Cards : wallet[c].status = "active"}

Rate(c, r) ==
    Max({Program[c].base}
        \cup {b.rate : b \in {b \in Program[c].rotating : b.tags \cap Tags[r] # {}}}
        \cup {Program[c].picked : t \in (UNION picks[c]) \cap Tags[r]}
        \cup {b.rate : b \in {b \in Program[c].static : b.tag \in Tags[r]}})

BestCards(r) ==
    {c \in Active : \A d \in Active : Rate(c, r) * Program[c].point >= Rate(d, r) * Program[d].point}

New(r) == \E l \in Listings : l.retailer = r /\ l.condition = 1

(* The cards of a wallet that has some: one for each retailer.             *)
CardChoices ==
    LET sold == {l.retailer : l \in {l \in Listings : New(l.retailer)}} IN
    IF Active = {} THEN {<<>>}
    ELSE {f \in [sold -> Active] : \A r \in sold : f[r] \in BestCards(r)}

BestOf(S) == Max(S \cup {0})

BestPortal(r, active) ==
    BestOf({b.rate : b \in {b \in PortalBonuses : b.retailer = r /\ b.portal \in active}})

(* Mutant: of a retailer's portals, the first is taken.                    *)
PathFirstPortal(l, card, active) ==
    LET identity == BestOf(Discounts[l.retailer])
        post == BestOf({l.price - identity})
        rate == IF l.retailer \in DOMAIN card THEN Rate(card[l.retailer], l.retailer) ELSE 0
        on == {b \in PortalBonuses : b.retailer = l.retailer /\ b.portal \in active}
        portal == IF on = {} THEN 0 ELSE (CHOOSE b \in on : \A c \in on : b.portal <= c.portal).rate
        total == 100 * identity + post * rate + post * portal
    IN  [listing |-> l, total |-> total, effective |-> 100 * l.price - total]

(* _stack_retailer_path: the identity discount, then card and portal on    *)
(* what is left to pay; in hundredths.                                     *)
Path(l, card, active) ==
    LET identity == BestOf(Discounts[l.retailer])
        post == BestOf({l.price - identity})
        rate == IF l.retailer \in DOMAIN card THEN Rate(card[l.retailer], l.retailer) ELSE 0
        total == 100 * identity + post * rate + post * BestPortal(l.retailer, active)
    IN  [listing |-> l, total |-> total, effective |-> 100 * l.price - total]

(* _rank_key                                                               *)
Before(p, q) ==
    \/ p.effective < q.effective
    \/ /\ p.effective = q.effective
       /\ \/ p.listing.condition < q.listing.condition
          \/ p.listing.condition = q.listing.condition /\ p.listing.retailer <= q.listing.retailer

Winner(card, active) ==
    LET paths == {Path(l, card, active) : l \in Listings}
    IN  CHOOSE p \in paths : \A q \in paths : Before(p, q)

-----------------------------------------------------------------------------
WalletNext ==
    \E q \in Sessions :
        \/ AddCard(q) \/ Unset(q) \/ UnsetAfterWait(q) \/ Mark(q) \/ SetCategories(q)
        \/ GetOrCreateProfile(q) \/ Commit(q) \/ Rollback(q)
        \/ \E c \in Cards : \/ RemoveCard(q, c)
                            \/ \E op \in {"add", "prefer", "pick"} : Select(q, op, c)

WalletSpec == WalletInit /\ [][WalletNext]_walletVars

-----------------------------------------------------------------------------
(* "Set one card as preferred, unset all others": whatever requests        *)
(* overlap, no two cards of a user are preferred.                          *)
AtMostOnePreferred ==
    \A c, d \in Cards : wallet[c].preferred /\ wallet[d].preferred => c = d

(* Its invariant: who is about to prefer a card (Holds) has written every  *)
(* row there is, alone, and who waits to do so waits for those rows.       *)
Row == [status : Statuses, preferred : BOOLEAN]
Exists == {c \in Cards : wallet[c].status # "absent"}
Preferred == {c \in Cards : wallet[c].preferred}
Holds(q) == tx[q].pc = "mark" \/ (tx[q].pc = "commit" /\ tx[q].op = "prefer")

Txs == [pc : {"idle", "write", "unset", "mark", "commit"},
        op : {"none", "add", "prefer", "pick", "remove", "profile"},
        card : Cards \cup {NoTx.card}, loaded : Statuses, seen : SUBSET Cards,
        put : UNION {[S -> Row] : S \in SUBSET Cards},
        pick : SUBSET UNION {Program[c].allowed : c \in Cards}]

TxOK ==
    /\ tx \in [Sessions -> Txs]
    /\ \A q \in Sessions : tx[q].op \in {"add", "prefer", "pick"} => tx[q].card \in Cards

RowsOK == wallet \in [Cards -> Row] /\ Preferred \subseteq Exists

PicksOK ==
    /\ DOMAIN picks = Cards /\ \A c \in Cards : picks[c] \subseteq SUBSET Program[c].allowed
    /\ profile \in BOOLEAN
    /\ \A q \in Sessions : tx[q].pc = "commit" /\ tx[q].op = "pick" =>
          tx[q].pick \subseteq Program[tx[q].card].allowed

(* Written rows are some request's only, and prefer but the card they are  *)
(* meant to.                                                               *)
PutsOK ==
    /\ \A q, d \in Sessions : q # d => DOMAIN tx[q].put \cap DOMAIN tx[d].put = {}
    /\ \A q \in Sessions :
          /\ tx[q].pc \in {"idle", "write", "unset"} => DOMAIN tx[q].put = {}
          /\ \A c \in DOMAIN tx[q].put :
                /\ tx[q].put[c].status # "absent"
                /\ tx[q].put[c].preferred =>
                      IF tx[q].op = "prefer" THEN tx[q].pc = "commit" /\ c = tx[q].card
                      ELSE wallet[c].preferred

WaitersOK ==
    \A q \in Sessions :
        /\ tx[q].pc \in {"unset", "mark"} => tx[q].op = "prefer"
        /\ tx[q].op = "prefer" => tx[q].card \in Exists
        /\ tx[q].pc = "unset" =>
              /\ tx[q].card \in tx[q].seen /\ tx[q].seen \subseteq Exists
              /\ Preferred \subseteq tx[q].seen
              /\ \A d \in Sessions \ {q} : tx[d].pc # "unset"
              /\ \A d \in Sessions : Holds(d) => DOMAIN tx[d].put \subseteq tx[q].seen

HoldersOK ==
    \A q \in Sessions : Holds(q) =>
        /\ tx[q].card \in DOMAIN tx[q].put
        /\ DOMAIN tx[q].put \subseteq Exists /\ Preferred \subseteq DOMAIN tx[q].put
        /\ \A d \in Sessions \ {q} : ~Holds(d)

WalletInv ==
    TxOK /\ RowsOK /\ PicksOK /\ PutsOK /\ WaitersOK /\ HoldersOK /\ AtMostOnePreferred

(* With whatever cards and picks, activating one more portal never makes   *)
(* the winner cost more, and the winner never costs more than the cheapest *)
(* listing.  It is asked between requests, where all that is committed is  *)
(* seen.                                                                   *)
PortalsNeverCost ==
    LET portals == {b.portal : b \in PortalBonuses} IN
    (\A q \in Sessions : tx[q].pc = "idle") => \A card \in CardChoices : \A some \in SUBSET portals :
        /\ \A l \in Listings : Winner(card, some).effective <= 100 * l.price
        /\ \A p \in portals :
              Winner(card, some \cup {p}).effective <= Winner(card, some).effective
=============================================================================
