------------------------------ MODULE MCServices ------------------------------
(***************************************************************************)
(* Small instances of the services of the backend for TLC, those beside    *)
(* the price pipeline.  They share no state: each behaviour is one of      *)
(* `part`, whose actions alone are taken.                                  *)
(***************************************************************************)
EXTENDS RateLimiter, PriceIngestion, CardWallet, AdapterClients, ProductResolution,
        RetailerHealth, PortalRates, DiscountPrograms, MiscRetailer, ListingPick, ProductSearch,
        TLC

CONSTANTS Missing

VARIABLE part

(* Every part has two of what runs concurrently.                           *)
Symmetry == Permutations(Requests)

-----------------------------------------------------------------------------
MCSlugs == {<<1, "amazon">>}

(* Two eligibilities of one program, a better program of the same          *)
(* retailer, and one of another scope whose saving is fixed.               *)
MCProgram(r, n, e, k, v, c, s, u) ==
    [retailer |-> r, name |-> n, eligible |-> e, kind |-> k, value |-> v, cap |-> c,
     scope |-> s, url |-> u]
Apple == "apple_direct"

MCPrograms == {
    MCProgram(Apple, 1, "student", "percentage", 5, 0, "product", TRUE),
    MCProgram(Apple, 2, "student", "percentage", 10, 60, "product", TRUE),
    MCProgram(Apple, 2, "teacher", "percentage", 10, 60, "product", FALSE),
    MCProgram("amazon", 3, "student", "fixed_amount", 50, 40, "membership_fee", FALSE)}
MCPrices == {<<>>, [r \in {"amazon"} |-> 1000],
             [r \in {"amazon", Apple} |-> IF r = Apple THEN 2000 ELSE 900]}
MCViewed == {[brands |-> {}, known |-> FALSE, fits |-> {}],
             [brands |-> {"apple"}, known |-> TRUE, fits |-> {Apple}],
             [brands |-> {"dell"}, known |-> FALSE, fits |-> {}]}
MCSoldBrand == [r \in {Apple} |-> "apple"]

(* A card with a rotating category, and one the user picks categories of.  *)
MCRotating == [base |-> 1, point |-> 1, static |-> {},
               rotating |-> {[tags |-> {"online"}, rate |-> 5]}, allowed |-> {}, picked |-> 0]
MCPicked == [base |-> 2, point |-> 1, static |-> {[tag |-> "amazon", rate |-> 3]},
             rotating |-> {}, allowed |-> {"amazon", "electronics"}, picked |-> 6]

MCProgramOf == [c \in {1, 2} |-> IF c = 1 THEN MCRotating ELSE MCPicked]
MCTags == [r \in {1, 2} |-> IF r = 1 THEN {"amazon", "online"} ELSE {"electronics"}]
MCPrice(r, p, c) == [retailer |-> r, price |-> p, condition |-> c]
MCListings == {MCPrice(1, 100, 1), MCPrice(2, 98, 1), MCPrice(2, 97, 3)}
MCDiscounts == [r \in {1, 2} |-> IF r = 1 THEN {0, 3} ELSE {}]
MCBonus(p, r, rate) == [portal |-> p, retailer |-> r, rate |-> rate]
MCBonuses == {MCBonus(1, 1, 2), MCBonus(2, 1, 4), MCBonus(1, 2, 3)}

-----------------------------------------------------------------------------
(* A search by name finds more merchants than fit, or another one; a       *)
(* search for something else finds retailers that are scraped anyway.      *)
Item(m, p, ok) == [merchant |-> m, position |-> p, ok |-> ok]
MCFound == [q \in {"name", "override"} |->
    IF q = "name"
    THEN {<<Item("amazon", 1, TRUE), Item("chewy", 3, TRUE), Item("petco", 2, TRUE)>>,
          <<Item("rei", 0, TRUE)>>}
    ELSE {<<Item("zappos", 0, TRUE), Item("rei", 0, FALSE), Item("ebay", 0, TRUE)>>}]

(* One route of each kind; Best Buy is asked for and has no key.           *)
MCRoutes == {"ebay", "ebay_gtin", "walmart_io", "best_buy", "walmart", "container"}

MCAttempts == [r \in MCRoutes \cup {"amazon", "firecrawl"} |->
                  IF r \in {"best_buy", "walmart", "container", "firecrawl"} THEN 2 ELSE 1]

-----------------------------------------------------------------------------
(* Two titles that are one product to the merge, and a row of a soft       *)
(* category; answers on either side of each confidence threshold.          *)
Plain == [category |-> "product", asked_for |-> FALSE, noisy_title |-> FALSE, echoes |-> TRUE]
Some(S, scores) == UNION {[D -> scores] : D \in SUBSET S}

MCTraits == [p \in 1..3 |-> IF p = 3 THEN [Plain EXCEPT !.category = "soft"] ELSE Plain]
MCFamily == [p \in 1..3 |-> IF p = 3 THEN 102 ELSE 101]
MCDbReplies == Some({1, 2}, {40, 80})
MCBestBuyReplies == Some(1..3, {50, 70})
MCSecondLegReplies == Some(1..3, {40})
MCGeminiReplies == Some({1, 2}, {60})

(* A genuine title, an accessory of the product, the wrong chip, the       *)
(* product without its model, and a game for it.                           *)
Genuine == [tokens |-> {"acme", "switch", "handheld", "pro"}, models |-> {"switch 2"},
            chips |-> {"m4"}, sizes |-> {"13"}, brands |-> {"acme"},
            reads |-> FALSE, forBrand |-> FALSE, suffix |-> FALSE]
MCTitles == [genuine   |-> Genuine,
             case      |-> [Genuine EXCEPT !.tokens = @ \cup {"case"}],
             wrongChip |-> [Genuine EXCEPT !.chips = {"m3"}],
             noModel   |-> [Genuine EXCEPT !.models = {}, !.tokens = @ \ {"switch"}],
             game      |-> [Genuine EXCEPT !.suffix = TRUE, !.chips = {}]]
Listing(t, p, a) == [title |-> t, price |-> p, available |-> a]

MCProduct == [tokens |-> Genuine.tokens, models |-> {"switch 2"}, chips |-> {"m4"},
              sizes |-> {}, brands |-> {"acme"}]
MCOnSale == {
    Listing("genuine", 50, TRUE), Listing("genuine", 12, TRUE), Listing("genuine", 30, FALSE),
    Listing("case", 10, TRUE), Listing("case", 40, TRUE), Listing("wrongChip", 45, TRUE),
    Listing("noModel", 20, TRUE), Listing("game", 0, TRUE), Listing("game", 25, TRUE)}

-----------------------------------------------------------------------------
Parts == {"limiter", "queue", "portal", "health", "discount", "wallet", "misc",
          "clients", "resolution", "search", "pick"}

(* While a part is not explored its variables are held at a state in which *)
(* the properties of that part are decided at once.                        *)
ServicesInit ==
    /\ part \in Parts
    /\ LimiterInit
    /\ QueueInit
    /\ PortalInit
    /\ IF part = "wallet" THEN WalletInit
       ELSE /\ wallet = [c \in Cards |-> NoRow] /\ picks = [c \in Cards |-> {}]
            /\ profile = FALSE /\ tx = [q \in Sessions |-> [NoTx EXCEPT !.pc = "write"]]
    /\ MiscInit
    /\ ClientInit
    /\ ResolutionInit
    /\ SearchInit
    /\ IF part = "health" THEN HealthInit
       ELSE /\ health = [r \in Retailers |-> NoHealth] /\ dog = [d \in Watchdogs |-> Asleep]
            /\ calls = [r \in Retailers |-> 0] /\ ended = {}
    /\ IF part = "discount" THEN DiscountInit
       ELSE /\ state = [p \in Programs |-> [active |-> TRUE, failures |-> 0, stale |-> FALSE]]
            /\ batch = [NoBatch EXCEPT !.on = TRUE] /\ outcomes = [p \in Programs |-> <<>>]
    /\ IF part = "pick" THEN PickInit
       ELSE retailer = Missing /\ listings = <<>> /\ pick = Missing

Others(p) ==
    /\ UNCHANGED part
    /\ IF p = "limiter"    THEN TRUE ELSE UNCHANGED limiterVars
    /\ IF p = "queue"      THEN TRUE ELSE UNCHANGED queueVars
    /\ IF p = "portal"     THEN TRUE ELSE UNCHANGED portalVars
    /\ IF p = "health"     THEN TRUE ELSE UNCHANGED healthVars
    /\ IF p = "discount"   THEN TRUE ELSE UNCHANGED discountVars
    /\ IF p = "wallet"     THEN TRUE ELSE UNCHANGED walletVars
    /\ IF p = "misc"       THEN TRUE ELSE UNCHANGED miscVars
    /\ IF p = "clients"    THEN TRUE ELSE UNCHANGED clientVars
    /\ IF p = "resolution" THEN TRUE ELSE UNCHANGED resolutionVars
    /\ IF p = "search"     THEN TRUE ELSE UNCHANGED searchVars
    /\ IF p = "pick"       THEN TRUE ELSE UNCHANGED pickVars

ServicesNext ==
    \/ part = "limiter" /\ Others("limiter") /\ LimiterNext
    \/ part = "queue" /\ Others("queue") /\ QueueNext
    \/ part = "portal" /\ Others("portal") /\ PortalNext
    \/ part = "health" /\ Others("health") /\ HealthNext
    \/ part = "discount" /\ Others("discount") /\ DiscountNext
    \/ part = "wallet" /\ Others("wallet") /\ WalletNext
    \/ part = "misc" /\ Others("misc") /\ MiscNext
    \/ part = "clients" /\ Others("clients") /\ ClientNext
    \/ part = "resolution" /\ Others("resolution") /\ ResolutionNext
    \/ part = "search" /\ Others("search") /\ SearchNext
    \/ part = "pick" /\ Others("pick") /\ PickNext

ServicesSpec ==
    ServicesInit /\ [][ServicesNext]_<<part, limiterVars, queueVars, portalVars,
                                        healthVars, discountVars, walletVars, miscVars,
                                        clientVars, resolutionVars, searchVars, pickVars>>

-----------------------------------------------------------------------------
(* The type invariants of the parts.                                       *)
ServicesTypeOK ==
    /\ part = "limiter" => LimiterTypeOK
    /\ part = "queue" => QueueTypeOK
    /\ part = "portal" => PortalTypeOK
    /\ part = "health" => HealthTypeOK
    /\ part = "discount" => DiscountTypeOK
    /\ part = "wallet" => WalletTypeOK
    /\ part = "misc" => MiscTypeOK
    /\ part = "clients" => ClientTypeOK
    /\ part = "resolution" => ResolutionTypeOK
    /\ part = "search" => SearchTypeOK
    /\ part = "pick" => PickTypeOK
=============================================================================
