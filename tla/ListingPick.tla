----------------------------- MODULE ListingPick -----------------------------
(***************************************************************************)
(* Which of a retailer's listings stands for the product:                  *)
(* _score_listing_relevance and _pick_best_listing,                        *)
(* backend/modules/m2_prices/service.py.                                   *)
(*                                                                         *)
(* A title is what the code's patterns find in it: its words, the chips,   *)
(* sizes and model numbers it names, and whether it reads as an accessory. *)
(* The response grows by one listing a step, so that a step relates the    *)
(* picks of two responses that differ by a listing.                        *)
(***************************************************************************)
EXTENDS Integers, Sequences, FiniteSets, FiniteSetsExt

CONSTANTS
    Shops,           \* retailer ids
    Product,         \* [tokens, models, chips, sizes, brands]: what its name and the
                     \* model strings of source_raw say, in union
    Titles,          \* name -> [tokens, models, chips, sizes, brands, reads, forBrand, suffix]
    OnSale,          \* [title, price, available], the listings that may be found
    MaxListings,     \* bound: listings of a response
    NoPick

ASSUME PickAssumption ==
    /\ \A l \in OnSale : l.price \in Nat /\ l.available \in BOOLEAN
    /\ IsFiniteSet(Product.tokens)
    /\ NoPick \notin [listing : OnSale, score : Nat]

VARIABLES
    retailer,
    listings,    \* the response
    pick         \* what _pick_best_listing makes of it: [listing, score] or NoPick

pickVars == <<retailer, listings, pick>>

Variants == {"pro", "max", "mini", "oled"}             \* _VARIANT_TOKENS
Ordinals == {"1st", "2nd"}                             \* _ORDINAL_TOKENS
AccessoryWords == {"case", "cable", "service"}         \* _ACCESSORY_KEYWORDS
HardwareIntent == {"bundle", "console"}                \* _HARDWARE_INTENT_TOKENS
Marketplaces == {"ebay_new", "ebay_used", "fb_marketplace"}
SoftGated == {"fb_marketplace"}                        \* _MODEL_SOFT_GATE_RETAILERS
Threshold == 40                                        \* RELEVANCE_THRESHOLD, percent
MinSample == 4                                         \* _PRICE_OUTLIER_MIN_SAMPLE

-----------------------------------------------------------------------------
(* _is_accessory_listing; a product that is one itself filters nothing.    *)
IsAccessory(t) ==
    /\ Product.tokens \cap AccessoryWords = {}
    /\ t.tokens \cap AccessoryWords # {} \/ t.reads

(* _is_platform_suffix_accessory: the model after a separator and a name.  *)
IsPlatformSuffix(t) ==
    t.suffix /\ t.models \cap Product.models # {} /\ t.tokens \cap HardwareIntent = {}

Disagree(a, b) == a # {} /\ b # {} /\ a # b

(* The identifiers of the product, of which a title must name one.         *)
ModelMissing(t) == Product.models # {} /\ t.models \cap Product.models = {}

(* Rules 0 to 3b of _score_listing_relevance, which reject.                *)
Rejected(t, r) ==
    \/ IsAccessory(t)
    \/ ModelMissing(t) /\ r \notin SoftGated
    \/ Product.tokens \cap Variants # t.tokens \cap Variants
    \/ Product.tokens \cap Ordinals # t.tokens \cap Ordinals
    \/ Disagree(Product.chips, t.chips)
    \/ Disagree(Product.sizes, t.sizes)
    \/ Product.brands # {} /\ Product.brands \cap t.brands = {}
    \/ Product.brands # {} /\ t.forBrand

(* _score_listing_relevance in percent.  Rule 4: the share of the          *)
(* product's words in the title; behind the soft gate, 60 at least and     *)
(* counted as 50.                                                          *)
Score(t, r) ==
    LET n == Cardinality(Product.tokens)
        overlap == 100 * Cardinality(Product.tokens \cap t.tokens)
    IN  CASE Rejected(t, r) -> 0
          [] Product.tokens = {} -> 50
          [] ModelMissing(t) -> IF overlap < 60 * n THEN 0 ELSE 50
          [] OTHER -> IF overlap < Threshold * n THEN 0 ELSE overlap \div n

(* The k-th lowest of the prices of the listings in I.                     *)
NthLowest(some, I, k) ==
    Min({p \in {some[i].price : i \in I} : Cardinality({i \in I : some[i].price <= p}) >= k})

(* Twice the median of them: the middle one, or the two in the middle.     *)
TwiceMedian(some, I) ==
    NthLowest(some, I, (Cardinality(I) + 1) \div 2) + NthLowest(some, I, Cardinality(I) \div 2 + 1)

(* A mutant: a fifth listing, not a fourth, makes a median trustworthy.    *)
WithoutOutliersOffByOne(some, I, r) ==
    IF r \in Marketplaces /\ Cardinality(I) > MinSample
    THEN {i \in I : 5 * some[i].price >= TwiceMedian(some, I)} ELSE I

(* The outlier pass: a marketplace listing under 40 % of the median of     *)
(* the response, relevant or not, is dropped if there are enough.          *)
WithoutOutliers(some, I, r) ==
    IF r \in Marketplaces /\ Cardinality(I) >= MinSample
    THEN {i \in I : 5 * some[i].price >= TwiceMedian(some, I)} ELSE I

(* _pick_best_listing: priced listings, on Amazon less the games for the   *)
(* platform; less the outliers; the relevant; the available if any; of     *)
(* those the first that is cheapest.                                       *)
Priced(some) == {i \in DOMAIN some : some[i].price > 0}

Valid(some, r) ==
    {i \in Priced(some) : r = "amazon" => ~IsPlatformSuffix(Titles[some[i].title])}

AboveThreshold(some, r) ==
    {i \in WithoutOutliers(some, Valid(some, r), r) : Score(Titles[some[i].title], r) >= Threshold}

Candidates(some, r) ==
    LET available == {i \in AboveThreshold(some, r) : some[i].available}
    IN  IF available = {} THEN AboveThreshold(some, r) ELSE available

PickBest(some, r) ==
    LET from == Candidates(some, r)
        best == CHOOSE i \in from : \A j \in from :
                    some[i].price < some[j].price \/ (some[i].price = some[j].price /\ i <= j)
    IN  IF from = {} THEN NoPick
        ELSE [listing |-> some[best], score |-> Score(Titles[some[best].title], r)]

-----------------------------------------------------------------------------
PickInit ==
    /\ retailer \in Shops
    /\ listings = <<>>
    /\ pick = NoPick

(* One listing more in the response.                                       *)
AddListing(l) ==
    /\ Len(listings) < MaxListings
    /\ listings' = Append(listings, l)
    /\ pick' = PickBest(listings', retailer)
    /\ UNCHANGED retailer

PickNext == \E l \in OnSale \ {listings[i] : i \in DOMAIN listings} : AddListing(l)

PickSpec == PickInit /\ [][PickNext]_pickVars

PickTypeOK ==
    /\ retailer \in Shops
    /\ listings \in Seq(OnSale) /\ Len(listings) <= MaxListings
    /\ pick # NoPick => pick.score \in Threshold..100

-----------------------------------------------------------------------------
NoDearer ==
    LET l == listings'[Len(listings')]
    IN  /\ pick # NoPick
        /\ l.price <= pick.listing.price
        /\ ~(retailer \in Marketplaces /\ l.price > 0 /\ Cardinality(Priced(listings')) = MinSample)
        => /\ pick' # NoPick
           /\ pick'.listing.price <= pick.listing.price
              \/ (pick'.listing.available /\ ~pick.listing.available)

(* The outlier pass trusts a median of whatever was found, wrong products  *)
(* too: nevertheless a listing that costs no more than the pick, relevant  *)
(* or not, never makes the pick dearer or loses it.  The exception is the  *)
(* fourth priced listing of a marketplace, with which the pass sets in,    *)
(* and an available listing taking over from an unavailable pick.          *)
CheaperNeverDearer == [][NoDearer]_pickVars
=============================================================================
