----------------------------- MODULE UpcNormalize -----------------------------
(***************************************************************************)
(* Barcodes of distributor price lists: sourcing/m15_sourcing/upc.py.      *)
(* A cell holds whatever a spreadsheet and an export left of a barcode;    *)
(* normalize_upc turns it into a GTIN-14, or fails, and says in warnings   *)
(* which repair it made.  A barcode is a sequence of digits; the cell of   *)
(* the model is the digits the text holds once spacing, quotes and a ".0"  *)
(* tail are stripped, and how many of them a scientific mantissa carried.  *)
(*                                                                         *)
(* Init picks a valid UPC-A, Damage what the spreadsheet did to it.        *)
(***************************************************************************)
EXTENDS Integers, Sequences, FiniteSets, SequencesExt, Functions

CONSTANTS
    Bodies,      \* UPC-A bodies: sequences of 11 digits, not all zero
    Indicators   \* indicator digits of case codes, 1..9

VARIABLES code, damage, outcome

upcVars == <<code, damage, outcome>>

Digits == 0..9
Zeros(n) == [i \in 1..n |-> 0]
Pad(s, n) == Zeros(n - Len(s)) \o s

StripZeros(s) ==
    LET nonzero == {i \in DOMAIN s : s[i] # 0}
    IN  IF nonzero = {} THEN <<>>
        ELSE SubSeq(s, CHOOSE i \in nonzero : \A j \in nonzero : i <= j, Len(s))

----------------------------------------------------------------------------
(* gtin_check_digit: weights 3, 1, 3, ... from the right of the body.      *)
CheckDigit(body) ==
    LET weight(i) == IF (Len(body) - i) % 2 = 0 THEN 3 ELSE 1
        total     == SumFunction([i \in DOMAIN body |-> body[i] * weight(i)])
    IN  (10 - (total % 10)) % 10

IsValidGtin(v) == Len(v) >= 2 /\ CheckDigit(Front(v)) = Last(v)

WithCheck(body) == Append(body, CheckDigit(body))

(* _upce_body: the GS1 table, by the last digit of the payload.            *)
UpceBody(lead, p) ==
    <<lead>> \o
    (IF p[6] \in 0..2 THEN <<p[1], p[2], p[6]>> \o Zeros(4) \o <<p[3], p[4], p[5]>>
     ELSE IF p[6] = 3 THEN <<p[1], p[2], p[3]>> \o Zeros(5) \o <<p[4], p[5]>>
     ELSE IF p[6] = 4 THEN <<p[1], p[2], p[3], p[4]>> \o Zeros(5) \o <<p[5]>>
     ELSE SubSeq(p, 1, 5) \o Zeros(4) \o <<p[6]>>)

(* expand_upce: only forms whose check digit verifies; <<>> for None.      *)
ExpandUpce(u) ==
    LET full == IF Len(u) = 7 THEN <<0>> \o u ELSE u
        body == UpceBody(full[1], SubSeq(full, 2, 7))
    IN  IF Len(full) = 8 /\ full[1] \in {0, 1}
        THEN IF CheckDigit(body) = full[8] THEN WithCheck(body) ELSE <<>>
        ELSE <<>>

(* case_gtin_to_each, and the form handed to a search.                     *)
CaseToEach(g) ==
    IF g[1] \in {0, 9} THEN <<>> ELSE Pad(WithCheck(SubSeq(g, 2, 13)), 14)

SearchGtin(g) == IF CaseToEach(g) # <<>> THEN CaseToEach(g) ELSE g

----------------------------------------------------------------------------
Fail(warnings) == [gtin |-> <<>>, warnings |-> warnings]
Finish(v, warnings) == [gtin |-> Pad(v, 14), warnings |-> warnings]

IsUsable(o) == o.gtin # <<>> /\ "INVALID_CHECK_DIGIT" \notin o.warnings

(* 12 to 14 digits: a bad check digit is kept and flagged, except after    *)
(* scientific notation, where it is recomputed.                            *)
Long(v, sci) ==
    LET case == IF Len(v) = 14 /\ v[1] # 0 THEN {"CASE_GTIN"} ELSE {}
    IN  IF IsValidGtin(v) THEN Finish(v, case)
        ELSE IF sci THEN Finish(WithCheck(Front(v)), case \union {"CHECK_DIGIT_RECOVERED"})
        ELSE Finish(v, case \union {"INVALID_CHECK_DIGIT"})

(* A mutant of Eleven: the missing check digit is preferred.               *)
ElevenAppended(v) == Finish(WithCheck(v), {"CHECK_DIGIT_APPENDED"})

(* 11 digits: a leading zero lost, or the check digit never printed.       *)
Eleven(v) ==
    IF IsValidGtin(Pad(v, 12)) THEN Finish(v, {"ZERO_PADDED", "AMBIGUOUS_11_DIGIT"})
    ELSE Finish(WithCheck(v), {"CHECK_DIGIT_APPENDED"})

(* 6 to 10 digits: a compressed code, an EAN-8, or more zeros lost.        *)
Short(v) ==
    IF Len(v) \in 6..8 /\ ExpandUpce(v) # <<>>
    THEN Finish(ExpandUpce(v), {"UPCE_EXPANDED"})
    ELSE IF Len(v) = 8 /\ IsValidGtin(v) THEN Finish(v, {})
    ELSE IF IsValidGtin(Pad(v, 12)) THEN Finish(v, {"ZERO_PADDED"})
    ELSE Fail({"TOO_SHORT"})

(* normalize_upc.  significant is the length of a scientific mantissa, 0   *)
(* for a cell in plain notation.                                           *)
Normalize(cell, significant) ==
    LET kept == StripZeros(cell)
        v    == IF Len(cell) > 14 /\ Len(kept) <= 14 THEN Pad(kept, 14) ELSE cell
        sci  == significant > 0
    IN  IF cell = <<>> THEN Fail({"EMPTY"})
        ELSE IF sci /\ significant < Len(kept) - 1 THEN Fail({"PRECISION_LOST"})
        ELSE IF Len(v) > 14 THEN Fail({"TOO_LONG"})
        ELSE IF Len(v) \in 12..14 THEN Long(v, sci)
        ELSE IF Len(v) = 11 THEN Eleven(v)
        ELSE IF Len(v) \in 6..10 THEN Short(v)
        ELSE Fail({"TOO_SHORT"})

----------------------------------------------------------------------------
(* What a spreadsheet does to a barcode (the docstring's list).            *)

(* The number shown with k significant digits: rounded, then zero padded.  *)
Increment(s) ==
    LET below == {i \in DOMAIN s : s[i] # 9}
        last  == CHOOSE i \in below : \A j \in below : j <= i
    IN  IF below = {} THEN <<1>> \o Zeros(Len(s))
        ELSE [i \in DOMAIN s |-> IF i < last THEN s[i] ELSE IF i = last THEN s[i] + 1 ELSE 0]

Scientific(s, k) ==
    LET mantissa == SubSeq(s, 1, k)
        rounded  == IF s[k + 1] >= 5 THEN Increment(mantissa) ELSE mantissa
    IN  rounded \o Zeros(Len(s) - k)

(* The UPC-E payloads that stand for a UPC-A; most have none.              *)
Compressed(c) ==
    LET b == Front(c)
        payloads == {SubSeq(b, 2, 3) \o SubSeq(b, 9, 11) \o <<b[4]>>,
                     SubSeq(b, 2, 4) \o SubSeq(b, 10, 11) \o <<3>>,
                     SubSeq(b, 2, 5) \o <<b[11], 4>>,
                     SubSeq(b, 2, 6) \o <<b[11]>>}
    IN  {<<c[1]>> \o p \o <<Last(c)>> : p \in {q \in payloads :
            c[1] \in {0, 1} /\ UpceBody(c[1], q) = b}}

UpcInit ==
    /\ code \in {WithCheck(b) : b \in Bodies}
    /\ damage = "none"
    /\ outcome = Fail({})

Damaged(how, cell, significant) ==
    /\ damage = "none"
    /\ damage' = how
    /\ outcome' = Normalize(cell, significant)
    /\ UNCHANGED code

UpcNext ==
    \/ \E n \in 12..16 : Damaged("padded", Pad(code, n), 0)
    \/ Damaged("zeros_eaten", StripZeros(code), 0)
    \/ Damaged("no_check_digit", Front(code), 0)
    \/ \E u \in Compressed(code) : Damaged("compressed", u, 0)
    \/ \E i \in Indicators : Damaged("case", WithCheck(<<i>> \o Pad(Front(code), 12)), 0)
    \/ \E k \in 1..11 :
          LET s == StripZeros(code)
          IN  k < Len(s) /\ Damaged("scientific", Scientific(s, k), k)

UpcSpec == UpcInit /\ [][UpcNext]_upcVars

----------------------------------------------------------------------------
UpcTypeOK ==
    /\ Len(code) = 12 /\ IsValidGtin(code)
    /\ outcome.gtin # <<>> => Len(outcome.gtin) = 14 /\ Range(outcome.gtin) \subseteq Digits

(* "Silently produces a lookup miss rather than an error": a damaged       *)
(* barcode is never taken for another product's without a word.  Padding,  *)
(* compression and case codes come back exactly; where the digits allow    *)
(* two readings the other one is taken only under the warning that names   *)
(* the guess; and a check digit lost to scientific notation is restored,   *)
(* unless rounding it away carried into the digit before it or a leading   *)
(* zero was lost as well.                                                  *)
NeverSilentlyAnother ==
    damage # "none" /\ IsUsable(outcome) =>
        \/ SearchGtin(outcome.gtin) = Pad(code, 14)
        \/ damage = "case" /\ outcome.gtin[1] = 9
        \/ damage = "zeros_eaten" /\ "UPCE_EXPANDED" \in outcome.warnings
        \/ damage = "no_check_digit" /\ "AMBIGUOUS_11_DIGIT" \in outcome.warnings
        \/ damage = "scientific" /\ (Last(code) >= 5 \/ code[1] = 0)
=============================================================================
