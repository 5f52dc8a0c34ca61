-------------------------------- MODULE Rounding --------------------------------
(* Numbers of sourcing/m15_sourcing.  Money, rates and measures are        *)
(* integers in units fine enough to be exact; what the code rounds is      *)
(* rounded as its Decimal does.                                            *)
EXTENDS Integers, FiniteSetsExt

None == -1      \* an absent value or threshold

(* a / b to the nearest, ties away from zero.                              *)
Rounded(a, b) == IF a >= 0 THEN (2 * a + b) \div (2 * b) ELSE -((b - 2 * a) \div (2 * b))

Clamp(lo, x, hi) == Max({lo, Min({x, hi})})
=============================================================================
