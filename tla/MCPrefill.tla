------------------------------ MODULE MCPrefill ------------------------------
(***************************************************************************)
(* Instances of Prefill, scaled: a unit is a factor of 2, and a number     *)
(* of 64 bits one of 8.                                                    *)
(***************************************************************************)
EXTENDS Prefill

Size(sign, whole, point, tenths, unit) ==
    [sign |-> sign, whole |-> whole, point |-> point, tenths |-> tenths, unit |-> unit]
Whole(n, unit) == Size("none", n, FALSE, 0, unit)

\* Of two buffers, of two and a half and of three, no multiple of the alignment,
\* of units that only one of numfmt and fill knows, with a fraction, a sign or no
\* digit, and too large for the device.
AllSizes ==
    {Whole(4, "K"), Whole(5, "K"), Whole(6, "K"), Whole(3, "none"), Whole(2, "k"),
     Whole(0, "P"), Whole(16, "T"), Size("none", 2, TRUE, 5, "K"),
     Size("none", NoDigits, TRUE, 5, "G"), Size("-", 2, FALSE, 0, "K")}
==============================================================================
