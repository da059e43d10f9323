----------------------------- MODULE PrefillSize -----------------------------
(***************************************************************************)
(* The size of the prefill is read three times: by numfmt and by the       *)
(* 64-bit arithmetic of the shell in ae/prefill.sh, and by ParseSize in    *)
(* src/prefill/fill.cpp.  A size is what the three tell apart in the text  *)
(* of FDP_PREFILL_SIZE: -12.5G has the sign "-", whole 12, a point, tenths *)
(* 5 and the unit "G".  whole is NoDigits in ".5G", and the unit is "none" *)
(* in a text that ends in a digit; "P" stands also for E, Z and Y, which   *)
(* numfmt knows and fill does not, and "other" for what neither knows.     *)
(***************************************************************************)
EXTENDS Integers

CONSTANTS ULL,       \* 2^64
          Kilo,      \* 2^10, the factor from a unit to the next
          MaxDecimal \* numfmt prints no number from here on: 10^19

ASSUME ULLAssumption == ULL \in Nat \ {0} /\ ULL % 2 = 0
ASSUME KiloAssumption == Kilo \in Nat \ {0}
ASSUME MaxDecimalAssumption == MaxDecimal \in Nat /\ MaxDecimal <= ULL

NoDigits == -1

Units == {"none", "K", "k", "M", "m", "G", "g", "T", "t", "P", "other"}

Sizes == [sign : {"none", "-", "+"}, whole : Nat \cup {NoDigits}, point : BOOLEAN,
          tenths : 0 .. 9, unit : Units]

Kilo2 == Kilo * Kilo
Kilo4 == Kilo2 * Kilo2

\* multiplier, or 0 for a unit that ParseSize does not know.
Multiplier(unit) ==
    CASE unit = "none"       -> 1
      [] unit \in {"K", "k"} -> Kilo
      [] unit \in {"M", "m"} -> Kilo2
      [] unit \in {"G", "g"} -> Kilo2 * Kilo
      [] unit \in {"T", "t"} -> Kilo4
      [] OTHER               -> 0

\* std::stoull stops at the point, takes a sign (of "-1" it makes the largest
\* number), and throws for a text without a number or a number too large.
Throws(size) == size.whole = NoDigits \/ size.whole >= ULL
Stoull(size) == IF size.sign = "-" THEN (ULL - size.whole) % ULL ELSE size.whole

\* Mutant of ParseSize: the unit is taken off the number and forgotten.
ParseSizeNoUnit(size) ==
    IF Throws(size) \/ Multiplier(size.unit) = 0 THEN 0 ELSE Stoull(size)

\* 0 is the answer for every text that is not a size.
ParseSize(size) ==
    IF Throws(size) THEN 0 ELSE (Stoull(size) * Multiplier(size.unit)) % ULL

\* numfmt --from=iec: capital units, P among them, no sign (a leading minus is
\* an option), and the fraction counts, rounded up.  A fraction without a
\* unit is printed as it is, and the arithmetic of the shell stops at it.
IecUnit(unit) ==
    CASE unit = "P"                            -> Kilo4 * Kilo
      [] unit \in {"k", "m", "g", "t", "other"} -> 0
      [] OTHER                                 -> Multiplier(unit)

Tenths(size) ==
    10 * (IF size.whole = NoDigits THEN 0 ELSE size.whole)
        + (IF size.point THEN size.tenths ELSE 0)

IecBytes(size) == (Tenths(size) * IecUnit(size.unit) + 9) \div 10

\* The sizes of which PREFILL_BYTES becomes a number.
Numfmt(size) ==
    /\ size.sign = "none" /\ IecUnit(size.unit) # 0
    /\ size.whole # NoDigits \/ size.point
    /\ size.point => size.unit # "none"
    /\ IecBytes(size) < MaxDecimal

\* The arithmetic of the shell: 64 bits, signed.
Signed(n) == ((n + (ULL \div 2)) % ULL) - (ULL \div 2)

\* A size as the documentation and config.example.env write it.
Plain(size) ==
    size.sign = "none" /\ size.whole # NoDigits /\ ~size.point
        /\ size.unit \in {"none", "K", "M", "G", "T"}
==============================================================================
