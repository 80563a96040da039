-------------------------------- MODULE Units --------------------------------
(***************************************************************************)
(* Amounts as a person reads and types them: rust-lib/src/units.rs.  A     *)
(* numeral is its whole part and its fraction, the fraction's digits as a  *)
(* number and how many places they take: [whole |-> 0, part |-> 5, places  *)
(* |-> 2] is 0.05.  Exact integer arithmetic, as there.                    *)
(***************************************************************************)
EXTENDS Integers

CONSTANTS
    Radix,          \* 10
    DisplayPlaces,  \* DISPLAY_PLACES
    MaxAmount       \* the greatest U256

ASSUME UnitsAssumption ==
    /\ Radix \in Nat \ {0, 1} /\ DisplayPlaces \in Nat \ {0} /\ MaxAmount \in Nat

\* What a digit n places up is worth.
Pow[n \in Nat] == IF n = 0 THEN 1 ELSE Radix * Pow[n - 1]

TooLarge == -1
TooManyDecimals == -2

\* parse_units, of what was read as a numeral: refused, never truncated.
ParseUnits(n, decimals) ==
    LET base == (n.whole * Pow[n.places] + n.part) * Pow[decimals - n.places]
    IN  IF n.places > decimals THEN TooManyDecimals
        ELSE IF base > MaxAmount THEN TooLarge ELSE base

\* A fraction without its trailing zeros: the fewest places that say the same.
Trimmed(whole, part, places) ==
    LET fits == {p \in 0..places : part % Pow[places - p] = 0}
        least == CHOOSE p \in fits : \A q \in fits : p <= q
    IN  [whole |-> whole, part |-> part \div Pow[places - least], places |-> least]

\* format_exact: every digit.
FormatExact(raw, decimals) ==
    Trimmed(raw \div Pow[decimals], raw % Pow[decimals], decimals)

\* "<0.00001": more than nothing, and less than the display resolves.
Dust == [whole |-> 0, part |-> 0, places |-> -1]
KeptPlaces(decimals) == IF DisplayPlaces <= decimals THEN DisplayPlaces ELSE decimals

\* Mutant: rounded to the nearest, as a formatter of floats would.
DisplayRounded(raw, decimals) ==
    LET step == Pow[decimals - KeptPlaces(decimals)]
        shown == (raw + step \div 2) \div step
    IN  Trimmed(shown \div Pow[KeptPlaces(decimals)], shown % Pow[KeptPlaces(decimals)],
                KeptPlaces(decimals))

\* format_display: truncated to a few places, and dust marked as such.
FormatDisplay(raw, decimals) ==
    LET kept == KeptPlaces(decimals)
        step == Pow[decimals - kept]
    IN  IF raw > 0 /\ raw < step THEN Dust
        ELSE Trimmed(raw \div Pow[decimals], (raw % Pow[decimals]) \div step, kept)

\* decorate: what a reply shows beside an amount.
Decorate(raw, decimals) ==
    [raw |-> raw, exact |-> FormatExact(raw, decimals), display |-> FormatDisplay(raw, decimals)]
=============================================================================
