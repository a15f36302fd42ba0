--------------------------------- MODULE Numbers --------------------------------
(***************************************************************************)
(* How src/src/base/LogStream.cc writes numbers: convert() and convertHex() *)
(* for integers, formatSI() and formatIEC() for quantities.  A character   *)
(* is the value of a digit, or Minus.  Quantities are taken up to the unit *)
(* M, above which TLC has no integers; the rows for the larger units have  *)
(* the same shape.                                                         *)
(***************************************************************************)
EXTENDS Integers, SequencesExt

(* C++ rounds a quotient towards zero, TLA+ down; b is positive.           *)
Quotient(a, b) == IF a >= 0 \/ a % b = 0 THEN a \div b ELSE a \div b + 1

Remainder(a, b) == a - b * Quotient(a, b)

Minus == -1

(* digits[]: zero points at its middle, so that a remainder of either sign *)
(* finds its digit.                                                        *)
Digits == <<9, 8, 7, 6, 5, 4, 3, 2, 1, 0, 1, 2, 3, 4, 5, 6, 7, 8, 9>>

Zero(lsd) == Digits[10 + lsd]

(* The digits of a number in the order the do-while loop stores them, for  *)
(* at most 11 turns.                                                       *)
Stored(value, base) ==
    LET i[k \in 0 .. 11] == IF k = 0 THEN value ELSE Quotient(i[k - 1], base)
        turns == CHOOSE k \in 1 .. 11 : i[k] = 0 /\ \A j \in 1 .. k - 1 : i[j] # 0
    IN  [k \in 1 .. turns |-> Remainder(i[k - 1], base)]

Convert(value) ==
    LET lsds == Stored(value, 10)
        buf  == [k \in DOMAIN lsds |-> Zero(lsds[k])]
    IN  Reverse(IF value < 0 THEN Append(buf, Minus) ELSE buf)

ConvertHex(value) == Reverse(Stored(value, 16))

-------------------------------------------------------------------------------
(* A quantity as it is printed: its digits without the point, how many are *)
(* behind the point, and the length of the unit's name.                    *)
Printed(number, decimals, unitLen) ==
    [number |-> number, decimals |-> decimals, unitLen |-> unitLen]

(* "%.*f" of n / unit: the nearest number, either one in the middle.       *)
Rounded(n, unit, decimals, unitLen) ==
    LET scaled == (n % unit) * 10 ^ decimals
        down   == (n \div unit) * 10 ^ decimals + scaled \div unit
        rest   == 2 * (scaled % unit)
    IN  (IF rest <= unit THEN {Printed(down, decimals, unitLen)} ELSE {})
        \cup (IF rest >= unit THEN {Printed(down + 1, decimals, unitLen)} ELSE {})

(* Mutant: a unit's rows end where the number would have one digit more,   *)
(* before rounding.                                                        *)
BoundsNoRounding(unit, full) == <<10 * unit, 100 * unit, full * unit>>

(* Where the rows of a unit end: at 9.995, 99.95 and 999.5 or 1023.5 units, *)
(* rounded up to the next integer.                                         *)
Bounds(unit, full) ==
    <<10 * unit - unit \div 200, 100 * unit - unit \div 20, full * unit - unit \div 2>>

InUnit(n, unit, full, unitLen) ==
    LET b == Bounds(unit, full)
    IN  Rounded(n, unit, IF n < b[1] THEN 2 ELSE IF n < b[2] THEN 1 ELSE 0, unitLen)

(* What may be printed; n is less than 999.5M, or 1023.5Mi.                *)
FormatSI(n) ==
    IF n < 1000 THEN {Printed(n, 0, 0)}
    ELSE IF n < Bounds(1000, 1000)[3] THEN InUnit(n, 1000, 1000, 1)
    ELSE InUnit(n, 1000 * 1000, 1000, 1)

FormatIEC(n) ==
    IF n < 1024 THEN {Printed(n, 0, 0)}
    ELSE IF n < Bounds(1024, 1024)[3] THEN InUnit(n, 1024, 1024, 2)
    ELSE InUnit(n, 1024 * 1024, 1024, 2)

===============================================================================
