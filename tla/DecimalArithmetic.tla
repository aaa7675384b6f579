------------------------- MODULE DecimalArithmetic -------------------------
(***************************************************************************)
(* pkg/util/decimal.go: the arithmetic of decimals, an integer value with a *)
(* decimal exponent each, on which everything else of the package rests.    *)
(*                                                                         *)
(* big.Int is exact.  A nil value counts as 0 (ensureInitialized), and so   *)
(* has no representation of its own.  Exponents stay far from int32.        *)
(***************************************************************************)
EXTENDS Integers

CONSTANT DivisionPrecision  \* 16 in the code

----------------------------------------------------------------------------
New(value, exp) == [value |-> value, exp |-> exp]
Zero == New(0, 1)

\* big.Int's Exp of ten.
Ten[n \in Nat] == IF n = 0 THEN 1 ELSE 10 * Ten[n - 1]
SignOf(n) == IF n < 0 THEN -1 ELSE IF n = 0 THEN 0 ELSE 1
Size(n) == IF n < 0 THEN -n ELSE n
Lesser(x, y) == IF x >= y THEN y ELSE x
\* big.Int's Quo truncates; \div and % are its Euclidean Div and Mod.
Quo(a, b) == SignOf(a) * SignOf(b) * (Size(a) \div Size(b))

----------------------------------------------------------------------------
(* Arithmetic.                                                             *)

rescale(d, exp) ==
    New(IF exp > d.exp THEN Quo(d.value, Ten[exp - d.exp])
        ELSE d.value * Ten[d.exp - exp], exp)

Abs(d) == New(Size(d.value), d.exp)
Neg(d) == New(-d.value, d.exp)
Add(d, e) ==
    LET base == Lesser(d.exp, e.exp)
    IN  New(rescale(d, base).value + rescale(e, base).value, base)
Sub(d, e) ==
    LET base == Lesser(d.exp, e.exp)
    IN  New(rescale(d, base).value - rescale(e, base).value, base)
Mul(d, e) == New(d.value * e.value, d.exp + e.exp)
Shift(d, n) == New(d.value, d.exp + n)
Cmp(d, e) ==
    LET base == Lesser(d.exp, e.exp)
    IN  SignOf(rescale(d, base).value - rescale(e, base).value)
Equal(d, e) == Cmp(d, e) = 0
GreaterThan(d, e) == Cmp(d, e) = 1
GreaterThanOrEqual(d, e) == Cmp(d, e) \in {0, 1}
LessThan(d, e) == Cmp(d, e) = -1
LessThanOrEqual(d, e) == Cmp(d, e) \in {-1, 0}
Sign(d) == SignOf(d.value)

\* A divisor of 0 panics: no caller here passes one.
QuoRem(d, e, precision) ==
    LET shift == d.exp - e.exp + precision
        aa == IF shift < 0 THEN d.value ELSE d.value * Ten[shift]
        bb == IF shift < 0 THEN e.value * Ten[-shift] ELSE e.value
        q == Quo(aa, bb)
    IN  <<New(q, -precision),
          New(aa - q * bb, IF shift < 0 THEN d.exp ELSE e.exp - precision)>>

DivRound(d, e, precision) ==
    LET q == QuoRem(d, e, precision)[1]
        r == QuoRem(d, e, precision)[2]
        twice == New(2 * Size(r.value), r.exp + precision)
    IN  IF Cmp(twice, Abs(e)) < 0 THEN q
        ELSE IF SignOf(d.value) * SignOf(e.value) < 0 THEN Sub(q, New(1, -precision))
        ELSE Add(q, New(1, -precision))

Div(d, e) == DivRound(d, e, DivisionPrecision)

Truncate(d, precision) ==
    IF precision >= 0 /\ -precision > d.exp THEN rescale(d, -precision) ELSE d
Mod(d, e) == Sub(d, Mul(e, Truncate(Div(d, e), 0)))
IntPart(d) == rescale(d, 0).value
Rat(d) ==
    IF d.exp <= 0 THEN <<d.value, Ten[-d.exp]>> ELSE <<d.value * Ten[d.exp], 1>>

----------------------------------------------------------------------------
(* Rounding.                                                               *)

Round(d, places) ==
    LET ret == rescale(d, -places - 1).value
        half == IF ret < 0 THEN ret - 5 ELSE ret + 5
        floor == half \div 10
    IN  New(IF floor < 0 /\ half % 10 # 0 THEN floor + 1 ELSE floor, -places)

RoundBank(d, places) ==
    LET round == Round(d, places)
        tie == Cmp(Abs(Sub(d, round)), New(5, -places - 1)) = 0
    IN  IF ~tie \/ round.value % 2 = 0 THEN round
        ELSE New(round.value - (IF round.value < 0 THEN -1 ELSE 1), -places)

Floor(d) == IF d.exp >= 0 THEN d ELSE New(d.value \div Ten[-d.exp], 0)
Ceil(d) ==
    IF d.exp >= 0 THEN d
    ELSE LET unit == Ten[-d.exp]
         IN  New(d.value \div unit + (IF d.value % unit # 0 THEN 1 ELSE 0), 0)
============================================================================
