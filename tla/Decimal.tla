------------------------------- MODULE Decimal -----------------------------
(***************************************************************************)
(* pkg/util/decimal.go and yuan_cent.go: decimals with an integer value and *)
(* a decimal exponent, which amounts of money are held in.                  *)
(*                                                                         *)
(* A program obtains a decimal from a text, a float or two integers, and    *)
(* then goes on calculating with it: the state is the decimal it holds.     *)
(* The same number has many representations (12, 1.2e1, 120e-1), and each   *)
(* operation leaves another one for the next.  DecimalArithmetic has the    *)
(* arithmetic; the powers, cash, texts, floats and cents are here.          *)
(***************************************************************************)
EXTENDS DecimalArithmetic, Sequences, FiniteSets, SequencesExt, Bitwise

CONSTANTS
    Numbers,            \* integers the program computes with
    Exponents,          \* exponents New is called with
    Operands,           \* second operands, as <<value, exponent>>
    Places,             \* decimal places that are asked for
    DecimalTexts,       \* texts that are parsed
    Floats,             \* float64 values
    MaxValue            \* decimals the program goes on with (a model bound)

VARIABLE held           \* the decimals the program holds: none or one

----------------------------------------------------------------------------
(* Powers and sums.                                                        *)

\* Pow calls itself with half the exponent until its integer part is 0.
MaxHalvings == 31
Pow(d, e) ==
    LET half[i \in 0..MaxHalvings] ==
            IF i = 0 THEN e ELSE Div(half[i - 1], New(2, 0))
        power[i \in 0..MaxHalvings] ==
            IF IntPart(half[i]) = 0 THEN New(1, 0)
            ELSE LET square == Mul(power[i + 1], power[i + 1])
                 IN  IF IntPart(half[i]) % 2 = 0 THEN square
                     ELSE IF IntPart(half[i]) > 0 THEN Mul(square, d)
                     ELSE Div(square, d)
    IN  power[0]

MinOf(ds) == FoldLeft(LAMBDA a, d : IF Cmp(d, a) < 0 THEN d ELSE a, Head(ds), Tail(ds))
MaxOf(ds) == FoldLeft(LAMBDA a, d : IF Cmp(d, a) > 0 THEN d ELSE a, Head(ds), Tail(ds))
SumOf(ds) == FoldLeft(Add, Head(ds), Tail(ds))
Avg(ds) == Div(SumOf(ds), New(Len(ds), 0))

----------------------------------------------------------------------------
(* Cash.                                                                   *)

\* How many of the unit's parts make 1.  The interval 15 is the one of 10,
\* after a digit 5 was taken down by New(10 ^ n, exp), with Go's ^, the xor.
CashParts == (5 :> 20) @@ (10 :> 10) @@ (15 :> 10) @@ (25 :> 4) @@ (50 :> 2) @@ (100 :> 1)
TakenDown(d) ==
    IF d.exp < 0 /\ Equal(Mod(New(d.value, 0), New(5, 0)), Zero)
    THEN Sub(d, New(10 ^^ (-d.exp), d.exp)) ELSE d
RoundCash(d, interval) ==
    LET parts == New(CashParts[interval], 0)
        from == IF interval = 15 THEN TakenDown(d) ELSE d
    IN  Truncate(Div(Round(Mul(from, parts), 0), parts), 2)

----------------------------------------------------------------------------
(* Texts.  A text is [neg, whole, fraction, e]: a sign, the digits before   *)
(* and after the point, and the number after "e", 0 if there is none.       *)

NotADecimal == New(0, -100)     \* the outcome "can't convert"

Digits[n \in Nat] == IF n < 10 THEN <<n>> ELSE Append(Digits[n \div 10], n % 10)
Number(ds) == FoldLeft(LAMBDA n, c : 10 * n + c, 0, ds)
Zeros(n) == [i \in 1..n |-> 0]
TrimZeros(ds) == SubSeq(ds, 1, SelectLastInSeq(ds, LAMBDA c : c # 0))
Text(neg, whole, fraction) == [neg |-> neg, whole |-> whole, fraction |-> fraction, e |-> 0]

\* ".0" is "" once it is trimmed, and is refused.
NewFromString(t) ==
    LET fraction == TrimZeros(t.fraction)
        digits == t.whole \o fraction
    IN  IF digits = <<>> THEN NotADecimal
        ELSE New((IF t.neg THEN -1 ELSE 1) * Number(digits), t.e - Len(fraction))

stringOf(d, trim) ==
    IF d.exp >= 0
    THEN LET n == rescale(d, 0).value IN Text(n < 0, Digits[Size(n)], <<>>)
    ELSE LET str == Digits[Size(d.value)]
             point == Len(str) + d.exp
             fraction == IF point > 0 THEN SubSeq(str, point + 1, Len(str))
                         ELSE Zeros(-point) \o str
         IN  Text(d.value < 0, IF point > 0 THEN SubSeq(str, 1, point) ELSE <<0>>,
                  IF trim THEN TrimZeros(fraction) ELSE fraction)

String(d) == stringOf(d, TRUE)
StringFixed(d, places) == stringOf(Round(d, places), FALSE)
StringFixedBank(d, places) == stringOf(RoundBank(d, places), FALSE)
StringFixedCash(d, interval) == stringOf(RoundCash(d, interval), FALSE)
StringScaled(d, exp) == String(rescale(d, exp))

\* JSON: null, a quoted text, or a bare one.
Null == [kind |-> "null", text |-> Text(FALSE, <<>>, <<>>)]
MarshalJSON(d) == [kind |-> "quoted", text |-> String(d)]
MarshalJSONWithoutQuotes(d) == [kind |-> "bare", text |-> String(d)]
\* "" is too short to be unquoted, and its quotes do not parse.
UnmarshalJSON(old, j) == IF j.kind = "null" THEN old ELSE NewFromString(j.text)

\* Four bytes of the exponent's two's complement, big-endian, and the value
\* as gob writes it.
MarshalBinary(d) == [exp |-> [i \in 1..4 |-> (d.exp \div 256 ^ (4 - i)) % 256], value |-> d.value]
UnmarshalBinary(b) ==
    New(b.value, FoldLeft(LAMBDA n, byte : 256 * n + byte,
                          IF b.exp[1] < 128 THEN b.exp[1] ELSE b.exp[1] - 256, Tail(b.exp)))

----------------------------------------------------------------------------
(* Floats.  A float64 is (-1)^sign * mant * 2^exp2.                         *)

Exactly == -100     \* math.MinInt32: as many digits as there are

Factors2(n) == CHOOSE k \in 0..n : n % 2 ^ k = 0 /\ n % 2 ^ (k + 1) # 0
NewFromFloatWithExponent(f, exp) ==
    LET exp2 == f.exp2 + Factors2(f.mant)
        mant == f.mant \div 2 ^ Factors2(f.mant)
        to == IF exp < 0 /\ exp < exp2 THEN Lesser(exp2, 0) ELSE exp
        shift == exp2 - to
        dMant == mant * (IF to < 0 THEN 5 ^ (-to) ELSE 1) * (IF shift > 0 THEN 2 ^ shift ELSE 1)
        temp == (IF to > 0 THEN 5 ^ to ELSE 1) * (IF shift < 0 THEN 2 ^ (-shift) ELSE 1)
        rounded == IF to > 0 \/ shift < 0 THEN (dMant + temp \div 2) \div temp ELSE dMant
    IN  IF f.mant = 0 THEN New(0, 0) ELSE New((IF f.sign = 1 THEN -1 ELSE 1) * rounded, to)
NewFromFloat(f) == NewFromFloatWithExponent(f, Exactly)

\* Scan takes what a database driver sends; NullDecimal.Scan is Valid from
\* then on, whether the value could be read or not.
Scan(v) ==
    CASE v.kind = "float" -> NewFromFloat(v.float)
      [] v.kind = "int64" -> New(v.value, 0)
      [] v.kind = "text" -> NewFromString(v.text)
      [] OTHER -> NotADecimal
NullScan(old, v) ==
    IF v.kind = "nil" THEN [old EXCEPT !.Valid = FALSE]
    ELSE [Valid |-> TRUE, Decimal |-> Scan(v)]
Value(d) == [kind |-> "text", text |-> String(d)]
NullValue(n) == IF n.Valid THEN Value(n.Decimal) ELSE [kind |-> "nil"]
NullMarshalJSON(n) == IF n.Valid THEN MarshalJSON(n.Decimal) ELSE Null
NullUnmarshalJSON(old, j) ==
    IF j.kind = "null" THEN [old EXCEPT !.Valid = FALSE]
    ELSE [Valid |-> TRUE, Decimal |-> UnmarshalJSON(old.Decimal, j)]

\* Yuan are float64, given by the decimal they are nearest to; "%0.2f" rounds
\* them half to even, and the text it writes is parsed again.
Hundred == Text(FALSE, <<1, 0, 0>>, <<>>)
YuanToCent(yuan) ==
    IntPart(Mul(NewFromString(StringFixedBank(yuan, 2)), NewFromString(Hundred)))
CentToYuan(cent) ==
    Round(Div(NewFromString(String(New(cent, 0))), NewFromString(Hundred)), 2)

----------------------------------------------------------------------------
(* A program that calculates.                                              *)

Operand(p) == New(p[1], p[2])
DecInit == held = {}

Obtain ==
    /\ held = {}
    /\ held' \in {{New(v, e)} : v \in Numbers, e \in Exponents}
           \cup {{NewFromString(t)} : t \in DecimalTexts} \cup {{NewFromFloat(f)} : f \in Floats}
           \cup {{NewFromFloatWithExponent(f, -n)} : f \in Floats, n \in Places}
    /\ held' # {NotADecimal}

Results(d) ==
    {Neg(d), Abs(d), Floor(d), Ceil(d)}
    \cup {Round(d, n) : n \in Places} \cup {RoundBank(d, n) : n \in Places}
    \cup {Truncate(d, n) : n \in Places} \cup {RoundCash(d, i) : i \in DOMAIN CashParts}
    \cup UNION {{Add(d, e), Sub(d, e), Mul(d, e), Avg(<<d, e>>)} : e \in {Operand(p) : p \in Operands}}
    \cup UNION {{Div(d, e), Mod(d, e)} :
                   e \in {Operand(p) : p \in {q \in Operands : q[1] # 0}}}

Compute ==
    \E d \in held :
        /\ held' \in {{r} : r \in Results(d)}
        /\ \A r \in held' : Size(r.value) <= MaxValue /\ r.exp \in Exponents

DecNext == Obtain \/ Compute

----------------------------------------------------------------------------
(* What the results are: integers, in units of 10 ^ -Fine.                  *)

Fine == 4
Units(d) == d.value * 10 ^ (d.exp + Fine)
Hundredths(d) == d.value * 10 ^ (d.exp + 2)
Unit(places) == 10 ^ (Fine - places)
Multiple(n, unit) == Size(n) % unit = 0
\* r is the multiple of unit nearest to x, and of two the one away from 0.
Nearest(r, x, unit) ==
    /\ Multiple(r, unit)
    /\ 2 * Size(r - x) <= unit
    /\ 2 * Size(r - x) = unit => Size(r) > Size(x)
SameSign(a, b) == a * SignOf(b) >= 0

ArithmeticIsExact(d, e) ==
    LET x == Units(d)
        y == Units(e)
    IN  /\ Units(Add(d, e)) = x + y
        /\ Units(Sub(d, e)) = x - y
        /\ Units(Mul(d, e)) = Hundredths(d) * Hundredths(e)
        /\ LessThan(d, e) <=> x < y
        /\ LessThanOrEqual(d, e) <=> x <= y
        /\ GreaterThan(d, e) <=> x > y
        /\ GreaterThanOrEqual(d, e) <=> x >= y
        /\ Sign(Sub(d, e)) = SignOf(x - y)
        /\ \A z \in {x, y, 0} : Units(MinOf(<<d, e, Zero>>)) <= z /\ z <= Units(MaxOf(<<d, e, Zero>>))
        /\ Units(SumOf(<<d, e, d>>)) = 2 * x + y

\* d = e * q + r with r smaller than e's share of a unit and on d's side;
\* the rounded quotient is the nearest one.  Mod gives such an r too, unless Div
\* rounds the quotient up to an integer: r is then on the other side, and tiny.
DivisionIsExact(d, e, places) ==
    LET qr == QuoRem(d, e, places)
        share == Size(Hundredths(e)) * 10 ^ (2 - places)
    IN  /\ Units(d) = Hundredths(e) * Hundredths(qr[1]) + Units(qr[2])
        /\ Size(Units(qr[2])) < share /\ SameSign(Units(qr[2]), d.value)
        /\ Nearest(Hundredths(e) * Hundredths(DivRound(d, e, places)), Units(d), share)
        /\ LET m == Units(Mod(d, e))
           IN  /\ Size(m) < Size(Units(e))
               /\ SameSign(m, d.value) \/ 2 * 10 ^ DivisionPrecision * Size(m) <= Size(Units(e))
               /\ Multiple(Units(d) - m, Size(Units(e)))

\* To the nearest multiple of the interval, up from the middle; 15 is 10 down from
\* the middle.  For a decimal that ends in 0 or 5 the code does what is documented
\* for 15 only if it ends in a 5 at two places: 3.45 gives 3.4, but 3.5 gives 2.4.
CashIsNearest(d) ==
    LET x == Units(d)
        r15 == Units(RoundCash(d, 15))
    IN  /\ \A i \in DOMAIN CashParts \ {15} : Nearest(Units(RoundCash(d, i)), x, i * Unit(2))
        /\ d.exp >= 0 \/ d.value % 5 # 0 => Nearest(r15, x, Unit(1))
        /\ d.exp = -2 /\ d.value % 10 = 5 => Multiple(r15, Unit(1)) /\ x - r15 = 5 * Unit(2)

RoundingIsNearest(d, places) ==
    LET x == Units(d)
        unit == Unit(places)
        bank == Units(RoundBank(d, places))
        cut == Units(Truncate(d, places))
    IN  /\ Nearest(Units(Round(d, places)), x, unit)
        /\ Multiple(bank, unit) /\ 2 * Size(bank - x) <= unit
        /\ 2 * Size(bank - x) = unit => (bank \div unit) % 2 = 0
        /\ places >= 0 => Size(x) - unit < Size(cut) /\ Size(cut) <= Size(x)
        /\ places >= 0 => Multiple(cut, unit) /\ SameSign(cut, x)
        /\ Units(Floor(d)) <= x /\ x < Units(Floor(d)) + Unit(0)
        /\ Units(Ceil(d)) - Unit(0) < x /\ x <= Units(Ceil(d))
        /\ Multiple(Units(Floor(d)), Unit(0)) /\ Multiple(Units(Ceil(d)), Unit(0))

PowersAreExact(d) ==
    Size(d.value) <= 12 => \A n \in 1..3 :
        /\ Pow(d, New(n, 0)) = New(d.value ^ n, n * d.exp)
        /\ Pow(d, New(10 * n + 5, -1)) = Pow(d, New(n, 0))
        /\ Units(Shift(d, 1)) = 10 * Units(d)
        /\ Rat(d)[1] * 10 ^ Fine = Units(d) * Rat(d)[2]

\* What is written is read again: as a text, fixed to some places, as JSON,
\* binary, by way of a database, and as cents.
TextsComeBack(d) ==
    LET row == [Valid |-> TRUE, Decimal |-> d]
    IN  /\ Units(NewFromString(String(d))) = Units(d)
        /\ String(d).fraction # <<>> => Last(String(d).fraction) # 0
        /\ \A n \in Places :
             /\ Len(StringFixed(d, n).fraction) = (IF n > 0 THEN n ELSE 0)
             /\ Equal(NewFromString(StringFixed(d, n)), Round(d, n))
             /\ n >= 0 => Equal(NewFromString(StringScaled(d, -n)), Truncate(d, n))
        /\ \A i \in DOMAIN CashParts :
             Equal(NewFromString(StringFixedCash(d, i)), RoundCash(d, i))
        /\ UnmarshalBinary(MarshalBinary(d)) = d
        /\ \A j \in {MarshalJSON(d), MarshalJSONWithoutQuotes(d)} : Equal(UnmarshalJSON(Zero, j), d)
        /\ Equal(NullScan(row, NullValue(row)).Decimal, d)
        /\ Equal(NullUnmarshalJSON(row, NullMarshalJSON(row)).Decimal, d)
        /\ d.exp >= 0 => YuanToCent(CentToYuan(IntPart(d))) = IntPart(d)

SourcesAreExact ==
    /\ \A f \in Floats :
         LET x == (IF f.sign = 1 THEN -1 ELSE 1) * f.mant * 2 ^ (Fine + f.exp2) * 5 ^ Fine
         IN  /\ Units(NewFromFloat(f)) = x
             /\ \A n \in Places : Nearest(Units(NewFromFloatWithExponent(f, -n)), x, Unit(n))
    /\ \A t \in DecimalTexts :
         LET digits == t.whole \o t.fraction
         IN  NewFromString(t) # NotADecimal =>
               Units(NewFromString(t)) * 10 ^ Len(t.fraction)
                 = (IF t.neg THEN -1 ELSE 1) * Number(digits) * 10 ^ (Fine + t.e)

=============================================================================
