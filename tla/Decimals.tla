------------------------------- MODULE Decimals -------------------------------
(***************************************************************************)
(* Decimal arithmetic (num-runtime/src/decimal.rs): a coefficient of fixed *)
(* width and a scale, kept without trailing zeroes, so that the equality   *)
(* derived for the type compares values.  A behaviour applies operations   *)
(* to two decimals, the result of one being the left operand of the next.  *)
(***************************************************************************)
EXTENDS Integers, FiniteSetsExt

CONSTANTS
    MaxCoefficient, \* the width: 2^127 - 1 in the code
    Precision,      \* digits that a division adds: 9 in the code
    MaxDigits,      \* bound: coefficients the program starts with
    MaxScale,       \* bound: their scales
    MaxOps          \* bound: operations in a row

VARIABLES
    left, right,    \* the operands
    op,             \* the operation that was applied to them
    result,         \* what it gave
    ops             \* operations so far

vars == <<left, right, op, result, ops>>

\* An operation gives one value, or none if it fails.
Failed == {}
Fits(n) == n \in -(MaxCoefficient + 1) .. MaxCoefficient
\* pow10: the value that its loop reaches, and whether every step of it fits.
TenTo[digits \in Nat] == IF digits = 0 THEN 1 ELSE TenTo[digits - 1] * 10
Power(digits) == Fits(TenTo[digits])

Abs(n) == IF n < 0 THEN -n ELSE n
\* Integer division of the language rounds towards zero.
Quotient(a, b) ==
    IF (a < 0) = (b < 0) THEN Abs(a) \div Abs(b) ELSE -(Abs(a) \div Abs(b))
Remainder(a, b) == a - b * Quotient(a, b)

\* new: normalize drops trailing zeroes as long as there is a scale.
New(c, s) ==
    LET cut == Max({k \in 0 .. s : Remainder(c, TenTo[k]) = 0}) IN
    [coefficient |-> Quotient(c, TenTo[cut]), scale |-> s - cut]

Zero == [coefficient |-> 0, scale |-> 0]

Checked(c, s) == IF Fits(c) THEN {New(c, s)} ELSE Failed

Scale == IF left.scale > right.scale THEN left.scale ELSE right.scale

\* align: the power and the product are checked for both.
Aligned(d) == d.coefficient * TenTo[Scale - d.scale]
CanAlign ==
    \A d \in {left, right} : Power(Scale - d.scale) /\ Fits(Aligned(d))

\* Faulty variant: the scales are not aligned.
SumUnaligned(sign) == Checked(left.coefficient + sign * right.coefficient, Scale)

Sum(sign) ==
    IF CanAlign THEN Checked(Aligned(left) + sign * Aligned(right), Scale)
    ELSE Failed

Product == Checked(left.coefficient * right.coefficient, left.scale + right.scale)

\* A divisor with more digits after the point than the left operand and the
\* precision together has no quotient.
Ratio ==
    LET numerator == left.coefficient * TenTo[Precision]
        scale == left.scale + Precision - right.scale IN
    IF right.coefficient = 0 \/ ~Fits(numerator) \/ scale < 0 THEN Failed
    ELSE {New(Quotient(numerator, right.coefficient), scale)}

\* multiply_i128_round, which converts amounts of money.
Rounded(value) ==
    LET scaled == left.coefficient * value
        divisor == TenTo[left.scale]
        quotient == Quotient(scaled, divisor)
        double == 2 * Abs(Remainder(scaled, divisor)) IN
    IF ~Fits(scaled) \/ ~Power(left.scale) \/ ~Fits(double) THEN Failed
    ELSE {IF double < divisor THEN quotient ELSE IF scaled >= 0 THEN quotient + 1 ELSE quotient - 1}

\* cmp fails where the operands cannot be aligned.
Order ==
    IF ~CanAlign THEN Failed
    ELSE CASE Aligned(left) < Aligned(right) -> {-1}
           [] Aligned(left) = Aligned(right) -> {0}
           [] Aligned(left) > Aligned(right) -> {1}

-----------------------------------------------------------------------------
Parsed == {New(c, s) : c \in -MaxDigits .. MaxDigits, s \in 0 .. MaxScale}

Init ==
    /\ left \in Parsed
    /\ right \in Parsed
    /\ op = "none"
    /\ result = Failed
    /\ ops = 0

Apply(name, value) ==
    /\ op = "none"
    /\ op' = name /\ result' = value /\ ops' = ops + 1
    /\ UNCHANGED <<left, right>>

\* The next statement takes the result; a failed one stops the program.
Continue ==
    /\ op \in {"add", "subtract", "multiply", "divide"}
    /\ ops < MaxOps
    /\ \E d \in result : left' = d
    /\ op' = "none" /\ result' = Failed
    /\ UNCHANGED <<right, ops>>

Next ==
    \/ Apply("add", Sum(1))
    \/ Apply("subtract", Sum(-1))
    \/ Apply("multiply", Product)
    \/ Apply("divide", Ratio)
    \/ right.scale = 0 /\ Apply("round", Rounded(right.coefficient))
    \/ Apply("cmp", Order)
    \/ Continue

Spec == Init /\ [][Next]_vars

-----------------------------------------------------------------------------
(* Properties.                                                             *)

\* What addition, subtraction and multiplication give is the exact value, in
\* the one form without trailing zeroes, also after several of them.
ResultIsExact ==
    LET l == left.coefficient * TenTo[right.scale]
        r == right.coefficient * TenTo[left.scale]
        digits == left.scale + right.scale IN
    op \in {"add", "subtract", "multiply"} => \A d \in result :
        d.coefficient * TenTo[digits] = TenTo[d.scale] *
            CASE op = "add" -> l + r
              [] op = "subtract" -> l - r
              [] op = "multiply" -> left.coefficient * right.coefficient

\* Decimals that are equal as numbers are equal as values: the derived
\* equality, which == and map keys use, agrees with cmp.
EqualIsIdentical ==
    op = "cmp" /\ result # Failed => (result = {0} <=> left = right)

\* A quotient never exceeds the true one, on either side of zero, and is
\* less than one unit of its last place away from it.
QuotientIsTruncated ==
    op = "divide" => \A d \in result :
        LET digits == left.scale + Precision - right.scale
            q == Abs(d.coefficient) * TenTo[digits - d.scale]
            n == Abs(left.coefficient) * TenTo[Precision]
            r == Abs(right.coefficient) IN
        q * r <= n /\ n < (q + 1) * r

\* An amount is rounded to the nearest one, halves away from zero, the same
\* for a debit as for a credit.
RoundsHalfAway ==
    op = "round" => \A amount \in result :
        LET exact == left.coefficient * right.coefficient
            unit == TenTo[left.scale]
            nearest == (2 * Abs(exact) + unit) \div (2 * unit) IN
        amount = IF exact < 0 THEN -nearest ELSE nearest

\* Arithmetic on decimals is exact, or truncated or rounded as it says, and
\* never equal in value only.
AmountsAreExact ==
    ResultIsExact /\ EqualIsIdentical /\ QuotientIsTruncated /\ RoundsHalfAway
=============================================================================
