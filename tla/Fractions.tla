----------------------------- MODULE Fractions -----------------------------
(***************************************************************************)
(* Exact fractions for prices and quantities. rust_decimal keeps 28 digits; *)
(* what it rounds away beyond them is left out.                             *)
(***************************************************************************)
EXTENDS Integers

\* n/d, with d positive.
Frac(n, d) == [num |-> n, den |-> d]
Fractional == [num : Int, den : Nat \ {0}]

Whole(n) == Frac(n, 1)
Zero == Whole(0)
One == Whole(1)

Plus(x, y) == Frac(x.num * y.den + y.num * x.den, x.den * y.den)
Minus(x, y) == Frac(x.num * y.den - y.num * x.den, x.den * y.den)
Times(x, y) == Frac(x.num * y.num, x.den * y.den)

\* x / y for a positive y.
Over(x, y) == Frac(x.num * y.den, x.den * y.num)

Less(x, y) == x.num * y.den < y.num * x.den
AtMost(x, y) == ~Less(y, x)
Same(x, y) == x.num * y.den = y.num * x.den

\* The greatest integer that is not above x.
Floor(x) == x.num \div x.den
=============================================================================
