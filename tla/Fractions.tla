------------------------------ MODULE Fractions ------------------------------
(* Exact fractions in lowest terms, where the code computes with floats.   *)
EXTENDS Integers

\* No value: Python's None, which no comparison or sum is made with.
None == [num |-> 0, den |-> 0]
Known(x) == x.den # 0

Gcd[p \in Nat \X Nat] == IF p[2] = 0 THEN p[1] ELSE Gcd[<<p[2], p[1] % p[2]>>]
Magnitude(i) == IF i < 0 THEN -i ELSE i

\* The fraction n / d.
Frac(n, d) == LET s == IF d < 0 THEN -1 ELSE 1
                  g == Gcd[<<Magnitude(n), Magnitude(d)>>]
              IN  [num |-> s * (n \div g), den |-> s * (d \div g)]

Whole(i) == Frac(i, 1)
Plus(x, y) == Frac(x.num * y.den + y.num * x.den, x.den * y.den)
Minus(x, y) == Frac(x.num * y.den - y.num * x.den, x.den * y.den)
Times(x, y) == Frac(x.num * y.num, x.den * y.den)
Over(x, y) == Frac(x.num * y.den, x.den * y.num)
Less(x, y) == x.num * y.den < y.num * x.den
AtMost(x, y) == x.num * y.den <= y.num * x.den
Larger(x, y) == IF Less(x, y) THEN y ELSE x

\* The integer nearest to x, the even one of two: Python's round.
Nearest(x) == LET low == x.num \div x.den
                  twice == 2 * (x.num - low * x.den)
              IN  IF twice > x.den \/ (twice = x.den /\ low % 2 = 1) THEN low + 1 ELSE low
=============================================================================
