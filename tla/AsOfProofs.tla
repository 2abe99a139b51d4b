----------------------------- MODULE AsOfProofs ------------------------------
(***************************************************************************)
(* Proofs about the evidence of the regret ledger and its calibration, for *)
(* any subjects, any series of bars and any thresholds: the arithmetic of  *)
(* exact fractions first, then what a replay can see of its bars, what its *)
(* money is made of, and what the calibration finds.                       *)
(***************************************************************************)
EXTENDS AsOfEvaluation, SequenceTheorems, FiniteSetTheorems, TLAPS

\* The fold of the grid search.
TryPoint(p, best, t) == Try(p[1], p[2], best, t)
NoPoint(p) == Unfit
Searching == INSTANCE SequenceFolds WITH Op <- TryPoint, Base <- NoPoint

\* The fold of the returns that are promoted.
AddReturn(t, sum, c) == sum + (IF _promotes(c, t) THEN c.forward_return_pct ELSE 0)
NoReturn(t) == 0
Adding == INSTANCE SequenceFolds WITH Op <- AddReturn, Base <- NoReturn

\* The fold of the drawdown, from the first point of a curve.
FallFrom(top, acc, eq) == Fall(acc, eq)
TopOf(top) == [peak |-> top, worst |-> Whole(0)]
Falling == INSTANCE SequenceFolds WITH Op <- FallFrom, Base <- TopOf

\* The fold of the trades.
GainOf(p, x, t) == Gain(x, t)
Stake(p) == Whole(1)
Trading == INSTANCE SequenceFolds WITH Op <- GainOf, Base <- Stake

Positive == Nat \ {0}

-----------------------------------------------------------------------------
(* Division and Euclid's algorithm                                         *)

LEMMA DivMod ==
  ASSUME NEW a \in Nat, NEW b \in Positive
  PROVE  a \div b \in Nat /\ a % b \in Nat /\ a % b < b /\ a = (a \div b) * b + (a % b)
  BY DEF Positive

LEMMA Products ==
  ASSUME NEW a \in Nat, NEW b \in Nat
  PROVE  a * b \in Nat /\ (a # 0 /\ b # 0 => a * b # 0)
  OBVIOUS

LEMMA ExactDivision ==
  ASSUME NEW k \in Int, NEW g \in Positive
  PROVE  (k * g) \div g = k
  BY DEF Positive

\* Recursive on the second of the two numbers, as far as n.
GcdUpTo(f, n) ==
    f = [p \in Nat \X (0..n) |-> IF p[2] = 0 THEN p[1] ELSE f[<<p[2], p[1] % p[2]>>]]

LEMMA GcdNext ==
  ASSUME NEW p \in Nat \X Nat, p[2] # 0
  PROVE  /\ <<p[2], p[1] % p[2]>> \in Nat \X (0..(p[2] - 1)) /\ p[1] % p[2] \in Nat
         /\ p[1] % p[2] < p[2]
<1>1. p[1] \in Nat /\ p[2] \in Positive
  BY DEF Positive
<1> QED
  BY <1>1, DivMod DEF Positive

LEMMA GcdUnique ==
  ASSUME NEW n \in Nat, NEW m \in Nat, NEW f, NEW h, GcdUpTo(f, n), GcdUpTo(h, m), n <= m
  PROVE  \A p \in Nat \X (0..n) : f[p] = h[p]
<1> DEFINE S == {b \in 0..n : \E a \in Nat : f[<<a, b>>] # h[<<a, b>>]}
<1> SUFFICES ASSUME S # {} PROVE FALSE
  OBVIOUS
<1>1. S \in SUBSET Nat
  OBVIOUS
<1>2. PICK b \in S : \A k \in S : b <= k
  BY <1>1, Searching!Smallest
<1>3. PICK a \in Nat : f[<<a, b>>] # h[<<a, b>>]
  OBVIOUS
<1> DEFINE p == <<a, b>>
<1>4. p \in Nat \X (0..n) /\ p \in Nat \X (0..m) /\ p \in Nat \X Nat /\ p[1] = a /\ p[2] = b
  BY <1>1
<1>5. f[p] = (IF b = 0 THEN a ELSE f[<<b, a % b>>]) /\ h[p] = (IF b = 0 THEN a ELSE h[<<b, a % b>>])
  BY <1>4 DEF GcdUpTo
<1>6. b # 0
  BY <1>3, <1>5
<1>7. a % b \in Nat /\ a % b < b /\ b \in Nat
  BY <1>4, <1>6, GcdNext
<1>8. a % b \in S
  BY <1>3, <1>5, <1>6, <1>7
<1> QED
  BY <1>2, <1>7, <1>8

LEMMA GcdExists == \A n \in Nat : \E f : GcdUpTo(f, n)
<1> DEFINE S == {n \in Nat : \E f : GcdUpTo(f, n)}
<1>1. 0 \in S
  <2>1. GcdUpTo([p \in Nat \X (0..0) |-> p[1]], 0)
    BY DEF GcdUpTo
  <2> QED
    BY <2>1
<1>2. ASSUME NEW n \in Nat, n \in S PROVE n + 1 \in S
  <2>1. PICK f : GcdUpTo(f, n)
    BY <1>2
  <2> DEFINE h == [p \in Nat \X (0..(n + 1)) |->
                      IF p[2] = n + 1 THEN f[<<n + 1, p[1] % (n + 1)>>] ELSE f[p]]
  <2>2. ASSUME NEW p \in Nat \X (0..(n + 1))
        PROVE  h[p] = IF p[2] = 0 THEN p[1] ELSE h[<<p[2], p[1] % p[2]>>]
    <3>1. CASE p[2] = 0
      <4>1. p \in Nat \X (0..n)
        BY <3>1
      <4> QED
        BY <2>1, <3>1, <4>1 DEF GcdUpTo
    <3>2. CASE p[2] # 0
      <4> DEFINE q == <<p[2], p[1] % p[2]>>
      <4>1. q \in Nat \X (0..(n + 1)) /\ q[2] # n + 1
        BY <3>2, GcdNext
      <4>2. h[q] = f[q]
        BY <4>1
      <4>3. CASE p[2] = n + 1
        BY <3>2, <4>2, <4>3
      <4>4. CASE p[2] # n + 1
        <5>1. p \in Nat \X (0..n)
          BY <4>4
        <5>2. f[p] = f[q] /\ h[p] = f[p]
          BY <2>1, <3>2, <4>4, <5>1 DEF GcdUpTo
        <5> QED
          BY <3>2, <4>2, <5>2
      <4> QED
        BY <4>3, <4>4
    <3> QED
      BY <3>1, <3>2
  <2>3. GcdUpTo(h, n + 1)
    BY <2>2 DEF GcdUpTo
  <2> QED
    BY <2>3
<1> HIDE DEF S
<1>3. Nat \subseteq S
  BY <1>1, <1>2, Searching!Induction
<1> QED
  BY <1>3 DEF S

LEMMA GcdRecursive ==
  \A p \in Nat \X Nat : Gcd[p] = IF p[2] = 0 THEN p[1] ELSE Gcd[<<p[2], p[1] % p[2]>>]
<1> DEFINE upTo(n) == CHOOSE f : GcdUpTo(f, n)
           G == [p \in Nat \X Nat |-> upTo(p[2])[p]]
<1>1. \A n \in Nat : GcdUpTo(upTo(n), n)
  BY GcdExists
<1> HIDE DEF upTo
<1>2. ASSUME NEW p \in Nat \X Nat
      PROVE  G[p] = IF p[2] = 0 THEN p[1] ELSE G[<<p[2], p[1] % p[2]>>]
  <2>1. upTo(p[2])[p] = IF p[2] = 0 THEN p[1] ELSE upTo(p[2])[<<p[2], p[1] % p[2]>>]
    <3>1. p \in Nat \X (0..p[2]) /\ p[2] \in Nat
      OBVIOUS
    <3> QED
      BY <1>1, <3>1 DEF GcdUpTo
  <2>2. CASE p[2] = 0
    BY <2>1, <2>2
  <2>3. CASE p[2] # 0
    <3> DEFINE q == <<p[2], p[1] % p[2]>>
    <3>1. q \in Nat \X (0..q[2]) /\ q[2] \in Nat /\ q[2] <= p[2] /\ q \in Nat \X Nat
      BY <2>3, GcdNext
    <3>2. upTo(q[2])[q] = upTo(p[2])[q]
      BY <1>1, <3>1, GcdUnique
    <3> QED
      BY <2>1, <2>3, <3>1, <3>2
  <2> QED
    BY <2>2, <2>3
<1>3. G = [p \in Nat \X Nat |-> IF p[2] = 0 THEN p[1] ELSE G[<<p[2], p[1] % p[2]>>]]
  BY <1>2
<1> HIDE DEF G
<1>4. Gcd = [p \in Nat \X Nat |-> IF p[2] = 0 THEN p[1] ELSE Gcd[<<p[2], p[1] % p[2]>>]]
  BY <1>3 DEF Gcd
<1> QED
  BY <1>4

LEMMA GcdDivides ==
  ASSUME NEW a \in Nat, NEW b \in Positive
  PROVE  /\ Gcd[<<a, b>>] \in Positive /\ Gcd[<<a, b>>] <= b
         /\ \E k, l \in Nat : a = k * Gcd[<<a, b>>] /\ b = l * Gcd[<<a, b>>]
<1> DEFINE Good(x, y) == /\ Gcd[<<x, y>>] \in Positive /\ Gcd[<<x, y>>] <= y
                         /\ \E k, l \in Nat : x = k * Gcd[<<x, y>>] /\ y = l * Gcd[<<x, y>>]
           S == {y \in Positive : \E x \in Nat : ~Good(x, y)}
<1> SUFFICES ASSUME ~Good(a, b) PROVE FALSE
  BY Zenon
<1>0. b \in S
  BY Zenon
<1>1. S \in SUBSET Nat /\ S # {}
  BY <1>0 DEF Positive
<1>2. PICK y \in S : \A k \in S : y <= k
  <2> HIDE DEF S
  <2> QED
    BY <1>1, Searching!Smallest
<1>3. PICK x \in Nat : ~Good(x, y)
  OBVIOUS
<1>4. y \in Positive /\ y \in Nat /\ y # 0
  BY DEF Positive
<1>9. \A z \in Positive : z < y => \A w \in Nat : Good(w, z)
  <2> SUFFICES ASSUME NEW z \in Positive, z < y, NEW w \in Nat, ~Good(w, z) PROVE FALSE
    BY Zenon
  <2> HIDE DEF Good
  <2>1. z \in S /\ z \in Nat
    BY DEF Positive
  <2> QED
    BY <1>2, <1>4, <2>1
<1> HIDE DEF Good, S
<1> DEFINE q == x \div y
           r == x % y
<1>5. q \in Nat /\ r \in Nat /\ r < y /\ x = q * y + r
  BY <1>4, DivMod, Zenon
<1>6. Gcd[<<x, y>>] = Gcd[<<y, r>>]
  <2>1. <<x, y>> \in Nat \X Nat /\ <<x, y>>[1] = x /\ <<x, y>>[2] = y
    BY <1>4
  <2> QED
    BY <1>4, <2>1, GcdRecursive
<1> HIDE DEF q, r
<1>7. CASE r = 0
  <2>1. <<y, r>> \in Nat \X Nat /\ <<y, r>>[1] = y /\ <<y, r>>[2] = r
    BY <1>4, <1>5
  <2>2. Gcd[<<x, y>>] = y
    BY <1>6, <1>7, <2>1, GcdRecursive
  <2>3. x = q * y /\ y = 1 * y
    BY <1>4, <1>5, <1>7
  <2> QED
    BY <1>3, <1>4, <1>5, <2>2, <2>3 DEF Good
<1>8. CASE r # 0
  <2>1. r \in Positive /\ y \in Nat
    BY <1>4, <1>5, <1>8 DEF Positive
  <2>2. Good(y, r)
    BY <1>5, <1>9, <2>1, Zenon
  <2> DEFINE g == Gcd[<<y, r>>]
  <2>3. PICK k, l \in Nat : y = k * g /\ r = l * g
    BY <2>2 DEF Good
  <2>4. g \in Positive /\ g \in Nat /\ g <= y
    BY <1>4, <1>5, <2>2 DEF Positive, Good
  <2> HIDE DEF g
  <2>5. x = (q * k + l) * g
    BY <1>5, <2>3, <2>4
  <2>6. q * k + l \in Nat
    BY <1>5, Products
  <2>7. Gcd[<<x, y>>] = g
    BY <1>6 DEF g
  <2>8. Good(x, y)
    BY <2>3, <2>4, <2>5, <2>6, <2>7 DEF Good
  <2> QED
    BY <1>3, <2>8
<1> QED
  BY <1>7, <1>8

LEMMA ModScaled ==
  ASSUME NEW a \in Nat, NEW b \in Positive, NEW k \in Positive
  PROVE  (k * a) % (k * b) = k * (a % b)
<1> DEFINE q == a \div b
           r == a % b
           s == (k * a) \div (k * b)
           t == (k * a) % (k * b)
<1>1. k * a \in Nat /\ k * b \in Positive
  BY Products DEF Positive
<1>2. q \in Nat /\ r \in Nat /\ r < b /\ a = q * b + r
  BY DivMod, Zenon
<1>3. s \in Nat /\ t \in Nat /\ t < k * b /\ k * a = s * (k * b) + t
  BY <1>1, DivMod, Zenon
<1> HIDE DEF q, r, s, t
<1>4. k * r < k * b /\ k * r \in Nat /\ k * r >= 0
  BY <1>2 DEF Positive
<1>5. (s - q) * (k * b) = k * r - t
  BY <1>2, <1>3 DEF Positive
<1>6. s - q = 0
  BY ONLY <1>1, <1>2, <1>3, <1>4, <1>5 DEF Positive
<1>7. t = k * r
  BY <1>1, <1>2, <1>3, <1>4, <1>5, <1>6 DEF Positive
<1> QED
  BY <1>7 DEF t, r

\* Euclid's algorithm takes the same steps on multiples.
LEMMA GcdScaled ==
  ASSUME NEW a \in Nat, NEW b \in Nat, NEW k \in Positive
  PROVE  Gcd[<<k * a, k * b>>] = k * Gcd[<<a, b>>]
<1> DEFINE Good(x, y) == Gcd[<<k * x, k * y>>] = k * Gcd[<<x, y>>]
           S == {y \in Nat : \E x \in Nat : ~Good(x, y)}
<1> SUFFICES ASSUME S # {} PROVE FALSE
  OBVIOUS
<1>2. PICK y \in S : \A z \in S : y <= z
  BY Searching!Smallest
<1>3. PICK x \in Nat : ~Good(x, y)
  OBVIOUS
<1>9. \A z \in Nat : z < y => \A w \in Nat : Good(w, z)
  <2> SUFFICES ASSUME NEW z \in Nat, z < y, NEW w \in Nat, ~Good(w, z) PROVE FALSE
    BY Zenon
  <2> HIDE DEF Good
  <2>1. z \in S /\ y \in Nat
    OBVIOUS
  <2> QED
    BY <1>2, <2>1
<1>4. y \in Nat /\ k \in Nat /\ k # 0 /\ k * x \in Nat /\ k * y \in Nat
  BY Products DEF Positive
<1>5. /\ <<x, y>> \in Nat \X Nat /\ <<x, y>>[1] = x /\ <<x, y>>[2] = y
      /\ <<k * x, k * y>> \in Nat \X Nat
      /\ <<k * x, k * y>>[1] = k * x /\ <<k * x, k * y>>[2] = k * y
  BY <1>4
<1>6. CASE y = 0
  <2>1. Gcd[<<x, y>>] = x
    BY <1>5, <1>6, GcdRecursive
  <2>2. k * y = 0
    BY <1>4, <1>6
  <2>3. Gcd[<<k * x, k * y>>] = k * x
    BY <1>5, <2>2, GcdRecursive
  <2> QED
    BY <1>3, <2>1, <2>3
<1>7. CASE y # 0
  <2>1. y \in Positive /\ k * y # 0
    BY <1>4, <1>7, Products DEF Positive
  <2>2. Gcd[<<x, y>>] = Gcd[<<y, x % y>>]
    BY <1>5, <1>7, GcdRecursive
  <2>3. Gcd[<<k * x, k * y>>] = Gcd[<<k * y, (k * x) % (k * y)>>]
    BY <1>5, <2>1, GcdRecursive
  <2>4. (k * x) % (k * y) = k * (x % y)
    BY <2>1, ModScaled
  <2>5. x % y \in Nat /\ x % y < y
    BY <2>1, DivMod DEF Positive
  <2>7. Good(y, x % y)
    BY <1>4, <1>9, <2>5, Zenon
  <2> QED
    BY <1>3, <2>2, <2>3, <2>4, <2>7
<1> QED
  BY <1>6, <1>7

-----------------------------------------------------------------------------
(* Fractions                                                               *)

\* A fraction in lowest terms.
Canonical(x) ==
    /\ x = [num |-> x.num, den |-> x.den] /\ x.num \in Int /\ x.den \in Positive
    /\ Gcd[<<Magnitude(x.num), x.den>>] = 1

LEMMA MagnitudeScaled ==
  ASSUME NEW n \in Int, NEW k \in Positive
  PROVE  /\ Magnitude(n) \in Nat /\ Magnitude(k * n) = k * Magnitude(n)
         /\ n \in Nat => Magnitude(n) = n
<1>1. CASE n < 0
  <2>1. k * n < 0 /\ k * n \in Int
    BY <1>1 DEF Positive
  <2> QED
    BY <1>1, <2>1 DEF Magnitude, Positive
<1>2. CASE n >= 0
  <2>1. k * n >= 0 /\ k * n \in Int
    BY <1>2 DEF Positive
  <2> QED
    BY <1>2, <2>1 DEF Magnitude, Positive
<1> QED
  BY <1>1, <1>2

\* What Frac divides out.
LEMMA FracParts ==
  ASSUME NEW n \in Int, NEW d \in Positive
  PROVE  \E m \in Int, e \in Positive, g \in Positive :
            /\ g = Gcd[<<Magnitude(n), d>>] /\ n = g * m /\ d = g * e
            /\ Frac(n, d) = [num |-> m, den |-> e] /\ Canonical(Frac(n, d))
<1> DEFINE a == Magnitude(n)
           g == Gcd[<<a, d>>]
<1>1. a \in Nat
  BY MagnitudeScaled DEF Positive
<1>2. PICK k, l \in Nat : a = k * g /\ d = l * g
  BY <1>1, GcdDivides
<1>3. g \in Positive
  BY <1>1, GcdDivides
<1> DEFINE m == IF n < 0 THEN -k ELSE k
<1>4. m \in Int /\ Magnitude(m) = k /\ n = m * g
  <2>1. n = IF n < 0 THEN -a ELSE a
    BY DEF Magnitude
  <2> HIDE DEF a, g
  <2> QED
    BY <1>2, <1>3, <2>1 DEF Magnitude, Positive
<1>5. l \in Positive
  BY <1>2, <1>3 DEF Positive
<1>6. Frac(n, d) = [num |-> n \div g, den |-> d \div g]
  <2>1. Magnitude(d) = d /\ ~(d < 0)
    BY MagnitudeScaled DEF Positive
  <2>2. n \div g \in Int /\ d \div g \in Int
    BY <1>3 DEF Positive
  <2> HIDE DEF g
  <2>3. Frac(n, d) = [num |-> 1 * (n \div g), den |-> 1 * (d \div g)]
    BY <2>1 DEF Frac, g
  <2>4. 1 * (n \div g) = n \div g /\ 1 * (d \div g) = d \div g
    BY ONLY <2>2
  <2> QED
    BY <2>3, <2>4
<1> HIDE DEF g, m, a
<1>7. n \div g = m /\ d \div g = l
  BY <1>2, <1>3, <1>4, ExactDivision
<1>8. n = g * m /\ d = g * l /\ a = g * k
  BY <1>2, <1>3, <1>4 DEF Positive
<1>9. g = g * Gcd[<<k, l>>]
  BY <1>3, <1>8, GcdScaled DEF g
<1>10. Gcd[<<k, l>>] \in Positive
  BY <1>5, GcdDivides
<1>11. Gcd[<<k, l>>] = 1
  BY <1>3, <1>9, <1>10 DEF Positive
<1>12. Frac(n, d) = [num |-> m, den |-> l]
  BY <1>6, <1>7
<1>13. Canonical(Frac(n, d))
  BY <1>4, <1>5, <1>11, <1>12 DEF Canonical
<1> QED
  BY <1>3, <1>4, <1>5, <1>8, <1>12, <1>13 DEF g, a

LEMMA FracScaled ==
  ASSUME NEW n \in Int, NEW d \in Positive, NEW k \in Positive
  PROVE  Frac(k * n, k * d) = Frac(n, d)
<1>1. PICK m \in Int, e \in Positive, g \in Positive :
          /\ g = Gcd[<<Magnitude(n), d>>] /\ n = g * m /\ d = g * e
          /\ Frac(n, d) = [num |-> m, den |-> e]
  BY FracParts
<1>2. k * n \in Int /\ k * d \in Positive
  BY Products DEF Positive
<1>3. PICK x \in Int, y \in Positive, h \in Positive :
          /\ h = Gcd[<<Magnitude(k * n), k * d>>] /\ k * n = h * x /\ k * d = h * y
          /\ Frac(k * n, k * d) = [num |-> x, den |-> y]
  BY <1>2, FracParts
<1>4. h = k * g
  <2>1. Magnitude(n) \in Nat /\ Magnitude(k * n) = k * Magnitude(n) /\ d \in Nat
    BY MagnitudeScaled DEF Positive
  <2>2. Gcd[<<k * Magnitude(n), k * d>>] = k * Gcd[<<Magnitude(n), d>>]
    BY <2>1, GcdScaled
  <2> QED
    BY <1>1, <1>3, <2>1, <2>2
<1>5. h \in Int /\ h # 0 /\ k * n = h * m /\ k * d = h * e
  <2>1. /\ k \in Int /\ g \in Int /\ m \in Int /\ e \in Int /\ h \in Int /\ h # 0
    BY DEF Positive
  <2>2. k * (g * m) = (k * g) * m /\ k * (g * e) = (k * g) * e
    BY ONLY <2>1
  <2> QED
    BY <1>1, <1>4, <2>1, <2>2
<1>6. x = m /\ y = e
  <2>1. x \in Int /\ y \in Int /\ m \in Int /\ e \in Int
    BY DEF Positive
  <2>2. h * x = h * m /\ h * y = h * e
    BY <1>3, <1>5
  <2> QED
    BY ONLY <1>5, <2>1, <2>2
<1> QED
  BY <1>1, <1>3, <1>6

LEMMA FracSame ==
  ASSUME NEW n \in Int, NEW d \in Positive, NEW m \in Int, NEW e \in Positive, n * e = m * d
  PROVE  Frac(n, d) = Frac(m, e)
<1>1. Frac(e * n, e * d) = Frac(n, d) /\ Frac(d * m, d * e) = Frac(m, e)
  BY FracScaled
<1>2. e * n = d * m /\ e * d = d * e
  <2>1. n \in Int /\ m \in Int /\ d \in Int /\ e \in Int
    BY DEF Positive
  <2>2. e * n = n * e /\ d * m = m * d /\ e * d = d * e
    BY ONLY <2>1
  <2> QED
    BY <2>2
<1> QED
  BY <1>1, <1>2

LEMMA FracCanonical ==
  ASSUME NEW n \in Int, NEW d \in Positive
  PROVE  /\ Canonical(Frac(n, d)) /\ Frac(n, d).num * d = n * Frac(n, d).den
         /\ (n > 0 => Frac(n, d).num > 0) /\ (n >= 0 => Frac(n, d).num >= 0)
<1>1. PICK m \in Int, e \in Positive, g \in Positive :
          /\ g = Gcd[<<Magnitude(n), d>>] /\ n = g * m /\ d = g * e
          /\ Frac(n, d) = [num |-> m, den |-> e] /\ Canonical(Frac(n, d))
  BY FracParts
<1>2. g \in Int /\ e \in Int /\ g > 0 /\ m * (g * e) = (g * m) * e
  BY DEF Positive
<1>3. (g * m > 0 => m > 0) /\ (g * m >= 0 => m >= 0)
  BY ONLY <1>2, m \in Int
<1>4. Frac(n, d).num = m /\ Frac(n, d).den = e
  BY <1>1
<1>5. m * d = n * e
  BY <1>1, <1>2, Zenon
<1>6. (n > 0 => m > 0) /\ (n >= 0 => m >= 0)
  BY <1>1, <1>3, Zenon
<1> QED
  BY <1>1, <1>4, <1>5, <1>6, Zenon

LEMMA FracOf ==
  ASSUME NEW x, Canonical(x)
  PROVE  Frac(x.num, x.den) = x
<1>1. x.num \in Int /\ x.den \in Positive /\ Gcd[<<Magnitude(x.num), x.den>>] = 1
  BY DEF Canonical
<1>2. PICK m \in Int, e \in Positive, g \in Positive :
          /\ g = Gcd[<<Magnitude(x.num), x.den>>] /\ x.num = g * m /\ x.den = g * e
          /\ Frac(x.num, x.den) = [num |-> m, den |-> e]
  BY <1>1, FracParts
<1>3. x.num = m /\ x.den = e
  BY <1>1, <1>2 DEF Positive
<1> QED
  BY <1>2, <1>3 DEF Canonical

\* Two fractions of the same value are the same.
LEMMA SameValue ==
  ASSUME NEW x, Canonical(x), NEW y, Canonical(y), x.num * y.den = y.num * x.den
  PROVE  x = y
<1>1. x.num \in Int /\ x.den \in Positive /\ y.num \in Int /\ y.den \in Positive
  BY DEF Canonical
<1> QED
  BY <1>1, FracSame, FracOf

LEMMA WholeCanonical ==
  ASSUME NEW i \in Int
  PROVE  Whole(i) = [num |-> i, den |-> 1] /\ Canonical(Whole(i))
<1>0. 1 \in Positive
  BY DEF Positive
<1>1. PICK m \in Int, e \in Positive, g \in Positive :
          /\ g = Gcd[<<Magnitude(i), 1>>] /\ i = g * m /\ 1 = g * e
          /\ Frac(i, 1) = [num |-> m, den |-> e] /\ Canonical(Frac(i, 1))
  BY <1>0, FracParts
<1>2. g \in Nat /\ e \in Nat /\ g = 1 /\ e = 1
  BY <1>1 DEF Positive
<1>3. m = i
  BY <1>1, <1>2
<1> QED
  BY <1>1, <1>2, <1>3 DEF Whole

\* The operations, of fractions that need not be in lowest terms yet.
LEMMA TimesFrac ==
  ASSUME NEW a \in Int, NEW b \in Positive, NEW c \in Int, NEW d \in Positive
  PROVE  Times(Frac(a, b), Frac(c, d)) = Frac(a * c, b * d)
<1> DEFINE x == Frac(a, b)
           y == Frac(c, d)
<1>1. /\ x.num \in Int /\ x.den \in Positive /\ x.num * b = a * x.den
      /\ y.num \in Int /\ y.den \in Positive /\ y.num * d = c * y.den
  BY FracCanonical DEF Canonical
<1> HIDE DEF x, y
<1>2. /\ x.num * y.num \in Int /\ x.den * y.den \in Positive
      /\ a * c \in Int /\ b * d \in Positive
  BY <1>1, Products DEF Positive
<1>3. (x.num * y.num) * (b * d) = (a * c) * (x.den * y.den)
  <2>1. /\ x.num \in Int /\ x.den \in Int /\ y.num \in Int /\ y.den \in Int
        /\ a \in Int /\ b \in Int /\ c \in Int /\ d \in Int
    BY <1>1 DEF Positive
  <2>2. (x.num * y.num) * (b * d) = (x.num * b) * (y.num * d)
    BY ONLY <2>1
  <2>3. (a * c) * (x.den * y.den) = (a * x.den) * (c * y.den)
    BY ONLY <2>1
  <2> QED
    BY <1>1, <2>2, <2>3
<1>4. Frac(x.num * y.num, x.den * y.den) = Frac(a * c, b * d)
  BY <1>2, <1>3, FracSame
<1>5. Times(x, y) = Frac(a * c, b * d)
  BY <1>4 DEF Times
<1> QED
  BY <1>5 DEF x, y

LEMMA OverFrac ==
  ASSUME NEW a \in Int, NEW b \in Positive, NEW c \in Positive, NEW d \in Positive
  PROVE  Over(Frac(a, b), Frac(c, d)) = Frac(a * d, b * c)
<1> DEFINE x == Frac(a, b)
           y == Frac(c, d)
<1>0. c \in Int /\ c > 0
  BY DEF Positive
<1>1. /\ x.num \in Int /\ x.den \in Positive /\ x.num * b = a * x.den
      /\ y.num \in Positive /\ y.den \in Positive /\ y.num * d = c * y.den
  <2>1. y.num \in Int /\ y.num > 0 /\ y.den \in Positive /\ y.num * d = c * y.den
    BY <1>0, FracCanonical DEF Canonical
  <2>2. x.num \in Int /\ x.den \in Positive /\ x.num * b = a * x.den
    BY FracCanonical DEF Canonical
  <2>3. y.num \in Positive
    BY <2>1 DEF Positive
  <2> QED
    BY <2>1, <2>2, <2>3
<1> HIDE DEF x, y
<1>2. /\ x.num * y.den \in Int /\ x.den * y.num \in Positive
      /\ a * d \in Int /\ b * c \in Positive
  BY <1>1, Products DEF Positive
<1>3. (x.num * y.den) * (b * c) = (a * d) * (x.den * y.num)
  <2>1. /\ x.num \in Int /\ x.den \in Int /\ y.num \in Int /\ y.den \in Int
        /\ a \in Int /\ b \in Int /\ c \in Int /\ d \in Int
    BY <1>1 DEF Positive
  <2>2. (x.num * y.den) * (b * c) = (x.num * b) * (c * y.den)
    BY ONLY <2>1
  <2>3. (a * d) * (x.den * y.num) = (a * x.den) * (y.num * d)
    BY ONLY <2>1
  <2> QED
    BY <1>1, <2>2, <2>3
<1>4. Frac(x.num * y.den, x.den * y.num) = Frac(a * d, b * c)
  BY <1>2, <1>3, FracSame
<1>5. Over(x, y) = Frac(a * d, b * c)
  BY <1>4 DEF Over
<1> QED
  BY <1>5 DEF x, y

\* Values in lowest terms, and those that are positive.
Value == {x \in [num : Int, den : Positive] : Canonical(x)}
Priced == {x \in Value : x.num > 0}

LEMMA ValueIs ==
  ASSUME NEW x
  PROVE  /\ x \in Value <=> Canonical(x)
         /\ x \in Priced <=> Canonical(x) /\ x.num > 0
         /\ x \in Priced => x.num \in Positive
         /\ x \in Value => x.num \in Int /\ x.den \in Positive /\ Frac(x.num, x.den) = x
<1>1. ASSUME Canonical(x) PROVE x \in [num : Int, den : Positive]
  BY <1>1 DEF Canonical
<1>2. x \in Value <=> Canonical(x)
  BY <1>1 DEF Value
<1>3. x \in Value => x.num \in Int /\ x.den \in Positive /\ Frac(x.num, x.den) = x
  BY <1>2, FracOf DEF Value
<1>4. x \in Priced <=> Canonical(x) /\ x.num > 0
  BY <1>2 DEF Priced
<1>5. x \in Priced => x.num \in Positive
  BY <1>2, <1>3, <1>4 DEF Positive
<1> QED
  BY <1>2, <1>3, <1>4, <1>5

LEMMA FracValue ==
  ASSUME NEW n \in Int, NEW d \in Positive
  PROVE  /\ Frac(n, d) \in Value
         /\ n > 0 => Frac(n, d) \in Priced
         /\ n >= 0 => Frac(n, d).num >= 0
  BY FracCanonical, ValueIs

LEMMA WholeValue ==
  ASSUME NEW i \in Int
  PROVE  /\ Whole(i) \in Value /\ Whole(i).num = i /\ Whole(i).den = 1
         /\ i > 0 => Whole(i) \in Priced
  BY WholeCanonical, ValueIs

LEMMA SignOfProduct ==
  ASSUME NEW a \in Int, NEW b \in Positive
  PROVE  /\ a * b \in Int /\ (a > 0 => a * b \in Positive) /\ (a >= 0 => a * b >= 0)
  BY DEF Positive

LEMMA Arithmetic ==
  ASSUME NEW x \in Value, NEW y \in Value
  PROVE  /\ Plus(x, y) \in Value /\ Minus(x, y) \in Value /\ Times(x, y) \in Value
         /\ y \in Priced => Over(x, y) \in Value
         /\ x \in Priced /\ y \in Priced => Times(x, y) \in Priced /\ Over(x, y) \in Priced
         /\ x \in Priced /\ y.num >= 0 => Plus(x, y) \in Priced /\ Plus(y, x) \in Priced
<1>1. x.num \in Int /\ x.den \in Positive /\ y.num \in Int /\ y.den \in Positive
  BY ValueIs
<1>2. /\ x.num * y.den \in Int /\ y.num * x.den \in Int
      /\ x.den * y.den \in Positive /\ y.den * x.den \in Positive
      /\ x.num > 0 => x.num * y.den \in Positive
      /\ y.num > 0 => y.num * x.den \in Positive
      /\ y.num >= 0 => y.num * x.den >= 0
  <2>1. x.den > 0 /\ y.den > 0 /\ x.den \in Int /\ y.den \in Int
    BY <1>1 DEF Positive
  <2> QED
    BY <1>1, <2>1, SignOfProduct
<1>3. x.num * y.num \in Int
  BY <1>1
<1>4. Plus(x, y) \in Value /\ Minus(x, y) \in Value /\ Times(x, y) \in Value
  <2>1. x.num * y.den + y.num * x.den \in Int /\ x.num * y.den - y.num * x.den \in Int
    BY ONLY <1>2
  <2> QED
    BY <1>2, <1>3, <2>1, FracValue DEF Plus, Minus, Times
<1>5. ASSUME y \in Priced PROVE Over(x, y) \in Value /\ x.den * y.num \in Positive
  <2>1. y.num \in Positive /\ x.den \in Int /\ x.den > 0
    BY <1>1, <1>5, ValueIs DEF Positive
  <2>2. x.den * y.num \in Positive
    BY <2>1, SignOfProduct
  <2> QED
    BY <1>2, <2>2, FracValue DEF Over
<1>6. ASSUME x \in Priced, y \in Priced PROVE Times(x, y) \in Priced /\ Over(x, y) \in Priced
  <2>1. x.num \in Positive /\ y.num \in Positive /\ x.num > 0
    BY <1>6, ValueIs DEF Positive
  <2>2. x.num * y.num \in Positive /\ x.num * y.den \in Positive
    BY <1>1, <1>2, <2>1, SignOfProduct
  <2>3. x.num * y.num > 0 /\ x.num * y.den > 0
    BY <2>2 DEF Positive
  <2> QED
    BY <1>2, <1>3, <1>5, <1>6, <2>3, FracValue DEF Times, Over
<1>7. ASSUME x \in Priced, y.num >= 0 PROVE Plus(x, y) \in Priced /\ Plus(y, x) \in Priced
  <2>1. x.num * y.den \in Positive /\ y.num * x.den >= 0
    BY <1>2, <1>7, ValueIs
  <2> DEFINE a == x.num * y.den
             b == y.num * x.den
  <2>2. a \in Int /\ b \in Int /\ a > 0 /\ b >= 0
    BY <1>2, <2>1 DEF Positive
  <2> HIDE DEF a, b
  <2>3. a + b \in Int /\ b + a \in Int /\ a + b > 0 /\ b + a > 0
    BY <2>2
  <2> QED
    BY <1>2, <2>3, FracValue DEF Plus, a, b
<1> QED
  BY <1>4, <1>5, <1>6, <1>7

-----------------------------------------------------------------------------
(* The order of values                                                     *)

LEMMA Order ==
  ASSUME NEW x \in Value, NEW y \in Value
  PROVE  /\ AtMost(x, x) /\ (AtMost(x, y) \/ AtMost(y, x)) /\ (Less(x, y) <=> ~AtMost(y, x))
         /\ (Less(x, y) => AtMost(x, y))
         /\ Larger(x, y) \in {x, y} /\ AtMost(x, Larger(x, y)) /\ AtMost(y, Larger(x, y))
<1>1. /\ x.num * y.den \in Int /\ y.num * x.den \in Int /\ x.num * x.den \in Int
      /\ y.num * y.den \in Int
  <2>1. x.num \in Int /\ y.num \in Int /\ x.den \in Int /\ y.den \in Int
    BY ValueIs DEF Positive
  <2> QED
    BY <2>1
<1>2. /\ AtMost(x, x) /\ AtMost(y, y) /\ (AtMost(x, y) \/ AtMost(y, x))
      /\ (Less(x, y) <=> ~AtMost(y, x)) /\ (Less(x, y) => AtMost(x, y))
  BY <1>1 DEF AtMost, Less
<1> QED
  BY <1>2 DEF Larger

LEMMA Through ==
  ASSUME NEW a \in Int, NEW b \in Positive, NEW c \in Int, NEW d \in Positive,
         NEW e \in Int, NEW f \in Positive, a * d <= c * b, c * f <= e * d
  PROVE  /\ a * f <= e * b
         /\ a * d < c * b \/ c * f < e * d => a * f < e * b
<1>1. /\ b \in Int /\ d \in Int /\ f \in Int /\ b > 0 /\ d > 0 /\ f > 0
      /\ a \in Int /\ c \in Int /\ e \in Int
  BY DEF Positive
<1> DEFINE ad == a * d
           cb == c * b
           cf == c * f
           ed == e * d
<1>2. /\ ad \in Int /\ cb \in Int /\ cf \in Int /\ ed \in Int
      /\ ad <= cb /\ cf <= ed
  BY <1>1
<1>3. ad * f = (a * f) * d /\ cb * f = cf * b /\ ed * b = (e * b) * d
  BY ONLY <1>1
<1> HIDE DEF ad, cb, cf, ed
<1>4. ad * f <= cb * f /\ cf * b <= ed * b
  BY ONLY <1>1, <1>2
<1>5. (ad < cb => ad * f < cb * f) /\ (cf < ed => cf * b < ed * b)
  BY ONLY <1>1, <1>2
<1> DEFINE l == a * f
           r == e * b
           m == cf * b
<1>6. l \in Int /\ r \in Int /\ m \in Int
  BY <1>1, <1>2
<1>7. l * d <= m /\ m <= r * d /\ (ad < cb => l * d < m) /\ (cf < ed => m < r * d)
  BY <1>3, <1>4, <1>5, Zenon
<1> HIDE DEF l, r, m
<1>8. l * d \in Int /\ r * d \in Int
  BY <1>1, <1>6
<1>9. l * d <= r * d /\ (ad < cb \/ cf < ed => l * d < r * d)
  BY ONLY <1>6, <1>7, <1>8
<1>10. (l * d <= r * d => l <= r) /\ (l * d < r * d => l < r)
  BY ONLY <1>1, <1>6
<1> QED
  BY <1>9, <1>10, Zenon DEF l, r, ad, cb, cf, ed

LEMMA AtMostThrough ==
  ASSUME NEW x \in Value, NEW y \in Value, NEW z \in Value, AtMost(x, y), AtMost(y, z)
  PROVE  AtMost(x, z) /\ (Less(x, y) \/ Less(y, z) => Less(x, z))
<1>1. /\ x.num \in Int /\ y.num \in Int /\ z.num \in Int
      /\ x.den \in Positive /\ y.den \in Positive /\ z.den \in Positive
  BY ValueIs
<1>2. x.num * y.den <= y.num * x.den /\ y.num * z.den <= z.num * y.den
  BY DEF AtMost
<1> QED
  BY <1>1, <1>2, Through, Zenon DEF AtMost, Less

\* The order of fractions that need not be in lowest terms.
LEMMA FracOrder ==
  ASSUME NEW a \in Int, NEW b \in Positive, NEW c \in Int, NEW d \in Positive, a * d <= c * b
  PROVE  AtMost(Frac(a, b), Frac(c, d))
<1> DEFINE x == Frac(a, b)
           y == Frac(c, d)
<1>1. /\ x.num \in Int /\ x.den \in Positive /\ x.num * b = a * x.den
      /\ y.num \in Int /\ y.den \in Positive /\ y.num * d = c * y.den
  BY FracCanonical DEF Canonical
<1> HIDE DEF x, y
<1>2. x.num * b \in Int /\ y.num * d \in Int
  BY <1>1 DEF Positive
<1>3. x.num * b <= a * x.den /\ c * y.den <= y.num * d
  BY <1>1, <1>2
<1>4. x.num * d <= c * x.den
  BY <1>1, <1>3, Through, Zenon
<1>5. x.num * y.den <= y.num * x.den
  BY <1>1, <1>3, <1>4, Through, Zenon
<1> QED
  BY <1>5 DEF AtMost, x, y

-----------------------------------------------------------------------------
(* The loop of the backtest                                                *)

\* The rounds of a replay, as the recursive function that Replay reads.
Rounds(g, s, bars, first, last) ==
    g = [n \in first..last |-> IF n = first THEN Start(first) ELSE PlayBar(s, bars, g[n - 1])]

LEMMA RoundsExist ==
  ASSUME NEW s, NEW bars, NEW first \in Nat
  PROVE  \A k \in Nat : \E g : Rounds(g, s, bars, first, first + k)
<1> DEFINE S == {k \in Nat : \E g : Rounds(g, s, bars, first, first + k)}
<1>1. 0 \in S
  <2>1. Rounds([n \in first..(first + 0) |-> Start(first)], s, bars, first, first + 0)
    BY DEF Rounds
  <2> QED
    BY <2>1
<1>2. ASSUME NEW k \in Nat, k \in S PROVE k + 1 \in S
  <2>1. PICK g : Rounds(g, s, bars, first, first + k)
    BY <1>2
  <2> DEFINE last == first + (k + 1)
             h == [n \in first..last |-> IF n = last THEN PlayBar(s, bars, g[n - 1]) ELSE g[n]]
  <2>2. ASSUME NEW n \in first..last
        PROVE  h[n] = IF n = first THEN Start(first) ELSE PlayBar(s, bars, h[n - 1])
    <3>1. CASE n = last
      <4>1. n # first /\ n - 1 \in first..last /\ n - 1 # last
        BY <3>1
      <4>2. h[n - 1] = g[n - 1] /\ h[n] = PlayBar(s, bars, g[n - 1])
        BY <3>1, <4>1
      <4> QED
        BY <4>1, <4>2
    <3>2. CASE n # last
      <4>1. n \in first..(first + k)
        BY <3>2
      <4>2. n # first => n - 1 \in first..last /\ n - 1 # last
        BY <4>1
      <4>3. h[n] = g[n] /\ (n # first => h[n - 1] = g[n - 1])
        BY <3>2, <4>2
      <4>4. g[n] = IF n = first THEN Start(first) ELSE PlayBar(s, bars, g[n - 1])
        BY <2>1, <4>1 DEF Rounds
      <4> QED
        BY <4>3, <4>4
    <3> QED
      BY <3>1, <3>2
  <2>3. Rounds(h, s, bars, first, first + (k + 1))
    BY <2>2 DEF Rounds
  <2> QED
    BY <2>3
<1> HIDE DEF S
<1>3. Nat \subseteq S
  BY <1>1, <1>2, Searching!Induction
<1> QED
  BY <1>3 DEF S

LEMMA RoundsUnique ==
  ASSUME NEW s, NEW bars, NEW first \in Nat, NEW last \in Nat, NEW m \in Nat, last <= m,
         NEW g, Rounds(g, s, bars, first, last), NEW h, Rounds(h, s, bars, first, m)
  PROVE  \A n \in first..last : g[n] = h[n]
<1> DEFINE S == {n \in first..last : g[n] # h[n]}
<1> SUFFICES ASSUME S # {} PROVE FALSE
  OBVIOUS
<1>1. S \in SUBSET Nat
  OBVIOUS
<1>2. PICK n \in S : \A k \in S : n <= k
  BY <1>1, Searching!Smallest
<1>3. n \in first..last /\ n \in first..m /\ n \in Nat /\ g[n] # h[n]
  OBVIOUS
<1>4. /\ g[n] = IF n = first THEN Start(first) ELSE PlayBar(s, bars, g[n - 1])
      /\ h[n] = IF n = first THEN Start(first) ELSE PlayBar(s, bars, h[n - 1])
  BY <1>3 DEF Rounds
<1>5. n # first /\ g[n - 1] # h[n - 1] /\ n - 1 \in first..last
  BY <1>3, <1>4
<1>6. n - 1 \in S /\ ~(n <= n - 1)
  BY <1>3, <1>5
<1> QED
  BY <1>2, <1>6

LEMMA ReplayNext ==
  ASSUME NEW s, NEW bars, NEW first \in Nat
  PROVE  /\ Replay(s, bars, first, first) = Start(first)
         /\ \A n \in Nat : n >= first =>
               Replay(s, bars, first, n + 1) = PlayBar(s, bars, Replay(s, bars, first, n))
<1> DEFINE upTo(n) == CHOOSE g : Rounds(g, s, bars, first, n)
<1>1. ASSUME NEW n \in Nat, n >= first
      PROVE  Replay(s, bars, first, n) = upTo(n)[n] /\ Rounds(upTo(n), s, bars, first, n)
  <2>1. n - first \in Nat /\ n = first + (n - first)
    BY <1>1
  <2>2. \E g : Rounds(g, s, bars, first, n)
    BY <2>1, RoundsExist
  <2>3. Replay(s, bars, first, n) = upTo(n)[n]
    BY DEF Replay, Rounds
  <2> QED
    BY <2>2, <2>3
<1> HIDE DEF upTo
<1>2. Replay(s, bars, first, first) = Start(first)
  BY <1>1 DEF Rounds
<1>3. ASSUME NEW n \in Nat, n >= first
      PROVE  Replay(s, bars, first, n + 1) = PlayBar(s, bars, Replay(s, bars, first, n))
  <2>1. Rounds(upTo(n + 1), s, bars, first, n + 1) /\ Rounds(upTo(n), s, bars, first, n)
    BY <1>1, <1>3
  <2>2. upTo(n)[n] = upTo(n + 1)[n]
    BY <1>3, <2>1, RoundsUnique
  <2>3. upTo(n + 1)[n + 1] = PlayBar(s, bars, upTo(n + 1)[n])
    BY <1>3, <2>1 DEF Rounds
  <2> QED
    BY <1>1, <1>3, <2>2, <2>3
<1> QED
  BY <1>2, <1>3

-----------------------------------------------------------------------------
(* What a signal sees: the bars up to the one that is decided on.          *)

SameTo(b1, b2, n) ==
    /\ b1 \in Seq(Bar) /\ b2 \in Seq(Bar) /\ n \in Nat /\ n <= Len(b1) /\ n <= Len(b2)
    /\ \A i \in 1..n : b1[i] = b2[i]

LEMMA SubSeqSame ==
  ASSUME NEW u, NEW v, NEW m \in Int, NEW n \in Int, \A i \in m..n : u[i] = v[i]
  PROVE  SubSeq(u, m, n) = SubSeq(v, m, n)
<1> DEFINE S == {u[i] : i \in m..n}
           l == IF m <= n THEN n - m + 1 ELSE 0
           x == SubSeq(u, m, n)
           y == SubSeq(v, m, n)
<1>1. \A i \in m..n : u[i] \in S /\ v[i] \in S
  OBVIOUS
<1> HIDE DEF S
<1>2. /\ x \in Seq(S) /\ Len(x) = l /\ \A i \in 1..(n - m + 1) : x[i] = u[m + i - 1]
      /\ y \in Seq(S) /\ Len(y) = l /\ \A i \in 1..(n - m + 1) : y[i] = v[m + i - 1]
  BY <1>1, SubSeqProperties
<1> HIDE DEF x, y
<1>3. \A i \in 1..Len(x) : i \in 1..(n - m + 1) /\ m + i - 1 \in m..n
  BY <1>2
<1>4. \A i \in 1..Len(x) : x[i] = y[i]
  BY <1>2, <1>3
<1>5. x = y
  BY <1>2, <1>4, SeqEqual
<1> QED
  BY <1>5 DEF x, y

LEMMA FieldSame ==
  ASSUME NEW b1, NEW b2, NEW n, SameTo(b1, b2, n), NEW f
  PROVE  \A i \in 1..n : /\ Field(b1, f)[i] = Field(b2, f)[i]
                         /\ Field(b1, f)[i] = Whole(b1[i][f])
<1>1. \A i \in 1..n : i \in DOMAIN b1 /\ i \in DOMAIN b2 /\ b1[i] = b2[i]
  BY LenProperties DEF SameTo
<1> QED
  BY <1>1 DEF Field

LEMMA SmaSame ==
  ASSUME NEW u, NEW v, NEW n \in Nat, NEW period \in Positive, \A i \in 1..n : u[i] = v[i]
  PROVE  _sma(u, n, period) = _sma(v, n, period)
<1>1. CASE n < period
  BY <1>1 DEF _sma
<1>2. CASE ~(n < period)
  <2>1. \A i \in (n - period + 1)..n : u[i] = v[i]
    BY <1>2 DEF Positive
  <2>2. SubSeq(u, n - period + 1, n) = SubSeq(v, n - period + 1, n)
    BY <2>1, SubSeqSame DEF Positive
  <2> QED
    BY <1>2, <2>2 DEF _sma
<1> QED
  BY <1>1, <1>2

LEMMA EmaSame ==
  ASSUME NEW u, NEW v, NEW n \in Nat, NEW period \in Positive, \A i \in 1..n : u[i] = v[i]
  PROVE  _ema(u, n, period) = _ema(v, n, period)
<1>1. CASE n < period
  BY <1>1 DEF _ema
<1>2. CASE ~(n < period)
  <2>1. period \in Nat /\ period <= n
    BY <1>2 DEF Positive
  <2>2. (\A i \in 1..period : u[i] = v[i]) /\ (\A i \in (period + 1)..n : u[i] = v[i])
    BY <2>1
  <2>3. /\ SubSeq(u, 1, period) = SubSeq(v, 1, period)
        /\ SubSeq(u, period + 1, n) = SubSeq(v, period + 1, n)
    BY <2>1, <2>2, SubSeqSame
  <2> QED
    BY <1>2, <2>3 DEF _ema
<1> QED
  BY <1>1, <1>2

LEMMA RsiSame ==
  ASSUME NEW u, NEW v, NEW n \in Nat, NEW period \in Positive, \A i \in 1..n : u[i] = v[i]
  PROVE  _rsi(u, n, period) = _rsi(v, n, period)
<1> DEFINE delta(w) == [i \in 1..(n - 1) |-> Minus(w[i + 1], w[i])]
           moves(d, sign) == [i \in DOMAIN d |-> Larger(Times(sign, d[i]), Whole(0))]
           rsi(d) == IF n < period + 1 THEN None
                     ELSE Strength(Smoothed(moves(d, Whole(1)), period),
                                   Smoothed(moves(d, Whole(-1)), period))
<1>1. \A i \in 1..(n - 1) : u[i + 1] = v[i + 1] /\ u[i] = v[i]
  OBVIOUS
<1>2. delta(u) = delta(v)
  BY <1>1
<1>3. _rsi(u, n, period) = rsi(delta(u)) /\ _rsi(v, n, period) = rsi(delta(v))
  BY DEF _rsi
<1> HIDE DEF rsi, delta
<1> QED
  BY <1>2, <1>3

LEMMA AtrSame ==
  ASSUME NEW b1, NEW b2, NEW n, SameTo(b1, b2, n), NEW period \in Positive
  PROVE  _atr(b1, n, period) = _atr(b2, n, period)
<1> DEFINE gap(x, y) == Whole(Magnitude(x - y))
           range(b) == [i \in 1..(n - 1) |->
                          Larger(Whole(b[i + 1].high - b[i + 1].low),
                                 Larger(gap(b[i + 1].high, b[i].close),
                                        gap(b[i + 1].low, b[i].close)))]
           atr(r) == IF n < period + 1 THEN None ELSE Smoothed(r, period)
<1>0. n \in Nat /\ \A i \in 1..n : b1[i] = b2[i]
  BY DEF SameTo
<1>1. \A i \in 1..(n - 1) : b1[i + 1] = b2[i + 1] /\ b1[i] = b2[i]
  BY ONLY <1>0
<1>2. range(b1) = range(b2)
  BY <1>1
<1>3. _atr(b1, n, period) = atr(range(b1)) /\ _atr(b2, n, period) = atr(range(b2))
  BY DEF _atr
<1> HIDE DEF atr, range
<1> QED
  BY <1>2, <1>3

LEMMA MomentumSame ==
  ASSUME NEW u, NEW v, NEW n \in Nat, NEW period \in Positive, \A i \in 1..n : u[i] = v[i]
  PROVE  _momentum(u, n, period) = _momentum(v, n, period)
<1>1. CASE n < period + 1
  BY <1>1 DEF _momentum
<1>2. CASE ~(n < period + 1)
  <2>1. n \in 1..n /\ n - period \in 1..n
    BY <1>2 DEF Positive
  <2>2. u[n] = v[n] /\ u[n - period] = v[n - period]
    BY <2>1
  <2> QED
    BY <1>2, <2>2 DEF _momentum
<1> QED
  BY <1>1, <1>2

\* The value of a side of a condition.
LEMMA SideSame ==
  ASSUME NEW b1, NEW b2, NEW n, SameTo(b1, b2, n), NEW side \in IndicatorRef \cup Constant
  PROVE  _side_value(side, b1, n) = _side_value(side, b2, n)
<1>1. CASE side \in Constant
  BY <1>1 DEF Constant, _side_value
<1>2. CASE side \in IndicatorRef
  <2>1. side.indicator \in IndicatorName /\ side.period \in Positive /\ n \in Nat
    <3>1. side.indicator \in IndicatorName /\ side.period \in 2..250
      BY <1>2 DEF IndicatorRef, MIN_PERIOD, MAX_PERIOD
    <3>2. side.period \in Positive
      BY <3>1 DEF Positive
    <3>3. n \in Nat
      BY DEF SameTo
    <3> QED
      BY <3>1, <3>2, <3>3
  <2>2. \A f : \A i \in 1..n : Field(b1, f)[i] = Field(b2, f)[i]
    BY FieldSame
  <2>3. /\ _sma(Field(b1, "close"), n, side.period) = _sma(Field(b2, "close"), n, side.period)
        /\ _sma(Field(b1, "volume"), n, side.period) = _sma(Field(b2, "volume"), n, side.period)
    BY <2>1, <2>2, SmaSame
  <2>4. _ema(Field(b1, "close"), n, side.period) = _ema(Field(b2, "close"), n, side.period)
    BY <2>1, <2>2, EmaSame
  <2>5. _rsi(Field(b1, "close"), n, side.period) = _rsi(Field(b2, "close"), n, side.period)
    BY <2>1, <2>2, RsiSame
  <2>6. _atr(b1, n, side.period) = _atr(b2, n, side.period)
    BY <2>1, AtrSame
  <2>7. /\ _momentum(Field(b1, "close"), n, side.period)
             = _momentum(Field(b2, "close"), n, side.period)
    BY <2>1, <2>2, MomentumSame
  <2> QED
    BY <2>1, <2>3, <2>4, <2>5, <2>6, <2>7 DEF _side_value, IndicatorName
<1> QED
  BY <1>1, <1>2

LEMMA RuleSame ==
  ASSUME NEW b1, NEW b2, NEW n, SameTo(b1, b2, n), n # 0, NEW rule \in Rule
  PROVE  _eval_rule(rule, b1, n) = _eval_rule(rule, b2, n)
<1>1. SameTo(b1, b2, n - 1)
  BY DEF SameTo
<1>2. ASSUME NEW i \in DOMAIN rule.conditions
      PROVE  _eval_condition(rule.conditions[i], b1, n) = _eval_condition(rule.conditions[i], b2, n)
  <2> DEFINE c == rule.conditions[i]
  <2>1. rule.conditions \in Seq(Condition)
    BY DEF Rule
  <2>2. c \in Condition
    BY <2>1, ElementOfSeq, LenProperties
  <2>3. c.left \in IndicatorRef \cup Constant /\ c.right \in IndicatorRef \cup Constant
    BY <2>2 DEF Condition
  <2> HIDE DEF c
  <2>4. /\ _side_value(c.left, b1, n) = _side_value(c.left, b2, n)
        /\ _side_value(c.right, b1, n) = _side_value(c.right, b2, n)
        /\ _side_value(c.left, b1, n - 1) = _side_value(c.left, b2, n - 1)
        /\ _side_value(c.right, b1, n - 1) = _side_value(c.right, b2, n - 1)
    BY <1>1, <2>3, SideSame
  <2>5. _eval_condition(c, b1, n) = _eval_condition(c, b2, n)
    BY <2>4 DEF _eval_condition
  <2> QED
    BY <2>5 DEF c
<1>3. {i \in DOMAIN rule.conditions : _eval_condition(rule.conditions[i], b1, n)}
        = {i \in DOMAIN rule.conditions : _eval_condition(rule.conditions[i], b2, n)}
  BY <1>2
<1> QED
  BY <1>3 DEF _eval_rule

\* A round sees the bars up to the one it decides on, and the open of the next.
LEMMA RoundSame ==
  ASSUME NEW b1, NEW b2, NEW s \in Strategy, NEW p, SameTo(b1, b2, p.n), p.n # 0,
         b1[p.n + 1].open = b2[p.n + 1].open
  PROVE  PlayBar(s, b1, p) = PlayBar(s, b2, p)
<1>1. s.entry \in Rule /\ s.exit \in Rule
  BY DEF Strategy
<1>2. /\ _eval_rule(s.entry, b1, p.n) = _eval_rule(s.entry, b2, p.n)
      /\ _eval_rule(s.exit, b1, p.n) = _eval_rule(s.exit, b2, p.n)
  BY <1>1, RuleSame
<1>3. Signal(s, b1, p) = Signal(s, b2, p)
  BY <1>2 DEF Signal
<1>4. b1[p.n] = b2[p.n]
  BY DEF SameTo
<1> QED
  BY <1>3, <1>4 DEF PlayBar

-----------------------------------------------------------------------------
(* What a replay keeps                                                     *)

Trade == [entry : Priced, exit : Priced]
PlayRecord == [n : Nat, cash : Value, shares : Value, entry : Priced \cup {None},
               trades : Seq(Trade), curve : Seq(Priced)]

\* All in cash, or all in shares that were bought.
AllIn(p) == IF Flat(p) THEN p.cash \in Priced
            ELSE p.shares \in Priced /\ p.cash = Whole(0) /\ p.entry \in Priced
IsPlay(p) == p \in PlayRecord /\ AllIn(p)

LEMMA ZeroOne ==
  /\ Whole(0) \in Value /\ Whole(0).num = 0 /\ Whole(0).den = 1 /\ Whole(0) \notin Priced
  /\ Whole(1) \in Priced /\ Whole(1).num = 1 /\ Whole(1).den = 1
<1>1. 0 \in Int /\ 1 \in Int /\ 1 > 0 /\ ~(0 > 0)
  OBVIOUS
<1>2. Whole(0).num = 0
  BY <1>1, WholeValue
<1>3. Whole(0) \notin Priced
  BY <1>1, <1>2, ValueIs
<1> QED
  BY <1>1, <1>3, WholeValue

LEMMA StartIsPlay ==
  ASSUME NEW first \in Nat
  PROVE  IsPlay(Start(first)) /\ Start(first).n = first
<1>1. Flat(Start(first))
  BY DEF Flat, Start
<1>2. Whole(1) \in Value /\ Whole(0) \in Value /\ Whole(1) \in Priced
  BY ZeroOne, ValueIs
<1>3. Start(first) \in PlayRecord
  BY <1>2 DEF Start, PlayRecord
<1> QED
  BY <1>1, <1>2, <1>3 DEF IsPlay, AllIn, Start

LEMMA PlayParts ==
  ASSUME NEW p, IsPlay(p)
  PROVE  /\ p = [n |-> p.n, cash |-> p.cash, shares |-> p.shares, entry |-> p.entry,
                 trades |-> p.trades, curve |-> p.curve]
         /\ p.n \in Nat /\ p.cash \in Value /\ p.shares \in Value
         /\ p.entry \in Priced \cup {None} /\ p.trades \in Seq(Trade) /\ p.curve \in Seq(Priced)
         /\ Flat(p) => p.cash \in Priced
         /\ ~Flat(p) => p.shares \in Priced /\ p.cash = Whole(0) /\ p.entry \in Priced
  BY DEF IsPlay, AllIn, PlayRecord

\* What a fill makes of a play, field by field.
LEMMA FillParts ==
  ASSUME NEW p, IsPlay(p), NEW price \in Priced, NEW signal \in {"enter", "exit", "hold"}
  PROVE  /\ signal = "enter" =>
               Fill(signal, price, p) =
                  [n |-> p.n, cash |-> Whole(0), shares |-> Over(p.cash, price),
                   entry |-> price, trades |-> p.trades, curve |-> p.curve]
         /\ signal = "exit" =>
               Fill(signal, price, p) =
                  [n |-> p.n, cash |-> Times(p.shares, price), shares |-> Whole(0),
                   entry |-> None,
                   trades |-> Append(p.trades, [entry |-> p.entry, exit |-> price]),
                   curve |-> p.curve]
         /\ signal = "hold" => Fill(signal, price, p) = p
<1> DEFINE made(n, c, s, e, t, v) ==
       [n |-> n, cash |-> c, shares |-> s, entry |-> e, trades |-> t, curve |-> v]
<1>1. p = made(p.n, p.cash, p.shares, p.entry, p.trades, p.curve)
  BY PlayParts
<1>2. CASE signal = "enter"
  <2>1. Fill(signal, price, p) = [p EXCEPT !.shares = Over(p.cash, price), !.entry = price,
                                           !.cash = Whole(0)]
    BY <1>2 DEF Fill
  <2> QED
    BY <1>1, <1>2, <2>1
<1>3. CASE signal = "exit"
  <2>1. Fill(signal, price, p) =
           [p EXCEPT !.trades = Append(p.trades, [entry |-> p.entry, exit |-> price]),
                     !.cash = Times(p.shares, price), !.shares = Whole(0), !.entry = None]
    BY <1>1, <1>3 DEF Fill
  <2> QED
    BY <1>1, <1>3, <2>1
<1>4. CASE signal = "hold"
  BY <1>4 DEF Fill
<1> QED
  BY <1>2, <1>3, <1>4

LEMMA FillIsPlay ==
  ASSUME NEW p, IsPlay(p), NEW price \in Priced, NEW signal \in {"enter", "exit", "hold"},
         signal = "enter" => Flat(p), signal = "exit" => ~Flat(p)
  PROVE  IsPlay(Fill(signal, price, p)) /\ Fill(signal, price, p).n = p.n
<1> DEFINE q == Fill(signal, price, p)
<1>1. price \in Value /\ Whole(0) \in Value /\ Whole(0) \notin Priced
  BY ZeroOne, ValueIs
<1>2. CASE signal = "enter"
  <2>1. Over(p.cash, price) \in Priced /\ Over(p.cash, price) \in Value
    BY <1>1, <1>2, PlayParts, Arithmetic, ValueIs
  <2>2. q = [n |-> p.n, cash |-> Whole(0), shares |-> Over(p.cash, price),
             entry |-> price, trades |-> p.trades, curve |-> p.curve]
    BY <1>2, FillParts
  <2> HIDE DEF q
  <2>3. /\ q.n = p.n /\ q.cash = Whole(0) /\ q.shares = Over(p.cash, price) /\ q.entry = price
        /\ q \in PlayRecord
    BY <1>1, <2>1, <2>2, PlayParts DEF PlayRecord
  <2>4. q.shares # Whole(0)
    BY <1>1, <2>1, <2>3
  <2>5. IsPlay(q) /\ q.n = p.n
    BY <2>1, <2>3, <2>4 DEF IsPlay, AllIn, Flat
  <2> QED
    BY <2>5 DEF q
<1>3. CASE signal = "exit"
  <2>1. Times(p.shares, price) \in Priced /\ Times(p.shares, price) \in Value
    BY <1>1, <1>3, PlayParts, Arithmetic, ValueIs
  <2>2. Append(p.trades, [entry |-> p.entry, exit |-> price]) \in Seq(Trade)
    BY <1>3, PlayParts, AppendProperties DEF Trade
  <2>3. q = [n |-> p.n, cash |-> Times(p.shares, price), shares |-> Whole(0), entry |-> None,
             trades |-> Append(p.trades, [entry |-> p.entry, exit |-> price]),
             curve |-> p.curve]
    BY <1>3, FillParts
  <2> HIDE DEF q
  <2>4. /\ q.n = p.n /\ q.cash = Times(p.shares, price) /\ q.shares = Whole(0)
        /\ q \in PlayRecord
    BY <1>1, <2>1, <2>2, <2>3, PlayParts DEF PlayRecord
  <2>5. IsPlay(q) /\ q.n = p.n
    BY <2>1, <2>4 DEF IsPlay, AllIn, Flat
  <2> QED
    BY <2>5 DEF q
<1>4. CASE signal = "hold"
  BY <1>4, FillParts
<1> QED
  BY <1>2, <1>3, <1>4

LEMMA EquityPriced ==
  ASSUME NEW p, IsPlay(p), NEW close \in Positive
  PROVE  Equity(p, close) \in Priced
<1>1. Whole(close) \in Priced /\ Whole(close) \in Value
  BY WholeValue, ValueIs DEF Positive
<1>2. CASE Flat(p)
  <2>1. p.shares = Whole(0) /\ Whole(0) \in Value /\ Whole(0).num = 0
    BY <1>2, ZeroOne DEF Flat
  <2>2. Times(Whole(0), Whole(close)) \in Value /\ Times(Whole(0), Whole(close)).num >= 0
    <3>1. /\ Whole(close).num \in Int /\ Whole(close).den \in Positive
          /\ Whole(0).den \in Positive
      BY <1>1, <2>1, ValueIs
    <3>2. 0 * Whole(close).num = 0 /\ Whole(0).den * Whole(close).den \in Positive
      BY <3>1 DEF Positive
    <3>3. Times(Whole(0), Whole(close)) = Frac(0, Whole(0).den * Whole(close).den)
      BY <2>1, <3>2 DEF Times
    <3> QED
      BY <3>2, <3>3, FracValue
  <2>3. p.cash \in Priced /\ p.cash \in Value
    BY <1>2, PlayParts
  <2> QED
    BY <2>1, <2>2, <2>3, Arithmetic DEF Equity
<1>3. CASE ~Flat(p)
  <2>1. p.shares \in Priced /\ p.cash = Whole(0) /\ p.shares \in Value
    BY <1>3, PlayParts
  <2>2. Times(p.shares, Whole(close)) \in Priced /\ Times(p.shares, Whole(close)) \in Value
    BY <1>1, <2>1, Arithmetic
  <2>3. Whole(0) \in Value /\ Whole(0).num >= 0
    BY ZeroOne
  <2> QED
    BY <2>1, <2>2, <2>3, Arithmetic DEF Equity
<1> QED
  BY <1>2, <1>3

LEMMA MarkIsPlay ==
  ASSUME NEW p, IsPlay(p), NEW close \in Positive
  PROVE  /\ IsPlay(Mark(p, close))
         /\ Mark(p, close).n = p.n + 1 /\ Mark(p, close).cash = p.cash
         /\ Mark(p, close).shares = p.shares /\ Mark(p, close).entry = p.entry
         /\ Mark(p, close).trades = p.trades
         /\ Mark(p, close).curve = Append(p.curve, Equity(p, close))
<1> DEFINE q == Mark(p, close)
           eq == Equity(p, close)
<1>1. eq \in Priced
  BY EquityPriced
<1>2. q = [p EXCEPT !.n = p.n + 1, !.curve = Append(p.curve, eq)]
  BY PlayParts DEF Mark
<1> HIDE DEF q, eq
<1>3. Append(p.curve, eq) \in Seq(Priced) /\ p.n + 1 \in Nat
  BY <1>1, PlayParts, AppendProperties
<1>4. q = [n |-> p.n + 1, cash |-> p.cash, shares |-> p.shares, entry |-> p.entry,
           trades |-> p.trades, curve |-> Append(p.curve, eq)]
  <2>1. p = [n |-> p.n, cash |-> p.cash, shares |-> p.shares, entry |-> p.entry,
             trades |-> p.trades, curve |-> p.curve]
    BY PlayParts
  <2> QED
    BY <1>2, <2>1
<1>5. /\ q \in PlayRecord
      /\ q.n = p.n + 1 /\ q.cash = p.cash /\ q.shares = p.shares /\ q.entry = p.entry
      /\ q.trades = p.trades /\ q.curve = Append(p.curve, eq)
  BY <1>3, <1>4, PlayParts DEF PlayRecord
<1>6. AllIn(q)
  <2>1. AllIn(p)
    BY DEF IsPlay
  <2> QED
    BY <1>5, <2>1, Zenon DEF AllIn, Flat
<1>7. IsPlay(q)
  BY <1>5, <1>6 DEF IsPlay
<1> QED
  BY <1>5, <1>7 DEF q, eq

\* Bar n of a series, and the one after it.
LEMMA PlayBarIsPlay ==
  ASSUME NEW s, NEW bars \in Seq(Bar), NEW p, IsPlay(p), p.n \in 1..(Len(bars) - 1)
  PROVE  IsPlay(PlayBar(s, bars, p)) /\ PlayBar(s, bars, p).n = p.n + 1
<1>1. bars[p.n].close \in Positive /\ bars[p.n + 1].open \in Positive
  <2>1. p.n \in 1..Len(bars) /\ p.n + 1 \in 1..Len(bars)
    BY LenProperties
  <2>2. bars[p.n] \in Bar /\ bars[p.n + 1] \in Bar
    BY <2>1, ElementOfSeq
  <2> QED
    BY <2>2 DEF Bar, Positive
<1>2. Whole(bars[p.n + 1].open) \in Priced
  BY <1>1, WholeValue DEF Positive
<1> DEFINE signal == Signal(s, bars, p)
           q == Fill(signal, Whole(bars[p.n + 1].open), p)
<1>3. /\ signal \in {"enter", "exit", "hold"}
      /\ signal = "enter" => Flat(p)
      /\ signal = "exit" => ~Flat(p)
  BY DEF Signal
<1> HIDE DEF signal
<1>4. IsPlay(q) /\ q.n = p.n
  BY <1>2, <1>3, FillIsPlay
<1>5. PlayBar(s, bars, p) = Mark(q, bars[p.n].close)
  BY DEF PlayBar, signal
<1> HIDE DEF q
<1> QED
  BY <1>1, <1>4, <1>5, MarkIsPlay

\* A replay is a play, and stands where it was stopped.
LEMMA ReplayIsPlay ==
  ASSUME NEW s, NEW bars \in Seq(Bar), NEW first \in Positive, NEW last \in Nat,
         first <= last, last <= Len(bars)
  PROVE  IsPlay(Replay(s, bars, first, last)) /\ Replay(s, bars, first, last).n = last
<1> DEFINE at_(k) == Replay(s, bars, first, first + k)
           S == {k \in Nat : first + k <= last => IsPlay(at_(k)) /\ at_(k).n = first + k}
<1>0. first \in Nat /\ first >= 1 /\ Len(bars) \in Nat
  BY LenProperties DEF Positive
<1>1. 0 \in S
  <2>1. first + 0 = first
    BY <1>0
  <2>2. Replay(s, bars, first, first) = Start(first)
    BY <1>0, ReplayNext
  <2> QED
    BY <1>0, <2>1, <2>2, StartIsPlay
<1>2. ASSUME NEW k \in Nat, k \in S PROVE k + 1 \in S
  <2> SUFFICES ASSUME first + (k + 1) <= last
               PROVE  IsPlay(at_(k + 1)) /\ at_(k + 1).n = first + (k + 1)
    OBVIOUS
  <2>1. /\ first + k \in Nat /\ first + k >= first /\ first + k <= last
        /\ first + (k + 1) = (first + k) + 1 /\ first + k \in 1..(Len(bars) - 1)
    BY <1>0
  <2>2. IsPlay(at_(k)) /\ at_(k).n = first + k
    BY <1>2, <2>1
  <2>3. at_(k + 1) = PlayBar(s, bars, at_(k))
    <3>1. Replay(s, bars, first, (first + k) + 1)
             = PlayBar(s, bars, Replay(s, bars, first, first + k))
      BY <1>0, <2>1, ReplayNext, ZenonT(60)
    <3> QED
      BY <2>1, <3>1, Zenon
  <2> HIDE DEF at_
  <2> QED
    BY <2>1, <2>2, <2>3, PlayBarIsPlay
<1> HIDE DEF S, at_
<1>3. Nat \subseteq S
  BY <1>1, <1>2, Searching!Induction
<1>4. last - first \in Nat /\ first + (last - first) = last
  BY <1>0
<1> QED
  BY <1>3, <1>4 DEF S, at_

LEMMA ReplayStep ==
  ASSUME NEW s, NEW bars, NEW first \in Nat, NEW n \in Nat, n >= first
  PROVE  Replay(s, bars, first, n + 1) = PlayBar(s, bars, Replay(s, bars, first, n))
  BY ReplayNext

\* Two series that agree below a bar, and on its open, are the same to a replay up to it.
LEMMA ReplaySame ==
  ASSUME NEW s \in Strategy, NEW first \in Positive, NEW last \in Nat, first <= last,
         NEW b1 \in Seq(Bar), NEW b2 \in Seq(Bar), last <= Len(b1), last <= Len(b2),
         \A i \in 1..(last - 1) : b1[i] = b2[i],
         b1[last].open = b2[last].open
  PROVE  Replay(s, b1, first, last) = Replay(s, b2, first, last)
<1> DEFINE at_(b, k) == Replay(s, b, first, first + k)
           S == {k \in Nat : first + k <= last => at_(b1, k) = at_(b2, k)}
<1>0. /\ first \in Nat /\ first >= 1 /\ Len(b1) \in Nat /\ Len(b2) \in Nat
      /\ first + 0 = first
  BY LenProperties DEF Positive
<1>1. 0 \in S
  BY <1>0, ReplayNext
<1>2. ASSUME NEW k \in Nat, k \in S PROVE k + 1 \in S
  <2> SUFFICES ASSUME first + (k + 1) <= last PROVE at_(b1, k + 1) = at_(b2, k + 1)
    OBVIOUS
  <2>1. /\ first + k \in Nat /\ first + k >= first /\ first + k <= last
        /\ first + (k + 1) = (first + k) + 1 /\ first + k # 0
        /\ first + k <= Len(b1) /\ first + k <= Len(b2)
    BY <1>0
  <2>2. /\ at_(b1, k + 1) = PlayBar(s, b1, at_(b1, k))
        /\ at_(b2, k + 1) = PlayBar(s, b2, at_(b2, k))
    <3>1. ASSUME NEW b
          PROVE  Replay(s, b, first, (first + k) + 1)
                    = PlayBar(s, b, Replay(s, b, first, first + k))
      BY <1>0, <2>1, ReplayStep
    <3> QED
      BY <2>1, <3>1, Zenon
  <2>3. at_(b1, k) = at_(b2, k)
    BY <1>2, <2>1
  <2>4. at_(b1, k).n = first + k
    BY <2>1, ReplayIsPlay
  <2> HIDE DEF at_
  <2>5. SameTo(b1, b2, first + k)
    <3>1. \A i \in 1..(first + k) : i \in 1..(last - 1)
      BY <1>0, <2>1
    <3> QED
      BY <2>1, <3>1 DEF SameTo
  <2>6. b1[first + k + 1].open = b2[first + k + 1].open
    <3>1. CASE first + (k + 1) = last
      BY <2>1, <3>1
    <3>2. CASE first + (k + 1) # last
      <4>1. (first + k) + 1 \in 1..(last - 1)
        BY <1>0, <2>1, <3>2
      <4> QED
        BY <4>1
    <3> QED
      BY <3>1, <3>2
  <2>7. PlayBar(s, b1, at_(b1, k)) = PlayBar(s, b2, at_(b1, k))
    BY <2>1, <2>4, <2>5, <2>6, RoundSame
  <2> QED
    BY <2>2, <2>3, <2>7
<1> HIDE DEF S, at_
<1>3. Nat \subseteq S
  BY <1>1, <1>2, Searching!Induction
<1>4. last - first \in Nat /\ first + (last - first) = last
  BY <1>0
<1> QED
  BY <1>3, <1>4 DEF S, at_

-----------------------------------------------------------------------------
(* The drawdown of a curve                                                 *)

Decline(x, y) == Over(Minus(x, y), x)

LEMMA DeclineFrac ==
  ASSUME NEW x \in Priced, NEW y \in Value
  PROVE  /\ Decline(x, y) = Frac(x.num * y.den - y.num * x.den, y.den * x.num)
         /\ x.num * y.den - y.num * x.den \in Int /\ y.den * x.num \in Positive
         /\ Decline(x, y) \in Value
<1> DEFINE k == x.num * y.den - y.num * x.den
<1>1. /\ x \in Value /\ x.num \in Int /\ x.num \in Positive /\ x.num > 0 /\ x.den \in Positive
      /\ y.num \in Int /\ y.den \in Positive /\ Frac(x.num, x.den) = x
  BY ValueIs DEF Positive
<1>2. k \in Int /\ x.den * y.den \in Positive /\ y.den * x.num \in Positive
  <2>1. x.den \in Int /\ y.den \in Int /\ x.den > 0 /\ y.den > 0
    BY <1>1 DEF Positive
  <2>2. x.num * y.den \in Int /\ y.num * x.den \in Int
    BY <1>1, <2>1
  <2> QED
    BY <1>1, <2>1, <2>2, SignOfProduct
<1>3. Minus(x, y) = Frac(k, x.den * y.den)
  BY DEF Minus
<1> HIDE DEF k
<1>4. Decline(x, y) = Frac(k * x.den, (x.den * y.den) * x.num)
  <2>1. Over(Frac(k, x.den * y.den), Frac(x.num, x.den))
           = Frac(k * x.den, (x.den * y.den) * x.num)
    BY <1>1, <1>2, OverFrac
  <2> QED
    BY <1>1, <1>3, <2>1, Zenon DEF Decline
<1>5. k * x.den = x.den * k /\ (x.den * y.den) * x.num = x.den * (y.den * x.num)
  <2>1. x.den \in Int /\ y.den \in Int
    BY <1>1 DEF Positive
  <2> QED
    BY ONLY <1>1, <1>2, <2>1
<1>6. Frac(x.den * k, x.den * (y.den * x.num)) = Frac(k, y.den * x.num)
  BY <1>1, <1>2, FracScaled
<1>7. Decline(x, y) = Frac(k, y.den * x.num)
  BY <1>4, <1>5, <1>6, Zenon
<1> QED
  BY <1>2, <1>7, FracValue DEF k

LEMMA DeclineSelf == ASSUME NEW x \in Priced PROVE Decline(x, x) = Whole(0)
<1>1. x \in Value /\ x.num \in Int /\ x.den \in Int
  BY ValueIs DEF Positive
<1>2. x.num * x.den - x.num * x.den = 0
  BY ONLY <1>1
<1>3. Decline(x, x) = Frac(0, x.den * x.num) /\ x.den * x.num \in Positive
  BY <1>1, <1>2, DeclineFrac
<1>4. 0 * 1 = 0 * (x.den * x.num) /\ 1 \in Positive
  BY <1>1 DEF Positive
<1> QED
  BY <1>3, <1>4, FracSame DEF Whole

\* From a higher peak the decline to a point is deeper.
LEMMA DeclineDeeper ==
  ASSUME NEW x \in Priced, NEW z \in Priced, NEW y \in Priced, AtMost(x, z)
  PROVE  AtMost(Decline(x, y), Decline(z, y))
<1> DEFINE k == x.num * y.den - y.num * x.den
           l == z.num * y.den - y.num * z.den
<1>1. /\ x \in Value /\ y \in Value /\ z \in Value
      /\ x.num \in Int /\ x.num > 0 /\ x.den \in Int /\ x.den > 0
      /\ y.num \in Int /\ y.num > 0 /\ y.den \in Int /\ y.den > 0
      /\ z.num \in Int /\ z.num > 0 /\ z.den \in Int /\ z.den > 0
  BY ValueIs DEF Positive
<1>2. /\ k \in Int /\ l \in Int /\ y.den * x.num \in Positive /\ y.den * z.num \in Positive
      /\ Decline(x, y) = Frac(k, y.den * x.num) /\ Decline(z, y) = Frac(l, y.den * z.num)
  BY <1>1, DeclineFrac
<1>3. k * (y.den * z.num) <= l * (y.den * x.num)
  <2> DEFINE u == x.num * y.den
             v == y.num * x.den
             w == z.num * y.den
             s == y.num * z.den
  <2>1. u \in Int /\ v \in Int /\ w \in Int /\ s \in Int /\ y.den * z.num \in Int
        /\ y.den * x.num \in Int
    BY <1>1
  <2>2. /\ k * (y.den * z.num) = u * (y.den * z.num) - v * (y.den * z.num)
        /\ l * (y.den * x.num) = w * (y.den * x.num) - s * (y.den * x.num)
    <3> HIDE DEF u, v, w, s
    <3>1. k = u - v /\ l = w - s
      BY DEF k, l, u, v, w, s
    <3> HIDE DEF k, l
    <3> QED
      BY ONLY <2>1, <3>1
  <2>3. u * (y.den * z.num) = w * (y.den * x.num)
    BY ONLY <1>1
  <2>4. s * (y.den * x.num) <= v * (y.den * z.num)
    <3> DEFINE q == y.num * y.den
    <3>1. q \in Int /\ q > 0
      BY ONLY <1>1
    <3>2. /\ s * (y.den * x.num) = q * (x.num * z.den)
          /\ v * (y.den * z.num) = q * (z.num * x.den)
      BY ONLY <1>1
    <3>3. x.num * z.den <= z.num * x.den /\ x.num * z.den \in Int /\ z.num * x.den \in Int
      BY <1>1 DEF AtMost
    <3> HIDE DEF q
    <3>4. q * (x.num * z.den) <= q * (z.num * x.den)
      BY ONLY <3>1, <3>3
    <3> QED
      BY <3>2, <3>4, Zenon
  <2> DEFINE a == u * (y.den * z.num)
             b == v * (y.den * z.num)
             c == w * (y.den * x.num)
             d == s * (y.den * x.num)
  <2>5. a \in Int /\ b \in Int /\ c \in Int /\ d \in Int
    BY <2>1
  <2>6. a = c /\ d <= b
    BY <2>3, <2>4, Zenon
  <2>7. k * (y.den * z.num) = a - b /\ l * (y.den * x.num) = c - d
    BY <2>2, Zenon
  <2> HIDE DEF a, b, c, d, k, l
  <2> QED
    BY ONLY <2>5, <2>6, <2>7
<1> HIDE DEF k, l
<1>4. AtMost(Frac(k, y.den * x.num), Frac(l, y.den * z.num))
  BY <1>2, <1>3, FracOrder
<1> QED
  BY <1>2, <1>4, Zenon

\* After i points: the peak is one of them and the highest, and the worst decline is one
\* between two of them and the deepest.
Fallen(acc, c, i) ==
    /\ acc.peak \in Priced /\ acc.worst \in Value
    /\ \E k \in 1..i : acc.peak = c[k]
    /\ \A k \in 1..i : AtMost(c[k], acc.peak)
    /\ \E j, k \in 1..i : j <= k /\ acc.worst = Decline(c[j], c[k])
    /\ \A j, k \in 1..i : j <= k => AtMost(Decline(c[j], c[k]), acc.worst)

LEMMA FirstFall ==
  ASSUME NEW c, c[1] \in Priced
  PROVE  Fallen(Fall([peak |-> c[1], worst |-> Whole(0)], c[1]), c, 1)
<1> DEFINE acc == Fall([peak |-> c[1], worst |-> Whole(0)], c[1])
<1>1. /\ Larger(c[1], c[1]) = c[1] /\ Larger(Whole(0), Whole(0)) = Whole(0)
      /\ AtMost(c[1], c[1]) /\ AtMost(Whole(0), Whole(0)) /\ Whole(0) \in Value
  <2>1. c[1] \in Value /\ Whole(0) \in Value
    BY ValueIs, ZeroOne
  <2> QED
    BY <2>1, Order
<1>2. Decline(c[1], c[1]) = Whole(0)
  BY DeclineSelf
<1>3. Over(Minus(c[1], c[1]), c[1]) = Whole(0)
  BY <1>2 DEF Decline
<1>4. acc = [peak |-> c[1], worst |-> Whole(0)]
  BY <1>1, <1>3 DEF Fall
<1> HIDE DEF acc
<1>5. acc.peak = c[1] /\ acc.worst = Whole(0)
  BY <1>4
<1>6. 1 \in 1..1 /\ 1 <= 1 /\ \A k \in 1..1 : k = 1
  OBVIOUS
<1>7. \E j, k \in 1..1 : j <= k /\ acc.worst = Decline(c[j], c[k])
  BY <1>2, <1>5, <1>6, Zenon
<1>8. \A j, k \in 1..1 : AtMost(Decline(c[j], c[k]), acc.worst)
  BY <1>1, <1>2, <1>5, <1>6, Zenon
<1>9. (\E k \in 1..1 : acc.peak = c[k]) /\ \A k \in 1..1 : AtMost(c[k], acc.peak)
  BY <1>1, <1>5, <1>6, Zenon
<1> QED
  BY <1>1, <1>5, <1>7, <1>8, <1>9, Zenon DEF Fallen, acc

LEMMA NextFall ==
  ASSUME NEW c, NEW i \in Nat, NEW acc, Fallen(acc, c, i),
         \A k \in 1..(i + 1) : c[k] \in Priced
  PROVE  Fallen(Fall(acc, c[i + 1]), c, i + 1)
<1> DEFINE eq == c[i + 1]
           peak == Larger(acc.peak, eq)
           drop == Decline(peak, eq)
           worst == Larger(acc.worst, drop)
           new == Fall(acc, eq)
<1>0. i + 1 \in 1..(i + 1) /\ \A k \in 1..(i + 1) : k \in 1..i \/ k = i + 1
  OBVIOUS
<1>1. /\ eq \in Priced /\ eq \in Value /\ acc.peak \in Priced /\ acc.peak \in Value
      /\ acc.worst \in Value
  BY <1>0, ValueIs DEF Fallen
<1>2. /\ peak \in {acc.peak, eq} /\ AtMost(acc.peak, peak) /\ AtMost(eq, peak)
  BY <1>1, Order
<1>3. peak \in Priced /\ peak \in Value
  BY <1>1, <1>2
<1>4. drop \in Value
  BY <1>1, <1>3, DeclineFrac
<1>5. /\ worst \in {acc.worst, drop} /\ AtMost(acc.worst, worst) /\ AtMost(drop, worst)
  BY <1>1, <1>4, Order
<1>6. new.peak = peak /\ new.worst = worst
  BY DEF Fall, Decline
<1> HIDE DEF eq, peak, drop, worst, new
<1>7. \E k \in 1..(i + 1) : peak = c[k]
  <2>1. CASE peak = eq
    BY <1>0, <2>1 DEF eq
  <2>2. CASE peak = acc.peak
    <3>1. PICK k \in 1..i : acc.peak = c[k]
      BY DEF Fallen
    <3>2. k \in 1..(i + 1)
      OBVIOUS
    <3> QED
      BY <2>2, <3>1, <3>2
  <2> QED
    BY <1>2, <2>1, <2>2
<1>8. ASSUME NEW k \in 1..(i + 1) PROVE AtMost(c[k], peak)
  <2>1. CASE k \in 1..i
    <3>1. AtMost(c[k], acc.peak)
      BY <2>1 DEF Fallen
    <3>2. c[k] \in Value
      BY ValueIs
    <3> QED
      BY <1>1, <1>2, <1>3, <3>1, <3>2, AtMostThrough
  <2>2. CASE k = i + 1
    BY <1>2, <2>2 DEF eq
  <2> QED
    BY <1>0, <2>1, <2>2
<1>9. \E j, k \in 1..(i + 1) : j <= k /\ worst = Decline(c[j], c[k])
  <2>1. CASE worst = drop
    <3>1. PICK j \in 1..(i + 1) : peak = c[j]
      BY <1>7
    <3>2. j <= i + 1 /\ i + 1 \in 1..(i + 1)
      OBVIOUS
    <3>3. worst = Decline(c[j], c[i + 1])
      BY <2>1, <3>1 DEF drop, eq
    <3> QED
      BY <3>2, <3>3
  <2>2. CASE worst = acc.worst
    <3>1. PICK j \in 1..i, k \in 1..i : j <= k /\ acc.worst = Decline(c[j], c[k])
      BY DEF Fallen
    <3>2. j \in 1..(i + 1) /\ k \in 1..(i + 1)
      OBVIOUS
    <3> QED
      BY <2>2, <3>1, <3>2
  <2> QED
    BY <1>5, <2>1, <2>2
<1>10. ASSUME NEW j \in 1..(i + 1), NEW k \in 1..(i + 1), j <= k
       PROVE  AtMost(Decline(c[j], c[k]), worst)
  <2>1. c[j] \in Priced /\ c[k] \in Priced /\ c[k] \in Value
    BY ValueIs
  <2>2. Decline(c[j], c[k]) \in Value
    BY <2>1, DeclineFrac
  <2>3. CASE k \in 1..i
    <3>1. j \in 1..i
      BY <1>10, <2>3
    <3>2. AtMost(Decline(c[j], c[k]), acc.worst)
      BY <1>10, <2>3, <3>1 DEF Fallen
    <3>3. worst \in Value
      BY <1>1, <1>4, <1>5
    <3> QED
      BY <1>1, <1>5, <2>2, <3>2, <3>3, AtMostThrough
  <2>4. CASE k = i + 1
    <3>1. AtMost(Decline(c[j], eq), drop)
      BY <1>1, <1>3, <1>8, <2>1, DeclineDeeper DEF drop
    <3>2. worst \in Value
      BY <1>1, <1>4, <1>5
    <3>3. Decline(c[j], c[k]) = Decline(c[j], eq)
      BY <2>4 DEF eq
    <3> QED
      BY <1>4, <1>5, <2>2, <3>1, <3>2, <3>3, AtMostThrough
  <2> QED
    BY <1>0, <2>3, <2>4
<1>11. Fallen(new, c, i + 1)
  <2>1. worst \in Value
    BY <1>1, <1>4, <1>5
  <2> QED
    BY <1>3, <1>6, <1>7, <1>8, <1>9, <1>10, <2>1, Zenon DEF Fallen
<1> QED
  BY <1>11 DEF new, eq

\* The loop finds the deepest of all declines.
LEMMA WorstDecline ==
  ASSUME NEW c \in Seq(Priced), c # <<>>
  PROVE  /\ MaxDrawdown(c) \in Value
         /\ \E j, k \in 1..Len(c) : j <= k /\ MaxDrawdown(c) = Decline(c[j], c[k])
         /\ \A j, k \in 1..Len(c) : j <= k => AtMost(Decline(c[j], c[k]), MaxDrawdown(c))
<1> DEFINE n == Len(c)
<1>1. n \in Nat /\ n # 0 /\ DOMAIN c = 1..n /\ \A k \in 1..n : c[k] \in Priced
  BY LenProperties, EmptySeq, ElementOfSeq
<1>2. MaxDrawdown(c) = Falling!Folded(c[1], c).worst
  BY DEF MaxDrawdown, FallFrom, TopOf, Falling!Folded, Falling!FoldLeft, FoldLeft,
         Falling!MapThenFoldSet, MapThenFoldSet, Falling!Max, Max
<1> HIDE DEF n
<1>3. PICK run : Falling!IsRun(run, c[1], c, n) /\ Falling!Folded(c[1], c) = run[n]
  BY <1>1, Falling!FoldRun
<1>4. /\ run[0] = TopOf(c[1]) /\ \A i \in 1..n : run[i] = FallFrom(c[1], run[i - 1], c[i])
  BY <1>3 DEF Falling!IsRun
<1> DEFINE S == {i \in Nat : i < n => Fallen(run[i + 1], c, i + 1)}
<1>5. 0 \in S
  <2>1. 1 \in 1..n /\ 1 - 1 = 0 /\ 0 + 1 = 1
    BY <1>1
  <2>2. run[1] = Fall([peak |-> c[1], worst |-> Whole(0)], c[1])
    <3>1. run[1] = FallFrom(c[1], run[1 - 1], c[1])
      BY <1>4, <2>1
    <3> QED
      BY <1>4, <2>1, <3>1 DEF FallFrom, TopOf
  <2>3. Fallen(run[1], c, 1)
    BY <1>1, <2>1, <2>2, FirstFall
  <2> QED
    BY <2>1, <2>3
<1>6. ASSUME NEW i \in Nat, i \in S PROVE i + 1 \in S
  <2> SUFFICES ASSUME i + 1 < n PROVE Fallen(run[(i + 1) + 1], c, (i + 1) + 1)
    OBVIOUS
  <2>1. /\ (i + 1) + 1 \in 1..n /\ ((i + 1) + 1) - 1 = i + 1 /\ i < n /\ i + 1 \in Nat
        /\ \A k \in 1..((i + 1) + 1) : k \in 1..n
    BY <1>1
  <2>2. Fallen(run[i + 1], c, i + 1)
    BY <1>6, <2>1
  <2>3. run[(i + 1) + 1] = Fall(run[i + 1], c[(i + 1) + 1])
    <3>1. run[(i + 1) + 1] = FallFrom(c[1], run[((i + 1) + 1) - 1], c[(i + 1) + 1])
      BY <1>4, <2>1, Zenon
    <3> QED
      BY <2>1, <3>1 DEF FallFrom
  <2> HIDE DEF S
  <2>4. \A k \in 1..((i + 1) + 1) : c[k] \in Priced
    BY <1>1, <2>1
  <2>5. Fallen(Fall(run[i + 1], c[(i + 1) + 1]), c, (i + 1) + 1)
    BY <2>1, <2>2, <2>4, NextFall
  <2> QED
    BY <2>3, <2>5
<1> HIDE DEF S
<1>7. Nat \subseteq S
  BY <1>5, <1>6, Searching!Induction
<1>8. n - 1 \in Nat /\ n - 1 < n /\ (n - 1) + 1 = n
  BY <1>1
<1>9. Fallen(run[n], c, n)
  BY <1>7, <1>8 DEF S
<1> QED
  BY <1>2, <1>3, <1>9, Zenon DEF Fallen, n

-----------------------------------------------------------------------------
(* The money of a replay                                                   *)

\* What is bought at a price is worth the price paid.
LEMMA BuyBack == ASSUME NEW x \in Value, NEW y \in Priced PROVE Times(Over(x, y), y) = x
<1>1. /\ x.num \in Int /\ x.den \in Positive /\ x.den \in Int /\ Frac(x.num, x.den) = x
      /\ y \in Value /\ y.num \in Positive /\ y.num \in Int /\ y.den \in Positive
      /\ y.den \in Int /\ Frac(y.num, y.den) = y
  BY ValueIs DEF Positive
<1> DEFINE k == y.num * y.den
<1>2. /\ k \in Positive /\ x.num * y.den \in Int /\ x.den * y.num \in Positive
      /\ (x.num * y.den) * y.num = k * x.num /\ (x.den * y.num) * y.den = k * x.den
  <2>1. k \in Positive /\ x.den * y.num \in Positive
    BY <1>1, SignOfProduct DEF Positive
  <2>2. (x.num * y.den) * y.num = k * x.num /\ (x.den * y.num) * y.den = k * x.den
    BY ONLY <1>1
  <2> QED
    BY <1>1, <2>1, <2>2
<1> HIDE DEF k
<1>3. Times(Frac(x.num * y.den, x.den * y.num), Frac(y.num, y.den))
         = Frac((x.num * y.den) * y.num, (x.den * y.num) * y.den)
  BY <1>1, <1>2, TimesFrac
<1>4. Frac(k * x.num, k * x.den) = Frac(x.num, x.den)
  BY <1>1, <1>2, FracScaled
<1> QED
  BY <1>1, <1>2, <1>3, <1>4, Zenon DEF Over

\* Shares that were worth an amount at one price are worth its gain at another.
LEMMA SellAt ==
  ASSUME NEW s \in Value, NEW e \in Priced, NEW q \in Priced
  PROVE  Times(Times(s, e), Over(q, e)) = Times(s, q)
<1>1. /\ s.num \in Int /\ s.den \in Positive /\ s.den \in Int
      /\ e.num \in Positive /\ e.num \in Int /\ e.den \in Positive /\ e.den \in Int
      /\ q.num \in Int /\ q.den \in Positive /\ q.den \in Int
  BY ValueIs DEF Positive, Priced
<1> DEFINE k == e.num * e.den
           a == s.num * e.num
           b == s.den * e.den
           c == q.num * e.den
           d == q.den * e.num
<1>2. /\ k \in Positive /\ b \in Positive /\ d \in Positive /\ s.den * q.den \in Positive
  BY <1>1, SignOfProduct DEF Positive
<1>3. a \in Int /\ c \in Int /\ s.num * q.num \in Int
  BY <1>1
<1>4. a * c = k * (s.num * q.num) /\ b * d = k * (s.den * q.den)
  BY ONLY <1>1
<1>5. Times(s, e) = Frac(a, b) /\ Over(q, e) = Frac(c, d)
      /\ Times(s, q) = Frac(s.num * q.num, s.den * q.den)
  BY DEF Times, Over
<1> HIDE DEF k, a, b, c, d
<1>6. Times(Frac(a, b), Frac(c, d)) = Frac(a * c, b * d)
  BY <1>2, <1>3, TimesFrac
<1>7. Frac(k * (s.num * q.num), k * (s.den * q.den)) = Frac(s.num * q.num, s.den * q.den)
  BY <1>2, <1>3, FracScaled
<1> QED
  BY <1>4, <1>5, <1>6, <1>7, Zenon

Product(trades) == FoldLeft(LAMBDA x, t : Gain(x, t), Whole(1), trades)
Compounds(p) == IF Flat(p) THEN p.cash = Product(p.trades)
                ELSE p.cash = Whole(0) /\ Times(p.shares, p.entry) = Product(p.trades)

LEMMA ProductFold ==
  /\ Product(<<>>) = Whole(1)
  /\ \A ts \in Seq(Trade), t \in Trade : Product(Append(ts, t)) = Gain(Product(ts), t)
<1>1. ASSUME NEW ts PROVE Product(ts) = Trading!Folded(0, ts)
  BY DEF Product, GainOf, Stake, Trading!Folded, Trading!FoldLeft, FoldLeft,
         Trading!MapThenFoldSet, MapThenFoldSet, Trading!Max, Max
<1>2. Product(<<>>) = Whole(1)
  BY <1>1, Trading!FoldEmpty DEF Stake
<1>3. ASSUME NEW ts \in Seq(Trade), NEW t \in Trade
      PROVE  Product(Append(ts, t)) = Gain(Product(ts), t)
  BY <1>1, Trading!FoldAppend DEF GainOf
<1> QED
  BY <1>2, <1>3

LEMMA FillCompounds ==
  ASSUME NEW p, IsPlay(p), Compounds(p), NEW price \in Priced,
         NEW signal \in {"enter", "exit", "hold"},
         signal = "enter" => Flat(p), signal = "exit" => ~Flat(p)
  PROVE  Compounds(Fill(signal, price, p))
<1> DEFINE q == Fill(signal, price, p)
<1>1. CASE signal = "enter"
  <2>1. p.cash = Product(p.trades) /\ p.cash \in Value
    BY <1>1, PlayParts DEF Compounds
  <2>2. q = [n |-> p.n, cash |-> Whole(0), shares |-> Over(p.cash, price),
             entry |-> price, trades |-> p.trades, curve |-> p.curve]
    BY <1>1, FillParts
  <2>3. Over(p.cash, price) # Whole(0)
    <3>1. p.cash \in Priced /\ price \in Value
      BY <1>1, PlayParts, ValueIs
    <3> QED
      BY <2>1, <3>1, Arithmetic, ZeroOne
  <2> HIDE DEF q
  <2>4. /\ q.shares = Over(p.cash, price) /\ q.entry = price /\ q.cash = Whole(0)
        /\ q.trades = p.trades
    BY <2>2
  <2>5. Times(q.shares, q.entry) = Product(q.trades)
    BY <2>1, <2>4, BuyBack
  <2>6. Compounds(q)
    BY <2>3, <2>4, <2>5 DEF Compounds, Flat
  <2> QED
    BY <2>6 DEF q
<1>2. CASE signal = "exit"
  <2> DEFINE trade == [entry |-> p.entry, exit |-> price]
  <2>1. /\ Times(p.shares, p.entry) = Product(p.trades)
        /\ p.shares \in Value /\ p.entry \in Priced /\ p.trades \in Seq(Trade)
    BY <1>2, PlayParts DEF Compounds
  <2>2. trade \in Trade /\ trade.entry = p.entry /\ trade.exit = price
    BY <2>1 DEF Trade
  <2>3. q = [n |-> p.n, cash |-> Times(p.shares, price), shares |-> Whole(0), entry |-> None,
             trades |-> Append(p.trades, trade), curve |-> p.curve]
    BY <1>2, FillParts
  <2> HIDE DEF q, trade
  <2>4. /\ q.cash = Times(p.shares, price) /\ q.shares = Whole(0)
        /\ q.trades = Append(p.trades, trade)
    BY <2>3
  <2>5. Product(q.trades) = Gain(Product(p.trades), trade)
    BY <2>1, <2>2, <2>4, ProductFold
  <2>6. Product(q.trades) = Times(Times(p.shares, p.entry), Over(price, p.entry))
    BY <2>1, <2>2, <2>5 DEF Gain
  <2>7. q.cash = Product(q.trades)
    BY <2>1, <2>4, <2>6, SellAt
  <2>8. Compounds(q)
    BY <2>4, <2>7 DEF Compounds, Flat
  <2> QED
    BY <2>8 DEF q
<1>3. CASE signal = "hold"
  BY <1>3, FillParts
<1> QED
  BY <1>1, <1>2, <1>3

LEMMA PlayBarCompounds ==
  ASSUME NEW s, NEW bars \in Seq(Bar), NEW p, IsPlay(p), p.n \in 1..(Len(bars) - 1),
         Compounds(p)
  PROVE  Compounds(PlayBar(s, bars, p))
<1>1. bars[p.n].close \in Positive /\ bars[p.n + 1].open \in Positive
  <2>1. p.n \in 1..Len(bars) /\ p.n + 1 \in 1..Len(bars)
    BY LenProperties
  <2>2. bars[p.n] \in Bar /\ bars[p.n + 1] \in Bar
    BY <2>1, ElementOfSeq
  <2> QED
    BY <2>2 DEF Bar, Positive
<1>2. Whole(bars[p.n + 1].open) \in Priced
  BY <1>1, WholeValue DEF Positive
<1> DEFINE signal == Signal(s, bars, p)
           q == Fill(signal, Whole(bars[p.n + 1].open), p)
           r == Mark(q, bars[p.n].close)
<1>3. /\ signal \in {"enter", "exit", "hold"}
      /\ signal = "enter" => Flat(p)
      /\ signal = "exit" => ~Flat(p)
  BY DEF Signal
<1>4. PlayBar(s, bars, p) = r
  BY DEF PlayBar
<1> HIDE DEF signal
<1>5. IsPlay(q) /\ Compounds(q)
  BY <1>2, <1>3, FillIsPlay, FillCompounds
<1> HIDE DEF q
<1>6. r.cash = q.cash /\ r.shares = q.shares /\ r.entry = q.entry /\ r.trades = q.trades
  BY <1>1, <1>5, MarkIsPlay
<1> HIDE DEF r
<1>7. Compounds(r)
  BY <1>5, <1>6, Zenon DEF Compounds, Flat
<1> QED
  BY <1>4, <1>7

LEMMA StartCompounds == ASSUME NEW first PROVE Compounds(Start(first))
<1>1. Flat(Start(first)) /\ Start(first).trades = <<>> /\ Start(first).cash = Whole(1)
  BY DEF Flat, Start
<1> QED
  BY <1>1, ProductFold DEF Compounds

-----------------------------------------------------------------------------
(* The inductive invariant                                                 *)

MetricsRecord == [total_return_pct : Int, max_drawdown_pct : Int, num_trades : Int,
                  open_position : BOOLEAN]
Row == [insample : MetricsRecord, forward : MetricsRecord,
        decision : {"none", "promoted", "rejected"}]
Candidate == [strategy_id : Nat, insample : MetricsRecord, forward_return_pct : Int]

Shape ==
    /\ universe \in Universes /\ at \in 0..Len(universe)
    /\ pc \in {"next", "insample", "forward", "storeInsample", "storeForward", "decide"}
    /\ pc # "next" => at # 0
    /\ rows \in [DOMAIN universe -> Row]
    /\ insample_m \in MetricsRecord /\ forward_m \in MetricsRecord

First == IF pc = "insample" THEN 1 ELSE Subject.split + 1

\* The loop in hand is a replay of the bars before the date, or of those after it.
Replaying ==
    /\ IsPlay(play) /\ Compounds(play)
    /\ pc \in {"insample", "forward"} =>
          /\ Subject.split >= MIN_INSAMPLE_BARS /\ Len(Subject.bars) - Subject.split >= 2
          /\ play.n \in First..Len(Bars)
          /\ play = Replay(Subject.strategy, Bars, First, play.n)

\* What is in hand of a subject is what its bars say, and is stored in this order.
InHand ==
    /\ pc \notin {"next", "insample"} =>
          insample_m = run_backtest(Subject.strategy, InsampleBars(Subject), 1)
    /\ pc \in {"storeInsample", "storeForward", "decide"} =>
          forward_m = run_backtest(Subject.strategy, Subject.bars, Subject.split + 1)
    /\ pc \in {"storeForward", "decide"} => rows[at].insample = insample_m
    /\ pc = "decide" => rows[at].forward = forward_m

\* A row that is decided is complete; none is that the pass has not come to.
Stored ==
    \A i \in DOMAIN universe :
        /\ rows[i].decision # "none" => Evidence(universe[i], rows[i])
        /\ i > at \/ (i = at /\ pc # "next") => rows[i].decision = "none"

\* The record is that of the sample it is kept with.
Calibrated ==
    calibration # NoCalibration =>
        /\ calibration.sample \in Seq(Candidate)
        /\ calibration.record = calibrate(calibration.sample)

AsOfInv == Shape /\ Replaying /\ InHand /\ Stored /\ Calibrated

\* What a pass can rely on of its subject.
LEMMA SubjectTyped ==
  ASSUME NEW u \in Universes, NEW i \in 1..Len(u), NEW s, s = u[i]
  PROVE  /\ s.strategy \in Strategy /\ s.bars \in Seq(Bar)
         /\ s.split \in Nat /\ Len(s.bars) \in Nat /\ s.split <= Len(s.bars)
         /\ InsampleBars(s) \in Seq(Bar) /\ Len(InsampleBars(s)) = s.split
         /\ \A k \in 1..s.split : InsampleBars(s)[k] = s.bars[k]
         /\ InsampleBars(s) = [k \in 1..s.split |-> s.bars[k]]
<1>1. u \in Seq(SubjectRecord) /\ \A k \in DOMAIN u : u[k].split <= Len(u[k].bars)
  BY UniversesAssumption
<1>2. DOMAIN u = 1..Len(u)
  BY <1>1, LenProperties
<1>3. s \in SubjectRecord /\ s.split <= Len(s.bars)
  BY <1>1, <1>2, ElementOfSeq
<1>4. s.strategy \in Strategy /\ s.bars \in Seq(Bar) /\ s.split \in Nat
  BY <1>3 DEF SubjectRecord
<1>5. Len(s.bars) \in Nat
  BY <1>4, LenProperties
<1>6. /\ InsampleBars(s) \in Seq(Bar) /\ Len(InsampleBars(s)) = s.split
      /\ \A k \in 1..s.split : InsampleBars(s)[k] = s.bars[k]
  <2> DEFINE b == s.bars
             l == s.split
  <2>1. b \in Seq(Bar) /\ l \in Nat /\ l <= Len(b) /\ Len(b) \in Nat
    BY <1>3, <1>4, <1>5
  <2> HIDE DEF b, l
  <2>2. \A k \in 1..l : b[k] \in Bar
    BY <2>1, ElementOfSeq
  <2>3. /\ SubSeq(b, 1, l) \in Seq(Bar)
        /\ Len(SubSeq(b, 1, l)) = IF 1 <= l THEN l - 1 + 1 ELSE 0
        /\ \A k \in 1..(l - 1 + 1) : SubSeq(b, 1, l)[k] = b[1 + k - 1]
    BY <2>1, <2>2, SubSeqProperties
  <2>4. Len(SubSeq(b, 1, l)) = l /\ l - 1 + 1 = l
    BY <2>1, <2>3
  <2>5. \A k \in 1..l : SubSeq(b, 1, l)[k] = b[k]
    BY <2>1, <2>3, <2>4
  <2>6. InsampleBars(s) = SubSeq(b, 1, l)
    BY DEF InsampleBars, b, l
  <2> QED
    BY <2>3, <2>4, <2>5, <2>6 DEF b, l
<1>7. InsampleBars(s) = [k \in 1..s.split |-> s.bars[k]]
  <2> DEFINE b == InsampleBars(s)
  <2>1. b \in Seq(Bar) /\ Len(b) = s.split
    BY <1>6
  <2>2. b = [k \in 1..s.split |-> b[k]]
    <3> HIDE DEF b
    <3> QED
      BY <2>1, LenProperties
  <2> QED
    BY <1>6, <2>2
<1> QED
  BY <1>3, <1>4, <1>5, <1>6, <1>7

LEMMA PercentInt == ASSUME NEW x \in Value PROVE Percent(x) \in Int
<1> DEFINE y == Times(x, Whole(10000))
<1>1. y \in Value
  <2>1. 10000 \in Int
    OBVIOUS
  <2> QED
    BY <2>1, WholeValue, Arithmetic
<1>2. y.num \in Int /\ y.den \in Positive
  BY <1>1, ValueIs
<1> HIDE DEF y
<1>3. y.num \div y.den \in Int
  BY <1>2 DEF Positive
<1>4. Nearest(y) \in {y.num \div y.den, (y.num \div y.den) + 1}
  BY DEF Nearest
<1>5. Nearest(y) \in Int
  BY <1>3, <1>4
<1> QED
  BY <1>5 DEF Percent, y

LEMMA MetricsTyped ==
  ASSUME NEW bars \in Seq(Bar), Len(bars) # 0, NEW p, IsPlay(p)
  PROVE  Metrics(bars, p) \in MetricsRecord
<1>1. bars[Len(bars)].close \in Positive
  <2>1. Len(bars) \in 1..Len(bars)
    BY LenProperties
  <2>2. bars[Len(bars)] \in Bar
    BY <2>1, ElementOfSeq
  <2> QED
    BY <2>2 DEF Bar, Positive
<1> DEFINE final == Equity(p, bars[Len(bars)].close)
           curve == Append(p.curve, final)
<1>2. final \in Priced /\ final \in Value
  BY <1>1, EquityPriced, ValueIs
<1>3. Metrics(bars, p) = Results(p, final)
  BY DEF Metrics
<1> HIDE DEF final
<1>4. Minus(final, Whole(1)) \in Value
  <2>1. Whole(1) \in Value
    BY ZeroOne, ValueIs
  <2> QED
    BY <1>2, <2>1, Arithmetic
<1>5. MaxDrawdown(curve) \in Value
  <2>1. p.curve \in Seq(Priced)
    BY PlayParts
  <2>2. curve \in Seq(Priced) /\ curve # <<>>
    BY <1>2, <2>1, AppendProperties
  <2> HIDE DEF curve
  <2> QED
    BY <2>2, WorstDecline
<1>6. Len(p.trades) \in Int
  BY PlayParts, LenProperties
<1>7. Percent(Minus(final, Whole(1))) \in Int /\ Percent(MaxDrawdown(curve)) \in Int
  BY <1>4, <1>5, PercentInt
<1>8. Results(p, final) \in MetricsRecord
  <2>1. (~Flat(p)) \in BOOLEAN
    <3>1. (p.shares # Whole(0)) \in BOOLEAN
      OBVIOUS
    <3> QED
      BY <3>1, Zenon DEF Flat
  <2> HIDE DEF curve
  <2>2. Results(p, final) = [total_return_pct |-> Percent(Minus(final, Whole(1))),
                             max_drawdown_pct |-> Percent(MaxDrawdown(curve)),
                             num_trades |-> Len(p.trades), open_position |-> ~Flat(p)]
    BY DEF Results, curve
  <2> QED
    BY <1>6, <1>7, <2>1, <2>2 DEF MetricsRecord
<1> QED
  BY <1>3, <1>8

LEMMA SameSets ==
  ASSUME NEW S
  PROVE  (Searching!IsFiniteSet(S) <=> IsFiniteSet(S))
         /\ Searching!Cardinality(S) = Cardinality(S)
<1>1. (Searching!IsFiniteSet(S) <=> IsFiniteSet(S))
  BY DEF IsFiniteSet, Searching!IsFiniteSet
<1>2. Searching!Cardinality(S) = Cardinality(S)
  BY DEF Cardinality, Searching!Cardinality
<1> QED
  BY <1>1, <1>2

LEMMA RanksOf ==
  ASSUME NEW S, IsFiniteSet(S), NEW R, Searching!StrictOrder(S, R)
  PROVE  /\ Cardinality(S) \in Nat
         /\ \A k \in 1..Cardinality(S) : \E x \in S :
               Cardinality(Searching!Below(S, R, x)) = k - 1
<1>1. Searching!IsFiniteSet(S)
  BY SameSets
<1>2. /\ Searching!Cardinality(S) \in Nat
      /\ \A k \in 1..Searching!Cardinality(S) : \E x \in S :
            Searching!Cardinality(Searching!Below(S, R, x)) = k - 1
  BY <1>1, Searching!RanksTaken
<1> QED
  BY <1>2, SameSets

\* What is sorted are the elements of the set.
LEMMA SortedPicks ==
  ASSUME NEW S \in SUBSET Int, IsFiniteSet(S)
  PROVE  /\ Cardinality(S) \in Nat /\ DOMAIN Sorted(S, <) = 1..Cardinality(S)
         /\ \A k \in 1..Cardinality(S) : Sorted(S, <)[k] \in S
<1> DEFINE order == {p \in S \X S : p[1] < p[2]}
           before(x) == {y \in S : y < x}
           n == Cardinality(S)
<1>1. Searching!StrictOrder(S, order)
  BY DEF Searching!StrictOrder
<1>2. \A x \in S : Searching!Below(S, order, x) = before(x)
  BY DEF Searching!Below
<1>3. n \in Nat /\ \A k \in 1..n : \E x \in S : Cardinality(before(x)) = k - 1
  <2> HIDE DEF order
  <2>3. n \in Nat /\ \A k \in 1..n : \E x \in S :
                        Cardinality(Searching!Below(S, order, x)) = k - 1
    BY <1>1, RanksOf
  <2> HIDE DEF n, before
  <2> QED
    BY <1>2, <2>3
<1>4. Sorted(S, <) = [k \in 1..n |-> CHOOSE x \in S : Cardinality(before(x)) = k - 1]
  BY DEF Sorted
<1> DEFINE q == Sorted(S, <)
<1> HIDE DEF before, q, n
<1>5. DOMAIN q = 1..n /\ \A k \in 1..n : q[k] \in S
  BY <1>3, <1>4 DEF q
<1> QED
  BY <1>3, <1>5 DEF q, n

LEMMA CandidatesTyped ==
  ASSUME Shape
  PROVE  load_candidates \in Seq(Candidate)
<1> DEFINE S == {i \in DOMAIN rows : rows[i].decision # "none"}
           q == Sorted(S, <)
           made(i) == [strategy_id |-> i, insample |-> rows[i].insample,
                       forward_return_pct |-> rows[i].forward.total_return_pct]
<1>1. /\ DOMAIN rows = 1..Len(universe) /\ Len(universe) \in Nat
      /\ \A i \in DOMAIN rows : rows[i] \in Row
  <2>1. universe \in Seq(SubjectRecord)
    BY UniversesAssumption DEF Shape
  <2> QED
    BY <2>1, LenProperties DEF Shape
<1>2. S \in SUBSET Int /\ S \in SUBSET (1..Len(universe)) /\ IsFiniteSet(1..Len(universe))
  BY <1>1, FS_Interval
<1>3. IsFiniteSet(S)
  BY <1>2, FS_Subset
<1>4. /\ Cardinality(S) \in Nat /\ DOMAIN q = 1..Cardinality(S)
      /\ \A k \in 1..Cardinality(S) : q[k] \in S
  BY <1>2, <1>3, SortedPicks
<1>5. \A i \in S : made(i) \in Candidate
  BY <1>1 DEF Row, MetricsRecord, Candidate
<1>6. load_candidates = [k \in DOMAIN q |-> made(q[k])]
  BY DEF load_candidates
<1> HIDE DEF S, q, made
<1>7. load_candidates \in [1..Cardinality(S) -> Candidate]
  BY <1>4, <1>5, <1>6
<1> QED
  BY <1>4, <1>7, SeqDef

LEMMA NothingKnown == NoMetrics \in MetricsRecord /\ NoRow \in Row
  BY DEF NoMetrics, NoRow, MetricsRecord, Row

LEMMA BarsTyped ==
  ASSUME Shape, Replaying, pc \in {"insample", "forward"}
  PROVE  /\ at \in 1..Len(universe) /\ Bars \in Seq(Bar) /\ Len(Bars) \in Nat
         /\ First \in Positive /\ play.n \in Nat /\ First <= play.n /\ play.n <= Len(Bars)
         /\ play.n # 0 /\ Subject.strategy \in Strategy
         /\ play = Replay(Subject.strategy, Bars, First, play.n)
<1>1. universe \in Universes /\ at \in 1..Len(universe)
  <2>1. at \in 0..Len(universe) /\ at # 0
    BY DEF Shape
  <2>2. universe \in Seq(SubjectRecord)
    BY UniversesAssumption DEF Shape
  <2>3. Len(universe) \in Nat
    BY <2>2, LenProperties
  <2> QED
    BY <2>1, <2>3 DEF Shape
<1>2. /\ Subject.strategy \in Strategy /\ Subject.split \in Nat /\ Subject.bars \in Seq(Bar)
      /\ InsampleBars(Subject) \in Seq(Bar)
  BY <1>1, SubjectTyped DEF Subject
<1>3. Bars \in Seq(Bar) /\ Len(Bars) \in Nat
  <2>1. Bars \in {InsampleBars(Subject), Subject.bars}
    BY DEF Bars
  <2> QED
    BY <1>2, <2>1, LenProperties
<1>4. First \in Positive /\ First \in Nat /\ First # 0
  <2>1. First \in {1, Subject.split + 1}
    BY DEF First
  <2> QED
    BY <1>2, <2>1 DEF Positive
<1>5. play.n \in First..Len(Bars) /\ play = Replay(Subject.strategy, Bars, First, play.n)
  BY DEF Replaying
<1> QED
  BY <1>1, <1>2, <1>3, <1>4, <1>5

LEMMA ShapeFacts ==
  ASSUME Shape
  PROVE  /\ universe \in Universes /\ universe \in Seq(SubjectRecord)
         /\ Len(universe) \in Nat /\ DOMAIN universe = 1..Len(universe)
         /\ at \in Nat /\ at <= Len(universe)
         /\ pc # "next" => at \in 1..Len(universe)
<1>1. universe \in Universes /\ universe \in Seq(SubjectRecord)
  BY UniversesAssumption DEF Shape
<1>2. Len(universe) \in Nat /\ DOMAIN universe = 1..Len(universe)
  BY <1>1, LenProperties
<1>3. at \in 0..Len(universe) /\ (pc # "next" => at # 0)
  BY DEF Shape
<1> QED
  BY <1>1, <1>2, <1>3

LEMMA InitInv == Init => AsOfInv
<1> SUFFICES ASSUME Init PROVE AsOfInv
  OBVIOUS
<1>1. universe \in Seq(SubjectRecord) /\ universe \in Universes
  BY UniversesAssumption DEF Init
<1>2. 0 \in 0..Len(universe)
  BY <1>1, LenProperties
<1>3. Shape
  <2>1. rows \in [DOMAIN universe -> Row]
    BY NothingKnown DEF Init
  <2> QED
    BY <1>1, <1>2, <2>1, NothingKnown DEF Init, Shape
<1>4. Replaying
  <2>1. 1 \in Nat
    OBVIOUS
  <2> QED
    BY <2>1, StartIsPlay, StartCompounds DEF Init, Replaying
<1>5. InHand
  BY DEF Init, InHand
<1>6. Stored
  <2>1. \A i \in DOMAIN universe : rows[i].decision = "none"
    BY DEF Init, NoRow
  <2> QED
    BY <2>1 DEF Stored
<1>7. Calibrated
  BY DEF Init, Calibrated
<1> QED
  BY <1>3, <1>4, <1>5, <1>6, <1>7 DEF AsOfInv

LEMMA NextSubjectInv == ASSUME AsOfInv, NextSubject PROVE AsOfInv'
<1> DEFINE s == universe[at + 1]
<1>0. /\ Shape /\ Replaying /\ InHand /\ Stored /\ Calibrated
      /\ universe \in Universes /\ Len(universe) \in Nat /\ at \in Nat
      /\ DOMAIN universe = 1..Len(universe)
  BY ShapeFacts DEF AsOfInv
<1>1. /\ pc = "next" /\ at < Len(universe) /\ at' = at + 1 /\ play' = Start(1)
      /\ pc' \in {"next", "insample"}
      /\ pc' = "insample" => ~(s.split < MIN_INSAMPLE_BARS \/ Len(s.bars) - s.split < 2)
      /\ universe' = universe /\ insample_m' = insample_m /\ forward_m' = forward_m
      /\ rows' = rows /\ calibration' = calibration
  BY DEF NextSubject
<1>2. at' \in 1..Len(universe) /\ at' \in 0..Len(universe) /\ at' # 0
  BY <1>0, <1>1
<1>3. Shape'
  BY <1>0, <1>1, <1>2 DEF Shape
<1>4. Replaying'
  <2>1. IsPlay(play)' /\ Compounds(play)'
    <3>1. 1 \in Nat
      OBVIOUS
    <3>2. IsPlay(Start(1)) /\ Compounds(Start(1))
      BY <3>1, StartIsPlay, StartCompounds
    <3> QED
      BY <1>1, <3>2
  <2>2. ASSUME pc' = "insample"
        PROVE  /\ Subject'.split >= MIN_INSAMPLE_BARS
               /\ Len(Subject'.bars) - Subject'.split >= 2
               /\ play'.n \in First'..Len(Bars')
               /\ play' = Replay(Subject'.strategy, Bars', First', play'.n)
    <3>1. Subject' = s
      BY <1>1 DEF Subject
    <3>2. /\ s.split \in Nat /\ Len(s.bars) \in Nat /\ Len(InsampleBars(s)) = s.split
      BY <1>0, <1>1, <1>2, SubjectTyped
    <3>3. First' = 1 /\ Bars' = InsampleBars(s)
      BY <2>2, <3>1 DEF First, Bars
    <3>4. s.split >= MIN_INSAMPLE_BARS /\ Len(s.bars) - s.split >= 2
          /\ MIN_INSAMPLE_BARS \in Nat /\ MIN_INSAMPLE_BARS >= 2
      BY <1>1, <2>2, <3>2, AsOfAssumption, SMTT(30)
    <3>5. play'.n = 1 /\ 1 \in 1..Len(InsampleBars(s))
      BY <1>1, <3>2, <3>4 DEF Start
    <3>6. play' = Replay(s.strategy, InsampleBars(s), 1, 1)
      BY <1>1, ReplayNext
    <3> QED
      BY <3>1, <3>3, <3>4, <3>5, <3>6
  <2> QED
    BY <1>1, <2>1, <2>2 DEF Replaying
<1>5. InHand'
  BY <1>1 DEF InHand
<1>6. Stored'
  <2> SUFFICES ASSUME NEW i \in DOMAIN universe
               PROVE  /\ rows[i].decision # "none" => Evidence(universe[i], rows[i])
                      /\ i > at + 1 \/ i = at + 1 => rows[i].decision = "none"
    BY <1>1 DEF Stored
  <2>1. i \in Int /\ (i > at + 1 \/ i = at + 1 => i > at)
    BY <1>0
  <2> QED
    BY <1>0, <2>1 DEF Stored
<1>7. Calibrated'
  BY <1>0, <1>1 DEF Calibrated
<1> QED
  BY <1>3, <1>4, <1>5, <1>6, <1>7 DEF AsOfInv

LEMMA ReplayBarInv == ASSUME AsOfInv, ReplayBar PROVE AsOfInv'
<1>0. Shape /\ Replaying /\ InHand /\ Stored /\ Calibrated
  BY DEF AsOfInv
<1>1. /\ pc \in {"insample", "forward"} /\ play.n < Len(Bars)
      /\ play' = PlayBar(Subject.strategy, Bars, play)
      /\ universe' = universe /\ at' = at /\ pc' = pc /\ rows' = rows
      /\ insample_m' = insample_m /\ forward_m' = forward_m /\ calibration' = calibration
  BY DEF ReplayBar
<1>2. Shape'
  BY <1>0, <1>1 DEF Shape
<1>3. Replaying'
  <2>1. Subject' = Subject
    BY <1>1 DEF Subject
  <2>2. Bars' = Bars /\ First' = First
    BY <1>1, <2>1 DEF Bars, First
  <2>3. /\ Bars \in Seq(Bar) /\ Len(Bars) \in Nat /\ First \in Nat /\ play.n \in Nat
        /\ First <= play.n /\ play.n # 0 /\ play.n < Len(Bars)
        /\ play = Replay(Subject.strategy, Bars, First, play.n)
    BY <1>0, <1>1, BarsTyped DEF Positive
  <2>4. play.n \in 1..(Len(Bars) - 1) /\ play.n + 1 \in First..Len(Bars)
    BY <2>3
  <2>5. IsPlay(play) /\ Compounds(play)
    BY <1>0 DEF Replaying
  <2>6. play'.n = play.n + 1 /\ IsPlay(play') /\ Compounds(play')
    BY <1>1, <2>3, <2>4, <2>5, PlayBarIsPlay, PlayBarCompounds
  <2>7. Replay(Subject.strategy, Bars, First, play.n + 1) = play'
    <3>1. Replay(Subject.strategy, Bars, First, play.n + 1)
             = PlayBar(Subject.strategy, Bars, Replay(Subject.strategy, Bars, First, play.n))
      BY <2>3, ReplayStep
    <3> QED
      BY <1>1, <2>3, <3>1, Zenon
  <2>8. /\ Subject.split >= MIN_INSAMPLE_BARS /\ Len(Subject.bars) - Subject.split >= 2
    BY <1>0, <1>1 DEF Replaying
  <2>9. play'.n \in First'..Len(Bars')
    BY <2>2, <2>4, <2>6
  <2>10. play' = Replay(Subject'.strategy, Bars', First', play'.n)
    BY <2>1, <2>2, <2>6, <2>7
  <2> QED
    BY <2>1, <2>6, <2>8, <2>9, <2>10 DEF Replaying
<1>4. InHand'
  <2>1. Subject' = Subject
    BY <1>1 DEF Subject
  <2> QED
    BY <1>0, <1>1, <2>1 DEF InHand
<1>5. Stored' /\ Calibrated'
  BY <1>0, <1>1 DEF Stored, Calibrated
<1> QED
  BY <1>2, <1>3, <1>4, <1>5 DEF AsOfInv

\* What the end of a replay returns.
LEMMA EndOfReplay ==
  ASSUME Shape, Replaying, pc \in {"insample", "forward"}, play.n = Len(Bars)
  PROVE  /\ Metrics(Bars, play) \in MetricsRecord
         /\ pc = "insample" => Metrics(Bars, play)
                                  = run_backtest(Subject.strategy, InsampleBars(Subject), 1)
         /\ pc = "forward" => Metrics(Bars, play)
                                 = run_backtest(Subject.strategy, Subject.bars, Subject.split + 1)
<1>1. /\ Bars \in Seq(Bar) /\ Len(Bars) # 0 /\ IsPlay(play)
      /\ play = Replay(Subject.strategy, Bars, First, Len(Bars))
  BY BarsTyped DEF Replaying
<1>2. Metrics(Bars, play) \in MetricsRecord
  BY <1>1, MetricsTyped
<1>3. Metrics(Bars, play) = run_backtest(Subject.strategy, Bars, First)
  BY <1>1 DEF run_backtest
<1>4. pc = "insample" => First = 1 /\ Bars = InsampleBars(Subject)
  BY DEF First, Bars
<1>5. pc = "forward" => First = Subject.split + 1 /\ Bars = Subject.bars
  BY DEF First, Bars
<1> QED
  BY <1>2, <1>3, <1>4, <1>5

LEMMA EndInsampleInv == ASSUME AsOfInv, EndInsample PROVE AsOfInv'
<1>0. Shape /\ Replaying /\ InHand /\ Stored /\ Calibrated
  BY DEF AsOfInv
<1>1. /\ pc = "insample" /\ play.n = Len(Bars) /\ insample_m' = Metrics(Bars, play)
      /\ play' = Start(Subject.split + 1) /\ pc' = "forward"
      /\ universe' = universe /\ at' = at /\ rows' = rows
      /\ forward_m' = forward_m /\ calibration' = calibration
  BY DEF EndInsample
<1>2. Subject' = Subject
  BY <1>1 DEF Subject
<1>3. /\ insample_m' \in MetricsRecord
      /\ insample_m' = run_backtest(Subject.strategy, InsampleBars(Subject), 1)
  BY <1>0, <1>1, EndOfReplay
<1>4. Shape'
  BY <1>0, <1>1, <1>3 DEF Shape
<1>5. Replaying'
  <2>1. /\ Subject.split \in Nat /\ Len(Subject.bars) \in Nat
        /\ Subject.split >= MIN_INSAMPLE_BARS /\ Len(Subject.bars) - Subject.split >= 2
    BY <1>0, <1>1, ShapeFacts, SubjectTyped DEF Subject, Replaying
  <2>2. Bars' = Subject.bars /\ First' = Subject.split + 1
    BY <1>1, <1>2 DEF Bars, First
  <2>3. /\ Subject.split + 1 \in Nat
        /\ Subject.split + 1 \in (Subject.split + 1)..Len(Subject.bars)
    BY <2>1
  <2>4. IsPlay(play') /\ Compounds(play') /\ play'.n = Subject.split + 1
    BY <1>1, <2>3, StartIsPlay, StartCompounds
  <2>5. play' = Replay(Subject.strategy, Subject.bars, Subject.split + 1, Subject.split + 1)
    BY <1>1, <2>3, ReplayNext
  <2> QED
    BY <1>2, <2>1, <2>2, <2>3, <2>4, <2>5 DEF Replaying
<1>6. InHand'
  BY <1>1, <1>2, <1>3 DEF InHand
<1>7. Stored' /\ Calibrated'
  BY <1>0, <1>1 DEF Stored, Calibrated
<1> QED
  BY <1>4, <1>5, <1>6, <1>7 DEF AsOfInv

LEMMA NotReplaying ==
  ASSUME pc' \notin {"insample", "forward"}, IsPlay(play'), Compounds(play')
  PROVE  Replaying'
  BY DEF Replaying

LEMMA EndForwardInv == ASSUME AsOfInv, EndForward PROVE AsOfInv'
<1>0. Shape /\ Replaying /\ InHand /\ Stored /\ Calibrated
  BY DEF AsOfInv
<1>1. /\ pc = "forward" /\ play.n = Len(Bars) /\ forward_m' = Metrics(Bars, play)
      /\ play' = Start(1) /\ pc' = "storeInsample"
      /\ universe' = universe /\ at' = at /\ rows' = rows
      /\ insample_m' = insample_m /\ calibration' = calibration
  BY DEF EndForward
<1>2. Subject' = Subject
  BY <1>1 DEF Subject
<1>3. /\ forward_m' \in MetricsRecord
      /\ forward_m' = run_backtest(Subject.strategy, Subject.bars, Subject.split + 1)
  BY <1>0, <1>1, EndOfReplay
<1>4. Shape'
  BY <1>0, <1>1, <1>3 DEF Shape
<1>5. Replaying'
  <2>1. 1 \in Nat
    OBVIOUS
  <2>2. IsPlay(play') /\ Compounds(play')
    BY <1>1, <2>1, StartIsPlay, StartCompounds
  <2> QED
    BY <1>1, <2>2, NotReplaying
<1>6. InHand'
  <2>1. insample_m = run_backtest(Subject.strategy, InsampleBars(Subject), 1)
    BY <1>0, <1>1 DEF InHand
  <2> QED
    BY <1>1, <1>2, <1>3, <2>1 DEF InHand
<1>7. Stored' /\ Calibrated'
  BY <1>0, <1>1 DEF Stored, Calibrated
<1> QED
  BY <1>4, <1>5, <1>6, <1>7 DEF AsOfInv

\* Row i of the new table is row, and the others are as they were.
OneRow(new, table, D, i, row) ==
    new \in [D -> Row] /\ new[i] = row /\ \A j \in D \ {i} : new[j] = table[j]

\* What storing one field makes of the rows.
LEMMA RowStored ==
  ASSUME NEW D, NEW table \in [D -> Row], NEW i \in D, NEW m \in MetricsRecord,
         NEW d \in {"none", "promoted", "rejected"}, NEW new
  PROVE  /\ new = [table EXCEPT ![i].insample = m] =>
               OneRow(new, table, D, i, [insample |-> m, forward |-> table[i].forward,
                                         decision |-> table[i].decision])
         /\ new = [table EXCEPT ![i].forward = m] =>
               OneRow(new, table, D, i, [insample |-> table[i].insample, forward |-> m,
                                         decision |-> table[i].decision])
         /\ new = [table EXCEPT ![i].decision = d] =>
               OneRow(new, table, D, i, [insample |-> table[i].insample,
                                         forward |-> table[i].forward, decision |-> d])
<1>1. table[i] = [insample |-> table[i].insample, forward |-> table[i].forward,
                  decision |-> table[i].decision]
  BY DEF Row
<1>2. /\ table[i].insample \in MetricsRecord /\ table[i].forward \in MetricsRecord
      /\ table[i].decision \in {"none", "promoted", "rejected"}
  BY DEF Row
<1> DEFINE a == [table EXCEPT ![i].insample = m]
           b == [table EXCEPT ![i].forward = m]
           c == [table EXCEPT ![i].decision = d]
<1>3. /\ a = [j \in D |-> IF j = i THEN [table[i] EXCEPT !.insample = m] ELSE table[j]]
      /\ b = [j \in D |-> IF j = i THEN [table[i] EXCEPT !.forward = m] ELSE table[j]]
      /\ c = [j \in D |-> IF j = i THEN [table[i] EXCEPT !.decision = d] ELSE table[j]]
  OBVIOUS
<1>4. /\ a[i] = [insample |-> m, forward |-> table[i].forward, decision |-> table[i].decision]
      /\ b[i] = [insample |-> table[i].insample, forward |-> m, decision |-> table[i].decision]
      /\ c[i] = [insample |-> table[i].insample, forward |-> table[i].forward, decision |-> d]
  BY <1>1, <1>3
<1>5. a[i] \in Row /\ b[i] \in Row /\ c[i] \in Row
  <2> HIDE DEF a, b, c
  <2> QED
    BY <1>2, <1>4 DEF Row
<1>6. \A j \in D \ {i} : a[j] = table[j] /\ b[j] = table[j] /\ c[j] = table[j]
  BY <1>3
<1>7. a \in [D -> Row] /\ b \in [D -> Row] /\ c \in [D -> Row]
  <2>1. \A j \in D : a[j] \in Row /\ b[j] \in Row /\ c[j] \in Row
    BY <1>5, <1>6
  <2>2. /\ a = [j \in D |-> a[j]] /\ b = [j \in D |-> b[j]] /\ c = [j \in D |-> c[j]]
    BY <1>3
  <2> HIDE DEF a, b, c
  <2> QED
    BY <2>1, <2>2
<1>8. /\ OneRow(a, table, D, i, [insample |-> m, forward |-> table[i].forward,
                                 decision |-> table[i].decision])
      /\ OneRow(b, table, D, i, [insample |-> table[i].insample, forward |-> m,
                                 decision |-> table[i].decision])
      /\ OneRow(c, table, D, i, [insample |-> table[i].insample,
                                 forward |-> table[i].forward, decision |-> d])
  BY <1>4, <1>6, <1>7, Zenon DEF OneRow
<1> QED
  BY <1>8, Zenon

LEMMA InsertInsampleInv == ASSUME AsOfInv, InsertInsample PROVE AsOfInv'
<1>0. Shape /\ Replaying /\ InHand /\ Stored /\ Calibrated
  BY DEF AsOfInv
<1>1. /\ pc = "storeInsample" /\ rows' = [rows EXCEPT ![at].insample = insample_m]
      /\ pc' = "storeForward" /\ play' = play
      /\ universe' = universe /\ at' = at
      /\ insample_m' = insample_m /\ forward_m' = forward_m /\ calibration' = calibration
  BY DEF InsertInsample
<1>2. Subject' = Subject
  BY <1>1 DEF Subject
<1>3. /\ at \in DOMAIN universe /\ rows \in [DOMAIN universe -> Row]
      /\ insample_m \in MetricsRecord
  BY <1>0, <1>1, ShapeFacts DEF Shape
<1>4. /\ \A j \in DOMAIN universe \ {at} : rows'[j] = rows[j]
      /\ rows'[at] = [insample |-> insample_m, forward |-> rows[at].forward,
                      decision |-> rows[at].decision]
      /\ rows' \in [DOMAIN universe -> Row]
  <2> DEFINE row == [insample |-> insample_m, forward |-> rows[at].forward,
                     decision |-> rows[at].decision]
  <2>1. OneRow(rows', rows, DOMAIN universe, at, row)
    BY <1>1, <1>3, RowStored, Zenon
  <2> QED
    BY <2>1, Zenon DEF OneRow
<1>5. Shape'
  BY <1>0, <1>1, <1>4 DEF Shape
<1>6. Replaying'
  BY <1>0, <1>1, NotReplaying DEF Replaying
<1>7. InHand'
  <2>1. /\ insample_m = run_backtest(Subject.strategy, InsampleBars(Subject), 1)
        /\ forward_m = run_backtest(Subject.strategy, Subject.bars, Subject.split + 1)
    BY <1>0, <1>1 DEF InHand
  <2>2. rows'[at].insample = insample_m
    BY <1>4
  <2> QED
    BY <1>1, <1>2, <2>1, <2>2 DEF InHand
<1>8. Stored'
  <2>1. rows'[at].decision = rows[at].decision /\ rows[at].decision = "none"
    BY <1>0, <1>1, <1>3, <1>4 DEF Stored
  <2> SUFFICES ASSUME NEW i \in DOMAIN universe
               PROVE  /\ rows'[i].decision # "none" => Evidence(universe[i], rows'[i])
                      /\ i > at \/ i = at => rows'[i].decision = "none"
    BY <1>1 DEF Stored
  <2> QED
    BY <1>0, <1>4, <2>1 DEF Stored
<1>9. Calibrated'
  BY <1>0, <1>1 DEF Calibrated
<1> QED
  BY <1>5, <1>6, <1>7, <1>8, <1>9 DEF AsOfInv

LEMMA InsertForwardInv == ASSUME AsOfInv, InsertForward PROVE AsOfInv'
<1>0. Shape /\ Replaying /\ InHand /\ Stored /\ Calibrated
  BY DEF AsOfInv
<1>1. /\ pc = "storeForward" /\ rows' = [rows EXCEPT ![at].forward = forward_m]
      /\ pc' = "decide" /\ play' = play
      /\ universe' = universe /\ at' = at
      /\ insample_m' = insample_m /\ forward_m' = forward_m /\ calibration' = calibration
  BY DEF InsertForward
<1>2. Subject' = Subject
  BY <1>1 DEF Subject
<1>3. /\ at \in DOMAIN universe /\ rows \in [DOMAIN universe -> Row]
      /\ forward_m \in MetricsRecord
  BY <1>0, <1>1, ShapeFacts DEF Shape
<1>4. /\ \A j \in DOMAIN universe \ {at} : rows'[j] = rows[j]
      /\ rows'[at] = [insample |-> rows[at].insample, forward |-> forward_m,
                      decision |-> rows[at].decision]
      /\ rows' \in [DOMAIN universe -> Row]
  <2> DEFINE row == [insample |-> rows[at].insample, forward |-> forward_m,
                     decision |-> rows[at].decision]
  <2>1. OneRow(rows', rows, DOMAIN universe, at, row)
    BY <1>1, <1>3, RowStored, Zenon
  <2> QED
    BY <2>1, Zenon DEF OneRow
<1>5. Shape'
  BY <1>0, <1>1, <1>4 DEF Shape
<1>6. Replaying'
  BY <1>0, <1>1, NotReplaying DEF Replaying
<1>7. InHand'
  <2>1. /\ insample_m = run_backtest(Subject.strategy, InsampleBars(Subject), 1)
        /\ forward_m = run_backtest(Subject.strategy, Subject.bars, Subject.split + 1)
        /\ rows[at].insample = insample_m
    BY <1>0, <1>1 DEF InHand
  <2>2. rows'[at].insample = insample_m /\ rows'[at].forward = forward_m
    BY <1>4, <2>1
  <2> QED
    BY <1>1, <1>2, <2>1, <2>2 DEF InHand
<1>8. Stored'
  <2>1. rows'[at].decision = rows[at].decision /\ rows[at].decision = "none"
    BY <1>0, <1>1, <1>3, <1>4 DEF Stored
  <2> SUFFICES ASSUME NEW i \in DOMAIN universe
               PROVE  /\ rows'[i].decision # "none" => Evidence(universe[i], rows'[i])
                      /\ i > at \/ i = at => rows'[i].decision = "none"
    BY <1>1 DEF Stored
  <2> QED
    BY <1>0, <1>4, <2>1 DEF Stored
<1>9. Calibrated'
  BY <1>0, <1>1 DEF Calibrated
<1> QED
  BY <1>5, <1>6, <1>7, <1>8, <1>9 DEF AsOfInv

LEMMA InsertDecisionInv == ASSUME AsOfInv, InsertDecision PROVE AsOfInv'
<1> DEFINE d == IF evaluate(insample_m, active_thresholds) THEN "promoted" ELSE "rejected"
<1>0. Shape /\ Replaying /\ InHand /\ Stored /\ Calibrated
  BY DEF AsOfInv
<1>1. /\ pc = "decide" /\ rows' = [rows EXCEPT ![at].decision = d]
      /\ pc' = "next" /\ play' = play /\ insample_m' = NoMetrics /\ forward_m' = NoMetrics
      /\ universe' = universe /\ at' = at /\ calibration' = calibration
  BY DEF InsertDecision
<1>2. d \in {"none", "promoted", "rejected"} /\ d # "none"
      /\ (d = "promoted") = evaluate(insample_m, active_thresholds)
  <2>1. evaluate(insample_m, active_thresholds) \in BOOLEAN
    <3>1. (failed(insample_m, active_thresholds) = {}) \in BOOLEAN
      OBVIOUS
    <3> QED
      BY <3>1, Zenon DEF evaluate
  <2>2. CASE evaluate(insample_m, active_thresholds)
    <3>1. d = "promoted"
      BY <2>2
    <3> QED
      BY <2>1, <2>2, <3>1
  <2>3. CASE ~evaluate(insample_m, active_thresholds)
    <3>1. d = "rejected"
      BY <2>3
    <3> QED
      BY <2>1, <2>3, <3>1
  <2> QED
    BY <2>2, <2>3
<1> HIDE DEF d
<1>3. /\ at \in DOMAIN universe /\ rows \in [DOMAIN universe -> Row]
      /\ universe \in Universes /\ at \in 1..Len(universe) /\ at \in Nat
      /\ DOMAIN universe = 1..Len(universe)
  BY <1>0, <1>1, ShapeFacts DEF Shape
<1>4. /\ \A j \in DOMAIN universe \ {at} : rows'[j] = rows[j]
      /\ rows'[at] = [insample |-> rows[at].insample, forward |-> rows[at].forward,
                      decision |-> d]
      /\ rows' \in [DOMAIN universe -> Row]
  <2>1. NoMetrics \in MetricsRecord
    BY NothingKnown
  <2> DEFINE row == [insample |-> rows[at].insample, forward |-> rows[at].forward,
                     decision |-> d]
  <2>2. OneRow(rows', rows, DOMAIN universe, at, row)
    BY <1>1, <1>2, <1>3, <2>1, RowStored, Zenon
  <2> QED
    BY <2>2, Zenon DEF OneRow
<1>5. Shape'
  BY <1>0, <1>1, <1>4, NothingKnown DEF Shape
<1>6. Replaying'
  BY <1>0, <1>1, NotReplaying DEF Replaying
<1>7. InHand'
  BY <1>1 DEF InHand
<1>8. Stored'
  <2>1. Evidence(universe[at], rows'[at])
    <3>1. /\ insample_m = run_backtest(Subject.strategy, InsampleBars(Subject), 1)
          /\ forward_m = run_backtest(Subject.strategy, Subject.bars, Subject.split + 1)
          /\ rows[at].insample = insample_m /\ rows[at].forward = forward_m
      BY <1>0, <1>1 DEF InHand
    <3>2. InsampleBars(Subject) = [k \in 1..Subject.split |-> Subject.bars[k]]
      BY <1>3, SubjectTyped DEF Subject
    <3>3. /\ rows'[at].insample = insample_m /\ rows'[at].forward = forward_m
          /\ rows'[at].decision = d
      BY <1>4, <3>1
    <3> QED
      BY <1>2, <3>1, <3>2, <3>3, Zenon DEF Evidence, Subject
  <2> SUFFICES ASSUME NEW i \in DOMAIN universe
               PROVE  /\ rows'[i].decision # "none" => Evidence(universe[i], rows'[i])
                      /\ i > at => rows'[i].decision = "none"
    BY <1>1 DEF Stored
  <2>2. CASE i = at
    BY <1>3, <2>1, <2>2
  <2>3. CASE i # at
    BY <1>0, <1>4, <2>3 DEF Stored
  <2> QED
    BY <2>2, <2>3
<1>9. Calibrated'
  BY <1>0, <1>1 DEF Calibrated
<1> QED
  BY <1>5, <1>6, <1>7, <1>8, <1>9 DEF AsOfInv

LEMMA CalibrateInv == ASSUME AsOfInv, Calibrate PROVE AsOfInv'
<1>0. Shape /\ Replaying /\ InHand /\ Stored /\ Calibrated
  BY DEF AsOfInv
<1>1. /\ calibration' = [sample |-> load_candidates, record |-> calibrate(load_candidates)]
      /\ universe' = universe /\ at' = at /\ pc' = pc /\ play' = play /\ rows' = rows
      /\ insample_m' = insample_m /\ forward_m' = forward_m
  BY DEF Calibrate
<1>2. Subject' = Subject
  BY <1>1 DEF Subject
<1>3. Bars' = Bars /\ First' = First
  BY <1>1, <1>2 DEF Bars, First
<1>4. Shape' /\ Stored'
  BY <1>0, <1>1 DEF Shape, Stored
<1>5. Replaying'
  BY <1>0, <1>1, <1>2, <1>3 DEF Replaying
<1>6. InHand'
  BY <1>0, <1>1, <1>2 DEF InHand
<1>7. Calibrated'
  <2>1. /\ calibration'.sample = load_candidates
        /\ calibration'.record = calibrate(load_candidates)
    BY <1>1
  <2> QED
    BY <1>0, <2>1, CandidatesTyped DEF Calibrated
<1> QED
  BY <1>4, <1>5, <1>6, <1>7 DEF AsOfInv

LEMMA StutterInv == ASSUME AsOfInv, UNCHANGED vars PROVE AsOfInv'
<1>0. Shape /\ Replaying /\ InHand /\ Stored /\ Calibrated
  BY DEF AsOfInv
<1>1. /\ universe' = universe /\ at' = at /\ pc' = pc /\ play' = play /\ rows' = rows
      /\ insample_m' = insample_m /\ forward_m' = forward_m /\ calibration' = calibration
  BY DEF vars
<1>2. Subject' = Subject
  BY <1>1 DEF Subject
<1>3. Bars' = Bars /\ First' = First
  BY <1>1, <1>2 DEF Bars, First
<1>4. Shape' /\ Stored' /\ Calibrated'
  BY <1>0, <1>1 DEF Shape, Stored, Calibrated
<1>5. Replaying'
  BY <1>0, <1>1, <1>2, <1>3 DEF Replaying
<1>6. InHand'
  BY <1>0, <1>1, <1>2 DEF InHand
<1> QED
  BY <1>4, <1>5, <1>6 DEF AsOfInv

LEMMA AsOfInvariant == Spec => []AsOfInv
<1>1. ASSUME AsOfInv, [Next]_vars PROVE AsOfInv'
  BY <1>1, NextSubjectInv, ReplayBarInv, EndInsampleInv, EndForwardInv, InsertInsampleInv,
     InsertForwardInv, InsertDecisionInv, CalibrateInv, StutterInv DEF Next
<1> QED
  BY <1>1, InitInv, PTL DEF Spec

-----------------------------------------------------------------------------
(* The evidence                                                            *)

\* Every variable keeps its type, whatever the subjects (the state of run_asof in regret.py).
THEOREM EvidenceTypeCorrect == Spec => []AsOfTypeOK
<1>1. ASSUME AsOfInv PROVE AsOfTypeOK
  <2>1. Shape /\ Replaying
    BY <1>1 DEF AsOfInv
  <2>2. pc \in {"insample", "forward"} => play.n \in 1..Len(Bars)
    <3> SUFFICES ASSUME pc \in {"insample", "forward"} PROVE play.n \in 1..Len(Bars)
      OBVIOUS
    <3> QED
      BY <2>1, BarsTyped
  <2>3. DOMAIN rows = DOMAIN universe /\ \A i \in DOMAIN rows : rows[i] \in Row
    BY <2>1 DEF Shape
  <2>4. \A i \in DOMAIN rows : rows[i].decision \in {"none", "promoted", "rejected"}
    BY <2>3 DEF Row
  <2> QED
    BY <2>1, <2>2, <2>3, <2>4 DEF Shape, AsOfTypeOK
<1> QED
  BY <1>1, AsOfInvariant, PTL

\* No replay looks ahead, whatever its strategy and its bars, and whatever bar the future
\* is made of (engine.py:3-7, run_backtest).
THEOREM NoLookahead == Spec => []ReplayIgnoresFuture
<1>1. ASSUME AsOfInv PROVE ReplayIgnoresFuture
  <2>1. Shape /\ Replaying
    BY <1>1 DEF AsOfInv
  <2> SUFFICES ASSUME pc \in {"insample", "forward"}, NEW b \in Futures
               PROVE  Replay(Subject.strategy, Doctored(b),
                             IF pc = "insample" THEN 1 ELSE Subject.split + 1, play.n) = play
    BY DEF ReplayIgnoresFuture
  <2>2. /\ Bars \in Seq(Bar) /\ Len(Bars) \in Nat
        /\ First \in Positive /\ play.n \in Nat /\ First <= play.n /\ play.n <= Len(Bars)
        /\ play.n # 0 /\ Subject.strategy \in Strategy
        /\ play = Replay(Subject.strategy, Bars, First, play.n)
    BY <2>1, BarsTyped
  <2> DEFINE n == play.n
             d == Doctored(b)
  <2>3. DOMAIN Bars = 1..Len(Bars) /\ \A i \in 1..Len(Bars) : Bars[i] \in Bar
    BY <2>2, LenProperties, ElementOfSeq
  <2>4. b \in Bar
    BY UniversesAssumption
  <2>5. \A i \in 1..Len(Bars) : [b EXCEPT !.open = Bars[i].open] \in Bar
    BY <2>3, <2>4 DEF Bar
  <2>6. d = [i \in 1..Len(Bars) |->
               IF i < n THEN Bars[i]
               ELSE IF i = n THEN [b EXCEPT !.open = Bars[i].open] ELSE b]
    BY <2>3 DEF Doctored
  <2>7. \A i \in 1..Len(Bars) : d[i] \in Bar
    BY <2>3, <2>4, <2>5, <2>6
  <2>8. /\ \A i \in 1..(n - 1) : d[i] = Bars[i]
        /\ d[n].open = Bars[n].open
    <3>1. n \in 1..Len(Bars) /\ ~(n < n) /\ \A i \in 1..(n - 1) : i \in 1..Len(Bars) /\ i < n
      BY <2>2
    <3>2. d[n] = [b EXCEPT !.open = Bars[n].open]
      BY <2>6, <3>1
    <3>3. d[n].open = Bars[n].open
      BY <2>4, <3>2 DEF Bar
    <3> QED
      BY <2>6, <3>1, <3>3
  <2> HIDE DEF d
  <2>9. d \in Seq(Bar) /\ Len(d) = Len(Bars)
    <3>1. d = [i \in 1..Len(Bars) |-> d[i]]
      BY <2>6
    <3>2. d \in [1..Len(Bars) -> Bar]
      BY <2>7, <3>1
    <3>3. d \in Seq(Bar)
      BY <2>2, <3>2, SeqDef
    <3> QED
      BY <2>2, <3>2, <3>3, LenProperties
  <2> HIDE DEF n
  <2>10. Replay(Subject.strategy, d, First, n) = Replay(Subject.strategy, Bars, First, n)
    BY <2>2, <2>8, <2>9, ReplaySame, SMTT(30) DEF n
  <2> QED
    BY <2>2, <2>10, Zenon DEF First, d, n
<1> QED
  BY <1>1, AsOfInvariant, PTL

\* The money of a replay is what its trades made of the start, after any number of trades
\* (engine.py's run_backtest, entries and exits).
THEOREM MoneyIsItsTrades == Spec => []MoneyCompoundsTrades
<1>1. ASSUME AsOfInv PROVE MoneyCompoundsTrades
  <2>1. Compounds(play)
    BY <1>1 DEF AsOfInv, Replaying
  <2> QED
    BY <2>1 DEF Compounds, Product, MoneyCompoundsTrades
<1> QED
  BY <1>1, AsOfInvariant, PTL

\* The drawdown loop finds the worst decline of a curve of any length (engine.py:251-255).
THEOREM DrawdownFindsWorst == Spec => []DrawdownIsWorstDecline
<1>1. ASSUME AsOfInv PROVE DrawdownIsWorstDecline
  <2> DEFINE c == play.curve
             decline(p) == Over(Minus(c[p[1]], c[p[2]]), c[p[1]])
             pairs == {p \in (DOMAIN c) \X (DOMAIN c) : p[1] <= p[2]}
  <2>1. c \in Seq(Priced)
    BY <1>1, PlayParts DEF AsOfInv, Replaying
  <2>2. DOMAIN c = 1..Len(c)
    BY <2>1, LenProperties
  <2> HIDE DEF c
  <2> SUFFICES ASSUME c # <<>>
               PROVE  /\ \A p \in pairs : AtMost(decline(p), MaxDrawdown(c))
                      /\ \E p \in pairs : decline(p) = MaxDrawdown(c)
    BY DEF DrawdownIsWorstDecline, c
  <2>3. /\ \E j, k \in 1..Len(c) : j <= k /\ MaxDrawdown(c) = Decline(c[j], c[k])
        /\ \A j, k \in 1..Len(c) : j <= k => AtMost(Decline(c[j], c[k]), MaxDrawdown(c))
    BY <2>1, WorstDecline
  <2>4. \A p \in pairs : decline(p) = Decline(c[p[1]], c[p[2]])
    BY DEF Decline
  <2>5. \A p \in pairs : p[1] \in 1..Len(c) /\ p[2] \in 1..Len(c) /\ p[1] <= p[2]
    BY <2>2
  <2>6. \A p \in pairs : AtMost(decline(p), MaxDrawdown(c))
    <3> HIDE DEF pairs, decline
    <3> QED
      BY <2>3, <2>4, <2>5, Zenon
  <2>7. PICK j, k \in 1..Len(c) : j <= k /\ MaxDrawdown(c) = Decline(c[j], c[k])
    BY <2>3
  <2>8. <<j, k>> \in pairs /\ <<j, k>>[1] = j /\ <<j, k>>[2] = k
    BY <2>2, <2>7
  <2>9. decline(<<j, k>>) = MaxDrawdown(c)
    BY <2>4, <2>7, <2>8
  <2> QED
    BY <2>6, <2>8, <2>9
<1> QED
  BY <1>1, AsOfInvariant, PTL

\* When the pass has ended, every row that is decided holds the two replays of its subject
\* and the gate's answer to the first (regret.py's run_asof).
THEOREM RowsRest == Spec => []RowsRestOnTheirBars
<1>1. ASSUME AsOfInv PROVE RowsRestOnTheirBars
  <2>1. DOMAIN rows = DOMAIN universe
    BY <1>1 DEF AsOfInv, Shape
  <2> QED
    BY <1>1, <2>1 DEF AsOfInv, Stored, RowsRestOnTheirBars
<1> QED
  BY <1>1, AsOfInvariant, PTL

-----------------------------------------------------------------------------
(* The calibration                                                         *)

LEMMA KnownValue ==
  /\ ~Known(None) /\ None \notin Value
  /\ \A x \in Value : Known(x)
<1>1. None.den = 0
  BY DEF None
<1>2. ~Known(None)
  BY <1>1 DEF Known
<1>3. \A x \in Value : Known(x)
  BY ValueIs DEF Known, Positive
<1> QED
  BY <1>2, <1>3

TotalOf(cs, t) ==
    FoldLeft(LAMBDA sum, c : sum + (IF _promotes(c, t) THEN c.forward_return_pct ELSE 0), 0, cs)

LEMMA TotalInt == ASSUME NEW cs \in Seq(Candidate), NEW t PROVE TotalOf(cs, t) \in Int
<1> DEFINE n == Len(cs)
<1>1. n \in Nat /\ DOMAIN cs = 1..n /\ \A i \in 1..n : cs[i] \in Candidate
  BY LenProperties, ElementOfSeq
<1>2. TotalOf(cs, t) = Adding!Folded(t, cs)
  BY DEF TotalOf, AddReturn, NoReturn, Adding!Folded, Adding!FoldLeft, FoldLeft,
         Adding!MapThenFoldSet, MapThenFoldSet, Adding!Max, Max
<1> HIDE DEF n
<1>3. PICK run : Adding!IsRun(run, t, cs, n) /\ Adding!Folded(t, cs) = run[n]
  BY <1>1, Adding!FoldRun
<1>4. run[0] = 0 /\ \A i \in 1..n : run[i] = AddReturn(t, run[i - 1], cs[i])
  BY <1>3 DEF Adding!IsRun, NoReturn
<1> DEFINE S == {i \in Nat : i <= n => run[i] \in Int}
<1>5. 0 \in S
  BY <1>4
<1>6. ASSUME NEW i \in Nat, i \in S PROVE i + 1 \in S
  <2> SUFFICES ASSUME i + 1 <= n PROVE run[i + 1] \in Int
    OBVIOUS
  <2>1. i + 1 \in 1..n /\ (i + 1) - 1 = i /\ i <= n
    BY <1>1
  <2>2. run[i] \in Int
    BY <1>6, <2>1
  <2>3. run[i + 1] = AddReturn(t, run[i], cs[i + 1])
    BY <1>4, <2>1
  <2>4. (IF _promotes(cs[i + 1], t) THEN cs[i + 1].forward_return_pct ELSE 0) \in Int
    <3>1. cs[i + 1].forward_return_pct \in Int
      BY <1>1, <2>1 DEF Candidate
    <3> QED
      BY <3>1
  <2> QED
    BY <2>2, <2>3, <2>4 DEF AddReturn
<1> HIDE DEF S
<1>7. Nat \subseteq S
  BY <1>5, <1>6, Searching!Induction
<1> QED
  BY <1>1, <1>2, <1>3, <1>7 DEF S

\* A mean is a value or unknown, and does not depend on how many it asks for when it is known.
LEMMA MeanTyped ==
  ASSUME NEW cs \in Seq(Candidate), NEW t, NEW m \in Positive
  PROVE  /\ mean_forward(cs, t, m) \in Value \cup {None}
         /\ Known(mean_forward(cs, t, m)) => mean_forward(cs, t, 1) = mean_forward(cs, t, m)
<1> DEFINE promoted == {i \in DOMAIN cs : _promotes(cs[i], t)}
           n == Cardinality(promoted)
           mean(k) == IF n < k THEN None ELSE Frac(TotalOf(cs, t), n)
<1>1. n \in Nat
  <2>1. DOMAIN cs = 1..Len(cs) /\ Len(cs) \in Nat
    BY LenProperties
  <2>2. promoted \in SUBSET (1..Len(cs)) /\ IsFiniteSet(1..Len(cs))
    BY <2>1, FS_Interval
  <2>3. IsFiniteSet(promoted)
    BY <2>2, FS_Subset
  <2> QED
    BY <2>3, FS_CardinalityType
<1>2. mean_forward(cs, t, m) = mean(m) /\ mean_forward(cs, t, 1) = mean(1)
  BY DEF mean_forward, TotalOf
<1> HIDE DEF n
<1>3. CASE n < m
  BY <1>2, <1>3, KnownValue
<1>4. CASE ~(n < m)
  <2>1. n \in Positive /\ ~(n < 1)
    BY <1>1, <1>4 DEF Positive
  <2>2. Frac(TotalOf(cs, t), n) \in Value
    BY <2>1, TotalInt, FracValue
  <2> QED
    BY <1>2, <1>4, <2>1, <2>2
<1> QED
  BY <1>3, <1>4

GridSize == Len(Grid.min_total_return_pct) * Len(Grid.max_drawdown_pct) * Len(Grid.min_trades)

LEMMA GridDomain == GridSize \in Nat /\ DOMAIN GridPoints = 1..GridSize
<1>1. /\ Grid.min_total_return_pct \in Seq(Int) /\ Grid.max_drawdown_pct \in Seq(Int)
      /\ Grid.min_trades \in Seq(Int)
  BY AsOfAssumption
<1>2. /\ Len(Grid.min_total_return_pct) \in Nat /\ Len(Grid.max_drawdown_pct) \in Nat
      /\ Len(Grid.min_trades) \in Nat
  BY <1>1, LenProperties
<1>3. GridSize \in Nat
  <2>1. Len(Grid.min_total_return_pct) * Len(Grid.max_drawdown_pct) \in Nat
    BY <1>2, Products
  <2> QED
    BY <1>2, <2>1, Products DEF GridSize
<1>4. DOMAIN GridPoints = 1..GridSize
  BY DEF GridPoints, GridSize
<1> QED
  BY <1>3, <1>4

Scores(cs, m) == [k \in DOMAIN GridPoints |-> mean_forward(cs, GridPoints[k], m)]

\* Of the first i scores, score k is the first that no other beats.
Leads(sc, k, i) ==
    /\ Known(sc[k])
    /\ \A j \in 1..i : Known(sc[j]) => AtMost(sc[j], sc[k]) /\ (j < k => Less(sc[j], sc[k]))

Found(best, sc, i) ==
    \/ best = Unfit /\ \A k \in 1..i : ~Known(sc[k])
    \/ \E k \in 1..i : Leads(sc, k, i) /\ best = [thresholds |-> GridPoints[k], score |-> sc[k]]

LEMMA NextFound ==
  ASSUME NEW cs, NEW m, NEW sc, NEW i \in Nat, NEW best, Found(best, sc, i),
         \A k \in 1..(i + 1) : sc[k] \in Value \cup {None},
         sc[i + 1] = mean_forward(cs, GridPoints[i + 1], m)
  PROVE  Found(Try(cs, m, best, GridPoints[i + 1]), sc, i + 1)
<1> DEFINE s == sc[i + 1]
           new == Try(cs, m, best, GridPoints[i + 1])
           lead == [thresholds |-> GridPoints[i + 1], score |-> s]
<1>0. /\ i + 1 \in 1..(i + 1) /\ \A k \in 1..(i + 1) : k \in 1..i \/ k = i + 1
      /\ \A k \in 1..i : k \in 1..(i + 1) /\ k < i + 1 /\ ~(i + 1 < k)
      /\ ~(i + 1 < i + 1)
  OBVIOUS
<1>1. new = IF Known(s) /\ (Known(best.score) => Less(best.score, s)) THEN lead ELSE best
  BY DEF Try
<1>2. \A k \in 1..(i + 1) : Known(sc[k]) => sc[k] \in Value
  BY KnownValue
<1> HIDE DEF s, new, lead
<1>3. CASE best = Unfit /\ \A k \in 1..i : ~Known(sc[k])
  <2>1. ~Known(best.score)
    BY <1>3, KnownValue DEF Unfit
  <2>2. CASE Known(s)
    <3>1. new = lead
      BY <1>1, <2>1, <2>2
    <3>2. AtMost(sc[i + 1], sc[i + 1])
      BY <1>0, <1>2, <2>2, Order DEF s
    <3>3. Leads(sc, i + 1, i + 1)
      BY <1>0, <1>3, <2>2, <3>2 DEF Leads, s
    <3> QED
      BY <1>0, <3>1, <3>3 DEF Found, lead, s, new
  <2>3. CASE ~Known(s)
    <3>1. new = best
      BY <1>1, <2>3
    <3>2. \A k \in 1..(i + 1) : ~Known(sc[k])
      BY <1>0, <1>3, <2>3 DEF s
    <3> QED
      BY <1>3, <3>1, <3>2 DEF Found, new
  <2> QED
    BY <2>2, <2>3
<1>4. ASSUME NEW k \in 1..i, Leads(sc, k, i),
             best = [thresholds |-> GridPoints[k], score |-> sc[k]]
      PROVE  Found(new, sc, i + 1)
  <2>1. best.score = sc[k] /\ Known(sc[k]) /\ sc[k] \in Value /\ k \in 1..(i + 1) /\ k < i + 1
    BY <1>0, <1>2, <1>4 DEF Leads
  <2>2. CASE Known(s) /\ Less(sc[k], s)
    <3>1. new = lead
      BY <1>1, <2>1, <2>2
    <3>2. s \in Value /\ AtMost(sc[k], s) /\ AtMost(s, s)
      BY <1>0, <1>2, <2>1, <2>2, Order DEF s
    <3>3. ASSUME NEW j \in 1..i, Known(sc[j]) PROVE AtMost(sc[j], s) /\ Less(sc[j], s)
      <4>1. sc[j] \in Value /\ AtMost(sc[j], sc[k])
        BY <1>0, <1>2, <1>4, <3>3 DEF Leads
      <4> QED
        BY <2>1, <2>2, <3>2, <4>1, AtMostThrough
    <3>4. Leads(sc, i + 1, i + 1)
      BY <1>0, <2>2, <3>2, <3>3 DEF Leads, s
    <3> QED
      BY <1>0, <3>1, <3>4 DEF Found, lead, s
  <2>3. CASE ~(Known(s) /\ Less(sc[k], s))
    <3>1. new = best
      BY <1>1, <2>1, <2>3
    <3>2. Known(s) => AtMost(s, sc[k])
      BY <1>0, <1>2, <2>1, <2>3, Order DEF s
    <3>3. Leads(sc, k, i + 1)
      BY <1>0, <1>4, <3>2 DEF Leads, s
    <3> QED
      BY <1>4, <2>1, <3>1, <3>3 DEF Found
  <2> QED
    BY <2>2, <2>3
<1> QED
  BY <1>3, <1>4 DEF Found, new

\* The search finds the first of the best.
LEMMA SearchFinds ==
  ASSUME NEW cs \in Seq(Candidate), NEW m \in Positive
  PROVE  Found(grid_search(cs, m), Scores(cs, m), GridSize)
<1> DEFINE p == <<cs, m>>
           sc == Scores(cs, m)
           n == GridSize
<1>1. n \in Nat /\ DOMAIN GridPoints = 1..n
  BY GridDomain
<1>2. \A k \in 1..n : sc[k] = mean_forward(cs, GridPoints[k], m) /\ sc[k] \in Value \cup {None}
  BY <1>1, MeanTyped DEF Scores
<1>3. grid_search(cs, m) = Searching!Folded(p, GridPoints)
  BY DEF grid_search, TryPoint, NoPoint, Searching!Folded, Searching!FoldLeft, FoldLeft,
         Searching!MapThenFoldSet, MapThenFoldSet, Searching!Max, Max
<1> HIDE DEF n, sc
<1>4. PICK run : Searching!IsRun(run, p, GridPoints, n)
                   /\ Searching!Folded(p, GridPoints) = run[n]
  BY <1>1, Searching!FoldRun
<1>5. run[0] = Unfit /\ \A i \in 1..n : run[i] = Try(cs, m, run[i - 1], GridPoints[i])
  BY <1>4 DEF Searching!IsRun, NoPoint, TryPoint
<1> DEFINE S == {i \in Nat : i <= n => Found(run[i], sc, i)}
<1>6. 0 \in S
  <2>1. \A k \in 1..0 : FALSE
    OBVIOUS
  <2> QED
    BY <1>5, <2>1 DEF Found
<1>7. ASSUME NEW i \in Nat, i \in S PROVE i + 1 \in S
  <2> SUFFICES ASSUME i + 1 <= n PROVE Found(run[i + 1], sc, i + 1)
    OBVIOUS
  <2>1. i + 1 \in 1..n /\ (i + 1) - 1 = i /\ i <= n /\ \A k \in 1..(i + 1) : k \in 1..n
    BY <1>1
  <2>2. Found(run[i], sc, i)
    BY <1>7, <2>1
  <2> HIDE DEF S
  <2>3. run[i + 1] = Try(cs, m, run[i], GridPoints[i + 1])
    BY <1>5, <2>1
  <2>4. /\ \A k \in 1..(i + 1) : sc[k] \in Value \cup {None}
        /\ sc[i + 1] = mean_forward(cs, GridPoints[i + 1], m)
    BY <1>2, <2>1
  <2> QED
    BY <2>2, <2>3, <2>4, NextFound
<1> HIDE DEF S
<1>8. Nat \subseteq S
  BY <1>6, <1>7, Searching!Induction
<1>9. n <= n
  BY <1>1
<1> QED
  BY <1>1, <1>3, <1>4, <1>8, <1>9 DEF S, n, sc

\* At most one score leads.
LEMMA OneLead ==
  ASSUME NEW sc, NEW n \in Nat, \A k \in 1..n : sc[k] \in Value \cup {None},
         NEW j \in 1..n, NEW k \in 1..n, Leads(sc, j, n), Leads(sc, k, n)
  PROVE  j = k
<1>1. Known(sc[j]) /\ Known(sc[k]) /\ sc[j] \in Value /\ sc[k] \in Value
  BY KnownValue DEF Leads
<1>2. AtMost(sc[j], sc[k]) /\ AtMost(sc[k], sc[j])
  BY <1>1 DEF Leads
<1>3. ~(j < k) /\ ~(k < j)
  BY <1>1, <1>2, Order DEF Leads
<1> QED
  BY <1>3

LEMMA OutsideIndices ==
  ASSUME NEW cs \in Seq(Candidate)
  PROVE  LET I == DOMAIN cs \ HeldOut(cs)
         IN  /\ I \in SUBSET Int /\ I \in SUBSET (DOMAIN cs)
             /\ Cardinality(I) \in Nat /\ DOMAIN Sorted(I, <) = 1..Cardinality(I)
             /\ \A k \in 1..Cardinality(I) : Sorted(I, <)[k] \in I
<1> DEFINE I == DOMAIN cs \ HeldOut(cs)
<1>1. DOMAIN cs = 1..Len(cs) /\ Len(cs) \in Nat
  BY LenProperties
<1>2. I \in SUBSET (1..Len(cs)) /\ I \in SUBSET Int /\ IsFiniteSet(1..Len(cs))
  BY <1>1, FS_Interval
<1>3. IsFiniteSet(I)
  BY <1>2, FS_Subset
<1> HIDE DEF I
<1>4. /\ Cardinality(I) \in Nat /\ DOMAIN Sorted(I, <) = 1..Cardinality(I)
      /\ \A k \in 1..Cardinality(I) : Sorted(I, <)[k] \in I
  BY <1>2, <1>3, SortedPicks
<1> QED
  BY <1>1, <1>2, <1>4, Zenon DEF I

LEMMA TrainTyped == ASSUME NEW cs \in Seq(Candidate) PROVE Train(cs) \in Seq(Candidate)
<1> DEFINE I == DOMAIN cs \ HeldOut(cs)
           q == Sorted(I, <)
<1>1. /\ I \in SUBSET (DOMAIN cs) /\ Cardinality(I) \in Nat /\ DOMAIN q = 1..Cardinality(I)
      /\ \A k \in 1..Cardinality(I) : q[k] \in I
  BY OutsideIndices, Zenon
<1>2. Train(cs) = [k \in DOMAIN q |-> cs[q[k]]]
  BY DEF Train, Chosen
<1>3. \A i \in DOMAIN cs : cs[i] \in Candidate
  BY LenProperties, ElementOfSeq
<1> HIDE DEF I, q
<1>4. Train(cs) \in [1..Cardinality(I) -> Candidate]
  BY <1>1, <1>2, <1>3
<1> QED
  BY <1>1, <1>4, SeqDef

\* What is held out does not matter to what trains.
LEMMA TrainApart ==
  ASSUME NEW cs \in Seq(Candidate), NEW other, DOMAIN other = DOMAIN cs,
         \A i \in DOMAIN cs : i \notin HeldOut(cs) => other[i] = cs[i]
  PROVE  Train(other) = Train(cs)
<1> DEFINE I == DOMAIN cs \ HeldOut(cs)
           q == Sorted(I, <)
<1>1. /\ I \in SUBSET (DOMAIN cs) /\ DOMAIN q = 1..Cardinality(I)
      /\ \A k \in 1..Cardinality(I) : q[k] \in I
  BY OutsideIndices, Zenon
<1>2. HeldOut(other) = HeldOut(cs)
  BY DEF HeldOut
<1>3. /\ Train(cs) = [k \in DOMAIN q |-> cs[q[k]]]
      /\ Train(other) = [k \in DOMAIN q |-> other[q[k]]]
  BY <1>2, Zenon DEF Train, Chosen
<1>4. \A i \in I : other[i] = cs[i]
  OBVIOUS
<1> HIDE DEF I, q
<1>5. \A k \in DOMAIN q : other[q[k]] = cs[q[k]]
  BY <1>1, <1>4
<1> QED
  BY <1>3, <1>5

LEMMA FittedIs ==
  ASSUME NEW cs
  PROVE  calibrate(cs).fitted = grid_search(Train(cs), MIN_PROMOTED).thresholds
         /\ calibrate(cs).proposed = Proposal(cs).thresholds
  BY DEF calibrate

\* The search on the training candidates finds the first grid point with the best mean, for
\* every grid and sample (calibrate.py:159-186, grid_search).
THEOREM FirstBestFound == Spec => []SearchFindsFirstBest
<1>1. ASSUME AsOfInv PROVE SearchFindsFirstBest
  <2> SUFFICES ASSUME calibration # NoCalibration
               PROVE  LET best == BestPoints(Train(calibration.sample))
                      IN  IF best = {} THEN calibration.record.fitted = GATE_THRESHOLDS
                          ELSE \A k \in best : calibration.record.fitted = GridPoints[k]
    BY DEF SearchFindsFirstBest
  <2> DEFINE cs == Train(calibration.sample)
             fit == grid_search(cs, MIN_PROMOTED)
             sc == Scores(cs, MIN_PROMOTED)
             best == BestPoints(cs)
             n == GridSize
  <2>1. calibration.sample \in Seq(Candidate)
        /\ calibration.record = calibrate(calibration.sample)
    BY <1>1 DEF AsOfInv, Calibrated
  <2>2. cs \in Seq(Candidate) /\ calibration.record.fitted = fit.thresholds
    BY <2>1, TrainTyped, FittedIs
  <2>3. n \in Nat /\ DOMAIN GridPoints = 1..n /\ MIN_PROMOTED \in Positive
    BY GridDomain, AsOfAssumption DEF Positive
  <2> HIDE DEF cs, n
  <2>4. \A k \in 1..n : sc[k] \in Value \cup {None}
    BY <2>2, <2>3, MeanTyped DEF Scores
  <2>5. Found(fit, sc, n)
    BY <2>2, <2>3, SearchFinds DEF n
  <2>6. best = {k \in 1..n : Leads(sc, k, n)}
    BY <2>3 DEF BestPoints, Scores, Leads
  <2> HIDE DEF sc, fit, best
  <2>7. CASE fit = Unfit /\ \A k \in 1..n : ~Known(sc[k])
    <3>1. best = {}
      BY <2>6, <2>7 DEF Leads
    <3>2. fit.thresholds = GATE_THRESHOLDS
      BY <2>7 DEF Unfit
    <3> QED
      BY <2>2, <3>1, <3>2 DEF best, cs
  <2>8. ASSUME NEW k \in 1..n, Leads(sc, k, n),
               fit = [thresholds |-> GridPoints[k], score |-> sc[k]]
        PROVE  best # {} /\ \A j \in best : calibration.record.fitted = GridPoints[j]
    <3>1. k \in best
      BY <2>6, <2>8
    <3>2. ASSUME NEW j \in best PROVE j = k
      BY <2>3, <2>4, <2>6, <2>8, OneLead
    <3>3. fit.thresholds = GridPoints[k]
      BY <2>8
    <3> QED
      BY <2>2, <3>1, <3>2, <3>3
  <2>9. CASE \E k \in 1..n : Leads(sc, k, n) /\ fit = [thresholds |-> GridPoints[k], score |-> sc[k]]
    BY <2>8, <2>9 DEF best, cs
  <2> QED
    BY <2>5, <2>7, <2>9 DEF Found
<1> QED
  BY <1>1, AsOfInvariant, PTL

\* The thresholds that are scored on the holdout were fitted without it (calibrate.py:192-204,
\* split_holdout).
THEOREM HoldoutApart == Spec => []HoldoutUnfitted
<1>1. ASSUME AsOfInv PROVE HoldoutUnfitted
  <2> DEFINE s == calibration.sample
             held(i) == (i - 1) % HOLDOUT_EVERY = 0
             other(r) == [i \in DOMAIN s |->
                            IF held(i) THEN [s[i] EXCEPT !.forward_return_pct = r] ELSE s[i]]
  <2> SUFFICES ASSUME calibration # NoCalibration, NEW r \in {-10000, 20000}
               PROVE  calibrate(other(r)).fitted = calibration.record.fitted
    BY DEF HoldoutUnfitted
  <2>1. s \in Seq(Candidate) /\ calibration.record = calibrate(s)
    BY <1>1 DEF AsOfInv, Calibrated
  <2>2. DOMAIN other(r) = DOMAIN s
    OBVIOUS
  <2>3. \A i \in DOMAIN s : i \notin HeldOut(s) => other(r)[i] = s[i]
    BY DEF HeldOut
  <2> HIDE DEF other, s
  <2>4. Train(other(r)) = Train(s)
    BY <2>1, <2>2, <2>3, TrainApart
  <2> QED
    BY <2>1, <2>4, FittedIs
<1> QED
  BY <1>1, AsOfInvariant, PTL

-----------------------------------------------------------------------------
(* The proposal                                                            *)

\* The integer n is the value x in hundredths, to the nearest.
Near(n, x) == 200 * x.num - x.den <= 2 * (n * x.den) /\ 2 * (n * x.den) <= 200 * x.num + x.den

LEMMA Cancel ==
  ASSUME NEW a \in Int, NEW b \in Int, NEW d \in Positive, a * d <= b * d
  PROVE  a <= b
<1>1. d \in Int /\ d > 0
  BY DEF Positive
<1> QED
  BY ONLY <1>1, a \in Int, b \in Int, a * d <= b * d

LEMMA NearestBounds ==
  ASSUME NEW y \in Value
  PROVE  /\ Nearest(y) \in Int
         /\ 2 * y.num - y.den <= 2 * (Nearest(y) * y.den)
         /\ 2 * (Nearest(y) * y.den) <= 2 * y.num + y.den
<1> DEFINE a == y.num
           d == y.den
           low == a \div d
           p == low * d
<1>1. a \in Int /\ d \in Int /\ d > 0
  BY ValueIs DEF Positive
<1> HIDE DEF a, d
<1>2. low \in Int /\ p \in Int
  BY <1>1
<1>3. p <= a /\ a < p + d
  BY <1>1
<1>4. (low + 1) * d = p + d
  BY <1>1, <1>2
<1>5. Nearest(y) = IF 2 * (a - p) > d \/ (2 * (a - p) = d /\ low % 2 = 1) THEN low + 1 ELSE low
  BY DEF Nearest, a, d
<1> HIDE DEF low, p
<1>6. CASE Nearest(y) = low + 1 /\ 2 * (a - p) >= d
  <2>1. Nearest(y) * d = p + d
    BY <1>4, <1>6
  <2> QED
    BY <1>1, <1>2, <1>3, <1>6, <2>1 DEF a, d
<1>7. CASE Nearest(y) = low /\ 2 * (a - p) <= d
  <2>1. Nearest(y) * d = p
    BY <1>7 DEF p
  <2> QED
    BY <1>1, <1>2, <1>3, <1>7, <2>1 DEF a, d
<1> QED
  BY <1>1, <1>2, <1>5, <1>6, <1>7

LEMMA RecordedNear ==
  ASSUME NEW x \in Value
  PROVE  \E n \in Int : Recorded(x) = Frac(n, 100) /\ Near(n, x)
<1> DEFINE y == Times(x, Whole(100))
           n == Nearest(y)
           a == x.num
           b == x.den
           c == y.num
           d == y.den
<1>1. a \in Int /\ b \in Positive /\ Whole(100) \in Value /\ Whole(100).num = 100
      /\ Whole(100).den = 1
  BY ValueIs, WholeValue
<1>2. y \in Value
  BY <1>1, Arithmetic
<1>3. n \in Int /\ 2 * c - d <= 2 * (n * d) /\ 2 * (n * d) <= 2 * c + d
  BY <1>2, NearestBounds
<1>4. c \in Int /\ d \in Positive
  BY <1>2, ValueIs
<1>5. c * b = (a * 100) * d
  <2>1. a * 100 \in Int /\ b * 1 \in Positive /\ b * 1 = b
    BY <1>1 DEF Positive
  <2>2. y = Frac(a * 100, b * 1)
    BY <1>1 DEF Times
  <2> HIDE DEF y, a, b
  <2> QED
    BY <2>1, <2>2, FracCanonical
<1>6. Recorded(x) = Frac(n, 100)
  BY KnownValue DEF Recorded
<1> HIDE DEF y, n, a, b, c, d
<1>7. b \in Int /\ d \in Int /\ b > 0 /\ d > 0
  BY <1>1, <1>4 DEF Positive
<1>8. /\ (2 * c - d) * b <= (2 * (n * d)) * b
      /\ (2 * (n * d)) * b <= (2 * c + d) * b
  BY ONLY <1>3, <1>4, <1>7
<1>9. /\ (2 * c - d) * b = (200 * a - b) * d
      /\ (2 * c + d) * b = (200 * a + b) * d
      /\ (2 * (n * d)) * b = (2 * (n * b)) * d
  <2>1. (2 * c - d) * b = 2 * (c * b) - b * d /\ (2 * c + d) * b = 2 * (c * b) + b * d
    BY ONLY <1>4, <1>7
  <2>2. 2 * ((a * 100) * d) - b * d = (200 * a - b) * d
        /\ 2 * ((a * 100) * d) + b * d = (200 * a + b) * d
    BY ONLY <1>1, <1>7
  <2>3. (2 * (n * d)) * b = (2 * (n * b)) * d
    BY ONLY <1>3, <1>7
  <2> QED
    BY <1>5, <2>1, <2>2, <2>3
<1>10. 200 * a - b \in Int /\ 200 * a + b \in Int /\ 2 * (n * b) \in Int
  BY ONLY <1>1, <1>3, <1>7
<1>11. 200 * a - b <= 2 * (n * b) /\ 2 * (n * b) <= 200 * a + b
  BY <1>4, <1>8, <1>9, <1>10, Cancel
<1> QED
  BY <1>3, <1>6, <1>11 DEF Near, a, b

LEMMA RecordedOrZero ==
  ASSUME NEW x \in Value \cup {None}
  PROVE  \E n \in Int : OrZero(Recorded(x)) = Frac(n, 100) /\ Near(n, OrZero(x))
<1>0. 100 \in Positive /\ 1 \in Positive
  BY DEF Positive
<1>1. CASE x \in Value
  <2>1. PICK n \in Int : Recorded(x) = Frac(n, 100) /\ Near(n, x)
    BY <1>1, RecordedNear
  <2>2. Known(x) /\ Known(Frac(n, 100))
    BY <1>0, <1>1, FracValue, KnownValue
  <2> QED
    BY <2>1, <2>2 DEF OrZero
<1>2. CASE x = None
  <2>1. OrZero(x) = Whole(0) /\ OrZero(Recorded(x)) = Whole(0)
    BY <1>2, KnownValue DEF OrZero, Recorded
  <2>2. Frac(0, 100) = Whole(0)
    BY <1>0, FracSame DEF Whole
  <2>3. Near(0, Whole(0))
    BY WholeValue DEF Near
  <2> QED
    BY <2>1, <2>2, <2>3
<1> QED
  BY <1>1, <1>2

\* A recorded gain of one whole unit leaves room for what the records were rounded by.
LEMMA GainCovers ==
  ASSUME NEW s \in Value, NEW w \in Value, NEW c \in Int, Near(c, w),
         NEW u \in Positive, ~Less(Recorded(Minus(s, Frac(c, 100))), Whole(u))
  PROVE  AtMost(w, s)
<1> DEFINE k == Frac(c, 100)
           z == Minus(s, k)
<1>0. 100 \in Positive /\ u \in Int /\ u >= 1
  BY DEF Positive
<1>1. k \in Value /\ k.num * 100 = c * k.den /\ z \in Value
  BY <1>0, FracValue, FracCanonical, Arithmetic
<1>2. /\ s.num \in Int /\ s.den \in Positive /\ w.num \in Int /\ w.den \in Positive
      /\ k.num \in Int /\ k.den \in Positive /\ z.num \in Int /\ z.den \in Positive
  BY <1>1, ValueIs
<1>3. z.num * (s.den * k.den) = (s.num * k.den - k.num * s.den) * z.den
  <2>1. s.num * k.den - k.num * s.den \in Int /\ s.den * k.den \in Positive
    BY <1>2, Products DEF Positive
  <2>2. z = Frac(s.num * k.den - k.num * s.den, s.den * k.den)
    BY DEF Minus
  <2> HIDE DEF z, k
  <2> QED
    BY <2>1, <2>2, FracCanonical
<1>4. PICK g \in Int : Recorded(z) = Frac(g, 100) /\ Near(g, z)
  BY <1>1, RecordedNear
<1> DEFINE f == Frac(g, 100)
<1>5. f.num \in Int /\ f.den \in Positive /\ f.num * 100 = g * f.den
  BY <1>0, FracCanonical, ZenonT(60) DEF Canonical
<1>6. u * f.den <= f.num * 1
  <2>1. ~Less(f, Whole(u)) /\ Whole(u).num = u /\ Whole(u).den = 1
    BY <1>0, <1>4, WholeValue
  <2> HIDE DEF f
  <2> QED
    BY <1>0, <1>5, <2>1 DEF Less, Positive
<1> HIDE DEF f
<1>7. 100 <= g
  <2>1. f.den \in Int /\ f.den > 0
    BY <1>5 DEF Positive
  <2>2. f.den <= u * f.den
    BY ONLY <1>0, <2>1
  <2>3. 100 * f.den <= g * f.den
    BY ONLY <1>0, <1>5, <1>6, <2>1, <2>2
  <2> QED
    BY <1>5, <2>3, Cancel
<1> DEFINE S == s.num
           sd == s.den
           zn == z.num
           zd == z.den
           kn == k.num
           kd == k.den
<1> HIDE DEF z, k
<1>8. /\ S \in Int /\ sd \in Int /\ sd > 0 /\ zn \in Int /\ zd \in Int /\ zd > 0
      /\ kn \in Int /\ kd \in Int /\ kd > 0
  BY <1>2 DEF Positive
<1>9. zn * (sd * kd) = (S * kd - kn * sd) * zd /\ kn * 100 = c * kd
  BY <1>1, <1>3
<1>10. 2 * (g * zd) <= 200 * zn + zd
  BY <1>4 DEF Near
<1> HIDE DEF S, sd, zn, zd, kn, kd
<1>11. zd <= 2 * zn
  <2>1. 100 * zd <= g * zd
    BY ONLY <1>4, <1>7, <1>8
  <2> QED
    BY ONLY <1>8, <1>10, <2>1, <1>4
<1>12. (100 * (zn * sd)) * kd = ((100 * S - c * sd) * zd) * kd
  <2>1. (100 * (zn * sd)) * kd = 100 * (zn * (sd * kd))
    BY ONLY <1>8
  <2>2. 100 * ((S * kd - kn * sd) * zd) = (100 * (S * kd) - (kn * 100) * sd) * zd
    BY ONLY <1>8
  <2>3. 100 * (S * kd) - (c * kd) * sd = (100 * S - c * sd) * kd
    BY ONLY <1>8, c \in Int
  <2>4. ((100 * S - c * sd) * kd) * zd = ((100 * S - c * sd) * zd) * kd
    BY ONLY <1>8, c \in Int
  <2> QED
    BY <1>9, <2>1, <2>2, <2>3, <2>4
<1>13. 100 * (zn * sd) = (100 * S - c * sd) * zd
  BY ONLY <1>8, <1>12, c \in Int
<1>14. (100 * sd) * zd <= (2 * (100 * S - c * sd)) * zd
  <2>1. sd * zd <= sd * (2 * zn)
    BY ONLY <1>8, <1>11
  <2>2. (100 * sd) * zd = 100 * (sd * zd) /\ 100 * (sd * (2 * zn)) = 2 * (100 * (zn * sd))
    BY ONLY <1>8
  <2>3. (2 * (100 * S - c * sd)) * zd = 2 * ((100 * S - c * sd) * zd)
    BY ONLY <1>8, c \in Int
  <2>4. sd * zd \in Int /\ sd * (2 * zn) \in Int
    BY ONLY <1>8
  <2>5. 100 * (sd * zd) <= 100 * (sd * (2 * zn))
    BY ONLY <2>1, <2>4
  <2> QED
    BY <1>13, <2>2, <2>3, <2>5
<1>15. 100 * sd <= 2 * (100 * S - c * sd)
  <2>1. 100 * sd \in Int /\ 2 * (100 * S - c * sd) \in Int /\ zd \in Positive
    BY <1>8 DEF Positive
  <2> QED
    BY <1>14, <2>1, Cancel
<1>16. (2 * c + 100) * sd <= S * 200
  <2>1. (2 * c + 100) * sd = 2 * (c * sd) + 100 * sd /\ c * sd \in Int
    BY ONLY <1>8, c \in Int
  <2> QED
    BY ONLY <1>8, <1>15, <2>1, c \in Int
<1>17. w.num * 200 <= (2 * c + 100) * w.den
  <2>1. w.den \in Int /\ w.den > 0
    BY <1>2 DEF Positive
  <2>2. (2 * c + 100) * w.den = 2 * (c * w.den) + 100 * w.den /\ c * w.den \in Int
    BY ONLY <2>1, c \in Int
  <2>3. 200 * w.num - w.den <= 2 * (c * w.den)
    BY DEF Near
  <2> QED
    BY <1>2, <2>1, <2>2, <2>3
<1>18. w.num * s.den <= s.num * w.den
  <2>1. 2 * c + 100 \in Int /\ 200 \in Positive
    BY DEF Positive
  <2> QED
    BY <1>2, <1>16, <1>17, <2>1, Through DEF S, sd
<1> QED
  BY <1>18 DEF AtMost

LEMMA ProposalIs ==
  ASSUME NEW cs \in Seq(Candidate)
  PROVE  LET mean(t) == OrZero(mean_forward(cs, t, 1))
         IN  AtMost(mean(GATE_THRESHOLDS), mean(Proposal(cs).thresholds))
<1> DEFINE mean(t) == OrZero(mean_forward(cs, t, 1))
           fit == grid_search(cs, MIN_PROMOTED)
           old == mean_forward(cs, GATE_THRESHOLDS, 1)
           current == Recorded(old)
           score == IF Known(fit.score) THEN fit.score ELSE current
           gain == Recorded(Minus(OrZero(score), OrZero(current)))
           sc == Scores(cs, MIN_PROMOTED)
           new == Proposal(cs).thresholds
<1>1. MIN_PROMOTED \in Positive /\ MIN_IMPROVEMENT_PP \in Positive /\ 1 \in Positive
  BY AsOfAssumption DEF Positive
<1>2. old \in Value \cup {None} /\ Whole(0) \in Value
  BY <1>1, MeanTyped, WholeValue
<1>3. OrZero(old) \in Value
  BY <1>2, KnownValue DEF OrZero
<1>4. new = IF Less(gain, Whole(MIN_IMPROVEMENT_PP)) THEN GATE_THRESHOLDS ELSE fit.thresholds
  BY DEF Proposal
<1>5. Found(fit, sc, GridSize)
  BY <1>1, SearchFinds
<1>6. AtMost(mean(GATE_THRESHOLDS), mean(GATE_THRESHOLDS))
  BY <1>3, Order
<1> HIDE DEF fit, new
<1>7. CASE new = GATE_THRESHOLDS
  BY <1>6, <1>7 DEF new
<1>8. CASE new # GATE_THRESHOLDS
  <2>1. new = fit.thresholds /\ ~Less(gain, Whole(MIN_IMPROVEMENT_PP))
    BY <1>4, <1>8
  <2>2. fit # Unfit
    BY <1>8, <2>1 DEF Unfit
  <2>3. PICK k \in 1..GridSize :
           Known(sc[k]) /\ fit = [thresholds |-> GridPoints[k], score |-> sc[k]]
    BY <1>5, <2>2 DEF Found, Leads
  <2>4. sc[k] = mean_forward(cs, GridPoints[k], MIN_PROMOTED)
    BY GridDomain DEF Scores
  <2>5. /\ sc[k] \in Value
        /\ mean_forward(cs, GridPoints[k], 1) = sc[k]
    BY <1>1, <2>3, <2>4, MeanTyped, KnownValue
  <2>6. fit.thresholds = GridPoints[k] /\ fit.score = sc[k]
    BY <2>3
  <2> HIDE DEF sc, old
  <2>7. mean(new) = sc[k] /\ OrZero(score) = sc[k]
    BY <2>1, <2>3, <2>5, <2>6 DEF OrZero
  <2>8. PICK c \in Int : OrZero(current) = Frac(c, 100) /\ Near(c, OrZero(old))
    BY <1>2, RecordedOrZero
  <2>9. ~Less(Recorded(Minus(sc[k], Frac(c, 100))), Whole(MIN_IMPROVEMENT_PP))
    BY <2>1, <2>7, <2>8
  <2>10. AtMost(OrZero(old), sc[k])
    BY <1>1, <1>3, <2>5, <2>8, <2>9, GainCovers
  <2> QED
    BY <2>7, <2>10 DEF old, new
<1> QED
  BY <1>7, <1>8

\* What is proposed is never worse on the sample than the strict thresholds, for every grid and
\* sample, although their mean and the gain are rounded and the strict thresholds may promote
\* fewer candidates than the grid search asks for (calibrate.py:242-257, calibrate).
THEOREM ProposalsNoWorse == Spec => []ProposalNeverWorse
<1>1. ASSUME AsOfInv PROVE ProposalNeverWorse
  <2> SUFFICES ASSUME calibration # NoCalibration
               PROVE  LET mean(t) == OrZero(mean_forward(calibration.sample, t, 1))
                      IN  AtMost(mean(GATE_THRESHOLDS), mean(calibration.record.proposed))
    BY DEF ProposalNeverWorse
  <2>1. calibration.sample \in Seq(Candidate)
        /\ calibration.record = calibrate(calibration.sample)
    BY <1>1 DEF AsOfInv, Calibrated
  <2>2. calibration.record.proposed = Proposal(calibration.sample).thresholds
    BY <2>1, FittedIs
  <2> QED
    BY <2>1, <2>2, ProposalIs
<1> QED
  BY <1>1, AsOfInvariant, PTL
=============================================================================
