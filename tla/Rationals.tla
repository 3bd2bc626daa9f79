----------------------------- MODULE Rationals ------------------------------
(***************************************************************************)
(* Exact fractions <<n, d>>, in lowest terms with d > 0: what the          *)
(* statistics compute where the code has floating-point numbers, without   *)
(* the rounding.                                                           *)
(***************************************************************************)
EXTENDS Integers, Sequences

LOCAL Magnitude(n) == IF n < 0 THEN -n ELSE n

RECURSIVE Gcd(_, _)
Gcd(a, b) == IF b = 0 THEN a ELSE Gcd(b, a % b)

\* n / d, for d # 0.
LOCAL Reduced(n, d, g) == <<n \div g, d \div g>>
LOCAL Positive(n, d) == Reduced(n, d, Gcd(Magnitude(n), d))
Q(n, d) == IF d < 0 THEN Positive(-n, -d) ELSE Positive(n, d)

Int2Q(n) == <<n, 1>>
Q0 == <<0, 1>>
Q1 == <<1, 1>>

\* Sums and comparisons are made over the least common denominator, products
\* after reducing crosswise; g is the denominators' divisor.
LOCAL Sum(a, b, g) ==
    Positive(a[1] * (b[2] \div g) + b[1] * (a[2] \div g), a[2] * (b[2] \div g))
LOCAL Product(p, q) == <<p[1] * q[1], p[2] * q[2]>>
LOCAL Difference(a, b, g) == a[1] * (b[2] \div g) - b[1] * (a[2] \div g)
QAdd(a, b) == Sum(a, b, Gcd(a[2], b[2]))
QNeg(a)    == <<-a[1], a[2]>>
QSub(a, b) == QAdd(a, QNeg(b))
QMul(a, b) == Product(Positive(a[1], b[2]), Positive(b[1], a[2]))
QInv(a)    == IF a[1] < 0 THEN <<-a[2], -a[1]>> ELSE <<a[2], a[1]>>
QDiv(a, b) == QMul(a, QInv(b))
QSq(a)     == <<a[1] * a[1], a[2] * a[2]>>
QLt(a, b)  == Difference(a, b, Gcd(a[2], b[2])) < 0
QLeq(a, b) == Difference(a, b, Gcd(a[2], b[2])) <= 0
QMin(a, b) == IF QLt(b, a) THEN b ELSE a
QMax(a, b) == IF QLt(a, b) THEN b ELSE a
QAbs(a)    == <<Magnitude(a[1]), a[2]>>

\* The sum of a sequence of fractions, and of F(i) over 1 .. n.
QSumOf(n, F(_)) ==
    LET sum[i \in 0 .. n] == IF i = 0 THEN Q0 ELSE QAdd(sum[i - 1], F(i)) IN sum[n]
QSum(s) == QSumOf(Len(s), LAMBDA i : s[i])
=============================================================================
