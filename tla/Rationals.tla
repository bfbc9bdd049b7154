------------------------------ MODULE Rationals ------------------------------
(* Exact fractions as pairs <<n, d>> with d > 0, reduced: Rational64 and    *)
(* BigRational of the num crates, for numbers that stay small.             *)
EXTENDS Integers, Sequences, SequencesExt

gcd[p \in Nat \X Nat] == IF p[2] = 0 THEN p[1] ELSE gcd[<<p[2], p[1] % p[2]>>]
Gcd(a, b) == gcd[<<a, b>>]

AbsOf(i) == IF i < 0 THEN -i ELSE i

(* The fraction n/d, reduced; 0/1 when d = 0, which no caller asks for     *)
(* except for what UnitAlgebra calls irrational.                           *)
Frac(n, d) ==
  IF n = 0 \/ d = 0 THEN <<0, 1>>
  ELSE LET g == Gcd(AbsOf(n), AbsOf(d)) s == IF d < 0 THEN -1 ELSE 1
       IN  <<s * (n \div g), s * (d \div g)>>

IsFraction(q) == q \in Int \X (Nat \ {0}) /\ Frac(q[1], q[2]) = q

Zero == <<0, 1>>
One  == <<1, 1>>
Whole(i) == <<i, 1>>

Plus(a, b)   == Frac(a[1] * b[2] + b[1] * a[2], a[2] * b[2])
Negated(a)   == <<-a[1], a[2]>>
Minus(a, b)  == Plus(a, Negated(b))
Times(a, b)  == Frac(a[1] * b[1], a[2] * b[2])
Over(a, b)   == Frac(a[1] * b[2], a[2] * b[1])
Less(a, b)   == a[1] * b[2] < b[1] * a[2]
IsWhole(a)   == a[2] = 1

intPower[p \in Int \X Nat] == IF p[2] = 0 THEN 1 ELSE p[1] * intPower[<<p[1], p[2] - 1>>]
Raise(a, k) == <<intPower[<<a[1], k>>], intPower[<<a[2], k>>]>>
WholePower(a, i) == IF i < 0 THEN Over(One, Raise(a, -i)) ELSE Raise(a, i)
=============================================================================
