--------------------------- MODULE Numeric_proofs ---------------------------
(***************************************************************************)
(* Numbers. First what the proofs need of fractions and of their sums.     *)
(* Then uncertain values, for any that are measured, named and combined in *)
(* any model and mode, and any number of processes: the arithmetic keeps   *)
(* what SourceIds promises of ids, and an id that is given out is new;     *)
(* what each pair of models makes of its operands, the invariant TruthInv  *)
(* that every step keeps, and from it that a value spreads like what it    *)
(* depends on and that its terms name just that. Last, units: powers,      *)
(* exact scales and conversions.                                           *)
(***************************************************************************)
EXTENDS Uncertainty, UnitProperties, FiniteSetTheorems, WellFoundedInduction, TLAPS

(* Every nonempty set of naturals has a least element.                     *)
LEMMA LeastNatural ==
  ASSUME NEW T, T \subseteq Nat, T # {}
  PROVE  \E x \in T : \A y \in T : x <= y
<1>1. PICK x \in T : \A y \in T : ~ (<<y, x>> \in OpToRel(<, Nat))
  BY NatLessThanWellFounded, WFMin
<1>2. \A y \in T : ~(y < x)
  BY <1>1 DEF OpToRel
<1> QED
  BY <1>2

-----------------------------------------------------------------------------
(***************************************************************************)
(* Fractions. gcd is Euclid's recursion; that it computes a greatest       *)
(* common divisor, and a combination of its arguments, is shown from a     *)
(* least argument for which it would not.                                  *)
(***************************************************************************)
Divides(a, b) == \E q \in Int : b = a * q
IsGcd(g, x, y) ==
  /\ Divides(g, x) /\ Divides(g, y)
  /\ \A k \in Nat : Divides(k, x) /\ Divides(k, y) => Divides(k, g)
GreatestCommon(x, y) == CHOOSE g \in Nat : IsGcd(g, x, y)

LEMMA Remainder ==
  ASSUME NEW x \in Int, NEW y \in Nat \ {0}
  PROVE  x \div y \in Int /\ x % y \in 0 .. (y - 1) /\ x = y * (x \div y) + (x % y)
OBVIOUS

LEMMA DividesSum ==
  ASSUME NEW k \in Int, NEW a \in Int, NEW b \in Int, NEW q \in Int, Divides(k, a), Divides(k, b)
  PROVE  Divides(k, a * q + b) /\ Divides(k, b - a * q)
<1>1. PICK u \in Int : a = k * u
  BY DEF Divides
<1>2. PICK v \in Int : b = k * v
  BY DEF Divides
<1>3. u * q \in Int
  OBVIOUS
<1>4. (k * u) * q = k * (u * q)
  OBVIOUS
<1> DEFINE w == u * q
<1>5. a * q = k * w /\ w \in Int
  BY <1>1, <1>3, <1>4
<1> HIDE DEF w
<1>6. k * w + k * v = k * (w + v) /\ k * v - k * w = k * (v - w)
  BY <1>5
<1>7. a * q + b = k * (w + v) /\ b - a * q = k * (v - w)
  BY <1>2, <1>5, <1>6
<1>8. w + v \in Int /\ v - w \in Int
  BY <1>5
<1>9. Divides(k, a * q + b)
  BY <1>7, <1>8 DEF Divides
<1>10. Divides(k, b - a * q)
  BY <1>7, <1>8 DEF Divides
<1> QED
  BY <1>9, <1>10

LEMMA DividesEachOther ==
  ASSUME NEW a \in Nat, NEW b \in Nat, Divides(a, b), Divides(b, a)
  PROVE  a = b
<1>1. PICK u \in Int : b = a * u
  BY DEF Divides
<1>2. PICK v \in Int : a = b * v
  BY DEF Divides
<1>3. ASSUME NEW m \in Nat, NEW n \in Nat \ {0}, NEW w \in Int, n = m * w PROVE m <= n
  <2>1. w > 0 /\ m > 0
    <3>1. CASE w <= 0
      <4>1. m * w <= 0
        BY <3>1
      <4> QED
        BY <1>3, <4>1
    <3>2. CASE m = 0
      BY <1>3, <3>2
    <3> QED
      BY <3>1, <3>2
  <2>2. m * w >= m * 1
    BY <2>1
  <2> QED
    BY <1>3, <2>2
<1>4. CASE a = 0 \/ b = 0
  BY <1>1, <1>2, <1>4
<1>5. CASE a # 0 /\ b # 0
  <2>1. a <= b
    BY <1>1, <1>3, <1>5
  <2>2. b <= a
    BY <1>2, <1>3, <1>5
  <2> QED
    BY <2>1, <2>2
<1> QED
  BY <1>4, <1>5

(* The common divisors of two numbers are those of the second and the      *)
(* remainder.                                                              *)
LEMMA SameDivisors ==
  ASSUME NEW x \in Nat, NEW y \in Nat \ {0}, NEW k \in Nat
  PROVE  Divides(k, x) /\ Divides(k, y) <=> Divides(k, y) /\ Divides(k, x % y)
<1>1. x \div y \in Int /\ x % y \in Int /\ x = y * (x \div y) + (x % y)
  BY Remainder
<1> DEFINE q == x \div y
           r == x % y
<1> HIDE DEF q, r
<1>2. q \in Int /\ r \in Int /\ x = y * q + r
  BY <1>1 DEF q, r
<1>3. y * q \in Int
  BY <1>2
<1>4. r = x - y * q
  BY <1>2, <1>3
<1>5. ASSUME Divides(k, y), Divides(k, r) PROVE Divides(k, x)
  <2>1. k \in Int /\ y \in Int /\ r \in Int /\ q \in Int
    BY <1>2
  <2>2. Divides(k, y * q + r)
    BY <1>5, <2>1, DividesSum
  <2> QED
    BY <2>2, <1>2
<1>6. ASSUME Divides(k, y), Divides(k, x) PROVE Divides(k, r)
  <2>1. k \in Int /\ y \in Int /\ x \in Int /\ q \in Int
    BY <1>2
  <2>2. Divides(k, x - y * q)
    BY <1>6, <2>1, DividesSum
  <2> QED
    BY <2>2, <1>4
<1> QED
  BY <1>5, <1>6 DEF r

LEMMA GcdIsRecursive ==
  ASSUME NEW x \in Nat, NEW y \in Nat
  PROVE  Gcd(x, y) = IF y = 0 THEN x ELSE Gcd(y, x % y)
<1> DEFINE Euclid(f) == [p \in Nat \X Nat |-> IF p[2] = 0 THEN p[1] ELSE f[<<p[2], p[1] % p[2]>>]]
           h == [p \in Nat \X Nat |-> GreatestCommon(p[1], p[2])]
<1>1. ASSUME NEW u \in Nat PROVE GreatestCommon(u, 0) = u
  <2>1. \A k \in Nat : Divides(k, 0)
    BY DEF Divides
  <2>2. Divides(u, u)
    <3>1. u = u * 1
      OBVIOUS
    <3> QED
      BY <3>1 DEF Divides
  <2>3. IsGcd(u, u, 0)
    BY <2>1, <2>2 DEF IsGcd
  <2>4. ASSUME NEW g \in Nat, IsGcd(g, u, 0) PROVE g = u
    BY <2>1, <2>2, <2>4, DividesEachOther DEF IsGcd
  <2> QED
    BY <2>3, <2>4 DEF GreatestCommon
<1>2. ASSUME NEW u \in Nat, NEW v \in Nat \ {0}
      PROVE  GreatestCommon(u, v) = GreatestCommon(v, u % v)
  <2>1. \A g \in Nat : IsGcd(g, u, v) <=> IsGcd(g, v, u % v)
    BY SameDivisors DEF IsGcd
  <2> QED
    BY <2>1 DEF GreatestCommon
<1>3. h = Euclid(h)
  <2>1. ASSUME NEW p \in Nat \X Nat
        PROVE  h[p] = IF p[2] = 0 THEN p[1] ELSE h[<<p[2], p[1] % p[2]>>]
    <3>1. CASE p[2] = 0
      BY <1>1, <3>1
    <3>2. CASE p[2] # 0
      <4>0. p[1] \in Nat /\ p[2] \in Nat \ {0}
        BY <3>2
      <4>1. p[1] \in Nat /\ p[2] \in Nat \ {0} /\ p[1] % p[2] \in Nat
        <5>1. \A u \in Int, v \in Nat \ {0} : u % v \in Nat
          BY Remainder
        <5> QED
          BY <4>0, <5>1
      <4>2. h[<<p[2], p[1] % p[2]>>] = GreatestCommon(p[2], p[1] % p[2])
        BY <4>1
      <4>3. GreatestCommon(p[1], p[2]) = GreatestCommon(p[2], p[1] % p[2])
        BY <4>1, <1>2
      <4> QED
        BY <3>2, <4>2, <4>3
    <3> QED
      BY <3>1, <3>2
  <2>2. h = [p \in Nat \X Nat |-> h[p]]
    OBVIOUS
  <2> HIDE DEF h
  <2> QED
    BY <2>1, <2>2
<1>4. gcd = Euclid(gcd)
  <2>1. gcd = CHOOSE f : f = Euclid(f)
    BY DEF gcd
  <2> HIDE DEF h, Euclid
  <2> QED
    BY <1>3, <2>1
<1>5. <<x, y>> \in Nat \X Nat
  OBVIOUS
<1>6. gcd[<<x, y>>] = IF y = 0 THEN x ELSE gcd[<<y, x % y>>]
  BY <1>4, <1>5
<1> QED
  BY <1>6 DEF Gcd

(* Two numbers have a greatest common divisor as a combination of them.    *)
Combines(g, x, y) == \E s, t \in Int : g = x * s + y * t
Euclidean(x, y) == Gcd(x, y) \in Nat /\ Divides(Gcd(x, y), x) /\ Divides(Gcd(x, y), y) /\ Combines(Gcd(x, y), x, y)

LEMMA CombinesInTurn ==
  ASSUME NEW x \in Int, NEW y \in Int, NEW q \in Int, NEW g, Combines(g, y, x - y * q)
  PROVE  Combines(g, x, y)
<1>1. PICK s \in Int, t \in Int : g = y * s + (x - y * q) * t
  BY DEF Combines
<1>2. y * s + (x - y * q) * t = x * t + y * (s - q * t)
  OBVIOUS
<1>3. g = x * t + y * (s - q * t) /\ t \in Int /\ s - q * t \in Int
  BY <1>1, <1>2
<1> DEFINE w == s - q * t
<1>4. g = x * t + y * w /\ w \in Int
  BY <1>3
<1> HIDE DEF w
<1> QED
  BY <1>3, <1>4 DEF Combines

LEMMA GcdIsEuclidean == ASSUME NEW x \in Nat, NEW y \in Nat PROVE Euclidean(x, y)
<1> DEFINE T == {v \in Nat : \E u \in Nat : ~ Euclidean(u, v)}
<1>1. SUFFICES ASSUME T # {} PROVE FALSE
  OBVIOUS
<1>2. PICK v \in T : \A w \in T : v <= w
  BY <1>1, LeastNatural
<1>3. PICK u \in Nat : ~ Euclidean(u, v)
  OBVIOUS
<1>4. CASE v = 0
  <2>1. Gcd(u, v) = u
    BY <1>4, GcdIsRecursive
  <2>2. u = u * 1 /\ v = u * 0 /\ u = u * 1 + v * 0
    BY <1>4
  <2> QED
    BY <1>3, <2>1, <2>2 DEF Euclidean, Divides, Combines
<1>5. CASE v # 0
  <2> DEFINE r == u % v
             q == u \div v
  <2>0. v \in Nat \ {0}
    BY <1>5
  <2>1. q \in Int /\ r \in 0 .. (v - 1) /\ u = v * q + r
    <3>1. u \in Int
      OBVIOUS
    <3> QED
      BY ONLY <2>0, <3>1, Remainder
  <2>2. Gcd(u, v) = Gcd(v, r)
    BY <1>5, GcdIsRecursive
  <2> HIDE DEF q, r
  <2>3. r \in Nat /\ ~ (v <= r)
    BY <2>0, <2>1
  <2>4. Euclidean(v, r)
    BY <1>2, <2>0, <2>3
  <2> DEFINE g == Gcd(v, r)
  <2>5. g \in Nat /\ Divides(g, v) /\ Divides(g, r) /\ Combines(g, v, r)
    BY <2>4 DEF Euclidean
  <2> HIDE DEF g
  <2>6. v * q \in Int
    BY <2>0, <2>1
  <2>7. r = u - v * q
    BY <2>1, <2>3, <2>6
  <2>8. Divides(g, u)
    <3>1. g \in Int /\ v \in Int /\ r \in Int /\ q \in Int
      BY <2>1, <2>5
    <3>2. Divides(g, v * q + r)
      BY <2>5, <3>1, DividesSum
    <3> QED
      BY <2>1, <3>2
  <2>9. Combines(g, u, v)
    <3>1. u \in Int /\ v \in Int /\ q \in Int
      BY <2>1
    <3>2. Combines(g, v, u - v * q)
      BY <2>5, <2>7
    <3> QED
      BY <3>1, <3>2, CombinesInTurn
  <2> QED
    BY <1>3, <2>2, <2>5, <2>8, <2>9 DEF Euclidean, g
<1> QED
  BY <1>4, <1>5

-----------------------------------------------------------------------------
(***************************************************************************)
(* Fractions in lowest terms, and that Frac makes such ones.               *)
(***************************************************************************)
Coprime(n, d) == Combines(1, n, d)
Fractions == {q \in Int \X (Nat \ {0}) : Coprime(q[1], q[2])}

LEMMA ExactQuotient ==
  ASSUME NEW g \in Nat \ {0}, NEW u \in Int
  PROVE  (g * u) \div g = u
<1>1. g * u \in Int /\ (g * u) \div g \in Int /\ (g * u) % g \in 0 .. (g - 1)
      /\ g * u = g * ((g * u) \div g) + ((g * u) % g)
  OBVIOUS
<1> DEFINE w == (g * u) \div g
           r == (g * u) % g
<1> HIDE DEF w, r
<1>2. w \in Int /\ r \in 0 .. (g - 1) /\ g * u = g * w + r
  BY <1>1 DEF w, r
<1>3. r = g * (u - w)
  BY <1>2
<1>4. u - w = 0
  <2>1. CASE u - w >= 1
    <3>1. g * (u - w) >= g * 1
      BY <1>2, <2>1
    <3> QED
      BY <1>2, <1>3, <3>1
  <2>2. CASE u - w <= -1
    <3>1. g * (u - w) <= g * (-1)
      BY <1>2, <2>2
    <3> QED
      BY <1>2, <1>3, <3>1
  <2> QED
    BY <1>2, <2>1, <2>2
<1> QED
  BY <1>2, <1>4 DEF w

LEMMA CombinesWithSigns ==
  ASSUME NEW n \in Int, NEW d \in Int, NEW g, Combines(g, AbsOf(n), AbsOf(d))
  PROVE  Combines(g, n, d)
<1>1. PICK s \in Int, t \in Int : g = AbsOf(n) * s + AbsOf(d) * t
  BY DEF Combines
<1>2. \E u \in Int : AbsOf(n) * s = n * u
  <2>1. n * s = n * s /\ (-n) * s = n * (-s) /\ -s \in Int
    OBVIOUS
  <2> QED
    BY <2>1 DEF AbsOf
<1>3. \E u \in Int : AbsOf(d) * t = d * u
  <2>1. d * t = d * t /\ (-d) * t = d * (-t) /\ -t \in Int
    OBVIOUS
  <2> QED
    BY <2>1 DEF AbsOf
<1> QED
  BY <1>1, <1>2, <1>3 DEF Combines

LEMMA CoprimeOfCommonFactor ==
  ASSUME NEW g \in Nat \ {0}, NEW u \in Int, NEW v \in Int, Combines(g, g * u, g * v)
  PROVE  Coprime(u, v)
<1>1. PICK s \in Int, t \in Int : g = (g * u) * s + (g * v) * t
  BY DEF Combines
<1>2. (g * u) * s + (g * v) * t = g * (u * s + v * t)
  OBVIOUS
<1>3. u * s + v * t \in Int
  OBVIOUS
<1> DEFINE w == u * s + v * t
<1>4. g * w = g /\ w \in Int
  BY <1>1, <1>2, <1>3
<1> HIDE DEF w
<1>5. (g * w) \div g = w /\ (g * 1) \div g = 1 /\ g * 1 = g
  BY <1>4, ExactQuotient
<1>6. w = 1
  BY <1>4, <1>5
<1> QED
  BY <1>6 DEF Coprime, Combines, w

LEMMA SignedMultiple ==
  ASSUME NEW g \in Int, NEW n \in Int, Divides(g, AbsOf(n))
  PROVE  \E u \in Int : n = g * u
<1>1. PICK a \in Int : AbsOf(n) = g * a
  BY DEF Divides
<1>2. CASE n < 0
  <2>1. g * (-a) = -(g * a) /\ -a \in Int
    OBVIOUS
  <2>2. n = g * (-a)
    BY <1>1, <1>2, <2>1 DEF AbsOf
  <2> QED
    BY <2>1, <2>2
<1>3. CASE ~ (n < 0)
  BY <1>1, <1>3 DEF AbsOf
<1> QED
  BY <1>2, <1>3

(* What Frac does: it divides both by what they have in common, and moves  *)
(* the sign up.                                                            *)
Reduces(g, u, v, n, d) ==
  /\ n = g * u /\ d = g * v /\ Coprime(u, v) /\ v # 0
  /\ d < 0 <=> v < 0
  /\ Frac(n, d) = IF d < 0 THEN <<-u, -v>> ELSE <<u, v>>

LEMMA FracReduces ==
  ASSUME NEW n \in Int, NEW d \in Int, n # 0, d # 0
  PROVE  \E g \in Nat \ {0}, u, v \in Int : Reduces(g, u, v, n, d)
<1> DEFINE g == Gcd(AbsOf(n), AbsOf(d))
<1>1. AbsOf(n) \in Nat \ {0} /\ AbsOf(d) \in Nat \ {0}
  BY DEF AbsOf
<1>2. g \in Nat /\ Divides(g, AbsOf(n)) /\ Divides(g, AbsOf(d)) /\ Combines(g, AbsOf(n), AbsOf(d))
  BY <1>1, GcdIsEuclidean DEF Euclidean
<1>3. Frac(n, d) = <<(IF d < 0 THEN -1 ELSE 1) * (n \div g), (IF d < 0 THEN -1 ELSE 1) * (d \div g)>>
  BY DEF Frac
<1> HIDE DEF g
<1>4. g # 0
  <2>1. \A a \in Int : 0 * a = 0
    OBVIOUS
  <2> QED
    BY <1>1, <1>2, <2>1 DEF Divides
<1>5. PICK u \in Int : n = g * u
  BY <1>2, SignedMultiple
<1>6. PICK v \in Int : d = g * v
  BY <1>2, SignedMultiple
<1>7. g \in Nat \ {0}
  BY <1>2, <1>4
<1>8. Coprime(u, v)
  <2>1. Combines(g, n, d)
    BY <1>2, CombinesWithSigns
  <2>2. Combines(g, g * u, g * v)
    BY <2>1, <1>5, <1>6
  <2> QED
    BY <1>7, <2>2, CoprimeOfCommonFactor
<1>9. n \div g = u /\ d \div g = v
  BY <1>5, <1>6, <1>7, ExactQuotient
<1>10. v # 0 /\ (d < 0 <=> v < 0)
  <2>1. CASE v = 0
    <3>1. g * 0 = 0
      BY <1>7
    <3> QED
      BY <1>6, <2>1, <3>1
  <2>2. CASE v > 0
    <3>1. g * v >= g * 1
      BY <1>7, <2>2
    <3> QED
      BY <1>6, <1>7, <2>2, <3>1
  <2>3. CASE v < 0
    <3>1. g * v <= g * (-1)
      BY <1>7, <2>3
    <3> QED
      BY <1>6, <1>7, <2>3, <3>1
  <2> QED
    BY <2>1, <2>2, <2>3
<1>11. Frac(n, d) = IF d < 0 THEN <<-u, -v>> ELSE <<u, v>>
  <2>1. (-1) * u = -u /\ 1 * u = u /\ (-1) * v = -v /\ 1 * v = v
    OBVIOUS
  <2> QED
    BY <1>3, <1>9, <2>1
<1> QED
  BY <1>5, <1>6, <1>7, <1>8, <1>10, <1>11 DEF Reduces

LEMMA ZeroAndOne == Zero \in Fractions /\ One \in Fractions
<1>1. Combines(1, 0, 1) /\ Combines(1, 1, 1)
  <2>1. 1 = 0 * 0 + 1 * 1 /\ 1 = 1 * 0 + 1 * 1
    OBVIOUS
  <2> QED
    BY <2>1 DEF Combines
<1> QED
  BY <1>1 DEF Fractions, Coprime, Zero, One

LEMMA FracIsFraction ==
  ASSUME NEW n \in Int, NEW d \in Int
  PROVE  Frac(n, d) \in Fractions
<1>1. CASE n = 0 \/ d = 0
  BY <1>1, ZeroAndOne DEF Frac, Zero
<1>2. CASE n # 0 /\ d # 0
  <2>1. PICK g \in Nat \ {0}, u \in Int, v \in Int : Reduces(g, u, v, n, d)
    BY <1>2, FracReduces
  <2>2. Coprime(-u, -v)
    <3>1. PICK s \in Int, t \in Int : 1 = u * s + v * t
      BY <2>1 DEF Reduces, Coprime, Combines
    <3>2. u * s + v * t = (-u) * (-s) + (-v) * (-t) /\ -s \in Int /\ -t \in Int
      OBVIOUS
    <3> QED
      BY <3>1, <3>2 DEF Coprime, Combines
  <2>3. v \in Int /\ u \in Int /\ v # 0 /\ (d < 0 <=> v < 0) /\ Coprime(u, v)
        /\ Frac(n, d) = IF d < 0 THEN <<-u, -v>> ELSE <<u, v>>
    BY <2>1 DEF Reduces
  <2>4. CASE d < 0
    <3>1. Frac(n, d) = <<-u, -v>> /\ -u \in Int /\ -v \in Nat \ {0}
      BY <2>3, <2>4
    <3> QED
      BY <2>2, <3>1 DEF Fractions
  <2>5. CASE ~ (d < 0)
    <3>1. Frac(n, d) = <<u, v>> /\ v \in Nat \ {0}
      BY <2>3, <2>5
    <3> QED
      BY <2>3, <3>1 DEF Fractions
  <2> QED
    BY <2>4, <2>5
<1> QED
  BY <1>1, <1>2

(* Frac keeps the value.                                                   *)
LEMMA FracKeepsValue ==
  ASSUME NEW n \in Int, NEW d \in Int, d # 0
  PROVE  Frac(n, d)[1] * d = n * Frac(n, d)[2]
<1>1. CASE n = 0
  BY <1>1 DEF Frac
<1>2. CASE n # 0
  <2>1. PICK g \in Nat \ {0}, u \in Int, v \in Int : Reduces(g, u, v, n, d)
    BY <1>2, FracReduces
  <2>2. n = g * u /\ d = g * v /\ Frac(n, d) = IF d < 0 THEN <<-u, -v>> ELSE <<u, v>>
    BY <2>1 DEF Reduces
  <2>3. u * (g * v) = (g * u) * v /\ (-u) * (g * v) = (g * u) * (-v)
    OBVIOUS
  <2> QED
    BY <2>2, <2>3
<1> QED
  BY <1>1, <1>2

(* Fractions that stand for one number are one.                            *)
LEMMA FractionsAreUnique ==
  ASSUME NEW p \in Fractions, NEW q \in Fractions, p[1] * q[2] = q[1] * p[2]
  PROVE  p = q
<1>1. ASSUME NEW a \in Int, NEW b \in Int, NEW c \in Int, NEW e \in Int, Coprime(a, b), a * e = c * b
      PROVE  Divides(b, e)
  <2>1. PICK s \in Int, t \in Int : 1 = a * s + b * t
    BY <1>1 DEF Coprime, Combines
  <2>2. e = e * 1 /\ e * (a * s + b * t) = (a * e) * s + b * (e * t) /\ (c * b) * s = b * (c * s)
    OBVIOUS
  <2>3. b * (c * s) + b * (e * t) = b * (c * s + e * t) /\ c * s + e * t \in Int
    OBVIOUS
  <2> DEFINE w == c * s + e * t
  <2>4. e = b * w /\ w \in Int
    BY <1>1, <2>1, <2>2, <2>3
  <2> HIDE DEF w
  <2> QED
    BY <2>4 DEF Divides
<1>2. /\ p[1] \in Int /\ p[2] \in Nat \ {0} /\ q[1] \in Int /\ q[2] \in Nat \ {0}
      /\ Coprime(p[1], p[2]) /\ Coprime(q[1], q[2]) /\ p = <<p[1], p[2]>> /\ q = <<q[1], q[2]>>
  BY DEF Fractions
<1>3. Divides(p[2], q[2])
  BY <1>1, <1>2
<1>4. Divides(q[2], p[2])
  BY <1>1, <1>2
<1>5. p[2] = q[2]
  BY <1>2, <1>3, <1>4, DividesEachOther
<1>6. p[1] = q[1]
  <2> DEFINE a == p[1]
             b == q[1]
             d == p[2]
  <2>1. a \in Int /\ b \in Int /\ d \in Nat \ {0} /\ a * d = b * d
    BY <1>2, <1>5
  <2> HIDE DEF a, b, d
  <2>2. d * a = a * d /\ d * b = b * d
    BY <2>1
  <2>3. (d * a) \div d = a /\ (d * b) \div d = b
    BY <2>1, ExactQuotient
  <2>4. a = b
    BY <2>1, <2>2, <2>3
  <2> QED
    BY <2>4 DEF a, b
<1> QED
  BY <1>2, <1>5, <1>6

LEMMA FracOfFraction ==
  ASSUME NEW q \in Fractions
  PROVE  Frac(q[1], q[2]) = q
<1>1. q[1] \in Int /\ q[2] \in Int /\ q[2] # 0
  BY DEF Fractions
<1>2. Frac(q[1], q[2]) \in Fractions
  BY <1>1, FracIsFraction
<1>3. Frac(q[1], q[2])[1] * q[2] = q[1] * Frac(q[1], q[2])[2]
  BY <1>1, FracKeepsValue
<1> QED
  BY <1>2, <1>3, FractionsAreUnique

-----------------------------------------------------------------------------
(***************************************************************************)
(* Arithmetic of fractions: what is computed stands for what it should,    *)
(* and what stands for the same is the same.                               *)
(***************************************************************************)
Means(q, n, d) == q[1] * d = n * q[2]
Numbers == Int \X Int

LEMMA Cancels ==
  ASSUME NEW k \in Int, k # 0, NEW a \in Int, NEW b \in Int, k * a = k * b
  PROVE  a = b
<1>1. CASE k > 0
  <2>1. k \in Nat \ {0}
    BY <1>1
  <2>2. (k * a) \div k = a /\ (k * b) \div k = b
    BY <2>1, ExactQuotient
  <2> QED
    BY <2>2
<1>2. CASE k < 0
  <2> DEFINE m == -k
  <2>1. m \in Nat \ {0} /\ m * a = -(k * a) /\ m * b = -(k * b)
    BY <1>2
  <2> HIDE DEF m
  <2>2. (m * a) \div m = a /\ (m * b) \div m = b
    BY <2>1, ExactQuotient
  <2>3. m * a = m * b
    BY <2>1
  <2> QED
    BY <2>2, <2>3
<1> QED
  BY <1>1, <1>2

LEMMA Denominators ==
  ASSUME NEW a \in Fractions, NEW b \in Fractions
  PROVE  /\ a[1] \in Int /\ a[2] \in Int /\ a[2] > 0 /\ a = <<a[1], a[2]>> /\ a \in Numbers
         /\ a[2] * b[2] \in Int /\ a[2] * b[2] # 0
<1>1. a[1] \in Int /\ a[2] \in Nat \ {0} /\ b[2] \in Nat \ {0} /\ a = <<a[1], a[2]>> /\ a \in Numbers
  BY DEF Fractions, Numbers
<1>2. a[2] * b[2] >= a[2] * 1
  BY <1>1
<1> QED
  BY <1>1, <1>2

LEMMA OperationsAreFractions ==
  ASSUME NEW a \in Numbers, NEW b \in Numbers
  PROVE  Plus(a, b) \in Fractions /\ Times(a, b) \in Fractions /\ Over(a, b) \in Fractions
<1>1. a[1] \in Int /\ a[2] \in Int /\ b[1] \in Int /\ b[2] \in Int
  BY DEF Numbers
<1> DEFINE n1 == a[1] * b[2] + b[1] * a[2]
           n2 == a[1] * b[1]
           n3 == a[1] * b[2]
           d1 == a[2] * b[2]
           d2 == a[2] * b[1]
<1>2. n1 \in Int /\ n2 \in Int /\ n3 \in Int /\ d1 \in Int /\ d2 \in Int
  BY <1>1
<1>3. Plus(a, b) = Frac(n1, d1) /\ Times(a, b) = Frac(n2, d1) /\ Over(a, b) = Frac(n3, d2)
  BY DEF Plus, Times, Over
<1> HIDE DEF n1, n2, n3, d1, d2
<1> QED
  BY <1>2, <1>3, FracIsFraction

LEMMA MeansOneThing ==
  ASSUME NEW p \in Fractions, NEW q \in Fractions, NEW n \in Int, NEW d \in Int, d # 0,
         Means(p, n, d), Means(q, n, d)
  PROVE  p = q
<1>1. p[1] \in Int /\ p[2] \in Int /\ q[1] \in Int /\ q[2] \in Int
  BY DEF Fractions
<1> DEFINE p1 == p[1] p2 == p[2] q1 == q[1] q2 == q[2]
<1>2. p1 \in Int /\ p2 \in Int /\ q1 \in Int /\ q2 \in Int /\ p1 * d = n * p2 /\ q1 * d = n * q2
  BY <1>1 DEF Means
<1> HIDE DEF p1, p2, q1, q2
<1>3. d * (p1 * q2) = (p1 * d) * q2 /\ d * (q1 * p2) = (q1 * d) * p2 /\ (n * p2) * q2 = (n * q2) * p2
  BY <1>2
<1>4. d * (p1 * q2) = d * (q1 * p2) /\ p1 * q2 \in Int /\ q1 * p2 \in Int
  BY <1>2, <1>3
<1>5. p1 * q2 = q1 * p2
  BY <1>4, Cancels
<1> QED
  BY <1>5, FractionsAreUnique DEF p1, p2, q1, q2

LEMMA SumMeans ==
  ASSUME NEW a \in Fractions, NEW b \in Fractions,
         NEW n \in Int, NEW d \in Int, d # 0, NEW m \in Int, NEW e \in Int, e # 0,
         Means(a, n, d), Means(b, m, e)
  PROVE  Means(Plus(a, b), n * e + m * d, d * e)
<1> DEFINE a1 == a[1] a2 == a[2] b1 == b[1] b2 == b[2]
           s == Plus(a, b)
           s1 == s[1] s2 == s[2]
<1>1. a1 \in Int /\ a2 \in Int /\ b1 \in Int /\ b2 \in Int /\ a2 * b2 \in Int /\ a2 * b2 # 0
  BY Denominators
<1>2. s1 \in Int /\ s2 \in Int
  BY OperationsAreFractions, Denominators DEF Fractions
<1>3. s = Frac(a1 * b2 + b1 * a2, a2 * b2)
  BY DEF Plus
<1>4. a1 * d = n * a2 /\ b1 * e = m * b2
  BY DEF Means
<1> HIDE DEF a1, a2, b1, b2, s
<1>5. a1 * b2 + b1 * a2 \in Int
  BY <1>1
<1>6. s1 * (a2 * b2) = (a1 * b2 + b1 * a2) * s2
  BY <1>1, <1>3, <1>5, FracKeepsValue
<1> HIDE DEF s1, s2
<1>7. (a1 * b2 + b1 * a2) * (d * e) = (n * e + m * d) * (a2 * b2)
  <2>1. (a1 * b2) * (d * e) = (a1 * d) * (b2 * e) /\ (b1 * a2) * (d * e) = (b1 * e) * (a2 * d)
    BY <1>1
  <2>2. (n * a2) * (b2 * e) = (n * e) * (a2 * b2) /\ (m * b2) * (a2 * d) = (m * d) * (a2 * b2)
    BY <1>1
  <2>3. (a1 * b2) * (d * e) = (n * e) * (a2 * b2) /\ (b1 * a2) * (d * e) = (m * d) * (a2 * b2)
    BY <1>4, <2>1, <2>2
  <2>4. (a1 * b2 + b1 * a2) * (d * e) = (a1 * b2) * (d * e) + (b1 * a2) * (d * e)
    BY <1>1
  <2>5. (n * e + m * d) * (a2 * b2) = (n * e) * (a2 * b2) + (m * d) * (a2 * b2)
    BY <1>1
  <2> QED
    BY <2>3, <2>4, <2>5
<1> DEFINE u == a2 * b2
           w == a1 * b2 + b1 * a2
           x == d * e
           y == n * e + m * d
<1>8. u \in Int /\ u # 0 /\ w \in Int /\ x \in Int /\ y \in Int /\ s1 * u = w * s2 /\ w * x = y * u
  BY <1>1, <1>5, <1>6, <1>7
<1> HIDE DEF u, w, x, y
<1>9. u * (s1 * x) = u * (y * s2)
  <2>1. u * (s1 * x) = (s1 * u) * x /\ (w * s2) * x = (w * x) * s2 /\ (y * u) * s2 = u * (y * s2)
    BY <1>2, <1>8
  <2> QED
    BY <1>8, <2>1
<1>10. s1 * x \in Int /\ y * s2 \in Int
  BY <1>2, <1>8
<1>11. s1 * x = y * s2
  BY <1>8, <1>9, <1>10, Cancels
<1> QED
  BY <1>11 DEF Means, x, y, s, s1, s2

LEMMA ProductMeans ==
  ASSUME NEW a \in Fractions, NEW b \in Fractions,
         NEW n \in Int, NEW d \in Int, d # 0, NEW m \in Int, NEW e \in Int, e # 0,
         Means(a, n, d), Means(b, m, e)
  PROVE  Means(Times(a, b), n * m, d * e)
<1> DEFINE a1 == a[1] a2 == a[2] b1 == b[1] b2 == b[2]
           s == Times(a, b)
           s1 == s[1] s2 == s[2]
<1>1. a1 \in Int /\ a2 \in Int /\ b1 \in Int /\ b2 \in Int /\ a2 * b2 \in Int /\ a2 * b2 # 0
  BY Denominators
<1>2. s1 \in Int /\ s2 \in Int
  BY OperationsAreFractions, Denominators DEF Fractions
<1>3. s = Frac(a1 * b1, a2 * b2)
  BY DEF Times
<1>4. a1 * d = n * a2 /\ b1 * e = m * b2
  BY DEF Means
<1> HIDE DEF a1, a2, b1, b2, s
<1>5. a1 * b1 \in Int
  BY <1>1
<1>6. s1 * (a2 * b2) = (a1 * b1) * s2
  BY <1>1, <1>3, <1>5, FracKeepsValue
<1> HIDE DEF s1, s2
<1>7. (a1 * b1) * (d * e) = (n * m) * (a2 * b2)
  <2>1. (a1 * b1) * (d * e) = (a1 * d) * (b1 * e) /\ (n * a2) * (m * b2) = (n * m) * (a2 * b2)
    BY <1>1
  <2> QED
    BY <1>4, <2>1
<1> DEFINE u == a2 * b2
           w == a1 * b1
           x == d * e
           y == n * m
<1>8. u \in Int /\ u # 0 /\ w \in Int /\ x \in Int /\ y \in Int /\ s1 * u = w * s2 /\ w * x = y * u
  BY <1>1, <1>5, <1>6, <1>7
<1> HIDE DEF u, w, x, y
<1>9. u * (s1 * x) = u * (y * s2)
  <2>1. u * (s1 * x) = (s1 * u) * x /\ (w * s2) * x = (w * x) * s2 /\ (y * u) * s2 = u * (y * s2)
    BY <1>2, <1>8
  <2> QED
    BY <1>8, <2>1
<1>10. s1 * x \in Int /\ y * s2 \in Int
  BY <1>2, <1>8
<1>11. s1 * x = y * s2
  BY <1>8, <1>9, <1>10, Cancels
<1> QED
  BY <1>11 DEF Means, x, y, s, s1, s2

LEMMA MeansItself ==
  ASSUME NEW a \in Fractions
  PROVE  Means(a, a[1], a[2])
BY DEF Means, Fractions

LEMMA PlusCommutes ==
  ASSUME NEW a \in Fractions, NEW b \in Fractions
  PROVE  Plus(a, b) = Plus(b, a)
<1>1. a[1] \in Int /\ a[2] \in Int /\ b[1] \in Int /\ b[2] \in Int
  BY DEF Fractions
<1>2. a[1] * b[2] + b[1] * a[2] = b[1] * a[2] + a[1] * b[2] /\ a[2] * b[2] = b[2] * a[2]
  BY <1>1
<1> QED
  BY <1>2 DEF Plus

LEMMA TimesCommutes ==
  ASSUME NEW a \in Fractions, NEW b \in Fractions
  PROVE  Times(a, b) = Times(b, a)
<1>1. a[1] \in Int /\ a[2] \in Int /\ b[1] \in Int /\ b[2] \in Int
  BY DEF Fractions
<1>2. a[1] * b[1] = b[1] * a[1] /\ a[2] * b[2] = b[2] * a[2]
  BY <1>1
<1> QED
  BY <1>2 DEF Times

LEMMA Neutral ==
  ASSUME NEW a \in Fractions
  PROVE  /\ Plus(Zero, a) = a /\ Plus(a, Zero) = a
         /\ Times(One, a) = a /\ Times(a, One) = a
         /\ Times(Zero, a) = Zero /\ Times(a, Zero) = Zero
<1>1. a[1] \in Int /\ a[2] \in Int /\ Frac(a[1], a[2]) = a
  BY FracOfFraction DEF Fractions
<1>2. Plus(Zero, a) = a /\ Plus(a, Zero) = a
  <2>1. 0 * a[2] + a[1] * 1 = a[1] /\ a[1] * 1 + 0 * a[2] = a[1] /\ 1 * a[2] = a[2] /\ a[2] * 1 = a[2]
    BY <1>1
  <2> QED
    BY <1>1, <2>1 DEF Plus, Zero
<1>3. Times(One, a) = a /\ Times(a, One) = a
  <2>1. 1 * a[1] = a[1] /\ a[1] * 1 = a[1] /\ 1 * a[2] = a[2] /\ a[2] * 1 = a[2]
    BY <1>1
  <2> QED
    BY <1>1, <2>1 DEF Times, One
<1>4. Times(Zero, a) = Zero /\ Times(a, Zero) = Zero
  <2>1. 0 * a[1] = 0 /\ a[1] * 0 = 0
    BY <1>1
  <2> QED
    BY <2>1 DEF Times, Zero, Frac
<1> QED
  BY <1>2, <1>3, <1>4

LEMMA PlusAssociates ==
  ASSUME NEW a \in Fractions, NEW b \in Fractions, NEW c \in Fractions
  PROVE  Plus(a, Plus(b, c)) = Plus(Plus(a, b), c)
<1> DEFINE a1 == a[1] a2 == a[2] b1 == b[1] b2 == b[2] c1 == c[1] c2 == c[2]
<1>1. /\ a1 \in Int /\ a2 \in Int /\ a2 # 0 /\ b1 \in Int /\ b2 \in Int /\ b2 # 0
      /\ c1 \in Int /\ c2 \in Int /\ c2 # 0
  BY DEF Fractions
<1>2. Means(a, a1, a2) /\ Means(b, b1, b2) /\ Means(c, c1, c2)
  BY MeansItself
<1>3. Plus(a, b) \in Fractions /\ Plus(b, c) \in Fractions /\ a \in Numbers /\ b \in Numbers /\ c \in Numbers
  BY Denominators, OperationsAreFractions
<1> DEFINE n1 == a1 * b2 + b1 * a2
           d1 == a2 * b2
           n2 == b1 * c2 + c1 * b2
           d2 == b2 * c2
<1>4. d1 \in Int /\ d1 # 0 /\ d2 \in Int /\ d2 # 0
  BY Denominators
<1> HIDE DEF a1, a2, b1, b2, c1, c2
<1>5. n1 \in Int /\ n2 \in Int
  BY <1>1
<1>6. Means(Plus(a, b), n1, d1) /\ Means(Plus(b, c), n2, d2)
  BY <1>1, <1>2, SumMeans
<1>7. n1 * c2 + c1 * d1 = a1 * d2 + n2 * a2 /\ d1 * c2 = a2 * d2
  BY <1>1
<1>8. n1 * c2 + c1 * d1 \in Int /\ d1 * c2 \in Int
  BY <1>1, <1>4, <1>5
<1>9. d1 * c2 # 0
  <2> HIDE DEF d1
  <2>1. d1 * c2 # d1 * 0 \/ c2 = 0
    BY <1>1, <1>4, Cancels
  <2> QED
    BY <1>1, <1>4, <2>1
<1> HIDE DEF n1, n2, d1, d2
<1>10. Means(Plus(Plus(a, b), c), n1 * c2 + c1 * d1, d1 * c2)
  BY <1>1, <1>2, <1>3, <1>4, <1>5, <1>6, SumMeans
<1>11. Means(Plus(a, Plus(b, c)), a1 * d2 + n2 * a2, a2 * d2)
  BY <1>1, <1>2, <1>3, <1>4, <1>5, <1>6, SumMeans
<1> DEFINE n == n1 * c2 + c1 * d1
           d == d1 * c2
           l == Plus(Plus(a, b), c)
           r == Plus(a, Plus(b, c))
<1>12. Means(l, n, d) /\ Means(r, n, d) /\ n \in Int /\ d \in Int /\ d # 0
  BY <1>7, <1>8, <1>9, <1>10, <1>11
<1>13. l \in Fractions /\ r \in Fractions
  <2>1. Plus(a, b) \in Numbers /\ Plus(b, c) \in Numbers
    BY <1>3, Denominators
  <2> QED
    BY <1>3, <2>1, OperationsAreFractions
<1> HIDE DEF n, d, l, r
<1>14. l = r
  BY <1>12, <1>13, MeansOneThing
<1> QED
  BY <1>14 DEF l, r

LEMMA ProductNotZero ==
  ASSUME NEW a \in Int, a # 0, NEW b \in Int, b # 0
  PROVE  a * b # 0
<1>1. a * b = a * 0 => b = 0
  BY Cancels
<1> QED
  BY <1>1

LEMMA TimesAssociates ==
  ASSUME NEW a \in Fractions, NEW b \in Fractions, NEW c \in Fractions
  PROVE  Times(a, Times(b, c)) = Times(Times(a, b), c)
<1> DEFINE a1 == a[1] a2 == a[2] b1 == b[1] b2 == b[2] c1 == c[1] c2 == c[2]
<1>1. /\ a1 \in Int /\ a2 \in Int /\ a2 # 0 /\ b1 \in Int /\ b2 \in Int /\ b2 # 0
      /\ c1 \in Int /\ c2 \in Int /\ c2 # 0
  BY DEF Fractions
<1>2. Means(a, a1, a2) /\ Means(b, b1, b2) /\ Means(c, c1, c2)
  BY MeansItself
<1>3. Times(a, b) \in Fractions /\ Times(b, c) \in Fractions /\ a \in Numbers /\ b \in Numbers /\ c \in Numbers
  BY Denominators, OperationsAreFractions
<1> DEFINE n1 == a1 * b1
           d1 == a2 * b2
           n2 == b1 * c1
           d2 == b2 * c2
<1>4. d1 \in Int /\ d1 # 0 /\ d2 \in Int /\ d2 # 0
  BY Denominators
<1> HIDE DEF a1, a2, b1, b2, c1, c2
<1>5. n1 \in Int /\ n2 \in Int
  BY <1>1
<1>6. Means(Times(a, b), n1, d1) /\ Means(Times(b, c), n2, d2)
  BY <1>1, <1>2, ProductMeans
<1>7. n1 * c1 = a1 * n2 /\ d1 * c2 = a2 * d2
  BY <1>1
<1>8. n1 * c1 \in Int /\ d1 * c2 \in Int
  BY <1>1, <1>4, <1>5
<1> HIDE DEF n1, n2, d1, d2
<1>9. d1 * c2 # 0
  BY <1>1, <1>4, ProductNotZero
<1>10. Means(Times(Times(a, b), c), n1 * c1, d1 * c2)
  BY <1>1, <1>2, <1>3, <1>4, <1>5, <1>6, ProductMeans
<1>11. Means(Times(a, Times(b, c)), a1 * n2, a2 * d2)
  BY <1>1, <1>2, <1>3, <1>4, <1>5, <1>6, ProductMeans
<1> DEFINE n == n1 * c1
           d == d1 * c2
           l == Times(Times(a, b), c)
           r == Times(a, Times(b, c))
<1>12. Means(l, n, d) /\ Means(r, n, d) /\ n \in Int /\ d \in Int /\ d # 0
  BY <1>7, <1>8, <1>9, <1>10, <1>11
<1>13. l \in Fractions /\ r \in Fractions
  <2>1. Times(a, b) \in Numbers /\ Times(b, c) \in Numbers
    BY <1>3, Denominators
  <2> QED
    BY <1>3, <2>1, OperationsAreFractions
<1> HIDE DEF n, d, l, r
<1>14. l = r
  BY <1>12, <1>13, MeansOneThing
<1> QED
  BY <1>14 DEF l, r

LEMMA Distributes ==
  ASSUME NEW a \in Fractions, NEW b \in Fractions, NEW c \in Fractions
  PROVE  Times(a, Plus(b, c)) = Plus(Times(a, b), Times(a, c))
<1> DEFINE a1 == a[1] a2 == a[2] b1 == b[1] b2 == b[2] c1 == c[1] c2 == c[2]
<1>1. /\ a1 \in Int /\ a2 \in Int /\ a2 # 0 /\ b1 \in Int /\ b2 \in Int /\ b2 # 0
      /\ c1 \in Int /\ c2 \in Int /\ c2 # 0
  BY DEF Fractions
<1>2. Means(a, a1, a2) /\ Means(b, b1, b2) /\ Means(c, c1, c2)
  BY MeansItself
<1>3. /\ Times(a, b) \in Fractions /\ Times(a, c) \in Fractions /\ Plus(b, c) \in Fractions
      /\ a \in Numbers /\ b \in Numbers /\ c \in Numbers
  BY Denominators, OperationsAreFractions
<1> DEFINE n == b1 * c2 + c1 * b2
           d == b2 * c2
           n1 == a1 * b1
           d1 == a2 * b2
           n2 == a1 * c1
           d2 == a2 * c2
<1>4. d \in Int /\ d # 0 /\ d1 \in Int /\ d1 # 0 /\ d2 \in Int /\ d2 # 0
  BY Denominators
<1> HIDE DEF a1, a2, b1, b2, c1, c2
<1>5. n \in Int /\ n1 \in Int /\ n2 \in Int
  BY <1>1
<1>6. Means(Plus(b, c), n, d) /\ Means(Times(a, b), n1, d1) /\ Means(Times(a, c), n2, d2)
  BY <1>1, <1>2, ProductMeans, SumMeans
<1>7. n1 * d2 + n2 * d1 = (a1 * n) * a2 /\ d1 * d2 = (a2 * d) * a2
  <2>1. (a1 * b1) * (a2 * c2) = (a1 * (b1 * c2)) * a2 /\ (a1 * c1) * (a2 * b2) = (a1 * (c1 * b2)) * a2
    BY <1>1
  <2>2. (a1 * (b1 * c2)) * a2 + (a1 * (c1 * b2)) * a2 = (a1 * (b1 * c2 + c1 * b2)) * a2
    BY <1>1
  <2>3. (a2 * b2) * (a2 * c2) = (a2 * (b2 * c2)) * a2
    BY <1>1
  <2> QED
    BY <2>1, <2>2, <2>3
<1> HIDE DEF n, n1, n2, d, d1, d2
<1>8. Means(Times(a, Plus(b, c)), a1 * n, a2 * d)
  BY <1>1, <1>2, <1>3, <1>4, <1>5, <1>6, ProductMeans
<1>9. Means(Plus(Times(a, b), Times(a, c)), n1 * d2 + n2 * d1, d1 * d2)
  BY <1>3, <1>4, <1>5, <1>6, SumMeans
<1> DEFINE x == a1 * n
           y == a2 * d
           l == Times(a, Plus(b, c))
           r == Plus(Times(a, b), Times(a, c))
<1>10. x \in Int /\ y \in Int /\ y # 0 /\ Means(l, x, y) /\ Means(r, x * a2, y * a2)
  <2>1. a2 * d # 0
    BY <1>1, <1>4, ProductNotZero
  <2> QED
    BY <1>1, <1>4, <1>5, <1>7, <1>8, <1>9, <2>1
<1>11. l \in Fractions /\ r \in Fractions
  <2>1. Plus(b, c) \in Numbers /\ Times(a, b) \in Numbers /\ Times(a, c) \in Numbers
    BY <1>3, Denominators
  <2> QED
    BY <1>3, <2>1, OperationsAreFractions
<1> HIDE DEF x, y, l, r
<1>12. Means(l, x * a2, y * a2)
  <2>1. l[1] \in Int /\ l[2] \in Int
    BY <1>11 DEF Fractions
  <2> DEFINE l1 == l[1] l2 == l[2]
  <2>2. l1 \in Int /\ l2 \in Int /\ l1 * y = x * l2
    BY <1>10, <2>1 DEF Means
  <2> HIDE DEF l1, l2
  <2>3. l1 * (y * a2) = (l1 * y) * a2 /\ (x * l2) * a2 = (x * a2) * l2
    BY <1>1, <1>10, <2>2
  <2>4. l1 * (y * a2) = (x * a2) * l2
    BY <2>2, <2>3
  <2> QED
    BY <2>4 DEF Means, l1, l2
<1>13. x * a2 \in Int /\ y * a2 \in Int /\ y * a2 # 0
  BY <1>1, <1>10, ProductNotZero
<1>14. l = r
  BY <1>10, <1>11, <1>12, <1>13, MeansOneThing
<1> QED
  BY <1>14 DEF l, r

(* The sign of a fraction.                                                 *)
LEMMA SignOfFrac ==
  ASSUME NEW n \in Int, NEW d \in Int, d > 0
  PROVE  (Frac(n, d)[1] > 0 <=> n > 0) /\ (Frac(n, d)[1] < 0 <=> n < 0)
<1>1. CASE n = 0
  BY <1>1 DEF Frac
<1>2. CASE n # 0
  <2>1. PICK g \in Nat \ {0}, u \in Int, v \in Int : Reduces(g, u, v, n, d)
    <3>1. d # 0
      OBVIOUS
    <3> QED
      BY <1>2, <3>1, FracReduces
  <2>2. n = g * u /\ Frac(n, d) = <<u, v>>
    BY <2>1 DEF Reduces
  <2>3. (u > 0 => n > 0) /\ (u < 0 => n < 0) /\ (u = 0 => n = 0)
    <3>1. ASSUME u > 0 PROVE n > 0
      <4>1. g * u >= g * 1
        BY <3>1
      <4> QED
        BY <2>2, <4>1
    <3>2. ASSUME u < 0 PROVE n < 0
      <4>1. g * u <= g * (-1)
        BY <3>2
      <4> QED
        BY <2>2, <4>1
    <3>3. g * 0 = 0
      OBVIOUS
    <3> QED
      BY <2>2, <3>1, <3>2, <3>3
  <2> QED
    BY <2>2, <2>3
<1> QED
  BY <1>1, <1>2

LEMMA ZeroIsNothing ==
  ASSUME NEW a \in Fractions
  PROVE  a = Zero <=> a[1] = 0
<1>1. a[1] \in Int /\ a[2] \in Int /\ Frac(a[1], a[2]) = a
  BY FracOfFraction DEF Fractions
<1> QED
  BY <1>1 DEF Frac, Zero

Positive(a) == a \in Fractions /\ a[1] > 0

LEMMA SquaresArePositive ==
  ASSUME NEW a \in Fractions, a # Zero
  PROVE  Positive(Times(a, a))
<1> DEFINE x == a[1] y == a[2]
<1>1. x \in Int /\ x # 0 /\ y \in Int /\ y > 0 /\ y * y \in Int /\ y * y # 0
  BY Denominators, ZeroIsNothing
<1>2. Times(a, a) = Frac(x * x, y * y)
  BY DEF Times
<1> HIDE DEF x, y
<1>3. x * x > 0
  <2>1. CASE x > 0
    <3>1. x * x >= x * 1
      BY <1>1, <2>1
    <3> QED
      BY <1>1, <2>1, <3>1
  <2>2. CASE x < 0
    <3>1. x * x >= x * (-1)
      BY <1>1, <2>2
    <3> QED
      BY <1>1, <2>2, <3>1
  <2> QED
    BY <1>1, <2>1, <2>2
<1>4. y * y > 0
  <2>1. y * y >= y * 1
    BY <1>1
  <2> QED
    BY <1>1, <2>1
<1>5. x * x \in Int
  BY <1>1
<1>6. Frac(x * x, y * y)[1] > 0
  BY <1>1, <1>3, <1>4, <1>5, SignOfFrac
<1> QED
  BY <1>2, <1>6, Denominators, OperationsAreFractions DEF Positive

LEMMA PositiveTimes ==
  ASSUME NEW a, NEW b, Positive(a), Positive(b)
  PROVE  Positive(Times(a, b)) /\ Positive(Plus(a, b))
<1> DEFINE x == a[1] y == a[2] z == b[1] w == b[2]
<1>1. /\ x \in Int /\ x > 0 /\ y \in Int /\ y > 0
      /\ z \in Int /\ z > 0 /\ w \in Int /\ w > 0
      /\ a \in Numbers /\ b \in Numbers
  BY Denominators DEF Positive
<1>2. Times(a, b) = Frac(x * z, y * w) /\ Plus(a, b) = Frac(x * w + z * y, y * w)
  BY DEF Times, Plus
<1> HIDE DEF x, y, z, w
<1>3. \A i, j \in Int : i > 0 /\ j > 0 => i * j \in Int /\ i * j > 0
  <2>1. ASSUME NEW i \in Int, NEW j \in Int, i > 0, j > 0 PROVE i * j > 0
    <3>1. i * j >= i * 1
      BY <2>1
    <3> QED
      BY <2>1, <3>1
  <2> QED
    BY <2>1
<1>4. x * z \in Int /\ x * z > 0 /\ y * w \in Int /\ y * w > 0 /\ x * w \in Int /\ x * w > 0 /\ z * y \in Int /\ z * y > 0
  BY <1>1, <1>3
<1>5. x * w + z * y \in Int /\ x * w + z * y > 0
  BY <1>4
<1>6. Frac(x * z, y * w)[1] > 0
  BY <1>4, SignOfFrac
<1>7. Frac(x * w + z * y, y * w)[1] > 0
  BY <1>4, <1>5, SignOfFrac
<1> QED
  BY <1>1, <1>2, <1>6, <1>7, OperationsAreFractions DEF Positive

-----------------------------------------------------------------------------
(***************************************************************************)
(* Sums of fractions. The folds take the terms in an order of their own;   *)
(* that it does not matter which, and what a sum is, follows from a least  *)
(* set for which it would fail.                                            *)
(***************************************************************************)
Total(S, f) == FoldFunctionOnSet(Plus, Zero, f, S)

LEMMA SumsAreFractions ==
  ASSUME NEW a \in Fractions, NEW b \in Fractions
  PROVE  Plus(a, b) \in Fractions
BY Denominators, OperationsAreFractions

Some(s) == CHOOSE x \in s : TRUE
(* The function it has the sums of f over the subsets of S. There is one,  *)
(* and any two agree.                                                      *)
Sums(f, S, it) ==
  it = [s \in SUBSET S |-> IF s = {} THEN Zero ELSE Plus(f[Some(s)], it[s \ {Some(s)}])]
SumsOf(f, S) == CHOOSE it : Sums(f, S, it)

LEMMA SumIsOfSums ==
  ASSUME NEW f, NEW S
  PROVE  Total(S, f) = SumsOf(f, S)[S]
BY DEF Total, FoldFunctionOnSet, MapThenFoldSet, SumsOf, Sums, Some

(* Among some subsets of a finite set, one has none of the others below it. *)
LEMMA Smallest ==
  ASSUME NEW S, IsFiniteSet(S), NEW F, F \subseteq SUBSET S, F # {}
  PROVE  \E r \in F : \A s \in F : s \subseteq r => s = r
<1> DEFINE N == {Cardinality(r) : r \in F}
<1>1. \A r \in F : IsFiniteSet(r) /\ Cardinality(r) \in Nat
  BY FS_Subset, FS_CardinalityType
<1>2. PICK n \in N : \A m \in N : n <= m
  <2> HIDE DEF N
  <2>1. N \subseteq Nat /\ N # {}
    BY <1>1 DEF N
  <2> QED
    BY <2>1, LeastNatural
<1>3. PICK r \in F : Cardinality(r) = n
  BY <1>2
<1>4. ASSUME NEW s \in F, s \subseteq r PROVE s = r
  <2>1. Cardinality(r) <= Cardinality(s)
    BY <1>2, <1>3
  <2>2. s # r => Cardinality(s) < Cardinality(r)
    BY <1>1, <1>4, FS_Subset
  <2> QED
    BY <2>1, <2>2, <1>1
<1> QED
  BY <1>4

LEMMA SumsAgree ==
  ASSUME NEW f, NEW S, NEW T, NEW a, NEW b, Sums(f, S, a), Sums(f, T, b),
         NEW s, s \subseteq S, s \subseteq T, IsFiniteSet(s)
  PROVE  a[s] = b[s]
<1> DEFINE F == {r \in SUBSET s : a[r] # b[r]}
<1>1. SUFFICES ASSUME F # {} PROVE FALSE
  OBVIOUS
<1>2. PICK r \in F : \A u \in F : u \subseteq r => u = r
  <2> HIDE DEF F
  <2>1. F \subseteq SUBSET s
    BY DEF F
  <2> QED
    BY <1>1, <2>1, Smallest
<1> DEFINE x == Some(r)
<1>3. r # {}
  <2>1. a[{}] = Zero /\ b[{}] = Zero
    BY DEF Sums
  <2> QED
    BY <2>1
<1>4. x \in r
  BY <1>3 DEF Some
<1>5. a[r \ {x}] = b[r \ {x}]
  <2> HIDE DEF x
  <2> QED
    BY <1>2, <1>4
<1>6. a[r] = Plus(f[x], a[r \ {x}]) /\ b[r] = Plus(f[x], b[r \ {x}])
  <2>1. r \in SUBSET S /\ r \in SUBSET T
    OBVIOUS
  <2> QED
    BY <2>1, <1>3 DEF Sums
<1> QED
  BY <1>5, <1>6

LEMMA SumsExist ==
  ASSUME NEW f, NEW S, IsFiniteSet(S)
  PROVE  Sums(f, S, SumsOf(f, S))
<1> DEFINE F == {r \in SUBSET S : ~ \E it : Sums(f, r, it)}
<1>1. SUFFICES ASSUME F # {} PROVE FALSE
  BY DEF SumsOf
<1>2. PICK r \in F : \A u \in F : u \subseteq r => u = r
  <2> HIDE DEF F
  <2>1. F \subseteq SUBSET S
    BY DEF F
  <2> QED
    BY <1>1, <2>1, Smallest
<1>3. ASSUME NEW s, s \subseteq r, s # r
      PROVE  IsFiniteSet(s) /\ Sums(f, s, SumsOf(f, s))
  <2>1. \E it : Sums(f, s, it)
    BY <1>2, <1>3
  <2> QED
    BY <2>1, <1>3, FS_Subset DEF SumsOf
<1> DEFINE Further(s) == s \ {Some(s)}
           it == [s \in SUBSET r |->
                    IF s = {} THEN Zero ELSE Plus(f[Some(s)], SumsOf(f, Further(s))[Further(s)])]
<1>4. ASSUME NEW s \in SUBSET r, s # {}
      PROVE  it[Further(s)] = SumsOf(f, Further(s))[Further(s)]
  <2>1. Some(s) \in s
    BY <1>4 DEF Some
  <2>2. Further(s) \subseteq r /\ Further(s) # r /\ IsFiniteSet(Further(s))
    <3>1. Further(s) \subseteq r /\ Further(s) # r
      BY <2>1
    <3> QED
      BY <3>1, <1>3
  <2>3. Sums(f, Further(s), SumsOf(f, Further(s)))
    BY <2>2, <1>3
  <2>4. CASE Further(s) = {}
    BY <2>3, <2>4 DEF Sums
  <2>5. CASE Further(s) # {}
    <3> DEFINE u == Further(s)
    <3>1. Some(u) \in u
      BY <2>5 DEF Some
    <3>2. u \subseteq r /\ Further(u) \subseteq r /\ Further(u) # r /\ IsFiniteSet(Further(u)) /\ Further(u) \subseteq u
      <4>1. Further(u) \subseteq u /\ u \subseteq r /\ Further(u) # u
        BY <3>1, <2>2
      <4>2. Further(u) \subseteq r /\ Further(u) # r
        BY <4>1
      <4> QED
        BY <4>1, <4>2, <1>3
    <3>3. Sums(f, Further(u), SumsOf(f, Further(u)))
      BY <3>2, <1>3
    <3>4. SumsOf(f, u)[Further(u)] = SumsOf(f, Further(u))[Further(u)]
      <4> HIDE DEF u
      <4> HIDE DEF Further
      <4> QED
        BY <2>3, <3>2, <3>3, SumsAgree DEF u
    <3>5. SumsOf(f, u)[u] = Plus(f[Some(u)], SumsOf(f, u)[Further(u)])
      <4> HIDE DEF u
      <4>1. Sums(f, u, SumsOf(f, u)) /\ u # {}
        BY <2>3, <2>5 DEF u
      <4> QED
        BY <4>1 DEF Sums
    <3>6. it[u] = Plus(f[Some(u)], SumsOf(f, Further(u))[Further(u)])
      <4> HIDE DEF u, Further
      <4> QED
        BY <3>2, <2>5 DEF u
    <3> QED
      BY <3>4, <3>5, <3>6
  <2> QED
    BY <2>4, <2>5
<1>5. Sums(f, r, it)
  <2> HIDE DEF Further
  <2>1. \A s \in SUBSET r : s # {} => it[s] = Plus(f[Some(s)], it[Further(s)])
    <3> HIDE DEF it
    <3>1. \A s \in SUBSET r : s # {} => it[s] = Plus(f[Some(s)], SumsOf(f, Further(s))[Further(s)])
      BY DEF it
    <3> QED
      BY <3>1, <1>4
  <2>2. it[{}] = Zero /\ DOMAIN it = SUBSET r /\ it = [s \in DOMAIN it |-> it[s]]
    OBVIOUS
  <2> HIDE DEF it
  <2> QED
    BY <2>1, <2>2 DEF Sums, Further
<1> QED
  BY <1>5

(* A sum is its chosen first term and the sum of the others.               *)
LEMMA SumByChoice ==
  ASSUME NEW f, NEW S, IsFiniteSet(S)
  PROVE  Total(S, f) = IF S = {} THEN Zero ELSE Plus(f[Some(S)], Total(S \ {Some(S)}, f))
<1>1. Sums(f, S, SumsOf(f, S))
  BY SumsExist
<1>2. CASE S = {}
  BY <1>1, <1>2, SumIsOfSums DEF Sums
<1>3. CASE S # {}
  <2> DEFINE u == S \ {Some(S)}
  <2>1. IsFiniteSet(u) /\ u \subseteq S
    BY FS_Subset
  <2>2. Sums(f, u, SumsOf(f, u))
    BY <2>1, SumsExist
  <2>3. SumsOf(f, S)[u] = SumsOf(f, u)[u]
    <3> HIDE DEF u
    <3> QED
      BY <1>1, <2>1, <2>2, SumsAgree
  <2>4. SumsOf(f, S)[S] = Plus(f[Some(S)], SumsOf(f, S)[u])
    BY <1>1, <1>3 DEF Sums
  <2> QED
    BY <1>3, <2>3, <2>4, SumIsOfSums
<1> QED
  BY <1>2, <1>3

(* A sum of fractions is a fraction.                                       *)
LEMMA SumIsFraction ==
  ASSUME NEW f, NEW S, IsFiniteSet(S), \A x \in S : f[x] \in Fractions
  PROVE  Total(S, f) \in Fractions
<1> DEFINE F == {r \in SUBSET S : Total(r, f) \notin Fractions}
<1>1. SUFFICES ASSUME F # {} PROVE FALSE
  OBVIOUS
<1>2. PICK r \in F : \A u \in F : u \subseteq r => u = r
  <2> HIDE DEF F
  <2>1. F \subseteq SUBSET S
    BY DEF F
  <2> QED
    BY <1>1, <2>1, Smallest
<1>3. IsFiniteSet(r)
  BY FS_Subset
<1>4. r # {}
  BY <1>3, SumByChoice, ZeroAndOne
<1> DEFINE x == Some(r)
<1>5. x \in r
  BY <1>4 DEF Some
<1>6. Total(r, f) = Plus(f[x], Total(r \ {x}, f))
  BY <1>3, <1>4, SumByChoice
<1> HIDE DEF x
<1>7. Total(r \ {x}, f) \in Fractions
  BY <1>2, <1>5
<1> QED
  BY <1>5, <1>6, <1>7, SumsAreFractions

(* Any term can be taken as the first.                                     *)
LEMMA SumBySplitting ==
  ASSUME NEW f, NEW S, IsFiniteSet(S), \A x \in S : f[x] \in Fractions, NEW y \in S
  PROVE  Total(S, f) = Plus(f[y], Total(S \ {y}, f))
<1> DEFINE F == {r \in SUBSET S : \E x \in r : Total(r, f) # Plus(f[x], Total(r \ {x}, f))}
<1>1. SUFFICES ASSUME F # {} PROVE FALSE
  OBVIOUS
<1>2. PICK r \in F : \A u \in F : u \subseteq r => u = r
  <2> HIDE DEF F
  <2>1. F \subseteq SUBSET S
    BY DEF F
  <2> QED
    BY <1>1, <2>1, Smallest
<1>3. PICK x \in r : Total(r, f) # Plus(f[x], Total(r \ {x}, f))
  OBVIOUS
<1> DEFINE z == Some(r)
<1>4. z \in r /\ Total(r, f) = Plus(f[z], Total(r \ {z}, f))
  <2>1. IsFiniteSet(r)
    BY FS_Subset
  <2> QED
    BY <1>3, <2>1, SumByChoice DEF Some
<1> HIDE DEF z
<1>5. x # z
  BY <1>3, <1>4
<1> DEFINE both == r \ {x, z}
<1>6. /\ (r \ {x}) \ {z} = both /\ (r \ {z}) \ {x} = both
      /\ x \in r \ {z} /\ z \in r \ {x}
  BY <1>4, <1>5
<1>7. /\ Total(r \ {z}, f) = Plus(f[x], Total(both, f))
      /\ Total(r \ {x}, f) = Plus(f[z], Total(both, f))
  <2>1. r \ {z} \notin F /\ r \ {x} \notin F
    BY <1>2, <1>3, <1>4
  <2>2. r \ {z} \in SUBSET S /\ r \ {x} \in SUBSET S
    OBVIOUS
  <2> QED
    BY <2>1, <2>2, <1>6
<1>8. Total(both, f) \in Fractions /\ f[x] \in Fractions /\ f[z] \in Fractions
  <2>1. both \subseteq S /\ IsFiniteSet(both)
    BY FS_Subset
  <2> HIDE DEF both
  <2> QED
    BY <1>4, <2>1, SumIsFraction
<1> HIDE DEF both
<1>9. Plus(f[z], Plus(f[x], Total(both, f))) = Plus(f[x], Plus(f[z], Total(both, f)))
  BY <1>8, PlusAssociates, PlusCommutes
<1> QED
  BY <1>3, <1>4, <1>7, <1>9

(* Two sums are equal when the terms of one are terms of the other, each   *)
(* once, and the rest are zero.                                            *)
LEMMA SumByTerms ==
  ASSUME NEW S, NEW T, IsFiniteSet(S), IsFiniteSet(T), NEW f, NEW g, NEW h,
         \A x \in S : h[x] \in T /\ g[h[x]] = f[x],
         \A x, y \in S : h[x] = h[y] => x = y,
         \A t \in T : (\A x \in S : h[x] # t) => g[t] = Zero,
         \A t \in T : g[t] \in Fractions
  PROVE  Total(S, f) = Total(T, g)
<1> DEFINE Onto(r) == {x \in S : h[x] \in r}
           F == {r \in SUBSET T : Total(Onto(r), f) # Total(r, g)}
<1>1. SUFFICES ASSUME F # {} PROVE FALSE
  <2>1. Onto(T) = S
    OBVIOUS
  <2> QED
    BY <2>1
<1>2. PICK r \in F : \A u \in F : u \subseteq r => u = r
  <2> HIDE DEF F
  <2>1. F \subseteq SUBSET T
    BY DEF F
  <2> QED
    BY <1>1, <2>1, Smallest
<1>3. \A u \in SUBSET T : IsFiniteSet(u) /\ IsFiniteSet(Onto(u)) /\ \A x \in Onto(u) : f[x] \in Fractions
  BY FS_Subset
<1>4. r # {}
  <2>1. Onto({}) = {}
    OBVIOUS
  <2>2. Total({}, f) = Zero /\ Total({}, g) = Zero
    BY FS_EmptySet, SumByChoice
  <2> QED
    BY <2>1, <2>2
<1>5. PICK t \in r : TRUE
  BY <1>4
<1>6. Total(r, g) = Plus(g[t], Total(r \ {t}, g))
  BY <1>3, SumBySplitting
<1>7. Total(Onto(r \ {t}), f) = Total(r \ {t}, g) /\ Total(r \ {t}, g) \in Fractions
  <2>1. r \ {t} \in SUBSET T /\ r \ {t} \notin F
    BY <1>2
  <2>2. IsFiniteSet(r \ {t})
    BY <1>3, <2>1
  <2> QED
    BY <2>1, <2>2, SumIsFraction
<1>8. CASE \E x \in S : h[x] = t
  <2>1. PICK x \in S : h[x] = t
    BY <1>8
  <2>2. x \in Onto(r) /\ Onto(r) \ {x} = Onto(r \ {t}) /\ f[x] = g[t]
    BY <2>1
  <2>3. Total(Onto(r), f) = Plus(f[x], Total(Onto(r) \ {x}, f))
    <3> HIDE DEF Onto
    <3> QED
      BY <1>3, <2>2, SumBySplitting
  <2> QED
    BY <2>2, <2>3, <1>6, <1>7
<1>9. CASE \A x \in S : h[x] # t
  <2>1. Onto(r) = Onto(r \ {t}) /\ g[t] = Zero
    BY <1>9
  <2> QED
    BY <2>1, <1>6, <1>7, Neutral
<1> QED
  BY <1>8, <1>9

-----------------------------------------------------------------------------
(***************************************************************************)
(* SourceIds by itself: why an id that is given out is new.                *)
(***************************************************************************)
Spent == nextId \in Nat /\ HeldIds \subseteq Abstract!Ids /\ Abstract!HeldAreSpent

(* Every step leaves the ids held below the counter: what is minted lies   *)
(* between the old counter and the new one, what is brought in is below    *)
(* the new one, and a new process starts above what it takes over.         *)
LEMMA StepsKeepSpent == Spent /\ [Abstract!Next]_(Abstract!idVars) => Spent'
<1> SUFFICES ASSUME Spent, [Abstract!Next]_(Abstract!idVars) PROVE Spent'
  OBVIOUS
<1> USE IdsAssumption DEF Spent, Abstract!HeldAreSpent, Abstract!Ids
<1>1. CASE Abstract!Mint
  <2>1. PICK n \in nextId..MaxId :
          /\ nextId' = n
          /\ HeldIds' \in SUBSET (HeldIds \cup {i \in Abstract!Ids : nextId <= i /\ i < n})
    BY <1>1 DEF Abstract!Mint
  <2>2. ASSUME NEW i \in HeldIds' PROVE i \in Abstract!Ids /\ i < nextId'
    <3>1. CASE i \in HeldIds
      BY <2>1, <3>1
    <3>2. CASE i \in Abstract!Ids /\ i < n
      BY <2>1, <3>2
    <3> QED BY <2>1, <2>2, <3>1, <3>2
  <2> QED BY <2>1, <2>2
<1>2. CASE Abstract!Bring
  <2>1. /\ nextId' \in nextId..MaxId /\ HeldIds' \in SUBSET Abstract!Ids
        /\ \A i \in HeldIds' \ HeldIds : i < nextId'
    BY <1>2 DEF Abstract!Bring
  <2>2. \A i \in HeldIds : i < nextId'
    BY <2>1
  <2> QED BY <2>1, <2>2
<1>3. CASE Abstract!Restart
  <2>1. PICK ids \in SUBSET HeldIds :
          nextId' \in 1..MaxId /\ (\A i \in ids : i < nextId') /\ HeldIds' = ids
    BY <1>3 DEF Abstract!Restart
  <2> QED BY <2>1
<1>4. CASE UNCHANGED Abstract!idVars
  BY <1>4 DEF Abstract!idVars
<1> QED BY <1>1, <1>2, <1>3, <1>4 DEF Abstract!Next

(* The ids held are below the counter in every reachable state.            *)
LEMMA IdsAreSpent == Abstract!Spec => []Spent
<1>1. Abstract!Init => Spent
  BY DEF Abstract!Init, Spent, Abstract!HeldAreSpent
<1> QED BY <1>1, StepsKeepSpent, PTL DEF Abstract!Spec

-----------------------------------------------------------------------------
(***************************************************************************)
(* The terms of what the operations make.                                  *)
(***************************************************************************)
(* Terms by ids, of which those of the counter's are in S.                 *)
Within(terms, S) == \A id \in DOMAIN terms : id \in Int /\ (id > 0 => id \in S)

(* What was made when the counter stood at next: at most n ids were given  *)
(* out, and the terms are by them or by ids in S.                          *)
Takes(l, next, n, S) ==
  /\ l.next \in next .. (next + n)
  /\ Within(l.terms, S \cup (next .. (l.next - 1)))

LEMMA FewerTerms ==
  ASSUME NEW a, NEW b, NEW S, Within(a, S), DOMAIN b \subseteq DOMAIN a
  PROVE  Within(b, S)
BY DEF Within

LEMMA MoreIds ==
  ASSUME NEW a, NEW S, NEW T, Within(a, S), S \subseteq T
  PROVE  Within(a, T)
BY DEF Within

LEMMA NoTermsWithin == ASSUME NEW S PROVE Within(NoTerms, S)
BY DEF Within, NoTerms

LEMMA LiveWithin == ASSUME NEW a, NEW S, Within(a, S) PROVE Within(Live(a), S)
BY FewerTerms DEF Live, Restrict

LEMMA MergedWithin ==
  ASSUME NEW a, NEW ja, NEW b, NEW jb, NEW S, Within(a, S), Within(b, S)
  PROVE  Within(Merged(a, ja, b, jb), S)
<1>1. DOMAIN Merged(a, ja, b, jb) \subseteq DOMAIN a \cup DOMAIN b
  BY DEF Merged, Live, Restrict
<1> QED
  BY <1>1 DEF Within

LEMMA ScaledWithin ==
  ASSUME NEW a, NEW j, NEW S, Within(a, S)
  PROVE  Within(ScaledTerms(a, j), S)
<1>1. DOMAIN ScaledTerms(a, j) \subseteq DOMAIN a
  BY DEF ScaledTerms, Live, Restrict
<1> QED
  BY <1>1, FewerTerms

(* The counter does not wrap below the largest id.                         *)
LEMMA CounterAdvances ==
  ASSUME NEW next \in Nat, next < MaxId
  PROVE  After(next) = next + 1
<1>1. next + 1 \in 0 .. MaxId /\ MaxId \in Nat
  BY IdsAssumption
<1> QED
  BY <1>1 DEF After

LEMMA MeasuringTakesOne ==
  ASSUME NEW next \in Nat \ {0}, next < MaxId, NEW var, NEW third, NEW S
  PROVE  /\ Takes(MeasuredLineage(next, var), next, 1, S)
         /\ Takes(MeasuredMoments(next, var, third), next, 1, S)
<1>1. After(next) = next + 1
  BY CounterAdvances
<1>2. \A t : Within(Only(next, t), S \cup (next .. (next + 1 - 1)))
  <2>1. ASSUME NEW t PROVE DOMAIN (Only(next, t)) = {next}
    BY DEF Only
  <2> QED
    BY <2>1 DEF Within
<1>3. Within(NoTerms, S \cup (next .. (next - 1))) /\ Within(NoTerms, S \cup (next .. (next + 1 - 1)))
  BY NoTermsWithin
<1>4. Takes(MeasuredLineage(next, var), next, 1, S)
  <2>1. CASE var = Zero
    BY <1>3, <2>1 DEF Takes, MeasuredLineage, With
  <2>2. CASE var # Zero
    BY <1>1, <1>2, <2>2 DEF Takes, MeasuredLineage, With
  <2> QED
    BY <2>1, <2>2
<1>5. Takes(MeasuredMoments(next, var, third), next, 1, S)
  BY <1>1, <1>2, <1>3 DEF Takes, MeasuredMoments, With
<1> QED
  BY <1>4, <1>5

LEMMA TakesInTurn ==
  ASSUME NEW next \in Nat, NEW n \in Nat, NEW k \in Nat, NEW S, NEW l1, NEW l2,
         Takes(l1, next, n, S), Takes(l2, l1.next, k, S \cup (next .. (l1.next - 1)))
  PROVE  Takes(l2, next, n + k, S)
<1>1. /\ l1.next \in next .. (next + n) /\ l2.next \in l1.next .. (l1.next + k)
      /\ Within(l2.terms, (S \cup (next .. (l1.next - 1))) \cup (l1.next .. (l2.next - 1)))
  BY DEF Takes
<1>2. l2.next \in next .. (next + (n + k))
  BY <1>1
<1>3. (S \cup (next .. (l1.next - 1))) \cup (l1.next .. (l2.next - 1)) \subseteq S \cup (next .. (l2.next - 1))
  BY <1>1
<1> QED
  BY <1>1, <1>2, <1>3, MoreIds DEF Takes

LEMMA TakesOfMore ==
  ASSUME NEW l, NEW next \in Nat, NEW n \in Nat, NEW k \in Nat, n <= k, NEW S, NEW T, S \subseteq T,
         Takes(l, next, n, S)
  PROVE  Takes(l, next, k, T)
<1>1. l.next \in next .. (next + k)
  BY DEF Takes
<1>2. S \cup (next .. (l.next - 1)) \subseteq T \cup (next .. (l.next - 1))
  OBVIOUS
<1> QED
  BY <1>1, <1>2, MoreIds DEF Takes

LEMMA CombiningTakesOne ==
  ASSUME NEW next \in Nat \ {0}, next < MaxId, NEW S,
         NEW a, NEW b, NEW ja, NEW jb, Within(a, S), Within(b, S)
  PROVE  /\ Takes(CombineLineage(a, ja, b, jb, next), next, 1, S)
         /\ Takes(CombineMoments(a, ja, b, jb, next), next, 1, S)
<1>1. Takes(With(Merged(a, ja, b, jb), next), next, 1, S)
  <2>1. Within(Merged(a, ja, b, jb), S \cup (next .. (next - 1)))
    BY MergedWithin, MoreIds
  <2> QED
    BY <2>1 DEF Takes, With
<1>2. \A var, third : /\ Takes(MeasuredLineage(next, var), next, 1, S)
                      /\ Takes(MeasuredMoments(next, var, third), next, 1, S)
  BY MeasuringTakesOne
<1> QED
  BY <1>1, <1>2 DEF CombineLineage, CombineMoments

LEMMA FoldingTakesTwo ==
  ASSUME NEW next \in Nat \ {0}, next + 1 < MaxId, NEW S,
         NEW a, NEW b, NEW ja, NEW jb, Within(a, S), Within(b, S)
  PROVE  Takes(FoldMoments(a, ja, b, jb, next), next, 2, S)
<1> DEFINE l1 == CombineMoments(NoTerms, One, a, ja, next)
           l2 == CombineMoments(l1.terms, One, b, jb, l1.next)
           T  == S \cup (next .. (l1.next - 1))
<1>1. FoldMoments(a, ja, b, jb, next) = l2
  BY DEF FoldMoments
<1>2. MaxId \in Nat
  BY IdsAssumption
<1>3. Takes(l1, next, 1, S)
  <2>1. next < MaxId
    BY <1>2
  <2> QED
    BY <2>1, NoTermsWithin, CombiningTakesOne
<1> HIDE DEF l1
<1>4. l1.next \in Nat \ {0} /\ l1.next < MaxId
  BY <1>2, <1>3 DEF Takes
<1>5. Within(l1.terms, T) /\ Within(b, T)
  BY <1>3, MoreIds DEF Takes
<1> HIDE DEF T
<1>6. Takes(l2, l1.next, 1, T)
  BY <1>4, <1>5, CombiningTakesOne
<1> HIDE DEF l2
<1>7. Takes(l2, next, 1 + 1, S)
  BY <1>3, <1>6, TakesInTurn DEF T
<1> QED
  BY <1>1, <1>7

LEMMA LineageTakesOne ==
  ASSUME NEW next \in Nat \ {0}, next < MaxId, NEW S, NEW v, Within(v.terms, S)
  PROVE  Takes(LineageOf(v, next), next, 1, S)
<1>1. Takes(With(v.terms, next), next, 1, S)
  <2>1. Within(v.terms, S \cup (next .. (next - 1)))
    BY MoreIds
  <2> QED
    BY <2>1 DEF Takes, With
<1> QED
  BY <1>1, MeasuringTakesOne DEF LineageOf

-----------------------------------------------------------------------------
(***************************************************************************)
(* What an operation makes, in every pair of models: it takes three ids at *)
(* most, and its terms are by those or by ids of its operands.             *)
(***************************************************************************)
Makes(made, next, S) ==
  /\ made.next \in next .. (next + 3)
  /\ Within(made.value.terms, S \cup (next .. (made.next - 1)))
  /\ "terms" \in DOMAIN made.value
  /\ made.drawn \in Nat
Result(made, next, S) == made = Unsupported \/ Makes(made, next, S)

LEMMA LineageMakes ==
  ASSUME NEW next \in Nat, NEW n \in 0 .. 3, NEW S, NEW l, Takes(l, next, n, S), draws \in Nat,
         NEW model, NEW boxed, NEW shape, NEW mean
  PROVE  Result(Made(Value(model, boxed, shape, mean, l.terms), l.next, draws), next, S)
BY DEF Result, Makes, Made, Value, Takes

LEMMA GaussianMakes ==
  ASSUME NEW next \in Nat \ {0}, next + 3 < MaxId, draws \in Nat, NEW S, NEW d,
         NEW a, NEW b, Within(a.terms, S), Within(b.terms, S)
  PROVE  Result(PropagateGaussian(a, b, d, next), next, S)
<1> DEFINE l == CombineLineage(a.terms, d.ja, b.terms, d.jb, next)
<1>1. Takes(l, next, 1, S)
  BY IdsAssumption, CombiningTakesOne
<1>2. PropagateGaussian(a, b, d, next) = Made(Value("gaussian", None, None, d.mean, l.terms), l.next, draws)
  BY DEF PropagateGaussian
<1> HIDE DEF l
<1> QED
  BY <1>1, <1>2, LineageMakes

LEMMA UnscentedMakes ==
  ASSUME NEW next \in Nat \ {0}, next + 3 < MaxId, draws \in Nat, NEW S, NEW d,
         NEW a, NEW b, Within(a.terms, S), Within(b.terms, S)
  PROVE  Result(PropagateUnscented(a, b, d, next), next, S)
<1> DEFINE other == LineageOf(b, next)
           l == CombineLineage(a.terms, d.ja, other.terms, d.jb, other.next)
           T == S \cup (next .. (other.next - 1))
<1>1. Takes(other, next, 1, S)
  BY IdsAssumption, LineageTakesOne
<1>2. PropagateUnscented(a, b, d, next) = Made(Value("unscented", None, None, d.mean, l.terms), l.next, draws)
  BY DEF PropagateUnscented
<1> HIDE DEF other
<1>3. other.next \in Nat \ {0} /\ other.next < MaxId /\ Within(a.terms, T) /\ Within(other.terms, T)
  BY <1>1, IdsAssumption, MoreIds DEF Takes
<1> HIDE DEF T
<1>4. Takes(l, other.next, 1, T)
  BY <1>3, CombiningTakesOne
<1> HIDE DEF l
<1>5. Takes(l, next, 1 + 1, S)
  BY <1>1, <1>4, TakesInTurn DEF T
<1> QED
  BY <1>2, <1>5, LineageMakes

LEMMA MomentsMake ==
  ASSUME NEW next \in Nat \ {0}, next + 3 < MaxId, draws \in Nat, NEW S, NEW d,
         NEW a, NEW b, Within(a.terms, S), Within(b.terms, S)
  PROVE  Result(PropagateMoments(a, b, d, next), next, S)
<1> DEFINE l == FoldMoments(a.terms, d.ja, b.terms, d.jb, next)
<1>1. Takes(l, next, 2, S)
  BY IdsAssumption, FoldingTakesTwo
<1>2. \/ PropagateMoments(a, b, d, next) = Made(Value("moments", None, a.shape, d.mean, l.terms), l.next, draws)
      \/ PropagateMoments(a, b, d, next) = Unsupported
  BY DEF PropagateMoments
<1> HIDE DEF l
<1>3. Result(Made(Value("moments", None, a.shape, d.mean, l.terms), l.next, draws), next, S)
  BY <1>1, LineageMakes
<1> QED
  BY <1>2, <1>3 DEF Result

LEMMA SamplesMake ==
  ASSUME NEW next \in Nat, draws \in Nat, NEW S, NEW d,
         NEW a, NEW b, Within(a.terms, S), Within(b.terms, S)
  PROVE  Result(PropagateSamples(a, b, d, next), next, S)
<1> DEFINE made(other, drawn) ==
             Made(Value("monte_carlo", None, a.shape, d.mean, Merged(a.terms, d.ja, other, d.jb)), next, drawn)
<1>1. ASSUME NEW other, NEW drawn \in Nat, Within(other, S)
      PROVE  Result(made(other, drawn), next, S)
  <2>1. Within(Merged(a.terms, d.ja, other, d.jb), S)
    BY <1>1, MergedWithin
  <2>2. Within(Merged(a.terms, d.ja, other, d.jb), S \cup (next .. (next - 1)))
    BY <2>1, MoreIds
  <2> QED
    BY <2>2 DEF Result, Makes, Made, Value
<1>2. ASSUME NEW t PROVE Within(Only(-(draws + 1), t), S)
  BY DEF Within, Only
<1>3. Within(NoTerms, S)
  BY NoTermsWithin
<1>4. \E other, drawn : /\ PropagateSamples(a, b, d, next) = made(other, drawn)
                        /\ drawn \in Nat /\ Within(other, S)
  <2>1. CASE SharesSamples(a, b)
    BY <2>1 DEF PropagateSamples
  <2>2. CASE ~SharesSamples(a, b) /\ IsExact(b)
    BY <2>2, <1>3 DEF PropagateSamples
  <2>3. CASE ~SharesSamples(a, b) /\ ~IsExact(b)
    BY <2>3, <1>2 DEF PropagateSamples
  <2> QED
    BY <2>1, <2>2, <2>3
<1> QED
  BY <1>1, <1>4

LEMMA BoxedMake ==
  ASSUME NEW next \in Nat \ {0}, next + 3 < MaxId, draws \in Nat, NEW S, NEW d,
         NEW a, NEW b, Within(a.terms, S), Within(b.terms, S)
  PROVE  Result(PropagateBoxed(a, b, d, next), next, S)
<1>1. Result(BoxedQuadrature(a, b, d, next), next, S)
  <2>1. \A var : Takes(MeasuredLineage(next, var), next, 1, S)
    BY IdsAssumption, MeasuringTakesOne
  <2> QED
    BY <2>1, LineageMakes DEF BoxedQuadrature, Boxed
<1>2. Result(BoxedMoments(a, b, d, next), next, S)
  <2> DEFINE other == MeasuredMoments(next, Variance(b.terms), Zero)
             l == FoldMoments(a.terms, d.ja, other.terms, d.jb, other.next)
             T == S \cup (next .. (other.next - 1))
  <2>1. Takes(other, next, 1, S)
    BY IdsAssumption, MeasuringTakesOne
  <2>2. BoxedMoments(a, b, d, next) = Made(Value("custom", "moments", a.shape, d.mean, l.terms), l.next, draws)
    BY DEF BoxedMoments, Boxed
  <2> HIDE DEF other
  <2>3. other.next \in Nat \ {0} /\ other.next + 1 < MaxId /\ Within(a.terms, T) /\ Within(other.terms, T)
    BY <2>1, IdsAssumption, MoreIds DEF Takes
  <2> HIDE DEF T
  <2>4. Takes(l, other.next, 2, T)
    BY <2>3, FoldingTakesTwo
  <2> HIDE DEF l
  <2>5. Takes(l, next, 1 + 2, S)
    BY <2>1, <2>4, TakesInTurn DEF T
  <2> QED
    BY <2>2, <2>5, LineageMakes
<1> QED
  BY <1>1, <1>2 DEF PropagateBoxed

LEMMA PropagationMakes ==
  ASSUME NEW next \in Nat \ {0}, next + 3 < MaxId, draws \in Nat, NEW S, NEW op,
         NEW a, NEW b, Within(a.terms, S), Within(b.terms, S)
  PROVE  Result(Propagate(op, a, b, next), next, S)
<1>1. ASSUME NEW d PROVE Result(Dispatch(a, b, d, next), next, S)
  <2>1. Lifted(a, b).terms = NoTerms /\ Within(Lifted(a, b).terms, S)
    BY NoTermsWithin DEF Lifted, Value
  <2>2. /\ Result(PropagateMoments(a, b, d, next), next, S)
        /\ Result(PropagateGaussian(a, b, d, next), next, S)
        /\ Result(PropagateSamples(a, b, d, next), next, S)
        /\ Result(PropagateUnscented(a, b, d, next), next, S)
        /\ Result(PropagateBoxed(a, b, d, next), next, S)
    BY MomentsMake, GaussianMakes, SamplesMake, UnscentedMakes, BoxedMake
  <2>3. /\ Result(PropagateSamples(Lifted(a, b), b, d, next), next, S)
        /\ Result(PropagateUnscented(Lifted(a, b), b, d, next), next, S)
    <3> DEFINE x == Lifted(a, b)
    <3> HIDE DEF x
    <3>1. Within(x.terms, S)
      BY <2>1 DEF x
    <3>2. Result(PropagateSamples(x, b, d, next), next, S) /\ Result(PropagateUnscented(x, b, d, next), next, S)
      BY <3>1, SamplesMake, UnscentedMakes
    <3> QED
      BY <3>2 DEF x
  <2>4. Result(Unsupported, next, S)
    BY DEF Result
  <2>5. IsLifted(a, b) => Is(b, {"monte_carlo"}) \/ Is(b, {"unscented"})
    BY DEF IsLifted, Is
  <2> QED
    BY <2>2, <2>3, <2>4, <2>5 DEF Dispatch
<1> QED
  BY <1>1 DEF Propagate, Result

-----------------------------------------------------------------------------
(***************************************************************************)
(* The values made: a sequence of entries, and the ids of each are those   *)
(* of draws, or below the counter.                                         *)
(***************************************************************************)
IsEntry(e) == "value" \in DOMAIN e /\ "terms" \in DOMAIN e.value
IdInv ==
  /\ nextId \in Nat \ {0}
  /\ draws \in Nat
  /\ values \in Seq(Range(values))
  /\ \A i \in DOMAIN values :
       IsEntry(values[i]) /\ Within(values[i].value.terms, Abstract!Ids \cap (1 .. (nextId - 1)))

LEMMA SequenceOfItsRange ==
  ASSUME NEW S, NEW s \in Seq(S)
  PROVE  s \in Seq(Range(s))
<1>1. Len(s) \in Nat /\ DOMAIN s = 1 .. Len(s) /\ s = [i \in 1 .. Len(s) |-> s[i]]
  OBVIOUS
<1>2. \A i \in 1 .. Len(s) : s[i] \in Range(s)
  BY <1>1 DEF Range
<1>3. [i \in 1 .. Len(s) |-> s[i]] \in [1 .. Len(s) -> Range(s)]
  BY <1>2
<1> QED
  BY <1>1, <1>3

(* The ids of a value are those that are held.                             *)
LEMMA OperandsAreHeld ==
  ASSUME IdInv, NEW i \in DOMAIN values
  PROVE  Within(values[i].value.terms, HeldIds)
<1>1. \A id \in DOMAIN values[i].value.terms : id \in Int
  BY DEF IdInv, Within
<1>2. \A id \in DOMAIN values[i].value.terms : id > 0 => id \in HeldIds
  BY DEF HeldIds
<1> QED
  BY <1>1, <1>2 DEF Within

LEMMA HeldAreBelow ==
  ASSUME IdInv
  PROVE  HeldIds \subseteq Abstract!Ids \cap (1 .. (nextId - 1))
BY DEF IdInv, Within, HeldIds

(* What making a value does to the values.                                 *)
LEMMA MakingAppends ==
  ASSUME IdInv, NEW e, IsEntry(e), values' = Append(values, e), NEW S, Within(e.value.terms, S),
         nextId' \in Nat, nextId' >= nextId, S \subseteq Abstract!Ids \cap (1 .. (nextId' - 1))
  PROVE  /\ values' \in Seq(Range(values'))
         /\ \A i \in DOMAIN values' :
              IsEntry(values'[i]) /\ Within(values'[i].value.terms, Abstract!Ids \cap (1 .. (nextId' - 1)))
         /\ HeldIds' \subseteq HeldIds \cup {id \in DOMAIN e.value.terms : id > 0}
         /\ HeldIds \subseteq HeldIds'
<1> DEFINE B == Abstract!Ids \cap (1 .. (nextId - 1))
           C == Abstract!Ids \cap (1 .. (nextId' - 1))
<1>1. values \in Seq(Range(values)) /\ nextId \in Nat
  BY DEF IdInv
<1>2. /\ DOMAIN values = 1 .. Len(values) /\ Len(values) \in Nat
      /\ DOMAIN values' = 1 .. (Len(values) + 1)
      /\ \A i \in DOMAIN values : values'[i] = values[i]
      /\ values'[Len(values) + 1] = e
  BY <1>1
<1>3. \A i \in DOMAIN values' : i \in DOMAIN values \/ i = Len(values) + 1
  BY <1>2
<1>4. values' \in Seq(Range(values'))
  <2>1. values \in Seq(Range(values) \cup {e})
    BY <1>1
  <2>2. values' \in Seq(Range(values) \cup {e})
    BY <2>1
  <2> QED
    BY <2>2, SequenceOfItsRange
<1>5. B \subseteq C
  BY <1>1
<1>6. \A i \in DOMAIN values : IsEntry(values[i]) /\ Within(values[i].value.terms, B)
  BY DEF IdInv
<1> HIDE DEF B, C
<1>7. ASSUME NEW i \in DOMAIN values' PROVE IsEntry(values'[i]) /\ Within(values'[i].value.terms, C)
  <2>1. CASE i \in DOMAIN values
    <3>1. values'[i] = values[i]
      BY <1>2, <2>1
    <3>2. IsEntry(values[i]) /\ Within(values[i].value.terms, C)
      BY <1>5, <1>6, <2>1, MoreIds
    <3> QED
      BY <3>1, <3>2
  <2>2. CASE i = Len(values) + 1
    BY <1>2, <2>2, MoreIds DEF C
  <2> QED
    BY <1>3, <2>1, <2>2
<1>8. ASSUME NEW id \in HeldIds' PROVE id \in HeldIds \cup {x \in DOMAIN e.value.terms : x > 0}
  <2>1. PICK i \in DOMAIN values' : id \in DOMAIN values'[i].value.terms
    BY DEF HeldIds
  <2>2. id > 0
    BY DEF HeldIds
  <2>3. CASE i \in DOMAIN values
    <3>1. id \in DOMAIN values[i].value.terms
      BY <1>2, <2>1, <2>3
    <3> QED
      BY <2>2, <2>3, <3>1 DEF HeldIds
  <2>4. CASE i = Len(values) + 1
    BY <1>2, <2>1, <2>2, <2>4
  <2> QED
    BY <1>3, <2>3, <2>4
<1>9. ASSUME NEW id \in HeldIds PROVE id \in HeldIds'
  <2>1. PICK i \in DOMAIN values : id \in DOMAIN values[i].value.terms
    BY DEF HeldIds
  <2>2. i \in DOMAIN values' /\ id \in DOMAIN values'[i].value.terms
    BY <1>2, <2>1
  <2>3. id > 0
    BY DEF HeldIds
  <2> QED
    BY <2>2, <2>3 DEF HeldIds
<1> QED
  BY <1>4, <1>7, <1>8, <1>9 DEF C

(* A value whose terms are by ids held, or given out for it, is a step of  *)
(* Mint: every operation but the naming of a measurement is of this kind.  *)
LEMMA MakingMints ==
  ASSUME IdInv, HasRoom, NEW e, IsEntry(e), NEW next \in nextId .. (nextId + 3), NEW drawn \in Nat,
         Within(e.value.terms, HeldIds \cup (nextId .. (next - 1))), MakeValue(e, next, drawn)
  PROVE  IdInv' /\ Abstract!Mint
<1> DEFINE S == HeldIds \cup (nextId .. (next - 1))
<1>1. /\ nextId \in Nat \ {0} /\ MaxId \in Nat /\ next <= MaxId /\ next \in Nat \ {0}
      /\ nextId' = next /\ draws' = drawn /\ values' = Append(values, e)
  BY IdsAssumption DEF IdInv, HasRoom, MakeValue
<1>2. S \subseteq Abstract!Ids \cap (1 .. (nextId' - 1))
  <2>1. HeldIds \subseteq Abstract!Ids \cap (1 .. (nextId - 1))
    BY HeldAreBelow
  <2> QED
    BY <1>1, <2>1 DEF Abstract!Ids
<1>7. Within(e.value.terms, S) /\ nextId' \in Nat /\ nextId' >= nextId
  BY <1>1
<1> HIDE DEF S
<1>3. /\ values' \in Seq(Range(values'))
      /\ \A i \in DOMAIN values' :
           IsEntry(values'[i]) /\ Within(values'[i].value.terms, Abstract!Ids \cap (1 .. (nextId' - 1)))
      /\ HeldIds' \subseteq HeldIds \cup {id \in DOMAIN e.value.terms : id > 0}
  BY <1>7, <1>1, <1>2, MakingAppends
<1>4. IdInv'
  BY <1>1, <1>3 DEF IdInv, Abstract!Ids
<1>5. {id \in DOMAIN e.value.terms : id > 0} \subseteq S
  BY <1>7 DEF Within
<1>6. HeldIds' \subseteq HeldIds \cup {i \in Abstract!Ids : nextId <= i /\ i < next}
  BY <1>1, <1>2, <1>3, <1>5 DEF S
<1> QED
  BY <1>1, <1>4, <1>6 DEF Abstract!Mint

(* A value whose terms are by ids held changes neither the counter nor what*)
(* is held.                                                                *)
LEMMA ReshapingMints ==
  ASSUME IdInv, HasRoom, NEW e, IsEntry(e), Within(e.value.terms, HeldIds), MakeValue(e, nextId, draws)
  PROVE  IdInv' /\ Abstract!Mint
<1>1. nextId \in nextId .. (nextId + 3) /\ draws \in Nat
  BY DEF IdInv
<1>2. Within(e.value.terms, HeldIds \cup (nextId .. (nextId - 1)))
  BY MoreIds
<1> QED
  BY <1>1, <1>2, MakingMints

-----------------------------------------------------------------------------
(***************************************************************************)
(* The actions, one by one.                                                *)
(***************************************************************************)
Refines == IdInv' /\ [Abstract!Next]_(Abstract!idVars)

LEMMA MintsRefine == ASSUME IdInv', Abstract!Mint PROVE Refines
BY DEF Refines, Abstract!Next

LEMMA SetModeRefines == ASSUME IdInv, NEW m, SetMode(m) PROVE Refines
BY DEF SetMode, IdInv, HeldIds, Refines, Abstract!idVars, Abstract!Ids

LEMMA MeasureRefines == ASSUME IdInv, NEW m, Measure(m) PROVE Refines
<1> DEFINE samples == With(IF IsConstant(m) THEN NoTerms ELSE Only(-(draws + 1), Term(One, m.var, Zero)), nextId)
           l == CASE m.model = "monte_carlo" -> samples
                  [] m.model = "moments" -> MeasuredMoments(nextId, m.var, m.third)
                  [] OTHER -> MeasuredLineage(nextId, m.var)
           drawn == IF m.model = "monte_carlo" /\ ~ IsConstant(m) THEN draws + 1 ELSE draws
           entry(truth) == Entry([Taken(m) EXCEPT !.terms = l.terms], truth, TRUE, TRUE)
<1>1. HasRoom
  BY DEF Measure
<1>2. nextId \in Nat \ {0} /\ draws \in Nat /\ nextId < MaxId
  BY <1>1, IdsAssumption DEF IdInv, HasRoom
<1>3. Takes(l, nextId, 1, HeldIds)
  <2>1. Takes(samples, nextId, 1, HeldIds)
    <3>1. \A t : Within(Only(-(draws + 1), t), HeldIds \cup (nextId .. (nextId - 1)))
      BY <1>2 DEF Within, Only
    <3>2. Within(NoTerms, HeldIds \cup (nextId .. (nextId - 1)))
      BY NoTermsWithin
    <3>3. \A t : Within(t, HeldIds \cup (nextId .. (nextId - 1))) => Takes(With(t, nextId), nextId, 1, HeldIds)
      BY <1>2 DEF Takes, With
    <3> QED
      BY <3>1, <3>2, <3>3
  <2>2. \A var, third : /\ Takes(MeasuredLineage(nextId, var), nextId, 1, HeldIds)
                        /\ Takes(MeasuredMoments(nextId, var, third), nextId, 1, HeldIds)
    BY <1>2, MeasuringTakesOne
  <2> HIDE DEF samples
  <2> QED
    BY <2>1, <2>2
<1>4. PICK truth : MakeValue(entry(truth), l.next, drawn)
  BY DEF Measure
<1>5. drawn \in Nat
  BY <1>2
<1> HIDE DEF l, drawn
<1>6. IsEntry(entry(truth)) /\ entry(truth).value.terms = l.terms
  BY DEF IsEntry, Entry, Taken, Value
<1>7. l.next \in nextId .. (nextId + 1) /\ Within(l.terms, HeldIds \cup (nextId .. (l.next - 1)))
  BY <1>3 DEF Takes
<1>8. l.next \in nextId .. (nextId + 3)
  BY <1>2, <1>7
<1>9. Within(entry(truth).value.terms, HeldIds \cup (nextId .. (l.next - 1)))
  BY <1>6, <1>7
<1> HIDE DEF entry
<1> QED
  BY <1>1, <1>4, <1>5, <1>6, <1>8, <1>9, MakingMints, MintsRefine

(* The counter passes the id the caller names.                             *)
LEMMA NamingRefines == ASSUME IdInv, NEW m, NEW id \in Named, MeasureNamed(id, m) PROVE Refines
<1>1. id \in 1 .. (MaxId - 1) /\ MaxId \in Nat /\ nextId \in Nat \ {0} /\ nextId < MaxId /\ draws \in Nat
  BY IdsAssumption DEF IdInv, MeasureNamed, HasRoom
<1> DEFINE next == Reserved(nextId, id)
           entry(p) == Entry([Taken(m) EXCEPT !.terms = Only(id, Term(One, m.var, m.third))], Only(p, One), TRUE, TRUE)
<1>2. next \in nextId .. MaxId /\ id < next
  BY <1>1 DEF Reserved
<1>3. PICK p : MakeValue(entry(p), next, draws)
  BY DEF MeasureNamed
<1>4. IsEntry(entry(p)) /\ DOMAIN entry(p).value.terms = {id}
  BY DEF IsEntry, Entry, Taken, Value, Only
<1> HIDE DEF entry, next
<1>5. values' = Append(values, entry(p)) /\ nextId' = next /\ draws' = draws
  BY <1>3 DEF MakeValue
<1> DEFINE S == {id}
<1>6. Within(entry(p).value.terms, S)
  BY <1>1, <1>4 DEF Within
<1>7. S \subseteq Abstract!Ids \cap (1 .. (nextId' - 1)) /\ nextId' \in Nat /\ nextId' >= nextId
  BY <1>1, <1>2, <1>5 DEF Abstract!Ids
<1> HIDE DEF S
<1>8. /\ values' \in Seq(Range(values'))
      /\ \A i \in DOMAIN values' :
           IsEntry(values'[i]) /\ Within(values'[i].value.terms, Abstract!Ids \cap (1 .. (nextId' - 1)))
      /\ HeldIds' \subseteq HeldIds \cup {x \in DOMAIN entry(p).value.terms : x > 0}
      /\ HeldIds \subseteq HeldIds'
  BY <1>4, <1>5, <1>6, <1>7, MakingAppends
<1>9. IdInv'
  <2>1. nextId' \in Nat \ {0} /\ draws' \in Nat
    BY <1>1, <1>2, <1>5
  <2> QED
    BY <1>8, <2>1 DEF IdInv, Abstract!Ids
<1>10. HeldIds' \subseteq HeldIds \cup {id}
  BY <1>4, <1>8
<1>11. Abstract!Bring
  <2>1. HeldIds \subseteq Abstract!Ids
    BY HeldAreBelow
  <2>2. id \in Abstract!Ids
    BY <1>1 DEF Abstract!Ids
  <2> QED
    BY <1>2, <1>5, <1>8, <1>10, <2>1, <2>2 DEF Abstract!Bring
<1> QED
  BY <1>9, <1>11 DEF Refines, Abstract!Next

LEMMA BinaryRefines ==
  ASSUME IdInv, NEW op, NEW i \in DOMAIN values, NEW j \in DOMAIN values, Binary(op, i, j)
  PROVE  Refines
<1> DEFINE made == Propagate(op, values[i].value, values[j].value, nextId)
           d == Derivatives(op, values[i].value.mean, values[j].value.mean)
           entry == Combined(made.value, d, values[i], values[j])
<1>1. nextId \in Nat \ {0} /\ draws \in Nat /\ nextId + 3 < MaxId /\ HasRoom
  BY DEF IdInv, Binary, HasRoom
<1>2. Within(values[i].value.terms, HeldIds) /\ Within(values[j].value.terms, HeldIds)
  BY OperandsAreHeld
<1>3. Result(made, nextId, HeldIds)
  BY <1>1, <1>2, PropagationMakes
<1>4. made # Unsupported /\ MakeValue(entry, made.next, made.drawn)
  BY DEF Binary
<1> HIDE DEF made, d
<1>5. Makes(made, nextId, HeldIds)
  BY <1>3, <1>4 DEF Result
<1>6. IsEntry(entry) /\ entry.value = made.value
  BY <1>5 DEF IsEntry, Makes, Combined, Entry
<1> HIDE DEF entry
<1>7. /\ made.next \in nextId .. (nextId + 3) /\ made.drawn \in Nat
      /\ Within(entry.value.terms, HeldIds \cup (nextId .. (made.next - 1)))
  BY <1>5, <1>6 DEF Makes
<1> QED
  BY <1>1, <1>4, <1>6, <1>7, MakingMints, MintsRefine

LEMMA UnaryRefines == ASSUME IdInv, NEW fn, NEW i \in DOMAIN values, Unary(fn, i) PROVE Refines
<1> DEFINE v == values[i].value
           j == IF KeepsSign(fn, v) THEN One ELSE Transformed(fn, v.mean).j
           entry(truth, linked) == Entry(Applied(fn, v), truth, values[i].right, linked)
<1>1. HasRoom
  BY DEF Unary
<1>2. PICK truth, linked : MakeValue(entry(truth, linked), nextId, draws)
  BY DEF Unary
<1>3. Within(v.terms, HeldIds) /\ "terms" \in DOMAIN v
  BY OperandsAreHeld DEF IdInv, IsEntry
<1>4. "terms" \in DOMAIN Applied(fn, v) /\ Applied(fn, v).terms = ScaledTerms(v.terms, j)
  BY <1>3 DEF Applied
<1> HIDE DEF v, j
<1>5. Within(Applied(fn, v).terms, HeldIds)
  BY <1>3, <1>4, ScaledWithin
<1>6. IsEntry(entry(truth, linked)) /\ Within(entry(truth, linked).value.terms, HeldIds)
  BY <1>4, <1>5 DEF IsEntry, Entry
<1> HIDE DEF entry
<1> QED
  BY <1>1, <1>2, <1>6, ReshapingMints, MintsRefine

LEMMA PromoteRefines == ASSUME IdInv, NEW i \in DOMAIN values, Promote(i) PROVE Refines
<1> DEFINE v == values[i].value
           entry == [values[i] EXCEPT !.value = [@ EXCEPT !.model = "moments", !.shape = DefaultShape]]
<1>1. HasRoom /\ MakeValue(entry, nextId, draws)
  BY DEF Promote
<1>2. Within(v.terms, HeldIds) /\ IsEntry(values[i])
  BY OperandsAreHeld DEF IdInv
<1>3. IsEntry(entry) /\ entry.value.terms = v.terms
  BY <1>2 DEF IsEntry
<1> HIDE DEF entry
<1> QED
  BY <1>1, <1>2, <1>3, ReshapingMints, MintsRefine

(* A bounded set of integers has a greatest element.                       *)
LEMMA GreatestId ==
  ASSUME NEW T, T # {}, NEW bound \in Int, \A x \in T : x \in Int /\ x <= bound
  PROVE  \E x \in T : \A y \in T : y <= x
<1> DEFINE U == {bound - x : x \in T}
<1>1. U \subseteq Nat /\ U # {}
  OBVIOUS
<1>2. PICK u \in U : \A w \in U : u <= w
  BY <1>1, LeastNatural
<1>3. PICK x \in T : u = bound - x
  OBVIOUS
<1>4. ASSUME NEW y \in T PROVE y <= x
  <2>1. bound - x <= bound - y
    BY <1>2, <1>3
  <2> QED
    BY <2>1
<1> QED
  BY <1>4

(* A new process counts from above the greatest id it is given, or from    *)
(* the start if it is given none.                                          *)
LEMMA RestartRefines == ASSUME IdInv, NEW kept \in SUBSET DOMAIN values, Restart(kept) PROVE Refines
<1> DEFINE ids == UNION {DOMAIN values[i].value.terms : i \in kept}
           greatest == CHOOSE id \in ids : \A other \in ids : other <= id
<1>1. /\ MaxId \in Nat /\ nextId \in Nat \ {0} /\ nextId < MaxId /\ draws' = draws /\ draws \in Nat
      /\ nextId' = IF ids = {} THEN 1 ELSE Reserved(1, greatest)
  BY IdsAssumption DEF IdInv, Restart, HasRoom
<1>2. PICK order \in [1 .. Cardinality(kept) -> kept] : values' = [k \in DOMAIN order |-> values[order[k]]]
  BY DEF Restart
<1>3. \A id \in ids : id \in Int /\ id <= MaxId - 1 /\ (id > 0 => id \in HeldIds)
  <2>1. ASSUME NEW id \in ids PROVE id \in Int /\ id <= MaxId - 1 /\ (id > 0 => id \in HeldIds)
    <3>1. PICK i \in kept : id \in DOMAIN values[i].value.terms
      OBVIOUS
    <3>2. i \in DOMAIN values /\ Within(values[i].value.terms, HeldIds)
      BY OperandsAreHeld
    <3>3. id \in Int /\ (id > 0 => id \in HeldIds)
      BY <3>1, <3>2 DEF Within
    <3>4. HeldIds \subseteq 1 .. (MaxId - 1)
      BY HeldAreBelow DEF Abstract!Ids
    <3> QED
      BY <1>1, <3>3, <3>4
  <2> QED
    BY <2>1
<1>4. nextId' \in 1 .. MaxId /\ \A id \in ids : id < nextId'
  <2>1. CASE ids = {}
    BY <1>1, <2>1
  <2>2. CASE ids # {}
    <3>1. MaxId - 1 \in Int
      BY <1>1
    <3> HIDE DEF ids
    <3>2. \E x \in ids : \A y \in ids : y <= x
      BY <1>3, <2>2, <3>1, GreatestId
    <3>3. greatest \in ids /\ \A y \in ids : y <= greatest
      BY <3>2
    <3> HIDE DEF greatest
    <3>4. greatest \in Int /\ greatest <= MaxId - 1
      BY <1>3, <3>3
    <3>5. nextId' = IF greatest + 1 > 1 THEN greatest + 1 ELSE 1
      BY <1>1, <2>2, <3>4 DEF Reserved
    <3> QED
      BY <1>1, <1>3, <3>3, <3>4, <3>5
  <2> QED
    BY <2>1, <2>2
<1>5. DOMAIN values' = DOMAIN order /\ \A k \in DOMAIN values' : order[k] \in kept /\ values'[k] = values[order[k]]
  BY <1>2
<1>6. ASSUME NEW k \in DOMAIN values'
      PROVE  /\ IsEntry(values'[k]) /\ DOMAIN values'[k].value.terms \subseteq ids
             /\ Within(values'[k].value.terms, Abstract!Ids \cap (1 .. (nextId' - 1)))
  <2>1. order[k] \in kept /\ order[k] \in DOMAIN values /\ values'[k] = values[order[k]]
    BY <1>5
  <2>2. IsEntry(values'[k]) /\ DOMAIN values'[k].value.terms \subseteq ids
    BY <2>1 DEF IdInv
  <2>3. ASSUME NEW id \in DOMAIN values'[k].value.terms
        PROVE  id \in Int /\ (id > 0 => id \in Abstract!Ids \cap (1 .. (nextId' - 1)))
    <3>1. id \in Int /\ id < nextId' /\ (id > 0 => id \in HeldIds)
      BY <1>3, <1>4, <2>2
    <3>2. HeldIds \subseteq Abstract!Ids
      BY HeldAreBelow
    <3> QED
      BY <1>1, <1>4, <3>1, <3>2
  <2> QED
    BY <2>2, <2>3 DEF Within
<1>7. values' \in Seq(Range(values'))
  <2>1. Cardinality(kept) \in Nat
    <3>1. IsFiniteSet(DOMAIN values)
      <4>1. DOMAIN values = 1 .. Len(values) /\ Len(values) \in Nat
        BY DEF IdInv
      <4> QED
        BY <4>1, FS_Interval
    <3> QED
      BY <3>1, FS_Subset, FS_CardinalityType
  <2>2. values' \in [1 .. Cardinality(kept) -> Range(values')]
    BY <1>2 DEF Range
  <2> QED
    BY <2>1, <2>2
<1>8. IdInv'
  <2>1. nextId' \in Nat \ {0} /\ draws' \in Nat
    BY <1>1, <1>4
  <2> QED
    BY <1>6, <1>7, <2>1 DEF IdInv, Abstract!Ids
<1>9. HeldIds' \subseteq {id \in ids : id > 0}
  BY <1>6 DEF HeldIds
<1>10. Abstract!Restart
  <2>1. HeldIds' \in SUBSET HeldIds
    BY <1>3, <1>9
  <2>2. \A i \in HeldIds' : i < nextId'
    BY <1>4, <1>9
  <2> QED
    BY <1>4, <2>1, <2>2 DEF Abstract!Restart
<1> QED
  BY <1>8, <1>10 DEF Refines, Abstract!Next

-----------------------------------------------------------------------------
LEMMA StepsRefine == IdInv /\ [Next]_vars => Refines
<1> SUFFICES ASSUME IdInv, [Next]_vars PROVE Refines
  OBVIOUS
<1>1. ASSUME NEW m, SetMode(m) PROVE Refines
  BY <1>1, SetModeRefines
<1>2. ASSUME NEW m, Measure(m) PROVE Refines
  BY <1>2, MeasureRefines
<1>3. ASSUME NEW m, NEW id \in Named, MeasureNamed(id, m) PROVE Refines
  BY <1>3, NamingRefines
<1>4. ASSUME NEW i \in DOMAIN values, NEW j \in DOMAIN values, NEW op, Binary(op, i, j) PROVE Refines
  BY <1>4, BinaryRefines
<1>5. ASSUME NEW i \in DOMAIN values, Promote(i) PROVE Refines
  BY <1>5, PromoteRefines
<1>6. ASSUME NEW i \in DOMAIN values, NEW fn, Unary(fn, i) PROVE Refines
  BY <1>6, UnaryRefines
<1>7. ASSUME NEW kept \in SUBSET DOMAIN values, Restart(kept) PROVE Refines
  BY <1>7, RestartRefines
<1>8. CASE UNCHANGED vars
  BY <1>8 DEF vars, IdInv, HeldIds, Refines, Abstract!idVars, Abstract!Ids
<1> QED
  BY <1>1, <1>2, <1>3, <1>4, <1>5, <1>6, <1>7, <1>8 DEF Next

LEMMA StartsRefining == Init => IdInv /\ Abstract!Init
<1> SUFFICES ASSUME Init PROVE IdInv /\ Abstract!Init
  OBVIOUS
<1>1. values = <<>> /\ DOMAIN values = {} /\ nextId = 1 /\ draws = 0
  BY DEF Init
<1>2. HeldIds = {}
  BY <1>1 DEF HeldIds
<1> QED
  BY <1>1, <1>2 DEF IdInv, Abstract!Init

(* Whatever is measured, named, combined, transformed, promoted or loaded  *)
(* by a new process, in any model and mode: the counter and the ids that   *)
(* the values hold do only what SourceIds allows (lineage.rs, NEXT_ID).    *)
THEOREM ArithmeticKeepsIds == Spec => ImplementsSourceIds
<1>1. Init => IdInv /\ Abstract!Init
  BY StartsRefining
<1>2. IdInv /\ [Next]_vars => IdInv' /\ [Abstract!Next]_(Abstract!idVars)
  BY StepsRefine DEF Refines
<1> QED
  BY <1>1, <1>2, PTL DEF Spec, Abstract!Spec, ImplementsSourceIds

(* An id that fresh_id gives out is held by no value, whatever was loaded  *)
(* or named before: two measurements are not taken for one.                *)
THEOREM FreshIdsAreNew == Spec => []Abstract!NextIsNew
<1>1. Spent => Abstract!NextIsNew
  BY DEF Spent, Abstract!HeldAreSpent, Abstract!NextIsNew, Abstract!Ids
<1>2. Spec => Abstract!Spec
  BY ArithmeticKeepsIds DEF ImplementsSourceIds
<1> QED
  BY <1>1, <1>2, IdsAreSpent, PTL

-----------------------------------------------------------------------------
(***************************************************************************)
(* Which terms stand for what: the terms of a linked value are those of    *)
(* its truth, each by the id of its measurement.                           *)
(***************************************************************************)
Distinct(src, P) == \A p, q \in P : src[p].id = src[q].id => p = q
Accounts(src, terms, truth) ==
  /\ DOMAIN truth \subseteq DOMAIN src
  /\ DOMAIN terms = {src[p].id : p \in DOMAIN truth}
  /\ \A p \in DOMAIN truth :
       /\ truth[p] \in Fractions \ {Zero}
       /\ terms[src[p].id] = Term(truth[p], src[p].var, src[p].third)

AreTerms(a) == \A i \in DOMAIN a : a[i] = Term(a[i].sens, a[i].var, a[i].third)
TrueSens(t, p) == IF p \in DOMAIN t THEN t[p] ELSE Zero
MergedSens(a, ja, b, jb, i) == Plus(Times(ja, SensOf(a, i)), Times(jb, SensOf(b, i)))
MergedTrueSens(a, ja, b, jb, p) == Plus(Times(ja, TrueSens(a, p)), Times(jb, TrueSens(b, p)))

MergesTo(m, a, ja, b, jb) ==
  /\ DOMAIN m = {i \in DOMAIN a \cup DOMAIN b : MergedSens(a, ja, b, jb, i) # Zero}
  /\ \A i \in DOMAIN m :
       m[i] = Term(MergedSens(a, ja, b, jb, i), (IF i \in DOMAIN a THEN a[i] ELSE b[i]).var,
                                                (IF i \in DOMAIN a THEN a[i] ELSE b[i]).third)

LEMMA MergedTerms ==
  ASSUME NEW a, NEW ja, NEW b, NEW jb, AreTerms(a), AreTerms(b)
  PROVE  MergesTo(Merged(a, ja, b, jb), a, ja, b, jb)
<1> DEFINE all == [i \in DOMAIN a \cup DOMAIN b |->
                     [(IF i \in DOMAIN a THEN a[i] ELSE b[i]) EXCEPT !.sens = MergedSens(a, ja, b, jb, i)]]
           kept == {i \in DOMAIN all : all[i].sens # Zero}
<1>1. Merged(a, ja, b, jb) = [i \in kept |-> all[i]]
  BY DEF Merged, MergedSens, Live, Restrict
<1>2. ASSUME NEW i \in DOMAIN a \cup DOMAIN b
      PROVE  all[i] = Term(MergedSens(a, ja, b, jb, i), (IF i \in DOMAIN a THEN a[i] ELSE b[i]).var,
                                                        (IF i \in DOMAIN a THEN a[i] ELSE b[i]).third)
  <2>1. \A s, v, t, x : [Term(s, v, t) EXCEPT !.sens = x] = Term(x, v, t)
    BY DEF Term
  <2> DEFINE r == IF i \in DOMAIN a THEN a[i] ELSE b[i]
  <2>2. r = Term(r.sens, r.var, r.third)
    BY DEF AreTerms
  <2>3. all[i] = [r EXCEPT !.sens = MergedSens(a, ja, b, jb, i)]
    OBVIOUS
  <2> HIDE DEF r, all
  <2>4. all[i] = Term(MergedSens(a, ja, b, jb, i), r.var, r.third)
    BY <2>1, <2>2, <2>3
  <2> QED
    BY <2>4 DEF r
<1>3. DOMAIN all = DOMAIN a \cup DOMAIN b
  OBVIOUS
<1>4. \A s, v, t : Term(s, v, t).sens = s
  BY DEF Term
<1> HIDE DEF all
<1>5. \A i \in DOMAIN a \cup DOMAIN b : all[i].sens = MergedSens(a, ja, b, jb, i)
  BY <1>2, <1>4
<1> DEFINE m == Merged(a, ja, b, jb)
<1>6. m = [i \in kept |-> all[i]]
  BY <1>1
<1> HIDE DEF m
<1>7. MergesTo(m, a, ja, b, jb)
  BY <1>2, <1>3, <1>5, <1>6 DEF MergesTo
<1> QED
  BY <1>7 DEF m

TruthMergesTo(t, a, ja, b, jb) ==
  /\ DOMAIN t = {p \in DOMAIN a \cup DOMAIN b : MergedTrueSens(a, ja, b, jb, p) # Zero}
  /\ \A p \in DOMAIN t : t[p] = MergedTrueSens(a, ja, b, jb, p)

LEMMA MergedTruths ==
  ASSUME NEW a, NEW ja, NEW b, NEW jb
  PROVE  TruthMergesTo(MergedTruth(a, ja, b, jb), a, ja, b, jb)
BY DEF MergedTruth, MergedTrueSens, TrueSens, Restrict, TruthMergesTo

LEMMA TermFields ==
  ASSUME NEW s, NEW v, NEW t
  PROVE  Term(s, v, t).sens = s /\ Term(s, v, t).var = v /\ Term(s, v, t).third = t
BY DEF Term

LEMMA NamedAreTerms == ASSUME NEW src, NEW a, NEW ta, Accounts(src, a, ta) PROVE AreTerms(a)
BY DEF Accounts, AreTerms, Term

(* A term of two named values is of one measurement.                       *)
LEMMA NamedSens ==
  ASSUME NEW src, NEW a, NEW ta, NEW P, Accounts(src, a, ta), DOMAIN ta \subseteq P, Distinct(src, P), NEW p \in P
  PROVE  /\ src[p].id \in DOMAIN a <=> p \in DOMAIN ta
         /\ SensOf(a, src[p].id) = TrueSens(ta, p)
<1>1. src[p].id \in DOMAIN a <=> p \in DOMAIN ta
  BY DEF Accounts, Distinct
<1>2. p \in DOMAIN ta => a[src[p].id].sens = ta[p]
  BY TermFields DEF Accounts
<1> QED
  BY <1>1, <1>2 DEF SensOf, TrueSens

LEMMA MergedNames ==
  ASSUME NEW src, NEW a, NEW ta, NEW b, NEW tb, NEW ja \in Fractions, NEW jb \in Fractions,
         Accounts(src, a, ta), Accounts(src, b, tb), Distinct(src, DOMAIN ta \cup DOMAIN tb)
  PROVE  Accounts(src, Merged(a, ja, b, jb), MergedTruth(ta, ja, tb, jb))
<1> DEFINE P == DOMAIN ta \cup DOMAIN tb
           m == Merged(a, ja, b, jb)
           t == MergedTruth(ta, ja, tb, jb)
           s(p) == MergedTrueSens(ta, ja, tb, jb, p)
<1>1. AreTerms(a) /\ AreTerms(b)
  BY NamedAreTerms
<1>2. DOMAIN a \cup DOMAIN b = {src[p].id : p \in P}
  BY DEF Accounts
<1>3. ASSUME NEW p \in P PROVE MergedSens(a, ja, b, jb, src[p].id) = s(p)
  <2>1. SensOf(a, src[p].id) = TrueSens(ta, p) /\ SensOf(b, src[p].id) = TrueSens(tb, p)
    BY NamedSens
  <2> QED
    BY <2>1 DEF MergedSens, MergedTrueSens
<1>4. /\ DOMAIN t = {p \in P : s(p) # Zero}
      /\ \A p \in DOMAIN t : t[p] = s(p)
  BY MergedTruths DEF TruthMergesTo
<1>5. /\ DOMAIN m = {i \in DOMAIN a \cup DOMAIN b : MergedSens(a, ja, b, jb, i) # Zero}
      /\ \A i \in DOMAIN m :
           m[i] = Term(MergedSens(a, ja, b, jb, i), (IF i \in DOMAIN a THEN a[i] ELSE b[i]).var,
                                                    (IF i \in DOMAIN a THEN a[i] ELSE b[i]).third)
  <2>1. MergesTo(m, a, ja, b, jb)
    BY <1>1, MergedTerms
  <2> HIDE DEF m
  <2> QED
    BY <2>1 DEF MergesTo
<1>6. ASSUME NEW p \in P PROVE s(p) \in Fractions
  <2>1. TrueSens(ta, p) \in Fractions /\ TrueSens(tb, p) \in Fractions
    BY ZeroAndOne DEF TrueSens, Accounts
  <2> QED
    BY <2>1, Denominators, OperationsAreFractions DEF MergedTrueSens
<1>7. ASSUME NEW p \in P
      PROVE  LET r == IF src[p].id \in DOMAIN a THEN a[src[p].id] ELSE b[src[p].id]
             IN  r.var = src[p].var /\ r.third = src[p].third
  <2>1. src[p].id \in DOMAIN a <=> p \in DOMAIN ta
    BY NamedSens
  <2> QED
    BY <2>1, TermFields DEF Accounts
<1> HIDE DEF m, t, s
<1>8. DOMAIN m = {src[p].id : p \in DOMAIN t}
  BY <1>2, <1>3, <1>4, <1>5
<1>9. DOMAIN t \subseteq DOMAIN src
  BY <1>4 DEF Accounts
<1>10. ASSUME NEW p \in DOMAIN t
       PROVE  t[p] \in Fractions \ {Zero} /\ m[src[p].id] = Term(t[p], src[p].var, src[p].third)
  <2>1. p \in P /\ t[p] = s(p) /\ s(p) # Zero
    BY <1>4
  <2>2. src[p].id \in DOMAIN m
    BY <1>8
  <2> HIDE DEF P
  <2> QED
    BY <1>3, <1>5, <1>6, <1>7, <2>1, <2>2
<1> QED
  BY <1>8, <1>9, <1>10 DEF Accounts, m, t

LEMMA NothingNamed ==
  ASSUME NEW src, NEW t, DOMAIN t = {}
  PROVE  Accounts(src, NoTerms, t)
BY DEF Accounts, NoTerms

LEMMA SameTruthNames ==
  ASSUME NEW src, NEW a, NEW t, NEW u, Accounts(src, a, t), DOMAIN u = DOMAIN t, \A p \in DOMAIN t : u[p] = t[p]
  PROVE  Accounts(src, a, u)
BY DEF Accounts

LEMMA TrueSensIsFraction ==
  ASSUME NEW src, NEW a, NEW t, Accounts(src, a, t), NEW p
  PROVE  TrueSens(t, p) \in Fractions
BY ZeroAndOne DEF Accounts, TrueSens

(* Folding first one operand, then the other, into nothing.                *)
LEMMA FoldedNames ==
  ASSUME NEW src, NEW a, NEW ta, NEW b, NEW tb, NEW ja \in Fractions, NEW jb \in Fractions,
         Accounts(src, a, ta), Accounts(src, b, tb), Distinct(src, DOMAIN ta \cup DOMAIN tb)
  PROVE  Accounts(src, Merged(Merged(NoTerms, One, a, ja), One, b, jb), MergedTruth(ta, ja, tb, jb))
<1> DEFINE t1 == MergedTruth(NoTerms, One, ta, ja)
           m1 == Merged(NoTerms, One, a, ja)
           t2 == MergedTruth(t1, One, tb, jb)
           t  == MergedTruth(ta, ja, tb, jb)
           P  == DOMAIN ta \cup DOMAIN tb
<1>1. One \in Fractions /\ Zero \in Fractions
  BY ZeroAndOne
<1>2. DOMAIN NoTerms = {} /\ Accounts(src, NoTerms, NoTerms)
  BY NothingNamed DEF NoTerms
<1>3. Accounts(src, m1, t1)
  <2>1. Distinct(src, DOMAIN NoTerms \cup DOMAIN ta)
    BY <1>2 DEF Distinct
  <2> QED
    BY <1>1, <1>2, <2>1, MergedNames
<1>4. ASSUME NEW p PROVE TrueSens(t1, p) = Times(ja, TrueSens(ta, p))
  <2>1. TrueSens(ta, p) \in Fractions
    BY TrueSensIsFraction
  <2> DEFINE s == TrueSens(ta, p)
             x == MergedTrueSens(NoTerms, One, ta, ja, p)
  <2>2. s \in Fractions /\ Times(ja, s) \in Fractions
    BY <2>1, Denominators, OperationsAreFractions
  <2>3. x = Times(ja, s)
    <3>1. TrueSens(NoTerms, p) = Zero
      BY <1>2 DEF TrueSens
    <3>2. x = Plus(Times(One, Zero), Times(ja, s))
      BY <3>1 DEF MergedTrueSens
    <3> HIDE DEF x, s
    <3> QED
      BY <1>1, <2>2, <3>2, Neutral
  <2>4. DOMAIN t1 = {q \in DOMAIN NoTerms \cup DOMAIN ta : MergedTrueSens(NoTerms, One, ta, ja, q) # Zero}
        /\ \A q \in DOMAIN t1 : t1[q] = MergedTrueSens(NoTerms, One, ta, ja, q)
    BY MergedTruths DEF TruthMergesTo
  <2>5. CASE p \in DOMAIN t1
    BY <2>3, <2>4, <2>5 DEF TrueSens
  <2>6. CASE p \in DOMAIN ta /\ p \notin DOMAIN t1
    BY <1>2, <2>3, <2>4, <2>6 DEF TrueSens
  <2>7. CASE p \notin DOMAIN ta /\ p \notin DOMAIN t1
    BY <2>7, Neutral DEF TrueSens
  <2> QED
    BY <2>5, <2>6, <2>7
<1>5. DOMAIN t1 \subseteq DOMAIN ta
  <2>1. TruthMergesTo(t1, NoTerms, One, ta, ja)
    BY MergedTruths
  <2> HIDE DEF t1
  <2> QED
    BY <1>2, <2>1 DEF TruthMergesTo
<1>6. ASSUME NEW p PROVE MergedTrueSens(t1, One, tb, jb, p) = MergedTrueSens(ta, ja, tb, jb, p)
  <2> DEFINE x == Times(ja, TrueSens(ta, p))
             y == Times(jb, TrueSens(tb, p))
  <2>1. x \in Fractions
    BY TrueSensIsFraction, Denominators, OperationsAreFractions
  <2>2. TrueSens(t1, p) = x
    BY <1>4
  <2>3. /\ MergedTrueSens(t1, One, tb, jb, p) = Plus(Times(One, x), y)
        /\ MergedTrueSens(ta, ja, tb, jb, p) = Plus(x, y)
    BY <2>2 DEF MergedTrueSens
  <2> HIDE DEF x, y
  <2>4. Times(One, x) = x
    BY <2>1, Neutral
  <2> QED
    BY <2>3, <2>4
<1>7. ASSUME NEW p \in P, p \notin DOMAIN t1 \cup DOMAIN tb PROVE MergedTrueSens(ta, ja, tb, jb, p) = Zero
  <2>1. TrueSens(t1, p) = Zero /\ TrueSens(tb, p) = Zero
    BY <1>7 DEF TrueSens
  <2>2. MergedTrueSens(t1, One, tb, jb, p) = Plus(Times(One, Zero), Times(jb, Zero))
    BY <2>1 DEF MergedTrueSens
  <2> QED
    BY <1>1, <1>6, <2>2, Neutral
<1>8. Accounts(src, Merged(m1, One, b, jb), t2)
  <2>1. Distinct(src, DOMAIN t1 \cup DOMAIN tb)
    BY <1>5 DEF Distinct
  <2> HIDE DEF m1, t1
  <2> QED
    BY <1>1, <1>3, <2>1, MergedNames
<1>9. /\ DOMAIN t2 = {p \in DOMAIN t1 \cup DOMAIN tb : MergedTrueSens(t1, One, tb, jb, p) # Zero}
      /\ \A p \in DOMAIN t2 : t2[p] = MergedTrueSens(t1, One, tb, jb, p)
  <2> HIDE DEF t1
  <2> QED
    BY MergedTruths DEF TruthMergesTo
<1>10. /\ DOMAIN t = {p \in P : MergedTrueSens(ta, ja, tb, jb, p) # Zero}
       /\ \A p \in DOMAIN t : t[p] = MergedTrueSens(ta, ja, tb, jb, p)
  BY MergedTruths DEF TruthMergesTo
<1> HIDE DEF t1, t2, t, m1
<1>11. DOMAIN t = DOMAIN t2 /\ \A p \in DOMAIN t2 : t[p] = t2[p]
  BY <1>5, <1>6, <1>7, <1>9, <1>10
<1>12. Accounts(src, Merged(m1, One, b, jb), t)
  BY <1>8, <1>11, SameTruthNames
<1> QED
  BY <1>12 DEF m1, t

LEMMA ScaledIsMerged ==
  ASSUME NEW a, \A i \in DOMAIN a : "sens" \in DOMAIN a[i] /\ a[i].sens \in Fractions, NEW j \in Fractions
  PROVE  ScaledTerms(a, j) = Merged(a, j, NoTerms, Zero)
<1>1. DOMAIN NoTerms = {}
  BY DEF NoTerms
<1>2. ASSUME NEW i \in DOMAIN a PROVE a[i].sens \in Fractions /\ "sens" \in DOMAIN a[i]
  OBVIOUS
<1>3. ASSUME NEW i \in DOMAIN a
      PROVE  Plus(Times(j, SensOf(a, i)), Times(Zero, SensOf(NoTerms, i))) = Times(j, a[i].sens)
  <2>1. SensOf(a, i) = a[i].sens /\ SensOf(NoTerms, i) = Zero
    BY <1>1 DEF SensOf
  <2>2. Times(Zero, Zero) = Zero /\ Times(j, a[i].sens) \in Fractions
    BY <1>2, ZeroAndOne, Neutral, Denominators, OperationsAreFractions
  <2> QED
    BY <2>1, <2>2, Neutral
<1> DEFINE x == [i \in DOMAIN a |-> [a[i] EXCEPT !.sens = Times(j, @)]]
           y == [i \in DOMAIN a \cup DOMAIN NoTerms |->
                  [(IF i \in DOMAIN a THEN a[i] ELSE NoTerms[i]) EXCEPT
                     !.sens = Plus(Times(j, SensOf(a, i)), Times(Zero, SensOf(NoTerms, i)))]]
<1>4. x = y
  <2>1. DOMAIN a \cup DOMAIN NoTerms = DOMAIN a
    BY <1>1
  <2>2. \A i \in DOMAIN a : [a[i] EXCEPT !.sens = Times(j, @)] =
          [(IF i \in DOMAIN a THEN a[i] ELSE NoTerms[i]) EXCEPT
             !.sens = Plus(Times(j, SensOf(a, i)), Times(Zero, SensOf(NoTerms, i)))]
    BY <1>3
  <2> QED
    BY <2>1, <2>2
<1>5. ScaledTerms(a, j) = Live(x) /\ Merged(a, j, NoTerms, Zero) = Live(y)
  BY DEF ScaledTerms, Merged
<1> HIDE DEF x, y
<1> QED
  BY <1>4, <1>5

LEMMA ScaledNames ==
  ASSUME NEW src, NEW a, NEW ta, Accounts(src, a, ta), Distinct(src, DOMAIN ta), NEW j \in Fractions
  PROVE  Accounts(src, ScaledTerms(a, j), MergedTruth(ta, j, NoTerms, Zero))
<1>1. DOMAIN NoTerms = {} /\ Accounts(src, NoTerms, NoTerms) /\ Distinct(src, DOMAIN ta \cup DOMAIN NoTerms)
  BY NothingNamed DEF NoTerms
<1>2. Accounts(src, Merged(a, j, NoTerms, Zero), MergedTruth(ta, j, NoTerms, Zero))
  BY <1>1, ZeroAndOne, MergedNames
<1>3. ScaledTerms(a, j) = Merged(a, j, NoTerms, Zero)
  <2>1. ASSUME NEW i \in DOMAIN a PROVE "sens" \in DOMAIN a[i] /\ a[i].sens \in Fractions
    <3>1. PICK p \in DOMAIN ta : i = src[p].id
      BY DEF Accounts
    <3>2. ta[p] \in Fractions /\ a[i] = Term(ta[p], src[p].var, src[p].third)
      BY <3>1 DEF Accounts
    <3>3. \A s, v, u : "sens" \in DOMAIN Term(s, v, u)
      BY DEF Term
    <3> QED
      BY <3>2, <3>3, TermFields
  <2> QED
    BY <2>1, ScaledIsMerged
<1> QED
  BY <1>2, <1>3

-----------------------------------------------------------------------------
(* What is exact has no terms.                                             *)
LEMMA TotalIsPositive ==
  ASSUME NEW S, IsFiniteSet(S), S # {}, NEW f, \A x \in S : Positive(f[x])
  PROVE  Positive(Total(S, f))
<1> DEFINE F == {r \in SUBSET S : r # {} /\ ~ Positive(Total(r, f))}
<1>1. SUFFICES ASSUME F # {} PROVE FALSE
  OBVIOUS
<1>2. PICK r \in F : \A u \in F : u \subseteq r => u = r
  <2> HIDE DEF F
  <2>1. F \subseteq SUBSET S
    BY DEF F
  <2> QED
    BY <1>1, <2>1, Smallest
<1>3. IsFiniteSet(r) /\ r # {}
  BY FS_Subset
<1> DEFINE x == Some(r)
<1>4. x \in r /\ Total(r, f) = Plus(f[x], Total(r \ {x}, f))
  BY <1>3, SumByChoice DEF Some
<1> HIDE DEF x
<1>5. Positive(f[x]) /\ f[x] \in Fractions
  BY <1>4 DEF Positive
<1>6. CASE r \ {x} = {}
  <2>1. Total(r \ {x}, f) = Zero
    BY <1>6, FS_EmptySet, SumByChoice
  <2>2. Plus(f[x], Zero) = f[x]
    BY <1>5, Neutral
  <2> QED
    BY <1>2, <1>4, <1>5, <2>1, <2>2
<1>7. CASE r \ {x} # {}
  <2>1. Positive(Total(r \ {x}, f))
    <3>1. r \ {x} \in SUBSET S /\ r \ {x} \subseteq r /\ r \ {x} # r
      BY <1>4
    <3> QED
      BY <1>2, <1>7, <3>1
  <2> QED
    BY <1>2, <1>4, <1>5, <2>1, PositiveTimes
<1> QED
  BY <1>6, <1>7

LEMMA PositiveIsNotZero == ~ Positive(Zero)
BY DEF Positive, Zero

Finite(src) == IsFiniteSet(DOMAIN src)
Varying(src) == \A p \in DOMAIN src : Positive(src[p].var)

LEMMA NamedFinite ==
  ASSUME NEW src, NEW a, NEW ta, Accounts(src, a, ta), Finite(src)
  PROVE  IsFiniteSet(DOMAIN ta) /\ IsFiniteSet(DOMAIN a)
<1>1. IsFiniteSet(DOMAIN ta)
  BY FS_Subset DEF Accounts, Finite
<1>2. IsFiniteSet({src[p].id : p \in DOMAIN ta})
  <2> DEFINE ids == {src[p].id : p \in DOMAIN ta}
             f == [p \in DOMAIN ta |-> src[p].id]
  <2>1. f \in Surjection(DOMAIN ta, ids)
    BY DEF Surjection
  <2> HIDE DEF f, ids
  <2>2. IsFiniteSet(ids)
    BY <1>1, <2>1, FS_Surjection
  <2> QED
    BY <2>2 DEF ids
<1> QED
  BY <1>1, <1>2 DEF Accounts

LEMMA ExactHasNoTruth ==
  ASSUME NEW src, NEW v, NEW t, Accounts(src, v.terms, t), Finite(src), Varying(src), IsExact(v)
  PROVE  DOMAIN t = {} /\ Accounts(src, NoTerms, t)
<1> DEFINE a == v.terms
           f == [i \in DOMAIN a |-> Times(Square(a[i].sens), a[i].var)]
<1>1. SUFFICES ASSUME DOMAIN t # {} PROVE FALSE
  BY NothingNamed
<1>2. Total(DOMAIN a, f) = Zero
  <2>1. DOMAIN f = DOMAIN a
    OBVIOUS
  <2>2. Variance(a) = SumOver(f)
    BY DEF Variance
  <2> HIDE DEF f
  <2> QED
    BY <2>1, <2>2 DEF IsExact, SumOver, FoldFunction, Total
<1>3. IsFiniteSet(DOMAIN a) /\ DOMAIN a # {}
  <2>1. IsFiniteSet(DOMAIN a)
    BY NamedFinite
  <2> QED
    BY <1>1, <2>1 DEF Accounts
<1>4. ASSUME NEW i \in DOMAIN a PROVE Positive(f[i])
  <2>1. PICK p \in DOMAIN t : i = src[p].id
    BY DEF Accounts
  <2>2. t[p] \in Fractions /\ t[p] # Zero /\ a[i] = Term(t[p], src[p].var, src[p].third) /\ Positive(src[p].var)
    BY <2>1 DEF Accounts, Varying
  <2>3. a[i].sens = t[p] /\ a[i].var = src[p].var
    BY <2>2, TermFields
  <2>4. f[i] = Times(Times(t[p], t[p]), src[p].var)
    BY <2>3 DEF Square
  <2> HIDE DEF f
  <2> QED
    BY <2>2, <2>4, SquaresArePositive, PositiveTimes
<1> HIDE DEF f
<1>5. Positive(Total(DOMAIN a, f))
  BY <1>3, <1>4, TotalIsPositive
<1> QED
  BY <1>2, <1>5, PositiveIsNotZero

-----------------------------------------------------------------------------
(***************************************************************************)
(* What an operation on two linked values makes, where the models promise  *)
(* to keep the provenance: the terms of what it truly depends on.          *)
(***************************************************************************)
Tells(src, made, t) == made = Unsupported \/ Accounts(src, made.value.terms, t)

LEMMA LineageTells ==
  ASSUME NEW src, NEW terms, NEW t, Accounts(src, terms, t),
         NEW model, NEW boxed, NEW shape, NEW mean, NEW next, NEW drawn
  PROVE  Tells(src, Made(Value(model, boxed, shape, mean, terms), next, drawn), t)
BY DEF Tells, Made, Value

LEMMA GaussianTells ==
  ASSUME ~ Uncorrelated, NEW src, NEW a, NEW b, NEW ta, NEW tb, NEW d, d.ja \in Fractions, d.jb \in Fractions,
         Accounts(src, a.terms, ta), Accounts(src, b.terms, tb), Distinct(src, DOMAIN ta \cup DOMAIN tb), NEW next
  PROVE  Tells(src, PropagateGaussian(a, b, d, next), MergedTruth(ta, d.ja, tb, d.jb))
<1> DEFINE l == CombineLineage(a.terms, d.ja, b.terms, d.jb, next)
           m == Merged(a.terms, d.ja, b.terms, d.jb)
<1>1. PropagateGaussian(a, b, d, next) = Made(Value("gaussian", None, None, d.mean, l.terms), l.next, draws)
  BY DEF PropagateGaussian
<1>2. l.terms = m
  BY DEF CombineLineage, With
<1>3. Accounts(src, m, MergedTruth(ta, d.ja, tb, d.jb))
  BY MergedNames
<1> HIDE DEF l, m
<1> QED
  BY <1>1, <1>2, <1>3, LineageTells

LEMMA UnscentedTells ==
  ASSUME ~ Uncorrelated, NEW src, NEW a, NEW b, NEW ta, NEW tb, NEW d, d.ja \in Fractions, d.jb \in Fractions,
         Accounts(src, a.terms, ta), Accounts(src, b.terms, tb), Distinct(src, DOMAIN ta \cup DOMAIN tb), NEW next,
         Finite(src), Varying(src), Is(b, {"gaussian", "unscented"}) \/ IsExact(b)
  PROVE  Tells(src, PropagateUnscented(a, b, d, next), MergedTruth(ta, d.ja, tb, d.jb))
<1> DEFINE other == LineageOf(b, next)
           l == CombineLineage(a.terms, d.ja, other.terms, d.jb, other.next)
           m == Merged(a.terms, d.ja, other.terms, d.jb)
<1>1. PropagateUnscented(a, b, d, next) = Made(Value("unscented", None, None, d.mean, l.terms), l.next, draws)
  BY DEF PropagateUnscented
<1>2. l.terms = m
  BY DEF CombineLineage, With
<1>3. Accounts(src, other.terms, tb)
  <2>1. CASE Is(b, {"gaussian", "unscented"})
    BY <2>1 DEF LineageOf, With
  <2>2. CASE ~ Is(b, {"gaussian", "unscented"})
    <3>1. other.terms = NoTerms
      BY <2>2 DEF LineageOf, MeasuredLineage, With, IsExact
    <3> QED
      BY <2>2, <3>1, ExactHasNoTruth
  <2> QED
    BY <2>1, <2>2
<1> HIDE DEF other
<1>4. Accounts(src, m, MergedTruth(ta, d.ja, tb, d.jb))
  BY <1>3, MergedNames
<1> HIDE DEF l, m
<1> QED
  BY <1>1, <1>2, <1>4, LineageTells

LEMMA FoldingNames ==
  ASSUME ~ Uncorrelated, NEW src, NEW a, NEW b, NEW ta, NEW tb, NEW ja \in Fractions, NEW jb \in Fractions,
         Accounts(src, a, ta), Accounts(src, b, tb), Distinct(src, DOMAIN ta \cup DOMAIN tb), NEW next
  PROVE  Accounts(src, FoldMoments(a, ja, b, jb, next).terms, MergedTruth(ta, ja, tb, jb))
<1>1. FoldMoments(a, ja, b, jb, next).terms = Merged(Merged(NoTerms, One, a, ja), One, b, jb)
  BY DEF FoldMoments, CombineMoments, With
<1> QED
  BY <1>1, FoldedNames

LEMMA MomentsTell ==
  ASSUME ~ Uncorrelated, NEW src, NEW a, NEW b, NEW ta, NEW tb, NEW d, d.ja \in Fractions, d.jb \in Fractions,
         Accounts(src, a.terms, ta), Accounts(src, b.terms, tb), Distinct(src, DOMAIN ta \cup DOMAIN tb), NEW next
  PROVE  Tells(src, PropagateMoments(a, b, d, next), MergedTruth(ta, d.ja, tb, d.jb))
<1> DEFINE l == FoldMoments(a.terms, d.ja, b.terms, d.jb, next)
<1>1. \/ PropagateMoments(a, b, d, next) = Made(Value("moments", None, a.shape, d.mean, l.terms), l.next, draws)
      \/ PropagateMoments(a, b, d, next) = Unsupported
  BY DEF PropagateMoments
<1>2. Accounts(src, l.terms, MergedTruth(ta, d.ja, tb, d.jb))
  BY FoldingNames
<1> HIDE DEF l
<1>3. Tells(src, Made(Value("moments", None, a.shape, d.mean, l.terms), l.next, draws), MergedTruth(ta, d.ja, tb, d.jb))
  BY <1>2, LineageTells
<1> QED
  BY <1>1, <1>3 DEF Tells

LEMMA SamplesTell ==
  ASSUME ~ Uncorrelated, NEW src, NEW a, NEW b, NEW ta, NEW tb, NEW d, d.ja \in Fractions, d.jb \in Fractions,
         Accounts(src, a.terms, ta), Accounts(src, b.terms, tb), Distinct(src, DOMAIN ta \cup DOMAIN tb), NEW next,
         Finite(src), Varying(src), SharesSamples(a, b) \/ IsExact(b)
  PROVE  Tells(src, PropagateSamples(a, b, d, next), MergedTruth(ta, d.ja, tb, d.jb))
<1> DEFINE other == IF SharesSamples(a, b) THEN b.terms ELSE NoTerms
           m == Merged(a.terms, d.ja, other, d.jb)
<1>1. PropagateSamples(a, b, d, next) = Made(Value("monte_carlo", None, a.shape, d.mean, m), next, draws)
  BY DEF PropagateSamples
<1>2. Accounts(src, other, tb)
  BY ExactHasNoTruth
<1> HIDE DEF other
<1>3. Accounts(src, m, MergedTruth(ta, d.ja, tb, d.jb))
  BY <1>2, MergedNames
<1> HIDE DEF m
<1> QED
  BY <1>1, <1>3, LineageTells

LEMMA BoxedTell ==
  ASSUME ~ Uncorrelated, NEW src, NEW a, NEW b, NEW ta, NEW tb, NEW d, d.ja \in Fractions, d.jb \in Fractions,
         Accounts(src, a.terms, ta), Accounts(src, b.terms, tb), Distinct(src, DOMAIN ta \cup DOMAIN tb), NEW next,
         Finite(src), Varying(src), Box(a) = "moments", IsExact(b)
  PROVE  Tells(src, PropagateBoxed(a, b, d, next), MergedTruth(ta, d.ja, tb, d.jb))
<1> DEFINE other == MeasuredMoments(next, Variance(b.terms), Zero)
           l == FoldMoments(a.terms, d.ja, other.terms, d.jb, other.next)
<1>1. PropagateBoxed(a, b, d, next) = Made(Value("custom", "moments", a.shape, d.mean, l.terms), l.next, draws)
  BY DEF PropagateBoxed, BoxedMoments, Boxed
<1>2. Accounts(src, other.terms, tb)
  <2>1. other.terms = NoTerms
    BY DEF MeasuredMoments, With, IsExact
  <2> QED
    BY <2>1, ExactHasNoTruth
<1> HIDE DEF other
<1>3. Accounts(src, l.terms, MergedTruth(ta, d.ja, tb, d.jb))
  BY <1>2, FoldingNames
<1> HIDE DEF l
<1> QED
  BY <1>1, <1>3, LineageTells

LEMMA DispatchTells ==
  ASSUME NEW src, NEW a, NEW b, NEW ta, NEW tb, NEW d, d.ja \in Fractions, d.jb \in Fractions,
         Accounts(src, a.terms, ta), Accounts(src, b.terms, tb), Distinct(src, DOMAIN ta \cup DOMAIN tb), NEW next,
         Finite(src), Varying(src), Relates(a, b)
  PROVE  Tells(src, Dispatch(a, b, d, next), MergedTruth(ta, d.ja, tb, d.jb))
<1> DEFINE t == MergedTruth(ta, d.ja, tb, d.jb)
<1>1. ~ Uncorrelated
  BY DEF Relates
<1>2. CASE Is(a, {"moments"}) /\ Is(b, {"moments"})
  <2>1. Dispatch(a, b, d, next) = PropagateMoments(a, b, d, next)
    BY <1>2 DEF Dispatch, Is
  <2> QED
    BY <1>1, <2>1, MomentsTell
<1>3. CASE ~ Is(a, {"moments"}) /\ Is(b, {"moments"})
  BY <1>3 DEF Dispatch, Tells, Is
<1>4. CASE Is(a, {"gaussian"}) /\ Is(b, {"gaussian"})
  <2>1. Dispatch(a, b, d, next) = PropagateGaussian(a, b, d, next)
    BY <1>4 DEF Dispatch, Is
  <2> QED
    BY <1>1, <2>1, GaussianTells
<1>5. CASE Is(a, {"monte_carlo"}) /\ ~ Is(b, {"moments"})
  <2>1. Dispatch(a, b, d, next) = PropagateSamples(a, b, d, next)
    BY <1>5 DEF Dispatch, Is
  <2>2. SharesSamples(a, b) \/ IsExact(b)
    BY <1>5 DEF Relates, Is, Box
  <2> QED
    BY <1>1, <2>1, <2>2, SamplesTell
<1>6. CASE Is(a, {"unscented"}) /\ ~ Is(b, {"moments"})
  <2>1. Dispatch(a, b, d, next) = PropagateUnscented(a, b, d, next)
    BY <1>6 DEF Dispatch, Is
  <2>2. Is(b, {"gaussian", "unscented"}) \/ IsExact(b)
    BY <1>6 DEF Relates, Is, Box
  <2> QED
    BY <1>1, <2>1, <2>2, UnscentedTells
<1>7. CASE /\ ~ Is(b, {"moments"}) /\ ~ (Is(a, {"gaussian"}) /\ Is(b, {"gaussian"}))
           /\ ~ Is(a, {"monte_carlo"}) /\ ~ Is(a, {"unscented"})
  <2> DEFINE x == Lifted(a, b)
  <2>1. CASE IsLifted(a, b)
    <3>1. x.terms = NoTerms /\ x.shape = b.shape /\ x.model = b.model
      BY DEF Lifted, Value
    <3>2. IsExact(a)
      BY <2>1 DEF IsLifted
    <3> HIDE DEF x
    <3>3. Accounts(src, x.terms, ta)
      BY <3>1, <3>2, ExactHasNoTruth
    <3>4. CASE Is(b, {"monte_carlo"})
      <4>1. Dispatch(a, b, d, next) = PropagateSamples(x, b, d, next)
        BY <1>7, <2>1, <3>4 DEF Dispatch, Is, x
      <4>2. SharesSamples(x, b)
        BY <1>1, <3>1, <3>4 DEF SharesSamples, Is
      <4> QED
        BY <1>1, <3>3, <4>1, <4>2, SamplesTell
    <3>5. CASE Is(b, {"unscented"})
      <4>1. Dispatch(a, b, d, next) = PropagateUnscented(x, b, d, next)
        BY <1>7, <2>1, <3>5 DEF Dispatch, Is, x
      <4>2. Is(b, {"gaussian", "unscented"})
        BY <3>5 DEF Is
      <4> QED
        BY <1>1, <3>3, <4>1, <4>2, UnscentedTells
    <3> QED
      BY <2>1, <3>4, <3>5 DEF IsLifted, Is
  <2>2. CASE ~ IsLifted(a, b)
    <3>1. Dispatch(a, b, d, next) = PropagateBoxed(a, b, d, next)
      BY <1>7, <2>2 DEF Dispatch, Is
    <3>2. Box(a) = "moments" /\ IsExact(b)
      BY <1>7, <2>2 DEF Relates, Is, IsLifted
    <3> QED
      BY <1>1, <3>1, <3>2, BoxedTell
  <2> QED
    BY <2>1, <2>2
<1> QED
  BY <1>2, <1>3, <1>4, <1>5, <1>6, <1>7

-----------------------------------------------------------------------------
(***************************************************************************)
(* What a spread is: sums that are scaled, put together and renamed.       *)
(***************************************************************************)
LEMMA FractionsClosed ==
  ASSUME NEW a \in Fractions, NEW b \in Fractions
  PROVE  Plus(a, b) \in Fractions /\ Times(a, b) \in Fractions /\ Square(a) \in Fractions /\ Cube(a) \in Fractions
<1>1. \A x, y \in Fractions : Plus(x, y) \in Fractions /\ Times(x, y) \in Fractions
  BY Denominators, OperationsAreFractions
<1> QED
  BY <1>1 DEF Square, Cube

LEMMA SquareOfProduct ==
  ASSUME NEW j \in Fractions, NEW s \in Fractions
  PROVE  Square(Times(j, s)) = Times(Square(j), Square(s)) /\ Cube(Times(j, s)) = Times(Cube(j), Cube(s))
<1>1. \A x, y \in Fractions : Times(x, y) \in Fractions
  BY FractionsClosed
<1>2. \A x, y, z \in Fractions : Times(x, Times(y, z)) = Times(Times(x, y), z)
  BY TimesAssociates
<1>3. \A x, y \in Fractions : Times(x, y) = Times(y, x)
  BY TimesCommutes
<1>4. ASSUME NEW x \in Fractions, NEW y \in Fractions, NEW z \in Fractions, NEW w \in Fractions
      PROVE  Times(Times(x, y), Times(z, w)) = Times(Times(x, z), Times(y, w))
  <2>1. Times(Times(x, y), Times(z, w)) = Times(x, Times(y, Times(z, w)))
    BY <1>1, <1>2
  <2>2. Times(y, Times(z, w)) = Times(z, Times(y, w))
    <3>1. Times(y, Times(z, w)) = Times(Times(y, z), w) /\ Times(z, Times(y, w)) = Times(Times(z, y), w)
      BY <1>2
    <3> QED
      BY <1>3, <3>1
  <2>3. Times(x, Times(z, Times(y, w))) = Times(Times(x, z), Times(y, w))
    BY <1>1, <1>2
  <2> QED
    BY <2>1, <2>2, <2>3
<1>5. Square(Times(j, s)) = Times(Square(j), Square(s))
  BY <1>4 DEF Square
<1>6. Times(Times(j, s), Times(Square(j), Square(s))) = Times(Times(j, Square(j)), Times(s, Square(s)))
  <2>1. Square(j) \in Fractions /\ Square(s) \in Fractions
    BY FractionsClosed
  <2> QED
    BY <1>4, <2>1
<1> QED
  BY <1>5, <1>6 DEF Cube

LEMMA ProductNotNothing ==
  ASSUME NEW a \in Fractions, NEW b \in Fractions, a # Zero, b # Zero
  PROVE  Times(a, b) # Zero
<1> DEFINE n == a[1] * b[1]
           d == a[2] * b[2]
<1>1. a[1] \in Int /\ a[1] # 0 /\ b[1] \in Int /\ b[1] # 0 /\ d \in Int /\ d # 0
  BY Denominators, ZeroIsNothing
<1>2. n \in Int /\ n # 0
  BY <1>1, ProductNotZero
<1>3. Times(a, b) = Frac(n, d)
  BY DEF Times
<1> HIDE DEF n, d
<1>4. PICK g \in Nat \ {0}, u \in Int, v \in Int : Reduces(g, u, v, n, d)
  BY <1>1, <1>2, FracReduces
<1>5. n = g * u /\ Frac(n, d) = IF d < 0 THEN <<-u, -v>> ELSE <<u, v>>
  BY <1>4 DEF Reduces
<1>6. u # 0
  <2>1. g * 0 = 0
    OBVIOUS
  <2> QED
    BY <1>2, <1>5, <2>1
<1> QED
  BY <1>3, <1>5, <1>6 DEF Zero

LEMMA TotalIsFraction ==
  ASSUME NEW S, IsFiniteSet(S), NEW f, \A x \in S : f[x] \in Fractions
  PROVE  Total(S, f) \in Fractions
BY SumIsFraction

LEMMA TotalOfNothing == ASSUME NEW f PROVE Total({}, f) = Zero
BY FS_EmptySet, SumByChoice

LEMMA TotalsAgree ==
  ASSUME NEW S, IsFiniteSet(S), NEW f, NEW g, \A x \in S : f[x] = g[x] /\ g[x] \in Fractions
  PROVE  Total(S, f) = Total(S, g)
<1> DEFINE h == [x \in S |-> x]
<1>1. /\ \A x \in S : h[x] \in S /\ g[h[x]] = f[x]
      /\ \A x, y \in S : h[x] = h[y] => x = y
      /\ \A t \in S : (\A x \in S : h[x] # t) => g[t] = Zero
      /\ \A t \in S : g[t] \in Fractions
  OBVIOUS
<1> HIDE DEF h
<1> QED
  BY <1>1, SumByTerms

LEMMA TotalScaled ==
  ASSUME NEW S, IsFiniteSet(S), NEW f, \A x \in S : f[x] \in Fractions, NEW c \in Fractions
  PROVE  Total(S, [x \in S |-> Times(c, f[x])]) = Times(c, Total(S, f))
<1> DEFINE g == [x \in S |-> Times(c, f[x])]
           F == {r \in SUBSET S : Total(r, g) # Times(c, Total(r, f))}
<1>1. SUFFICES ASSUME F # {} PROVE FALSE
  OBVIOUS
<1>2. PICK r \in F : \A u \in F : u \subseteq r => u = r
  <2> HIDE DEF F
  <2>1. F \subseteq SUBSET S
    BY DEF F
  <2> QED
    BY <1>1, <2>1, Smallest
<1>3. IsFiniteSet(r)
  BY FS_Subset
<1>4. r # {}
  <2>1. Times(c, Zero) = Zero
    BY Neutral
  <2> HIDE DEF g
  <2> QED
    BY <1>2, <2>1, TotalOfNothing
<1> DEFINE x == Some(r)
<1>5. x \in r
  BY <1>4 DEF Some
<1>6. Total(r, f) = Plus(f[x], Total(r \ {x}, f)) /\ Total(r, g) = Plus(g[x], Total(r \ {x}, g))
  <2> HIDE DEF g
  <2> QED
    BY <1>3, <1>4, SumByChoice
<1> HIDE DEF x
<1>7. g[x] = Times(c, f[x]) /\ f[x] \in Fractions
  BY <1>5
<1>8. Total(r \ {x}, g) = Times(c, Total(r \ {x}, f)) /\ Total(r \ {x}, f) \in Fractions
  <2>1. r \ {x} \in SUBSET S /\ r \ {x} \notin F /\ IsFiniteSet(r \ {x})
    BY <1>2, <1>3, <1>5, FS_Subset
  <2>2. Total(r \ {x}, f) \in Fractions
    BY <2>1, TotalIsFraction
  <2> QED
    BY <2>1, <2>2
<1> HIDE DEF g
<1>9. Times(c, Plus(f[x], Total(r \ {x}, f))) = Plus(Times(c, f[x]), Times(c, Total(r \ {x}, f)))
  BY <1>7, <1>8, Distributes
<1>10. Total(r, g) = Times(c, Total(r, f))
  BY <1>6, <1>7, <1>8, <1>9
<1> QED
  BY <1>2, <1>10

LEMMA TotalOfBoth ==
  ASSUME NEW S, NEW T, IsFiniteSet(S), IsFiniteSet(T), S \cap T = {}, NEW f, \A x \in S \cup T : f[x] \in Fractions
  PROVE  Total(S \cup T, f) = Plus(Total(S, f), Total(T, f))
<1> DEFINE F == {r \in SUBSET S : Total(r \cup T, f) # Plus(Total(r, f), Total(T, f))}
<1>1. SUFFICES ASSUME F # {} PROVE FALSE
  OBVIOUS
<1>2. PICK r \in F : \A u \in F : u \subseteq r => u = r
  <2> HIDE DEF F
  <2>1. F \subseteq SUBSET S
    BY DEF F
  <2> QED
    BY <1>1, <2>1, Smallest
<1>3. IsFiniteSet(r) /\ IsFiniteSet(r \cup T)
  BY FS_Subset, FS_Union
<1>4. Total(T, f) \in Fractions
  BY TotalIsFraction
<1>5. r # {}
  <2>1. Plus(Zero, Total(T, f)) = Total(T, f) /\ {} \cup T = T
    BY <1>4, Neutral
  <2> QED
    BY <1>2, <2>1, TotalOfNothing
<1> DEFINE x == Some(r)
           u == r \ {x}
<1>6. x \in r /\ x \notin T
  BY <1>5 DEF Some
<1> HIDE DEF x
<1>7. (r \cup T) \ {x} = u \cup T /\ f[x] \in Fractions
  BY <1>6
<1>8. Total(r \cup T, f) = Plus(f[x], Total(u \cup T, f)) /\ Total(r, f) = Plus(f[x], Total(u, f))
  <2>1. x \in r \cup T /\ \A y \in r \cup T : f[y] \in Fractions
    BY <1>6
  <2>2. Total(r \cup T, f) = Plus(f[x], Total((r \cup T) \ {x}, f))
    BY <1>3, <2>1, SumBySplitting
  <2>3. Total(r, f) = Plus(f[x], Total(r \ {x}, f))
    BY <1>3, <1>6, <2>1, SumBySplitting
  <2> QED
    BY <1>7, <2>2, <2>3
<1>9. Total(u \cup T, f) = Plus(Total(u, f), Total(T, f)) /\ Total(u, f) \in Fractions
  <2>1. u \in SUBSET S /\ u \notin F /\ IsFiniteSet(u)
    BY <1>2, <1>3, <1>6, FS_Subset
  <2>2. Total(u, f) \in Fractions
    BY <2>1, TotalIsFraction
  <2> QED
    BY <2>1, <2>2
<1>10. Plus(f[x], Plus(Total(u, f), Total(T, f))) = Plus(Plus(f[x], Total(u, f)), Total(T, f))
  BY <1>4, <1>7, <1>9, PlusAssociates
<1> QED
  BY <1>2, <1>8, <1>9, <1>10

(* A sum of which one part is scaled by c, the other by e, and terms that  *)
(* come to nothing are left out.                                           *)
LEMMA TotalOfParts ==
  ASSUME NEW S, NEW T, IsFiniteSet(S), IsFiniteSet(T), S \cap T = {},
         NEW c \in Fractions, NEW e \in Fractions,
         NEW f, \A x \in S : f[x] \in Fractions, NEW g, \A x \in T : g[x] \in Fractions,
         NEW U, U \subseteq S \cup T, NEW h,
         \A x \in S : IF x \in U THEN h[x] = Times(c, f[x]) ELSE Times(c, f[x]) = Zero,
         \A x \in T : IF x \in U THEN h[x] = Times(e, g[x]) ELSE Times(e, g[x]) = Zero
  PROVE  Total(U, h) = Plus(Times(c, Total(S, f)), Times(e, Total(T, g)))
<1> DEFINE k == [x \in S \cup T |-> IF x \in S THEN Times(c, f[x]) ELSE Times(e, g[x])]
           cf == [x \in S |-> Times(c, f[x])]
           eg == [x \in T |-> Times(e, g[x])]
           id == [x \in U |-> x]
<1>1. IsFiniteSet(S \cup T) /\ IsFiniteSet(U)
  BY FS_Union, FS_Subset
<1>2. \A x \in S : k[x] = cf[x] /\ cf[x] = Times(c, f[x]) /\ cf[x] \in Fractions
  BY FractionsClosed
<1>3. \A x \in T : k[x] = eg[x] /\ eg[x] = Times(e, g[x]) /\ eg[x] \in Fractions
  BY FractionsClosed
<1>4. \A x \in U : id[x] = x
  OBVIOUS
<1>5. Total(S, cf) = Times(c, Total(S, f)) /\ Total(T, eg) = Times(e, Total(T, g))
  BY TotalScaled
<1> HIDE DEF k, cf, eg, id
<1>6. Total(U, h) = Total(S \cup T, k)
  <2>1. \A x \in U : id[x] \in S \cup T /\ k[id[x]] = h[x]
    BY <1>2, <1>3, <1>4
  <2>2. \A x, y \in U : id[x] = id[y] => x = y
    BY <1>4
  <2>3. \A t \in S \cup T : (\A x \in U : id[x] # t) => k[t] = Zero
    BY <1>2, <1>3, <1>4
  <2>4. \A t \in S \cup T : k[t] \in Fractions
    BY <1>2, <1>3
  <2> DEFINE X == S \cup T
  <2>5. /\ IsFiniteSet(X) /\ IsFiniteSet(U)
        /\ \A x \in U : id[x] \in X /\ k[id[x]] = h[x]
        /\ \A t \in X : (\A x \in U : id[x] # t) => k[t] = Zero
        /\ \A t \in X : k[t] \in Fractions
    BY <1>1, <2>1, <2>3, <2>4
  <2> HIDE DEF X
  <2>6. Total(U, h) = Total(X, k)
    BY ONLY <2>2, <2>5, SumByTerms
  <2> QED
    BY <2>6 DEF X
<1>7. Total(S \cup T, k) = Plus(Total(S, k), Total(T, k))
  <2>1. \A x \in S \cup T : k[x] \in Fractions
    BY <1>2, <1>3
  <2> QED
    BY <2>1, TotalOfBoth
<1>8. Total(S, k) = Total(S, cf) /\ Total(T, k) = Total(T, eg)
  BY <1>2, <1>3, TotalsAgree
<1> QED
  BY <1>5, <1>6, <1>7, <1>8

-----------------------------------------------------------------------------
(* Terms that stand for something: not nothing, and of what varies.        *)
IsTerm(x) ==
  /\ x = Term(x.sens, x.var, x.third)
  /\ x.sens \in Fractions \ {Zero} /\ Positive(x.var) /\ x.third \in Fractions
AreProper(a) == IsFiniteSet(DOMAIN a) /\ \A i \in DOMAIN a : IsTerm(a[i])

OfVariance(a) == [i \in DOMAIN a |-> Times(Square(a[i].sens), a[i].var)]
OfThird(a)    == [i \in DOMAIN a |-> Times(Cube(a[i].sens), a[i].third)]

LEMMA SpreadsAreTotals ==
  ASSUME NEW a
  PROVE  Variance(a) = Total(DOMAIN a, OfVariance(a)) /\ Third(a) = Total(DOMAIN a, OfThird(a))
<1>1. DOMAIN OfVariance(a) = DOMAIN a /\ DOMAIN OfThird(a) = DOMAIN a
  BY DEF OfVariance, OfThird
<1>2. Variance(a) = SumOver(OfVariance(a)) /\ Third(a) = SumOver(OfThird(a))
  BY DEF Variance, Third, OfVariance, OfThird
<1> QED
  BY <1>1, <1>2 DEF SumOver, FoldFunction, Total

LEMMA TermsSpread ==
  ASSUME NEW a, AreProper(a), NEW i \in DOMAIN a
  PROVE  Positive(OfVariance(a)[i]) /\ OfVariance(a)[i] \in Fractions /\ OfThird(a)[i] \in Fractions
<1>1. a[i].sens \in Fractions /\ a[i].sens # Zero /\ Positive(a[i].var) /\ a[i].third \in Fractions
  BY DEF AreProper, IsTerm
<1>2. Positive(Square(a[i].sens))
  BY <1>1, SquaresArePositive DEF Square
<1>3. Positive(Times(Square(a[i].sens), a[i].var))
  BY <1>1, <1>2, PositiveTimes
<1>4. Times(Cube(a[i].sens), a[i].third) \in Fractions
  BY <1>1, FractionsClosed
<1> QED
  BY <1>3, <1>4 DEF OfVariance, OfThird, Positive

LEMMA ProperSpread ==
  ASSUME NEW a, AreProper(a)
  PROVE  /\ Variance(a) \in Fractions /\ Third(a) \in Fractions
         /\ Variance(a) = Zero \/ Positive(Variance(a))
         /\ Variance(a) = Zero => DOMAIN a = {}
         /\ DOMAIN a = {} => Variance(a) = Zero /\ Third(a) = Zero
<1>1. IsFiniteSet(DOMAIN a)
  BY DEF AreProper
<1>2. \A i \in DOMAIN a : Positive(OfVariance(a)[i]) /\ OfVariance(a)[i] \in Fractions /\ OfThird(a)[i] \in Fractions
  BY TermsSpread
<1>3. Variance(a) \in Fractions /\ Third(a) \in Fractions
  BY <1>1, <1>2, TotalIsFraction, SpreadsAreTotals
<1>4. CASE DOMAIN a = {}
  BY <1>3, <1>4, TotalOfNothing, SpreadsAreTotals
<1>5. CASE DOMAIN a # {}
  <2>1. Positive(Variance(a))
    BY <1>1, <1>2, <1>5, TotalIsPositive, SpreadsAreTotals
  <2> QED
    BY <1>3, <1>5, <2>1, PositiveIsNotZero
<1> QED
  BY <1>4, <1>5

(* The spread of two parts that have no term in common.                    *)
Variances(a, ja, b, jb) == Plus(Times(Square(ja), Variance(a)), Times(Square(jb), Variance(b)))
Thirds(a, ja, b, jb) == Plus(Times(Cube(ja), Third(a)), Times(Cube(jb), Third(b)))
Spreads(m, a, ja, b, jb) == Variance(m) = Variances(a, ja, b, jb) /\ Third(m) = Thirds(a, ja, b, jb)
(* Where the terms of two parts end up.                                    *)
Keeps(m, a, ja, b, jb) == DOMAIN m = {i \in DOMAIN a : ja # Zero} \cup {i \in DOMAIN b : jb # Zero}

LEMMA ScaledSpread ==
  ASSUME NEW j \in Fractions, NEW s \in Fractions, NEW v \in Fractions
  PROVE  /\ Times(Square(Times(j, s)), v) = Times(Square(j), Times(Square(s), v))
         /\ Times(Cube(Times(j, s)), v) = Times(Cube(j), Times(Cube(s), v))
         /\ j = Zero => Times(Square(j), v) = Zero /\ Times(Cube(j), v) = Zero
<1>1. Square(j) \in Fractions /\ Cube(j) \in Fractions /\ Square(s) \in Fractions /\ Cube(s) \in Fractions
  BY FractionsClosed
<1>2. /\ Times(Square(j), Times(Square(s), v)) = Times(Times(Square(j), Square(s)), v)
      /\ Times(Cube(j), Times(Cube(s), v)) = Times(Times(Cube(j), Cube(s)), v)
  BY <1>1, TimesAssociates
<1>3. j = Zero => Times(Square(j), v) = Zero /\ Times(Cube(j), v) = Zero
  <2>1. Times(Zero, Zero) = Zero /\ Times(Zero, v) = Zero
    BY ZeroAndOne, Neutral
  <2> QED
    BY <2>1 DEF Square, Cube
<1> QED
  BY <1>2, <1>3, SquareOfProduct

LEMMA MergedSpreads ==
  ASSUME NEW a, NEW b, AreProper(a), AreProper(b), DOMAIN a \cap DOMAIN b = {},
         NEW ja \in Fractions, NEW jb \in Fractions
  PROVE  /\ AreProper(Merged(a, ja, b, jb))
         /\ Keeps(Merged(a, ja, b, jb), a, ja, b, jb)
         /\ Spreads(Merged(a, ja, b, jb), a, ja, b, jb)
<1> DEFINE m == Merged(a, ja, b, jb)
           A == DOMAIN a
           B == DOMAIN b
<1>1. MergesTo(m, a, ja, b, jb)
  <2>1. AreTerms(a) /\ AreTerms(b)
    BY DEF AreProper, IsTerm, AreTerms
  <2> QED
    BY <2>1, MergedTerms
<1> HIDE DEF m
<1>2. ASSUME NEW i \in A
      PROVE  /\ a[i].sens \in Fractions /\ a[i].sens # Zero
             /\ MergedSens(a, ja, b, jb, i) = Times(ja, a[i].sens)
  <2>1. SensOf(a, i) = a[i].sens /\ SensOf(b, i) = Zero
    BY DEF SensOf
  <2>2. a[i].sens \in Fractions /\ a[i].sens # Zero
    BY DEF AreProper, IsTerm
  <2>3. Times(jb, Zero) = Zero /\ Times(ja, a[i].sens) \in Fractions
    BY <2>2, Neutral, FractionsClosed
  <2> QED
    BY <2>1, <2>2, <2>3, Neutral DEF MergedSens
<1>3. ASSUME NEW i \in B
      PROVE  /\ b[i].sens \in Fractions /\ b[i].sens # Zero
             /\ MergedSens(a, ja, b, jb, i) = Times(jb, b[i].sens)
  <2>1. SensOf(b, i) = b[i].sens /\ SensOf(a, i) = Zero
    BY DEF SensOf
  <2>2. b[i].sens \in Fractions /\ b[i].sens # Zero
    BY DEF AreProper, IsTerm
  <2>3. Times(ja, Zero) = Zero /\ Times(jb, b[i].sens) \in Fractions
    BY <2>2, Neutral, FractionsClosed
  <2> QED
    BY <2>1, <2>2, <2>3, Neutral DEF MergedSens
<1>4. ASSUME NEW j \in Fractions, NEW s \in Fractions, s # Zero PROVE Times(j, s) # Zero <=> j # Zero
  BY <1>4, ProductNotNothing, Neutral
<1>5. Keeps(m, a, ja, b, jb)
  <2>1. DOMAIN m = {i \in A \cup B : MergedSens(a, ja, b, jb, i) # Zero}
    BY <1>1 DEF MergesTo
  <2>2. \A i \in A : MergedSens(a, ja, b, jb, i) # Zero <=> ja # Zero
    BY <1>2, <1>4
  <2>3. \A i \in B : MergedSens(a, ja, b, jb, i) # Zero <=> jb # Zero
    BY <1>3, <1>4
  <2> QED
    BY <2>1, <2>2, <2>3 DEF Keeps
<1>6. ASSUME NEW i \in DOMAIN m, i \in A
      PROVE  m[i] = Term(Times(ja, a[i].sens), a[i].var, a[i].third)
  BY <1>1, <1>2, <1>6 DEF MergesTo
<1>7. ASSUME NEW i \in DOMAIN m, i \in B
      PROVE  m[i] = Term(Times(jb, b[i].sens), b[i].var, b[i].third)
  <2>1. i \notin A
    BY <1>7
  <2> QED
    BY <1>1, <1>3, <1>7, <2>1 DEF MergesTo
<1>8. AreProper(m)
  <2>1. IsFiniteSet(DOMAIN m)
    <3>1. DOMAIN m \subseteq A \cup B /\ IsFiniteSet(A \cup B)
      BY <1>5, FS_Union DEF Keeps, AreProper
    <3> QED
      BY <3>1, FS_Subset
  <2>2. ASSUME NEW j \in Fractions, j # Zero, NEW x, IsTerm(x)
        PROVE  IsTerm(Term(Times(j, x.sens), x.var, x.third))
    <3>1. x.sens \in Fractions /\ x.sens # Zero /\ Positive(x.var) /\ x.third \in Fractions
      BY <2>2 DEF IsTerm
    <3>2. Times(j, x.sens) \in Fractions /\ Times(j, x.sens) # Zero
      BY <2>2, <3>1, FractionsClosed, ProductNotNothing
    <3> QED
      BY <3>1, <3>2, TermFields DEF IsTerm
  <2>3. \A i \in A : IsTerm(a[i])
    BY DEF AreProper
  <2>4. \A i \in B : IsTerm(b[i])
    BY DEF AreProper
  <2>5. ASSUME NEW i \in DOMAIN m PROVE IsTerm(m[i])
    <3>1. (i \in A /\ ja # Zero) \/ (i \in B /\ jb # Zero)
      BY <1>5 DEF Keeps
    <3> HIDE DEF A, B
    <3> QED
      BY <1>6, <1>7, <2>2, <2>3, <2>4, <3>1
  <2> QED
    BY <2>1, <2>5 DEF AreProper
<1>9. /\ ja \in Fractions /\ jb \in Fractions
      /\ Square(ja) \in Fractions /\ Cube(ja) \in Fractions /\ Square(jb) \in Fractions /\ Cube(jb) \in Fractions
  BY FractionsClosed
<1>10. ASSUME NEW i \in A
       PROVE  /\ IF i \in DOMAIN m THEN OfVariance(m)[i] = Times(Square(ja), OfVariance(a)[i])
                                   ELSE Times(Square(ja), OfVariance(a)[i]) = Zero
              /\ IF i \in DOMAIN m THEN OfThird(m)[i] = Times(Cube(ja), OfThird(a)[i])
                                   ELSE Times(Cube(ja), OfThird(a)[i]) = Zero
  <2>1. a[i].sens \in Fractions /\ a[i].var \in Fractions /\ a[i].third \in Fractions
    BY DEF AreProper, IsTerm, Positive
  <2>2. /\ OfVariance(a)[i] = Times(Square(a[i].sens), a[i].var)
        /\ OfThird(a)[i] = Times(Cube(a[i].sens), a[i].third)
        /\ OfVariance(a)[i] \in Fractions /\ OfThird(a)[i] \in Fractions
    BY TermsSpread DEF OfVariance, OfThird
  <2>3. CASE i \in DOMAIN m
    <3>1. m[i].sens = Times(ja, a[i].sens) /\ m[i].var = a[i].var /\ m[i].third = a[i].third
      BY <1>6, <2>3, TermFields
    <3>2. /\ OfVariance(m)[i] = Times(Square(Times(ja, a[i].sens)), a[i].var)
          /\ OfThird(m)[i] = Times(Cube(Times(ja, a[i].sens)), a[i].third)
      BY <2>3, <3>1 DEF OfVariance, OfThird
    <3> QED
      BY <1>9, <2>1, <2>2, <2>3, <3>2, ScaledSpread
  <2>4. CASE i \notin DOMAIN m
    <3>1. ja = Zero
      BY <1>5, <2>4 DEF Keeps
    <3> QED
      BY <1>9, <2>2, <2>4, <3>1, ScaledSpread
  <2> QED
    BY <2>3, <2>4
<1>11. ASSUME NEW i \in B
       PROVE  /\ IF i \in DOMAIN m THEN OfVariance(m)[i] = Times(Square(jb), OfVariance(b)[i])
                                   ELSE Times(Square(jb), OfVariance(b)[i]) = Zero
              /\ IF i \in DOMAIN m THEN OfThird(m)[i] = Times(Cube(jb), OfThird(b)[i])
                                   ELSE Times(Cube(jb), OfThird(b)[i]) = Zero
  <2>1. b[i].sens \in Fractions /\ b[i].var \in Fractions /\ b[i].third \in Fractions
    BY DEF AreProper, IsTerm, Positive
  <2>2. /\ OfVariance(b)[i] = Times(Square(b[i].sens), b[i].var)
        /\ OfThird(b)[i] = Times(Cube(b[i].sens), b[i].third)
        /\ OfVariance(b)[i] \in Fractions /\ OfThird(b)[i] \in Fractions
    BY TermsSpread DEF OfVariance, OfThird
  <2>3. CASE i \in DOMAIN m
    <3>1. m[i].sens = Times(jb, b[i].sens) /\ m[i].var = b[i].var /\ m[i].third = b[i].third
      BY <1>7, <2>3, TermFields
    <3>2. /\ OfVariance(m)[i] = Times(Square(Times(jb, b[i].sens)), b[i].var)
          /\ OfThird(m)[i] = Times(Cube(Times(jb, b[i].sens)), b[i].third)
      BY <2>3, <3>1 DEF OfVariance, OfThird
    <3> QED
      BY <1>9, <2>1, <2>2, <2>3, <3>2, ScaledSpread
  <2>4. CASE i \notin DOMAIN m
    <3>1. jb = Zero
      BY <1>5, <2>4 DEF Keeps
    <3> QED
      BY <1>9, <2>2, <2>4, <3>1, ScaledSpread
  <2> QED
    BY <2>3, <2>4
<1>12. Spreads(m, a, ja, b, jb)
  <2>1. IsFiniteSet(A) /\ IsFiniteSet(B) /\ A \cap B = {} /\ DOMAIN m \subseteq A \cup B
    BY <1>5 DEF AreProper, Keeps
  <2>2. \A i \in A : OfVariance(a)[i] \in Fractions /\ OfThird(a)[i] \in Fractions
    BY TermsSpread
  <2>3. \A i \in B : OfVariance(b)[i] \in Fractions /\ OfThird(b)[i] \in Fractions
    BY TermsSpread
  <2> HIDE DEF A, B
  <2>4. Total(DOMAIN m, OfVariance(m)) =
          Plus(Times(Square(ja), Total(A, OfVariance(a))), Times(Square(jb), Total(B, OfVariance(b))))
    <3> DEFINE f == OfVariance(a) g == OfVariance(b) h == OfVariance(m) U == DOMAIN m
               c == Square(ja) e == Square(jb)
    <3>1. \A i \in A : IF i \in U THEN h[i] = Times(c, f[i]) ELSE Times(c, f[i]) = Zero
      BY <1>10
    <3>2. \A i \in B : IF i \in U THEN h[i] = Times(e, g[i]) ELSE Times(e, g[i]) = Zero
      BY <1>11
    <3>3. /\ \A i \in A : f[i] \in Fractions
          /\ \A i \in B : g[i] \in Fractions
          /\ c \in Fractions /\ e \in Fractions /\ U \subseteq A \cup B
          /\ IsFiniteSet(A) /\ IsFiniteSet(B) /\ A \cap B = {}
      BY <1>9, <2>1, <2>2, <2>3
    <3> HIDE DEF f, g, h, U, c, e
    <3>4. Total(U, h) = Plus(Times(c, Total(A, f)), Times(e, Total(B, g)))
      BY ONLY <3>1, <3>2, <3>3, TotalOfParts
    <3> QED
      BY <3>4 DEF f, g, h, U, c, e
  <2>5. Total(DOMAIN m, OfThird(m)) =
          Plus(Times(Cube(ja), Total(A, OfThird(a))), Times(Cube(jb), Total(B, OfThird(b))))
    <3> DEFINE f == OfThird(a) g == OfThird(b) h == OfThird(m) U == DOMAIN m
               c == Cube(ja) e == Cube(jb)
    <3>1. \A i \in A : IF i \in U THEN h[i] = Times(c, f[i]) ELSE Times(c, f[i]) = Zero
      BY <1>10
    <3>2. \A i \in B : IF i \in U THEN h[i] = Times(e, g[i]) ELSE Times(e, g[i]) = Zero
      BY <1>11
    <3>3. /\ \A i \in A : f[i] \in Fractions
          /\ \A i \in B : g[i] \in Fractions
          /\ c \in Fractions /\ e \in Fractions /\ U \subseteq A \cup B
          /\ IsFiniteSet(A) /\ IsFiniteSet(B) /\ A \cap B = {}
      BY <1>9, <2>1, <2>2, <2>3
    <3> HIDE DEF f, g, h, U, c, e
    <3>4. Total(U, h) = Plus(Times(c, Total(A, f)), Times(e, Total(B, g)))
      BY ONLY <3>1, <3>2, <3>3, TotalOfParts
    <3> QED
      BY <3>4 DEF f, g, h, U, c, e
  <2> QED
    BY <2>4, <2>5, SpreadsAreTotals DEF Spreads, Variances, Thirds, A, B
<1> QED
  BY <1>5, <1>8, <1>12 DEF m

-----------------------------------------------------------------------------
(***************************************************************************)
(* What a value truly depends on, as terms by measurement: it spreads like *)
(* the terms that name it, and merges the same way.                        *)
(***************************************************************************)
AreSources(src) == Finite(src) /\ Varying(src) /\ \A p \in DOMAIN src : src[p].third \in Fractions
TrueTermsIn(src, t) == [p \in DOMAIN t |-> Term(t[p], src[p].var, src[p].third)]
IsTruth(src, t) == DOMAIN t \subseteq DOMAIN src /\ \A p \in DOMAIN t : t[p] \in Fractions \ {Zero}

LEMMA TruthIsProper ==
  ASSUME NEW src, AreSources(src), NEW t, IsTruth(src, t)
  PROVE  AreProper(TrueTermsIn(src, t)) /\ DOMAIN TrueTermsIn(src, t) = DOMAIN t
<1> DEFINE a == TrueTermsIn(src, t)
<1>1. DOMAIN a = DOMAIN t /\ \A p \in DOMAIN t : a[p] = Term(t[p], src[p].var, src[p].third)
  BY DEF TrueTermsIn
<1> HIDE DEF a
<1>2. IsFiniteSet(DOMAIN a)
  BY <1>1, FS_Subset DEF IsTruth, AreSources, Finite
<1>3. ASSUME NEW p \in DOMAIN a PROVE IsTerm(a[p])
  <2>1. t[p] \in Fractions \ {Zero} /\ Positive(src[p].var) /\ src[p].third \in Fractions
    BY <1>1 DEF IsTruth, AreSources, Varying
  <2> QED
    BY <1>1, <2>1, TermFields DEF IsTerm
<1> QED
  BY <1>1, <1>2, <1>3 DEF AreProper, a

LEMMA TrueMerged ==
  ASSUME NEW src, AreSources(src), NEW ta, NEW tb, IsTruth(src, ta), IsTruth(src, tb),
         NEW ja \in Fractions, NEW jb \in Fractions
  PROVE  TrueTermsIn(src, MergedTruth(ta, ja, tb, jb)) =
           Merged(TrueTermsIn(src, ta), ja, TrueTermsIn(src, tb), jb)
<1> DEFINE a == TrueTermsIn(src, ta)
           b == TrueTermsIn(src, tb)
           t == MergedTruth(ta, ja, tb, jb)
           m == Merged(a, ja, b, jb)
<1>1. DOMAIN a = DOMAIN ta /\ \A p \in DOMAIN ta : a[p] = Term(ta[p], src[p].var, src[p].third)
  BY DEF TrueTermsIn
<1>2. DOMAIN b = DOMAIN tb /\ \A p \in DOMAIN tb : b[p] = Term(tb[p], src[p].var, src[p].third)
  BY DEF TrueTermsIn
<1>3. TruthMergesTo(t, ta, ja, tb, jb)
  BY MergedTruths
<1>4. m = [p \in DOMAIN m |-> m[p]]
  BY DEF Merged, Live, Restrict
<1>5. TrueTermsIn(src, t) = [p \in DOMAIN t |-> Term(t[p], src[p].var, src[p].third)]
  BY DEF TrueTermsIn
<1> HIDE DEF a, b, t
<1>6. MergesTo(m, a, ja, b, jb)
  <2>1. AreTerms(a) /\ AreTerms(b)
    BY <1>1, <1>2, TermFields DEF AreTerms
  <2> QED
    BY <2>1, MergedTerms
<1> HIDE DEF m
<1>7. ASSUME NEW p PROVE MergedSens(a, ja, b, jb, p) = MergedTrueSens(ta, ja, tb, jb, p)
  <2>1. SensOf(a, p) = TrueSens(ta, p) /\ SensOf(b, p) = TrueSens(tb, p)
    BY <1>1, <1>2, TermFields DEF SensOf, TrueSens
  <2> QED
    BY <2>1 DEF MergedSens, MergedTrueSens
<1>8. DOMAIN m = DOMAIN t
  BY <1>1, <1>2, <1>3, <1>6, <1>7 DEF MergesTo, TruthMergesTo
<1>9. ASSUME NEW p \in DOMAIN m PROVE m[p] = Term(t[p], src[p].var, src[p].third)
  <2> DEFINE r == IF p \in DOMAIN a THEN a[p] ELSE b[p]
  <2>1. m[p] = Term(MergedSens(a, ja, b, jb, p), r.var, r.third) /\ p \in DOMAIN a \cup DOMAIN b
    BY <1>6 DEF MergesTo
  <2>2. r.var = src[p].var /\ r.third = src[p].third
    BY <1>1, <1>2, <2>1, TermFields
  <2>3. t[p] = MergedTrueSens(ta, ja, tb, jb, p)
    BY <1>3, <1>8 DEF TruthMergesTo
  <2> HIDE DEF r
  <2> QED
    BY <1>7, <2>1, <2>2, <2>3
<1>10. TrueTermsIn(src, t) = m
  BY <1>4, <1>5, <1>8, <1>9
<1> QED
  BY <1>10 DEF a, b, t, m

LEMMA TruthSpreads ==
  ASSUME NEW src, AreSources(src), NEW ta, NEW tb, IsTruth(src, ta), IsTruth(src, tb),
         NEW ja \in Fractions, NEW jb \in Fractions, DOMAIN ta \cap DOMAIN tb = {}
  PROVE  /\ IsTruth(src, MergedTruth(ta, ja, tb, jb))
         /\ Keeps(MergedTruth(ta, ja, tb, jb), ta, ja, tb, jb)
         /\ Spreads(TrueTermsIn(src, MergedTruth(ta, ja, tb, jb)), TrueTermsIn(src, ta), ja, TrueTermsIn(src, tb), jb)
<1> DEFINE a == TrueTermsIn(src, ta)
           b == TrueTermsIn(src, tb)
           t == MergedTruth(ta, ja, tb, jb)
           m == Merged(a, ja, b, jb)
<1>1. AreProper(a) /\ AreProper(b) /\ DOMAIN a = DOMAIN ta /\ DOMAIN b = DOMAIN tb
  BY TruthIsProper
<1>2. TrueTermsIn(src, t) = m
  BY TrueMerged
<1>3. DOMAIN TrueTermsIn(src, t) = DOMAIN t /\ \A p \in DOMAIN t : TrueTermsIn(src, t)[p].sens = t[p]
  BY TermFields DEF TrueTermsIn
<1> HIDE DEF a, b, t
<1>4. AreProper(m) /\ Keeps(m, a, ja, b, jb) /\ Spreads(m, a, ja, b, jb)
  BY <1>1, MergedSpreads
<1> HIDE DEF m
<1>5. Keeps(t, ta, ja, tb, jb)
  BY <1>1, <1>2, <1>3, <1>4 DEF Keeps
<1>6. IsTruth(src, t)
  <2>1. DOMAIN t \subseteq DOMAIN src
    BY <1>5 DEF Keeps, IsTruth
  <2>2. \A p \in DOMAIN t : t[p] \in Fractions \ {Zero}
    BY <1>2, <1>3, <1>4 DEF AreProper, IsTerm
  <2> QED
    BY <2>1, <2>2 DEF IsTruth
<1> QED
  BY <1>2, <1>4, <1>5, <1>6 DEF a, b, t

LEMMA NamesTruth == ASSUME NEW src, NEW a, NEW t, Accounts(src, a, t) PROVE IsTruth(src, t)
BY DEF Accounts, IsTruth

LEMMA NamesSpread ==
  ASSUME NEW src, AreSources(src), NEW a, NEW t, Accounts(src, a, t), Distinct(src, DOMAIN t)
  PROVE  /\ AreProper(a)
         /\ Variance(a) = Variance(TrueTermsIn(src, t)) /\ Third(a) = Third(TrueTermsIn(src, t))
<1> DEFINE u == TrueTermsIn(src, t)
           h == [p \in DOMAIN t |-> src[p].id]
<1>1. IsFiniteSet(DOMAIN t) /\ IsFiniteSet(DOMAIN a)
  BY NamedFinite DEF AreSources
<1>2. AreProper(u) /\ DOMAIN u = DOMAIN t
  BY NamesTruth, TruthIsProper
<1>3. ASSUME NEW p \in DOMAIN t PROVE h[p] \in DOMAIN a /\ a[h[p]] = u[p]
  BY DEF Accounts, TrueTermsIn
<1>4. ASSUME NEW p \in DOMAIN t, NEW q \in DOMAIN t, h[p] = h[q] PROVE p = q
  BY <1>4 DEF Distinct
<1>5. ASSUME NEW i \in DOMAIN a PROVE \E p \in DOMAIN t : h[p] = i
  BY DEF Accounts
<1> HIDE DEF u, h
<1>6. AreProper(a)
  <2>1. ASSUME NEW i \in DOMAIN a PROVE IsTerm(a[i])
    <3>1. PICK p \in DOMAIN t : h[p] = i
      BY <1>5
    <3> QED
      BY <1>2, <1>3, <3>1 DEF AreProper
  <2> QED
    BY <1>1, <2>1 DEF AreProper
<1>7. \A i \in DOMAIN a : OfVariance(a)[i] \in Fractions /\ OfThird(a)[i] \in Fractions
  BY <1>6, TermsSpread
<1>8. \A p \in DOMAIN t : OfVariance(a)[h[p]] = OfVariance(u)[p] /\ OfThird(a)[h[p]] = OfThird(u)[p]
  BY <1>2, <1>3 DEF OfVariance, OfThird
<1>9. Total(DOMAIN t, OfVariance(u)) = Total(DOMAIN a, OfVariance(a))
  <2> DEFINE f == OfVariance(u) g == OfVariance(a) S == DOMAIN t T == DOMAIN a
  <2>1. /\ \A p \in S : h[p] \in T /\ g[h[p]] = f[p]
        /\ \A p, q \in S : h[p] = h[q] => p = q
        /\ \A i \in T : (\A p \in S : h[p] # i) => g[i] = Zero
        /\ \A i \in T : g[i] \in Fractions
        /\ IsFiniteSet(S) /\ IsFiniteSet(T)
    BY <1>1, <1>3, <1>4, <1>5, <1>7, <1>8
  <2> HIDE DEF f, g, S, T
  <2>2. Total(S, f) = Total(T, g)
    BY ONLY <2>1, SumByTerms
  <2> QED
    BY <2>2 DEF f, g, S, T
<1>10. Total(DOMAIN t, OfThird(u)) = Total(DOMAIN a, OfThird(a))
  <2> DEFINE f == OfThird(u) g == OfThird(a) S == DOMAIN t T == DOMAIN a
  <2>1. /\ \A p \in S : h[p] \in T /\ g[h[p]] = f[p]
        /\ \A p, q \in S : h[p] = h[q] => p = q
        /\ \A i \in T : (\A p \in S : h[p] # i) => g[i] = Zero
        /\ \A i \in T : g[i] \in Fractions
        /\ IsFiniteSet(S) /\ IsFiniteSet(T)
    BY <1>1, <1>3, <1>4, <1>5, <1>7, <1>8
  <2> HIDE DEF f, g, S, T
  <2>2. Total(S, f) = Total(T, g)
    BY ONLY <2>1, SumByTerms
  <2> QED
    BY <2>2 DEF f, g, S, T
<1> QED
  BY <1>2, <1>6, <1>9, <1>10, SpreadsAreTotals DEF u

-----------------------------------------------------------------------------
(***************************************************************************)
(* What an operation on values that share nothing makes, in every pair of  *)
(* models and both modes: its spread is put together from theirs.          *)
(***************************************************************************)
NoSkew(a) == \A i \in DOMAIN a : a[i].third = Zero
Below(a, next) == \A i \in DOMAIN a : i \in Int /\ i < next
Apart(a, b) == DOMAIN a \cap DOMAIN b = {}

LEMMA NoTermsSpread ==
  /\ DOMAIN NoTerms = {} /\ AreProper(NoTerms) /\ NoSkew(NoTerms)
  /\ Variance(NoTerms) = Zero /\ Third(NoTerms) = Zero
<1>1. DOMAIN NoTerms = {}
  BY DEF NoTerms
<1>2. AreProper(NoTerms) /\ NoSkew(NoTerms)
  BY <1>1, FS_EmptySet DEF AreProper, NoSkew
<1> QED
  BY <1>1, <1>2, ProperSpread

LEMMA OnlySpread ==
  ASSUME NEW i, NEW var, Positive(var), NEW third \in Fractions
  PROVE  /\ DOMAIN Only(i, Term(One, var, third)) = {i} /\ AreProper(Only(i, Term(One, var, third)))
         /\ Variance(Only(i, Term(One, var, third))) = var /\ Third(Only(i, Term(One, var, third))) = third
         /\ third = Zero => NoSkew(Only(i, Term(One, var, third)))
<1> DEFINE x == Term(One, var, third)
           a == Only(i, x)
<1>1. DOMAIN a = {i} /\ a[i] = x
  BY DEF Only
<1>2. x.sens = One /\ x.var = var /\ x.third = third /\ x = Term(x.sens, x.var, x.third)
  BY TermFields
<1>3. One \in Fractions /\ One # Zero /\ var \in Fractions
  BY ZeroAndOne DEF One, Zero, Positive
<1>4. Square(One) = One /\ Cube(One) = One
  BY <1>3, Neutral DEF Square, Cube
<1> HIDE DEF a, x
<1>5. AreProper(a)
  <2>1. IsFiniteSet(DOMAIN a)
    BY <1>1, FS_Singleton
  <2> QED
    BY <1>1, <1>2, <1>3, <2>1 DEF AreProper, IsTerm
<1>6. OfVariance(a)[i] = var /\ OfThird(a)[i] = third
  BY <1>1, <1>2, <1>3, <1>4, Neutral DEF OfVariance, OfThird
<1>7. \A f : f[i] \in Fractions => Total({i}, f) = f[i]
  <2>1. ASSUME NEW f, f[i] \in Fractions PROVE Total({i}, f) = f[i]
    <3>1. IsFiniteSet({i}) /\ {i} \ {i} = {}
      BY FS_Singleton
    <3>2. Total({i}, f) = Plus(f[i], Total({}, f))
      BY <2>1, <3>1, SumBySplitting
    <3> QED
      BY <2>1, <3>2, TotalOfNothing, Neutral
  <2> QED
    BY <2>1
<1>8. Variance(a) = var /\ Third(a) = third
  BY <1>1, <1>3, <1>6, <1>7, SpreadsAreTotals
<1>9. third = Zero => NoSkew(a)
  BY <1>1, <1>2 DEF NoSkew
<1> QED
  BY <1>1, <1>5, <1>8, <1>9 DEF a, x

IsSpread(x) == x = Zero \/ Positive(x)

(* A measurement made on the spot, by the id next.                         *)
Measures(c, next, var) == AreProper(c) /\ Variance(c) = var /\ DOMAIN c \subseteq {next}

LEMMA MeasuredSpreads ==
  ASSUME NEW next, NEW var, IsSpread(var), NEW third \in Fractions, var = Zero => third = Zero
  PROVE  /\ Measures(MeasuredLineage(next, var).terms, next, var) /\ NoSkew(MeasuredLineage(next, var).terms)
         /\ Measures(MeasuredMoments(next, var, third).terms, next, var)
         /\ Third(MeasuredMoments(next, var, third).terms) = third
<1> DEFINE a == MeasuredLineage(next, var).terms
           b == MeasuredMoments(next, var, third).terms
<1>1. CASE var = Zero
  <2>1. a = NoTerms /\ b = NoTerms
    BY <1>1 DEF MeasuredLineage, MeasuredMoments, With
  <2>2. Measures(NoTerms, next, Zero) /\ NoSkew(NoTerms) /\ Third(NoTerms) = Zero
    BY NoTermsSpread DEF Measures
  <2> HIDE DEF a, b
  <2>3. Measures(a, next, var) /\ NoSkew(a) /\ Measures(b, next, var) /\ Third(b) = third
    BY <1>1, <2>1, <2>2
  <2> QED
    BY <2>3 DEF a, b
<1>2. CASE Positive(var) /\ var # Zero
  <2>1. a = Only(next, Term(One, var, Zero)) /\ b = Only(next, Term(One, var, third))
    BY <1>2 DEF MeasuredLineage, MeasuredMoments, With
  <2> HIDE DEF a, b
  <2>2. Zero \in Fractions
    BY ZeroAndOne
  <2>3. DOMAIN a = {next} /\ AreProper(a) /\ Variance(a) = var /\ NoSkew(a)
    BY <1>2, <2>1, <2>2, OnlySpread
  <2>4. DOMAIN b = {next} /\ AreProper(b) /\ Variance(b) = var /\ Third(b) = third
    BY <1>2, <2>1, OnlySpread
  <2>5. Measures(a, next, var) /\ NoSkew(a) /\ Measures(b, next, var) /\ Third(b) = third
    BY <2>3, <2>4 DEF Measures
  <2> QED
    BY <2>5 DEF a, b
<1>3. var = Zero \/ (Positive(var) /\ var # Zero)
  BY DEF IsSpread
<1> HIDE DEF a, b
<1> QED
  BY <1>1, <1>2, <1>3

(* What is put together from two spreads is one.                           *)
LEMMA SpreadsTogether ==
  ASSUME NEW a, NEW b, AreProper(a), AreProper(b), NEW ja \in Fractions, NEW jb \in Fractions
  PROVE  /\ IsSpread(Variances(a, ja, b, jb)) /\ Thirds(a, ja, b, jb) \in Fractions
         /\ Variances(a, ja, b, jb) = Zero => Thirds(a, ja, b, jb) = Zero
<1>1. /\ Square(ja) \in Fractions /\ Square(jb) \in Fractions /\ Cube(ja) \in Fractions /\ Cube(jb) \in Fractions
      /\ Variance(a) \in Fractions /\ Third(a) \in Fractions /\ Variance(b) \in Fractions /\ Third(b) \in Fractions
  BY FractionsClosed, ProperSpread
<1>2. ASSUME NEW c, AreProper(c), NEW j \in Fractions
      PROVE  /\ IsSpread(Times(Square(j), Variance(c)))
             /\ Times(Square(j), Variance(c)) = Zero => Times(Cube(j), Third(c)) = Zero
  <2>1. Variance(c) \in Fractions /\ Third(c) \in Fractions /\ IsSpread(Variance(c))
    BY <1>2, ProperSpread DEF IsSpread
  <2>2. CASE j = Zero
    BY <2>1, <2>2, ScaledSpread, ZeroAndOne DEF IsSpread
  <2>3. CASE Variance(c) = Zero
    <3>1. Third(c) = Zero
      BY <1>2, <2>3, ProperSpread
    <3>2. Square(j) \in Fractions /\ Cube(j) \in Fractions
      BY FractionsClosed
    <3> QED
      BY <2>3, <3>1, <3>2, Neutral DEF IsSpread
  <2>4. CASE j # Zero /\ Positive(Variance(c))
    <3>1. Positive(Square(j))
      BY <2>4, SquaresArePositive DEF Square
    <3>2. Positive(Times(Square(j), Variance(c)))
      BY <2>4, <3>1, PositiveTimes
    <3> QED
      BY <3>2, PositiveIsNotZero DEF IsSpread
  <2> QED
    BY <2>1, <2>2, <2>3, <2>4 DEF IsSpread
<1> DEFINE va == Times(Square(ja), Variance(a))
           vb == Times(Square(jb), Variance(b))
           sa == Times(Cube(ja), Third(a))
           sb == Times(Cube(jb), Third(b))
<1>3. /\ IsSpread(va) /\ IsSpread(vb) /\ (va = Zero => sa = Zero) /\ (vb = Zero => sb = Zero)
      /\ va \in Fractions /\ vb \in Fractions /\ sa \in Fractions /\ sb \in Fractions
  <2>1. va \in Fractions /\ vb \in Fractions /\ sa \in Fractions /\ sb \in Fractions
    BY <1>1, FractionsClosed
  <2> QED
    BY <1>2, <2>1
<1>4. Variances(a, ja, b, jb) = Plus(va, vb) /\ Thirds(a, ja, b, jb) = Plus(sa, sb)
  BY DEF Variances, Thirds
<1> HIDE DEF va, vb, sa, sb
<1>5. IsSpread(Plus(va, vb)) /\ (Plus(va, vb) = Zero => va = Zero /\ vb = Zero)
  <2>1. CASE va = Zero
    BY <1>3, <2>1, Neutral
  <2>2. CASE vb = Zero
    BY <1>3, <2>2, Neutral
  <2>3. CASE Positive(va) /\ Positive(vb)
    <3>1. Positive(Plus(va, vb))
      BY <2>3, PositiveTimes
    <3> QED
      BY <3>1, PositiveIsNotZero DEF IsSpread
  <2> QED
    BY <1>3, <2>1, <2>2, <2>3 DEF IsSpread
<1>6. Plus(sa, sb) \in Fractions /\ Plus(Zero, Zero) = Zero
  BY <1>3, FractionsClosed, ZeroAndOne, Neutral
<1> QED
  BY <1>3, <1>4, <1>5, <1>6

(* What comes of combining two sets of terms: their spreads put together,  *)
(* by their ids or by fresh ones, from the counter up.                     *)
Joins(c, a, ja, b, jb, next) ==
  /\ AreProper(c) /\ Variance(c) = Variances(a, ja, b, jb)
  /\ NoSkew(a) /\ NoSkew(b) => NoSkew(c)
  /\ \A i \in DOMAIN c :
       (i \in DOMAIN a /\ ja # Zero) \/ (i \in DOMAIN b /\ jb # Zero) \/ (i \in Int /\ i >= next)

LEMMA MergedCombines ==
  ASSUME NEW a, NEW b, AreProper(a), AreProper(b), Apart(a, b), NEW ja \in Fractions, NEW jb \in Fractions, NEW next
  PROVE  /\ Joins(Merged(a, ja, b, jb), a, ja, b, jb, next)
         /\ Third(Merged(a, ja, b, jb)) = Thirds(a, ja, b, jb)
<1> DEFINE m == Merged(a, ja, b, jb)
<1>1. MergesTo(m, a, ja, b, jb)
  <2>1. AreTerms(a) /\ AreTerms(b)
    BY DEF AreProper, IsTerm, AreTerms
  <2> QED
    BY <2>1, MergedTerms
<1>2. AreProper(m) /\ Keeps(m, a, ja, b, jb) /\ Spreads(m, a, ja, b, jb)
  BY MergedSpreads DEF Apart
<1> HIDE DEF m
<1>3. NoSkew(a) /\ NoSkew(b) => NoSkew(m)
  <2> SUFFICES ASSUME NoSkew(a), NoSkew(b), NEW i \in DOMAIN m PROVE m[i].third = Zero
    BY DEF NoSkew
  <2>1. i \in DOMAIN a \cup DOMAIN b /\ m[i].third = (IF i \in DOMAIN a THEN a[i] ELSE b[i]).third
    BY <1>1, TermFields DEF MergesTo
  <2> QED
    BY <2>1 DEF NoSkew
<1> QED
  BY <1>2, <1>3 DEF Joins, Keeps, Spreads, m

LEMMA LineageCombines ==
  ASSUME NEW a, NEW b, AreProper(a), AreProper(b), Apart(a, b), NEW ja \in Fractions, NEW jb \in Fractions,
         NEW next \in Int
  PROVE  Joins(CombineLineage(a, ja, b, jb, next).terms, a, ja, b, jb, next)
<1> DEFINE var == Variances(a, ja, b, jb)
           c == CombineLineage(a, ja, b, jb, next).terms
<1>1. CASE Uncorrelated
  <2>1. c = MeasuredLineage(next, var).terms
    BY <1>1 DEF CombineLineage, Variances
  <2>2. IsSpread(var) /\ Zero \in Fractions
    BY SpreadsTogether, ZeroAndOne
  <2> HIDE DEF var, c
  <2>3. Measures(c, next, var) /\ NoSkew(c)
    <3>1. Zero \in Fractions
      BY <2>2
    <3>2. Measures(MeasuredLineage(next, var).terms, next, var) /\ NoSkew(MeasuredLineage(next, var).terms)
      BY <2>2, <3>1, MeasuredSpreads
    <3> QED
      BY <2>1, <3>2
  <2>4. Joins(c, a, ja, b, jb, next)
    BY <2>3 DEF Joins, Measures, var
  <2> QED
    BY <2>4 DEF c
<1>2. CASE ~ Uncorrelated
  <2>1. c = Merged(a, ja, b, jb)
    BY <1>2 DEF CombineLineage, With
  <2> QED
    BY <2>1, MergedCombines
<1> QED
  BY <1>1, <1>2

LEMMA MomentsCombine ==
  ASSUME NEW a, NEW b, AreProper(a), AreProper(b), Apart(a, b), NEW ja \in Fractions, NEW jb \in Fractions,
         NEW next \in Int
  PROVE  /\ AreProper(CombineMoments(a, ja, b, jb, next).terms)
         /\ Spreads(CombineMoments(a, ja, b, jb, next).terms, a, ja, b, jb)
         /\ \A i \in DOMAIN CombineMoments(a, ja, b, jb, next).terms :
              (i \in DOMAIN a /\ ja # Zero) \/ (i \in DOMAIN b /\ jb # Zero) \/ i = next
<1> DEFINE var == Variances(a, ja, b, jb)
           third == Thirds(a, ja, b, jb)
           c == CombineMoments(a, ja, b, jb, next).terms
<1>1. CASE Uncorrelated
  <2>1. c = MeasuredMoments(next, var, third).terms
    BY <1>1 DEF CombineMoments, Variances, Thirds
  <2>2. IsSpread(var) /\ third \in Fractions /\ (var = Zero => third = Zero)
    BY SpreadsTogether
  <2> HIDE DEF var, third, c
  <2>3. Measures(c, next, var) /\ Third(c) = third
    <3> DEFINE l == MeasuredMoments(next, var, third)
    <3>1. Measures(l.terms, next, var) /\ Third(l.terms) = third
      BY <2>2, MeasuredSpreads
    <3> QED
      BY <2>1, <3>1
  <2>4. Spreads(c, a, ja, b, jb)
    BY <2>3 DEF Spreads, Measures, var, third
  <2> QED
    BY <2>3, <2>4 DEF Measures, c
<1>2. CASE ~ Uncorrelated
  <2>1. c = Merged(a, ja, b, jb)
    BY <1>2 DEF CombineMoments, With
  <2> HIDE DEF c
  <2>2. AreProper(c) /\ Keeps(c, a, ja, b, jb) /\ Spreads(c, a, ja, b, jb)
    BY <2>1, MergedSpreads DEF Apart
  <2> QED
    BY <2>2 DEF Keeps, c
<1> QED
  BY <1>1, <1>2

LEMMA CounterStays ==
  ASSUME NEW next \in Nat \ {0}, next < MaxId
  PROVE  /\ \A a, ja, b, jb : CombineMoments(a, ja, b, jb, next).next \in {next, next + 1}
         /\ \A v, third : MeasuredLineage(next, v).next \in {next, next + 1} /\ MeasuredMoments(next, v, third).next = next + 1
BY CounterAdvances DEF CombineMoments, MeasuredLineage, MeasuredMoments, With

(* Where a term of what is made comes from: an operand that counts, or an  *)
(* id from the counter up.                                                 *)
Comes(i, a, ja, b, jb, next) ==
  (i \in DOMAIN a /\ ja # Zero) \/ (i \in DOMAIN b /\ jb # Zero) \/ (i \in Int /\ i >= next)
Folds(c, a, ja, b, jb, next) ==
  AreProper(c) /\ Spreads(c, a, ja, b, jb) /\ \A i \in DOMAIN c : Comes(i, a, ja, b, jb, next)

LEMMA FoldingSpreads ==
  ASSUME NEW a, NEW b, AreProper(a), AreProper(b), Apart(a, b), NEW ja \in Fractions, NEW jb \in Fractions,
         NEW next \in Nat \ {0}, next + 1 < MaxId, Below(b, next)
  PROVE  Folds(FoldMoments(a, ja, b, jb, next).terms, a, ja, b, jb, next)
<1> DEFINE l1 == CombineMoments(NoTerms, One, a, ja, next)
           l2 == CombineMoments(l1.terms, One, b, jb, l1.next)
           c1 == l1.terms
           c2 == l2.terms
<1>1. FoldMoments(a, ja, b, jb, next).terms = c2
  BY DEF FoldMoments
<1>2. One \in Fractions /\ One # Zero /\ Zero \in Fractions
  BY ZeroAndOne DEF One, Zero
<1>3. DOMAIN NoTerms = {} /\ AreProper(NoTerms) /\ Apart(NoTerms, a) /\ Variance(NoTerms) = Zero /\ Third(NoTerms) = Zero
  BY NoTermsSpread DEF Apart
<1>4. MaxId \in Nat /\ next < MaxId
  BY IdsAssumption
<1>5. l1.next \in {next, next + 1}
  BY <1>4, CounterStays
<1>6. l1.next \in Nat \ {0} /\ l1.next < MaxId /\ l1.next >= next
  BY <1>4, <1>5
<1>7. /\ AreProper(c1) /\ Spreads(c1, NoTerms, One, a, ja)
      /\ \A i \in DOMAIN c1 : (i \in DOMAIN a /\ ja # Zero) \/ i = next
  BY <1>2, <1>3, MomentsCombine
<1> HIDE DEF l1
<1>8. Apart(c1, b)
  <2>1. ASSUME NEW i \in DOMAIN c1, i \in DOMAIN b PROVE FALSE
    BY <1>7, <2>1 DEF Apart, Below
  <2> QED
    BY <2>1 DEF Apart
<1> HIDE DEF c1
<1>9. /\ AreProper(c2) /\ Spreads(c2, c1, One, b, jb)
      /\ \A i \in DOMAIN c2 : (i \in DOMAIN c1 /\ One # Zero) \/ (i \in DOMAIN b /\ jb # Zero) \/ i = l1.next
  <2>1. c2 = CombineMoments(c1, One, b, jb, l1.next).terms
    BY DEF c1
  <2> HIDE DEF l2
  <2>2. l1.next \in Int
    BY <1>6
  <2> QED
    BY <1>2, <1>7, <1>8, <2>1, <2>2, MomentsCombine
<1> HIDE DEF l2, c2
<1>10. /\ Variance(a) \in Fractions /\ Third(a) \in Fractions /\ Variance(b) \in Fractions /\ Third(b) \in Fractions
       /\ Square(ja) \in Fractions /\ Cube(ja) \in Fractions /\ Square(jb) \in Fractions /\ Cube(jb) \in Fractions
  BY ProperSpread, FractionsClosed
<1>11. Square(One) = One /\ Cube(One) = One
  BY <1>2, Neutral DEF Square, Cube
<1>12. /\ Times(Square(ja), Variance(a)) \in Fractions /\ Times(Cube(ja), Third(a)) \in Fractions
       /\ Times(One, Zero) = Zero
  BY <1>2, <1>10, FractionsClosed, Neutral
<1>13. Variance(c1) = Times(Square(ja), Variance(a)) /\ Third(c1) = Times(Cube(ja), Third(a))
  BY <1>3, <1>7, <1>11, <1>12, Neutral DEF Spreads, Variances, Thirds
<1>14. Spreads(c2, a, ja, b, jb)
  BY <1>9, <1>11, <1>12, <1>13, Neutral DEF Spreads, Variances, Thirds
<1>15. ASSUME NEW i \in DOMAIN c2 PROVE Comes(i, a, ja, b, jb, next)
  BY <1>6, <1>7, <1>9 DEF Comes
<1>16. Folds(c2, a, ja, b, jb, next)
  BY <1>9, <1>14, <1>15 DEF Folds
<1> QED
  BY <1>1, <1>16

-----------------------------------------------------------------------------
(* What an operation makes of two values: their spread put together; its   *)
(* terms are theirs, where they count, or by ids that nobody holds.        *)
Operand(a, next) == AreProper(a) /\ Below(a, next) /\ \A i \in DOMAIN a : i >= -draws
Yields(made, a, ja, b, jb, next) ==
  /\ AreProper(made.value.terms) /\ Variance(made.value.terms) = Variances(a, ja, b, jb)
  /\ Is(made.value, {"moments"}) => Third(made.value.terms) = Thirds(a, ja, b, jb)
  /\ Is(made.value, {"gaussian"}) /\ NoSkew(a) /\ NoSkew(b) => NoSkew(made.value.terms)
  /\ \A i \in DOMAIN made.value.terms :
       Comes(i, a, ja, b, jb, next) \/ (i = -(draws + 1) /\ made.drawn = draws + 1)
Gives(made, a, ja, b, jb, next) == made = Unsupported \/ Yields(made, a, ja, b, jb, next)

LEMMA MadeFields ==
  ASSUME NEW model, NEW boxed, NEW shape, NEW mean, NEW terms, NEW next, NEW drawn
  PROVE  LET made == Made(Value(model, boxed, shape, mean, terms), next, drawn)
         IN  /\ made.value.terms = terms /\ made.value.model = model /\ made.value.mean = mean
             /\ made.next = next /\ made.drawn = drawn
BY DEF Made, Value

LEMMA JoinedGives ==
  ASSUME NEW c, NEW a, NEW ja, NEW b, NEW jb, NEW next, Joins(c, a, ja, b, jb, next),
         NEW model, model # "moments", NEW boxed, NEW shape, NEW mean, NEW after, NEW drawn
  PROVE  Gives(Made(Value(model, boxed, shape, mean, c), after, drawn), a, ja, b, jb, next)
<1> DEFINE made == Made(Value(model, boxed, shape, mean, c), after, drawn)
<1>1. made.value.terms = c /\ made.value.model = model
  BY MadeFields
<1> HIDE DEF made
<1>2. Gives(made, a, ja, b, jb, next)
  BY <1>1 DEF Joins, Gives, Yields, Is, Comes
<1> QED
  BY <1>2 DEF made

LEMMA FoldedGives ==
  ASSUME NEW c, NEW a, NEW ja, NEW b, NEW jb, NEW next, Folds(c, a, ja, b, jb, next),
         NEW model, model # "gaussian", NEW boxed, NEW shape, NEW mean, NEW after, NEW drawn
  PROVE  Gives(Made(Value(model, boxed, shape, mean, c), after, drawn), a, ja, b, jb, next)
<1> DEFINE made == Made(Value(model, boxed, shape, mean, c), after, drawn)
<1>1. made.value.terms = c /\ made.value.model = model
  BY MadeFields
<1> HIDE DEF made
<1>2. Gives(made, a, ja, b, jb, next)
  BY <1>1 DEF Folds, Spreads, Gives, Yields, Is
<1> QED
  BY <1>2 DEF made

LEMMA GaussianGives ==
  ASSUME NEW next \in Nat \ {0}, NEW a, NEW b, AreProper(a.terms), AreProper(b.terms), Apart(a.terms, b.terms),
         NEW d, d.ja \in Fractions, d.jb \in Fractions
  PROVE  Gives(PropagateGaussian(a, b, d, next), a.terms, d.ja, b.terms, d.jb, next)
<1> DEFINE l == CombineLineage(a.terms, d.ja, b.terms, d.jb, next)
<1>1. PropagateGaussian(a, b, d, next) = Made(Value("gaussian", None, None, d.mean, l.terms), l.next, draws)
  BY DEF PropagateGaussian
<1>2. Joins(l.terms, a.terms, d.ja, b.terms, d.jb, next)
  BY LineageCombines
<1> HIDE DEF l
<1> QED
  BY <1>1, <1>2, JoinedGives

LEMMA UnscentedGives ==
  ASSUME NEW next \in Nat \ {0}, next + 3 < MaxId,
         NEW a, NEW b, Operand(a.terms, next), Operand(b.terms, next), Apart(a.terms, b.terms),
         NEW d, d.ja \in Fractions, d.jb \in Fractions
  PROVE  Gives(PropagateUnscented(a, b, d, next), a.terms, d.ja, b.terms, d.jb, next)
<1> DEFINE other == LineageOf(b, next)
           c == other.terms
           l == CombineLineage(a.terms, d.ja, c, d.jb, other.next)
<1>1. PropagateUnscented(a, b, d, next) = Made(Value("unscented", None, None, d.mean, l.terms), l.next, draws)
  BY DEF PropagateUnscented
<1>2. MaxId \in Nat /\ next < MaxId /\ AreProper(a.terms) /\ AreProper(b.terms)
  BY IdsAssumption DEF Operand
<1>3. /\ other.next \in {next, next + 1} /\ AreProper(c) /\ Variance(c) = Variance(b.terms) /\ Apart(a.terms, c)
      /\ \A i \in DOMAIN c : i \in DOMAIN b.terms \/ i = next
  <2>1. CASE Is(b, {"gaussian", "unscented"})
    <3>1. other.next = next /\ c = b.terms
      BY <2>1 DEF LineageOf, With
    <3> HIDE DEF other, c
    <3> QED
      BY <1>2, <3>1
  <2>2. CASE ~ Is(b, {"gaussian", "unscented"})
    <3> DEFINE var == Variance(b.terms)
    <3>1. other = MeasuredLineage(next, var)
      BY <2>2 DEF LineageOf
    <3> HIDE DEF other
    <3>2. other.next \in {next, next + 1}
      BY <1>2, <3>1, CounterStays
    <3>3. IsSpread(var) /\ Zero \in Fractions
      BY <1>2, ProperSpread, ZeroAndOne DEF IsSpread
    <3>4. Measures(c, next, var)
      <4> HIDE DEF var
      <4>1. Measures(MeasuredLineage(next, var).terms, next, var)
        BY <3>3, MeasuredSpreads
      <4> QED
        BY <3>1, <4>1
    <3> HIDE DEF c
    <3>5. Apart(a.terms, c)
      BY <3>4 DEF Measures, Operand, Below, Apart
    <3> QED
      BY <3>2, <3>4, <3>5 DEF Measures
  <2> QED
    BY <2>1, <2>2
<1> HIDE DEF other
<1>4. Joins(l.terms, a.terms, d.ja, c, d.jb, other.next)
  <2>1. other.next \in Int
    BY <1>3
  <2> HIDE DEF c
  <2> QED
    BY <1>2, <1>3, <2>1, LineageCombines
<1> HIDE DEF l, c
<1>5. AreProper(l.terms) /\ Variance(l.terms) = Variances(a.terms, d.ja, b.terms, d.jb)
  BY <1>3, <1>4 DEF Joins, Variances
<1>6. ASSUME NEW i \in DOMAIN l.terms PROVE Comes(i, a.terms, d.ja, b.terms, d.jb, next)
  BY <1>3, <1>4 DEF Joins, Comes
<1> DEFINE made == Made(Value("unscented", None, None, d.mean, l.terms), l.next, draws)
<1>7. made.value.terms = l.terms /\ made.value.model = "unscented"
  BY MadeFields
<1> HIDE DEF made
<1>8. Gives(made, a.terms, d.ja, b.terms, d.jb, next)
  BY <1>5, <1>6, <1>7 DEF Gives, Yields, Is
<1> QED
  BY <1>1, <1>8 DEF made

LEMMA MomentsGive ==
  ASSUME NEW next \in Nat \ {0}, next + 3 < MaxId,
         NEW a, NEW b, Operand(a.terms, next), Operand(b.terms, next), Apart(a.terms, b.terms),
         NEW d, d.ja \in Fractions, d.jb \in Fractions
  PROVE  Gives(PropagateMoments(a, b, d, next), a.terms, d.ja, b.terms, d.jb, next)
<1> DEFINE l == FoldMoments(a.terms, d.ja, b.terms, d.jb, next)
<1>1. \/ PropagateMoments(a, b, d, next) = Made(Value("moments", None, a.shape, d.mean, l.terms), l.next, draws)
      \/ PropagateMoments(a, b, d, next) = Unsupported
  BY DEF PropagateMoments
<1>2. MaxId \in Nat /\ next + 1 < MaxId
  BY IdsAssumption
<1>3. Folds(l.terms, a.terms, d.ja, b.terms, d.jb, next)
  BY <1>2, FoldingSpreads DEF Operand
<1> HIDE DEF l
<1>4. Gives(Made(Value("moments", None, a.shape, d.mean, l.terms), l.next, draws), a.terms, d.ja, b.terms, d.jb, next)
  BY <1>3, FoldedGives
<1> QED
  BY <1>1, <1>4 DEF Gives

LEMMA SamplesGive ==
  ASSUME NEW next \in Nat \ {0}, draws \in Nat,
         NEW a, NEW b, Operand(a.terms, next), Operand(b.terms, next), Apart(a.terms, b.terms),
         NEW d, d.ja \in Fractions, d.jb \in Fractions
  PROVE  Gives(PropagateSamples(a, b, d, next), a.terms, d.ja, b.terms, d.jb, next)
<1> DEFINE made(other, drawn) ==
      Made(Value("monte_carlo", None, a.shape, d.mean, Merged(a.terms, d.ja, other, d.jb)), next, drawn)
           own == Only(-(draws + 1), Term(One, Variance(b.terms), Zero))
           Stands(other, drawn) ==
             /\ AreProper(other) /\ Apart(a.terms, other) /\ Variance(other) = Variance(b.terms)
             /\ \A i \in DOMAIN other : i \in DOMAIN b.terms \/ (i = -(draws + 1) /\ drawn = draws + 1)
<1>1. AreProper(a.terms) /\ AreProper(b.terms)
  BY DEF Operand
<1>2. \E other, drawn : PropagateSamples(a, b, d, next) = made(other, drawn) /\ Stands(other, drawn)
  <2>1. CASE SharesSamples(a, b)
    <3>1. PropagateSamples(a, b, d, next) = made(b.terms, draws)
      BY <2>1 DEF PropagateSamples
    <3>2. Stands(b.terms, draws)
      BY <1>1
    <3> HIDE DEF made, Stands
    <3> QED
      BY <3>1, <3>2
  <2>2. CASE ~SharesSamples(a, b) /\ IsExact(b)
    <3>1. PropagateSamples(a, b, d, next) = made(NoTerms, draws)
      BY <2>2 DEF PropagateSamples
    <3>2. Stands(NoTerms, draws)
      BY <2>2, NoTermsSpread DEF IsExact, Apart
    <3> HIDE DEF made, Stands
    <3> QED
      BY <3>1, <3>2
  <2>3. CASE ~SharesSamples(a, b) /\ ~IsExact(b)
    <3>1. PropagateSamples(a, b, d, next) = made(own, draws + 1)
      BY <2>3 DEF PropagateSamples
    <3>2. Positive(Variance(b.terms)) /\ Zero \in Fractions
      BY <1>1, <2>3, ProperSpread, ZeroAndOne DEF IsExact
    <3>3. DOMAIN own = {-(draws + 1)} /\ AreProper(own) /\ Variance(own) = Variance(b.terms)
      BY <3>2, OnlySpread
    <3> HIDE DEF own
    <3>4. Apart(a.terms, own)
      <4>1. -(draws + 1) \notin DOMAIN a.terms
        BY DEF Operand
      <4> QED
        BY <3>3, <4>1 DEF Apart
    <3>5. Stands(own, draws + 1)
      BY <3>3, <3>4
    <3> HIDE DEF made, Stands
    <3> QED
      BY <3>1, <3>5
  <2> QED
    BY <2>1, <2>2, <2>3
<1>3. PICK other, drawn : PropagateSamples(a, b, d, next) = made(other, drawn) /\ Stands(other, drawn)
  BY <1>2
<1> DEFINE m == Merged(a.terms, d.ja, other, d.jb)
<1>4. Joins(m, a.terms, d.ja, other, d.jb, next)
  BY <1>1, <1>3, MergedCombines
<1>5. Keeps(m, a.terms, d.ja, other, d.jb)
  BY <1>1, <1>3, MergedSpreads DEF Apart
<1>6. made(other, drawn).value.terms = m /\ made(other, drawn).value.model = "monte_carlo" /\ made(other, drawn).drawn = drawn
  BY MadeFields
<1> HIDE DEF m, made
<1>7. AreProper(m) /\ Variance(m) = Variances(a.terms, d.ja, b.terms, d.jb)
  BY <1>3, <1>4 DEF Joins, Variances
<1>8. ASSUME NEW i \in DOMAIN m
      PROVE  Comes(i, a.terms, d.ja, b.terms, d.jb, next) \/ (i = -(draws + 1) /\ drawn = draws + 1)
  BY <1>3, <1>5 DEF Keeps, Comes
<1>9. Gives(made(other, drawn), a.terms, d.ja, b.terms, d.jb, next)
  BY <1>6, <1>7, <1>8 DEF Gives, Yields, Is
<1> QED
  BY <1>3, <1>9

LEMMA BoxedGive ==
  ASSUME NEW next \in Nat \ {0}, next + 3 < MaxId,
         NEW a, NEW b, Operand(a.terms, next), Operand(b.terms, next), Apart(a.terms, b.terms),
         NEW d, d.ja \in Fractions, d.jb \in Fractions
  PROVE  Gives(PropagateBoxed(a, b, d, next), a.terms, d.ja, b.terms, d.jb, next)
<1>1. AreProper(a.terms) /\ AreProper(b.terms) /\ MaxId \in Nat /\ next < MaxId /\ Zero \in Fractions
  BY IdsAssumption, ZeroAndOne DEF Operand
<1>2. Gives(BoxedQuadrature(a, b, d, next), a.terms, d.ja, b.terms, d.jb, next)
  <2> DEFINE var == Variances(a.terms, d.ja, b.terms, d.jb)
             l == MeasuredLineage(next, var)
  <2>1. BoxedQuadrature(a, b, d, next) = Made(Value("custom", Box(a), None, d.mean, l.terms), l.next, draws)
    BY DEF BoxedQuadrature, Boxed, Variances
  <2>2. IsSpread(var)
    BY <1>1, SpreadsTogether
  <2>3. Measures(l.terms, next, var) /\ NoSkew(l.terms)
    <3> HIDE DEF var
    <3> QED
      BY <1>1, <2>2, MeasuredSpreads
  <2> HIDE DEF l
  <2>4. Joins(l.terms, a.terms, d.ja, b.terms, d.jb, next)
    BY <2>3 DEF Joins, Measures
  <2> QED
    BY <2>1, <2>4, JoinedGives
<1>3. Gives(BoxedMoments(a, b, d, next), a.terms, d.ja, b.terms, d.jb, next)
  <2> DEFINE var == Variance(b.terms)
             other == MeasuredMoments(next, var, Zero)
             c == other.terms
             l == FoldMoments(a.terms, d.ja, c, d.jb, other.next)
             made == Made(Value("custom", "moments", a.shape, d.mean, l.terms), l.next, draws)
  <2>1. BoxedMoments(a, b, d, next) = made
    BY DEF BoxedMoments, Boxed
  <2>2. other.next = next + 1
    BY <1>1, CounterStays
  <2>3. IsSpread(var)
    BY <1>1, ProperSpread DEF IsSpread
  <2>4. Measures(c, next, var)
    <3> HIDE DEF var
    <3> QED
      BY <1>1, <2>3, MeasuredSpreads
  <2> HIDE DEF c, other
  <2>5. Apart(a.terms, c) /\ Below(c, other.next) /\ other.next \in Nat \ {0} /\ other.next + 1 < MaxId
    BY <1>1, <2>2, <2>4 DEF Measures, Operand, Below, Apart
  <2>6. Folds(l.terms, a.terms, d.ja, c, d.jb, other.next)
    BY <1>1, <2>4, <2>5, FoldingSpreads DEF Measures
  <2>7. made.value.terms = l.terms /\ made.value.model = "custom"
    BY MadeFields
  <2> HIDE DEF l, made
  <2>8. AreProper(l.terms) /\ Variance(l.terms) = Variances(a.terms, d.ja, b.terms, d.jb)
    BY <2>4, <2>6 DEF Folds, Spreads, Variances, Measures
  <2>9. ASSUME NEW i \in DOMAIN l.terms PROVE Comes(i, a.terms, d.ja, b.terms, d.jb, next)
    BY <2>2, <2>4, <2>6 DEF Folds, Comes, Measures
  <2>10. Gives(made, a.terms, d.ja, b.terms, d.jb, next)
    BY <2>7, <2>8, <2>9 DEF Gives, Yields, Is
  <2> QED
    BY <2>1, <2>10
<1> QED
  BY <1>2, <1>3 DEF PropagateBoxed

LEMMA DispatchGives ==
  ASSUME NEW next \in Nat \ {0}, next + 3 < MaxId, draws \in Nat,
         NEW a, NEW b, Operand(a.terms, next), Operand(b.terms, next), Apart(a.terms, b.terms),
         NEW d, d.ja \in Fractions, d.jb \in Fractions
  PROVE  Gives(Dispatch(a, b, d, next), a.terms, d.ja, b.terms, d.jb, next)
<1> DEFINE x == Lifted(a, b)
<1>1. /\ Gives(PropagateMoments(a, b, d, next), a.terms, d.ja, b.terms, d.jb, next)
      /\ Gives(PropagateGaussian(a, b, d, next), a.terms, d.ja, b.terms, d.jb, next)
      /\ Gives(PropagateSamples(a, b, d, next), a.terms, d.ja, b.terms, d.jb, next)
      /\ Gives(PropagateUnscented(a, b, d, next), a.terms, d.ja, b.terms, d.jb, next)
      /\ Gives(PropagateBoxed(a, b, d, next), a.terms, d.ja, b.terms, d.jb, next)
  <2>1. AreProper(a.terms) /\ AreProper(b.terms)
    BY DEF Operand
  <2> QED
    BY <2>1, MomentsGive, GaussianGives, SamplesGive, UnscentedGives, BoxedGive
<1>2. Gives(Unsupported, a.terms, d.ja, b.terms, d.jb, next)
  BY DEF Gives
<1>3. ASSUME IsLifted(a, b)
      PROVE  /\ Gives(PropagateSamples(x, b, d, next), a.terms, d.ja, b.terms, d.jb, next)
             /\ Gives(PropagateUnscented(x, b, d, next), a.terms, d.ja, b.terms, d.jb, next)
  <2>1. x.terms = NoTerms
    BY DEF Lifted, Value
  <2>2. DOMAIN a.terms = {} /\ Variance(a.terms) = Zero /\ Third(a.terms) = Zero /\ NoSkew(a.terms)
    <3>1. Variance(a.terms) = Zero /\ AreProper(a.terms)
      BY <1>3 DEF IsLifted, IsExact, Operand
    <3> QED
      BY <3>1, ProperSpread DEF NoSkew
  <2> HIDE DEF x
  <2>3. Operand(x.terms, next) /\ Apart(x.terms, b.terms) /\ NoSkew(x.terms)
        /\ DOMAIN x.terms = {} /\ Variance(x.terms) = Zero /\ Third(x.terms) = Zero
    BY <2>1, NoTermsSpread DEF Operand, Below, Apart
  <2>4. ASSUME NEW made, Gives(made, x.terms, d.ja, b.terms, d.jb, next)
        PROVE  Gives(made, a.terms, d.ja, b.terms, d.jb, next)
    BY <2>2, <2>3, <2>4 DEF Gives, Yields, Variances, Thirds, Comes
  <2>5. /\ Gives(PropagateSamples(x, b, d, next), x.terms, d.ja, b.terms, d.jb, next)
        /\ Gives(PropagateUnscented(x, b, d, next), x.terms, d.ja, b.terms, d.jb, next)
    BY <2>3, SamplesGive, UnscentedGives
  <2> QED
    BY <2>4, <2>5
<1>4. IsLifted(a, b) => Is(b, {"monte_carlo"}) \/ Is(b, {"unscented"})
  BY DEF IsLifted, Is
<1> QED
  BY <1>1, <1>2, <1>3, <1>4 DEF Dispatch

-----------------------------------------------------------------------------
(* The record an operation makes, in every pair of models.                 *)
IsValue(v) == v = Value(v.model, v.boxed, v.shape, v.mean, v.terms)
Shaped(made, a, b, mean) ==
  /\ IsValue(made.value) /\ made.value.mean = mean
  /\ made.drawn \in {draws, draws + 1}
  /\ Is(made.value, {"moments"})  => Is(a, {"moments"}) /\ Is(b, {"moments"})
  /\ Is(made.value, {"gaussian"}) => Is(a, {"gaussian"}) /\ Is(b, {"gaussian"})

LEMMA MadeIsShaped ==
  ASSUME NEW a, NEW b, NEW model, NEW boxed, NEW shape, NEW mean, NEW terms, NEW next, NEW drawn \in {draws, draws + 1},
         model = "moments"  => Is(a, {"moments"}) /\ Is(b, {"moments"}),
         model = "gaussian" => Is(a, {"gaussian"}) /\ Is(b, {"gaussian"})
  PROVE  Shaped(Made(Value(model, boxed, shape, mean, terms), next, drawn), a, b, mean)
<1> DEFINE made == Made(Value(model, boxed, shape, mean, terms), next, drawn)
           v == Value(model, boxed, shape, mean, terms)
<1>1. made.value = v /\ made.drawn = drawn
  BY DEF Made
<1>2. IsValue(v) /\ v.mean = mean /\ v.model = model
  BY DEF IsValue, Value
<1> HIDE DEF made, v
<1>3. Shaped(made, a, b, mean)
  BY <1>1, <1>2 DEF Shaped, Is
<1> QED
  BY <1>3 DEF made, v

LEMMA DispatchShapes ==
  ASSUME NEW a, NEW b, NEW d, NEW next, Dispatch(a, b, d, next) # Unsupported
  PROVE  Shaped(Dispatch(a, b, d, next), a, b, d.mean)
<1> DEFINE Shapes(made) == made = Unsupported \/ Shaped(made, a, b, d.mean)
<1>1. ASSUME NEW x PROVE Shapes(PropagateSamples(x, b, d, next)) /\ Shapes(PropagateUnscented(x, b, d, next))
  <2>1. \E terms, drawn : /\ PropagateSamples(x, b, d, next) = Made(Value("monte_carlo", None, x.shape, d.mean, terms), next, drawn)
                          /\ drawn \in {draws, draws + 1}
    BY DEF PropagateSamples
  <2>2. \E terms, n : PropagateUnscented(x, b, d, next) = Made(Value("unscented", None, None, d.mean, terms), n, draws)
    BY DEF PropagateUnscented
  <2> QED
    BY <2>1, <2>2, MadeIsShaped
<1>2. Shapes(PropagateBoxed(a, b, d, next))
  <2>1. \E boxed, shape, terms, n : PropagateBoxed(a, b, d, next) = Made(Value("custom", boxed, shape, d.mean, terms), n, draws)
    BY DEF PropagateBoxed, BoxedQuadrature, BoxedMoments, Boxed
  <2> QED
    BY <2>1, MadeIsShaped
<1>3. Is(a, {"moments"}) /\ Is(b, {"moments"}) => Shapes(PropagateMoments(a, b, d, next))
  <2>1. \/ \E terms, n : PropagateMoments(a, b, d, next) = Made(Value("moments", None, a.shape, d.mean, terms), n, draws)
        \/ PropagateMoments(a, b, d, next) = Unsupported
    BY DEF PropagateMoments
  <2> QED
    BY <2>1, MadeIsShaped
<1>4. Is(a, {"gaussian"}) /\ Is(b, {"gaussian"}) => Shapes(PropagateGaussian(a, b, d, next))
  <2>1. \E terms, n : PropagateGaussian(a, b, d, next) = Made(Value("gaussian", None, None, d.mean, terms), n, draws)
    BY DEF PropagateGaussian
  <2> QED
    BY <2>1, MadeIsShaped
<1>5. Shapes(Unsupported)
  OBVIOUS
<1>6. IsLifted(a, b) => Is(b, {"monte_carlo"}) \/ Is(b, {"unscented"})
  BY DEF IsLifted, Is
<1>7. Shapes(PropagateSamples(Lifted(a, b), b, d, next)) /\ Shapes(PropagateUnscented(Lifted(a, b), b, d, next))
      /\ Shapes(PropagateSamples(a, b, d, next)) /\ Shapes(PropagateUnscented(a, b, d, next))
  <2> HIDE DEF Shapes
  <2> QED
    BY <1>1
<1> HIDE DEF Shapes
<1>8. Shapes(Dispatch(a, b, d, next))
  BY <1>2, <1>3, <1>4, <1>5, <1>6, <1>7 DEF Dispatch
<1> QED
  BY <1>8 DEF Shapes

-----------------------------------------------------------------------------
(* Means and derivatives are fractions.                                    *)
LEMMA NegatedIsFraction == ASSUME NEW a \in Fractions PROVE Negated(a) \in Fractions
<1>1. a[1] \in Int /\ a[2] \in Nat \ {0} /\ Coprime(a[1], a[2])
  BY DEF Fractions
<1>2. PICK s \in Int, t \in Int : 1 = a[1] * s + a[2] * t
  BY <1>1 DEF Coprime, Combines
<1>3. a[1] * s = (-a[1]) * (-s) /\ -s \in Int /\ -a[1] \in Int
  BY <1>1
<1>4. 1 = (-a[1]) * (-s) + a[2] * t
  BY <1>2, <1>3
<1>5. Coprime(-a[1], a[2])
  BY <1>3, <1>4 DEF Coprime, Combines
<1> QED
  BY <1>1, <1>3, <1>5 DEF Fractions, Negated

LEMMA WholesAreFractions == ASSUME NEW n \in Int PROVE Whole(n) \in Fractions
<1>1. 1 = n * 0 + 1 * 1
  OBVIOUS
<1>2. Coprime(n, 1)
  BY <1>1 DEF Coprime, Combines
<1> QED
  BY <1>2 DEF Fractions, Whole

LEMMA QuotientIsFraction == ASSUME NEW a \in Fractions, NEW b \in Fractions PROVE Over(a, b) \in Fractions
BY Denominators, OperationsAreFractions

LEMMA AssumedFractions == ASSUME NEW q, IsFraction(q) PROVE q \in Fractions
<1>1. q[1] \in Int /\ q[2] \in Int /\ Frac(q[1], q[2]) = q
  BY DEF IsFraction
<1> QED
  BY <1>1, FracIsFraction

Operations == {"add", "sub", "mul", "div"}
AreFractions(d) == d.mean \in Fractions /\ d.ja \in Fractions /\ d.jb \in Fractions

LEMMA DerivativesAreFractions ==
  ASSUME NEW op \in Operations, NEW ma \in Fractions, NEW mb \in Fractions
  PROVE  AreFractions(Derivatives(op, ma, mb))
<1>1. One \in Fractions /\ Whole(-1) \in Fractions /\ Negated(mb) \in Fractions /\ Square(mb) \in Fractions
  BY ZeroAndOne, WholesAreFractions, NegatedIsFraction, FractionsClosed
<1>2. /\ Plus(ma, mb) \in Fractions /\ Minus(ma, mb) \in Fractions /\ Times(ma, mb) \in Fractions
      /\ Over(ma, mb) \in Fractions /\ Over(One, mb) \in Fractions /\ Negated(Over(ma, Square(mb))) \in Fractions
  BY <1>1, FractionsClosed, QuotientIsFraction, NegatedIsFraction DEF Minus
<1>3. CASE op = "add"
  BY <1>1, <1>2, <1>3 DEF Derivatives, AreFractions
<1>4. CASE op = "sub"
  BY <1>1, <1>2, <1>4 DEF Derivatives, AreFractions
<1>5. CASE op = "mul"
  BY <1>1, <1>2, <1>5 DEF Derivatives, AreFractions
<1>6. CASE op = "div"
  BY <1>1, <1>2, <1>6 DEF Derivatives, AreFractions
<1> QED
  BY <1>3, <1>4, <1>5, <1>6 DEF Operations

Transformations == {"square", "inverse", "abs"}

LEMMA TransformedIsFraction ==
  ASSUME NEW fn \in Transformations, NEW m \in Fractions
  PROVE  Transformed(fn, m).mean \in Fractions /\ Transformed(fn, m).j \in Fractions
<1>1. One \in Fractions /\ Whole(-1) \in Fractions /\ Whole(2) \in Fractions /\ Square(m) \in Fractions
  BY ZeroAndOne, WholesAreFractions, FractionsClosed
<1>2. Times(Whole(2), m) \in Fractions /\ Over(One, m) \in Fractions /\ Negated(Over(One, Square(m))) \in Fractions
  BY <1>1, FractionsClosed, QuotientIsFraction, NegatedIsFraction
<1>3. <<AbsOf(m[1]), m[2]>> \in Fractions /\ Turned(m) \in Fractions
  <2>1. m[1] \in Int /\ m = <<m[1], m[2]>>
    BY DEF Fractions
  <2>2. Negated(m) \in Fractions
    BY NegatedIsFraction
  <2>3. <<AbsOf(m[1]), m[2]>> = m \/ <<AbsOf(m[1]), m[2]>> = Negated(m)
    BY <2>1 DEF AbsOf, Negated
  <2> QED
    BY <1>1, <2>2, <2>3 DEF Turned
<1>4. CASE fn = "square"
  BY <1>1, <1>2, <1>4 DEF Transformed
<1>5. CASE fn = "inverse"
  BY <1>2, <1>5 DEF Transformed
<1>6. CASE fn = "abs"
  BY <1>3, <1>6 DEF Transformed
<1> QED
  BY <1>4, <1>5, <1>6 DEF Transformations

(* Turning a value about zero does not change its spread.                  *)
LEMMA TurningKeepsSpread ==
  ASSUME NEW m
  PROVE  Square(Turned(m)) = One /\ Turned(m) # Zero
<1>1. Square(One) = One /\ One # Zero
  BY ZeroAndOne, Neutral DEF Square, One, Zero
<1>2. Square(Whole(-1)) = One /\ Whole(-1) # Zero
  <2>1. Times(<<-1, 1>>, <<-1, 1>>) = Frac((-1) * (-1), 1 * 1)
    BY DEF Times
  <2>2. Frac(1, 1) = One
    BY ZeroAndOne, FracOfFraction DEF One
  <2>3. (-1) * (-1) = 1 /\ 1 * 1 = 1
    OBVIOUS
  <2> QED
    BY <2>1, <2>2, <2>3 DEF Whole, Square, Zero
<1> QED
  BY <1>1, <1>2 DEF Turned

LEMMA NoSkewNoThird ==
  ASSUME NEW a, AreProper(a), NoSkew(a)
  PROVE  Third(a) = Zero
<1> DEFINE g == OfThird(a)
           T == DOMAIN a
           h == [x \in {} |-> x]
<1>1. IsFiniteSet(T) /\ IsFiniteSet({})
  BY FS_EmptySet DEF AreProper
<1>2. \A i \in T : g[i] = Zero
  <2>1. ASSUME NEW i \in T PROVE g[i] = Zero
    <3>1. Cube(a[i].sens) \in Fractions /\ a[i].third = Zero
      BY FractionsClosed DEF AreProper, IsTerm, NoSkew
    <3>2. g[i] = Times(Cube(a[i].sens), a[i].third)
      BY DEF OfThird
    <3> QED
      BY <3>1, <3>2, Neutral
  <2> QED
    BY <2>1
<1> HIDE DEF g, T, h
<1>3. Total({}, g) = Total(T, g)
  <2> DEFINE S == {}
  <2>1. /\ \A x \in S : h[x] \in T /\ g[h[x]] = g[x]
        /\ \A x, y \in S : h[x] = h[y] => x = y
        /\ \A t \in T : (\A x \in S : h[x] # t) => g[t] = Zero
        /\ \A t \in T : g[t] \in Fractions
        /\ IsFiniteSet(S)
    BY <1>1, <1>2, ZeroAndOne
  <2> HIDE DEF S
  <2>2. Total(S, g) = Total(T, g)
    BY ONLY <1>1, <2>1, SumByTerms
  <2> QED
    BY <2>2 DEF S
<1> QED
  BY <1>3, TotalOfNothing, SpreadsAreTotals DEF g, T

-----------------------------------------------------------------------------
(* What is scaled: its terms, and what it depends on.                      *)
Scales(c, a, j) ==
  /\ AreProper(c) /\ DOMAIN c = {i \in DOMAIN a : j # Zero}
  /\ Variance(c) = Times(Square(j), Variance(a)) /\ Third(c) = Times(Cube(j), Third(a))
  /\ NoSkew(a) => NoSkew(c)

LEMMA MergedAloneScales ==
  ASSUME NEW a, NEW n, AreProper(a), DOMAIN n = {}, NEW j \in Fractions
  PROVE  Scales(Merged(a, j, n, Zero), a, j)
<1> DEFINE m == Merged(a, j, n, Zero)
<1>1. AreProper(n) /\ NoSkew(n) /\ Apart(a, n) /\ Zero \in Fractions
  BY FS_EmptySet, ZeroAndOne DEF AreProper, NoSkew, Apart
<1>2. Variance(n) = Zero /\ Third(n) = Zero
  BY <1>1, ProperSpread
<1>3. AreProper(m) /\ Keeps(m, a, j, n, Zero) /\ Spreads(m, a, j, n, Zero)
  BY <1>1, MergedSpreads DEF Apart
<1>4. Joins(m, a, j, n, Zero, 0)
  BY <1>1, MergedCombines
<1> HIDE DEF m
<1>5. /\ Square(j) \in Fractions /\ Cube(j) \in Fractions /\ Square(Zero) \in Fractions /\ Cube(Zero) \in Fractions
      /\ Variance(a) \in Fractions /\ Third(a) \in Fractions
  BY <1>1, FractionsClosed, ProperSpread
<1>6. Times(Square(j), Variance(a)) \in Fractions /\ Times(Cube(j), Third(a)) \in Fractions
  BY <1>5, FractionsClosed
<1>7. Variance(m) = Times(Square(j), Variance(a)) /\ Third(m) = Times(Cube(j), Third(a))
  BY <1>2, <1>3, <1>5, <1>6, Neutral DEF Spreads, Variances, Thirds
<1>8. DOMAIN m = {i \in DOMAIN a : j # Zero}
  BY <1>3 DEF Keeps
<1>9. NoSkew(a) => NoSkew(m)
  BY <1>1, <1>4 DEF Joins
<1>10. Scales(m, a, j)
  BY <1>3, <1>7, <1>8, <1>9 DEF Scales
<1> QED
  BY <1>10 DEF m

LEMMA ScaledTermsScale ==
  ASSUME NEW a, AreProper(a), NEW j \in Fractions
  PROVE  Scales(ScaledTerms(a, j), a, j)
<1>1. ASSUME NEW i \in DOMAIN a PROVE "sens" \in DOMAIN a[i] /\ a[i].sens \in Fractions
  <2>1. \A s, v, u : "sens" \in DOMAIN Term(s, v, u)
    BY DEF Term
  <2> QED
    BY <2>1 DEF AreProper, IsTerm
<1>2. ScaledTerms(a, j) = Merged(a, j, NoTerms, Zero)
  BY <1>1, ScaledIsMerged
<1> QED
  BY <1>2, NoTermsSpread, MergedAloneScales

LEMMA TruthScales ==
  ASSUME NEW src, AreSources(src), NEW t, IsTruth(src, t), NEW j \in Fractions
  PROVE  /\ IsTruth(src, MergedTruth(t, j, NoTerms, Zero))
         /\ DOMAIN MergedTruth(t, j, NoTerms, Zero) = {p \in DOMAIN t : j # Zero}
         /\ Scales(TrueTermsIn(src, MergedTruth(t, j, NoTerms, Zero)), TrueTermsIn(src, t), j)
<1> DEFINE u == MergedTruth(t, j, NoTerms, Zero)
           n == TrueTermsIn(src, NoTerms)
<1>1. DOMAIN NoTerms = {} /\ IsTruth(src, NoTerms) /\ Zero \in Fractions
  BY ZeroAndOne DEF NoTerms, IsTruth
<1>2. DOMAIN n = {} /\ AreProper(TrueTermsIn(src, t))
  BY <1>1, TruthIsProper
<1>3. TrueTermsIn(src, u) = Merged(TrueTermsIn(src, t), j, n, Zero)
  BY <1>1, TrueMerged
<1>4. IsTruth(src, u) /\ Keeps(u, t, j, NoTerms, Zero)
  <2>1. DOMAIN t \cap DOMAIN NoTerms = {}
    BY <1>1
  <2> QED
    BY <1>1, <2>1, TruthSpreads
<1> HIDE DEF u, n
<1>5. Scales(TrueTermsIn(src, u), TrueTermsIn(src, t), j)
  BY <1>2, <1>3, MergedAloneScales
<1>6. DOMAIN u = {p \in DOMAIN t : j # Zero}
  BY <1>1, <1>4 DEF Keeps
<1> QED
  BY <1>4, <1>5, <1>6 DEF u

-----------------------------------------------------------------------------
(***************************************************************************)
(* The invariant. A value that is right spreads like its truth; the terms  *)
(* of a linked one are those of its truth; values that share an id share   *)
(* what they depend on; and whoever holds the id of a measurement that a   *)
(* linked value depends on depends on it too.                              *)
(***************************************************************************)
IsTrue(src, e) ==
  /\ IsTruth(src, e.truth) /\ AreProper(e.value.terms)
  /\ Variance(e.value.terms) = Variance(TrueTermsIn(src, e.truth))
  /\ Is(e.value, {"moments"})  => Third(e.value.terms) = Third(TrueTermsIn(src, e.truth))
  /\ Is(e.value, {"gaussian"}) => NoSkew(e.value.terms) /\ NoSkew(TrueTermsIn(src, e.truth))
DrawnUpTo(a, n) == \A i \in DOMAIN a : i >= -n
IsSound(src, n, e) ==
  /\ e = Entry(e.value, e.truth, e.right, e.linked) /\ IsValue(e.value) /\ e.value.mean \in Fractions
  /\ e.linked => e.right /\ Accounts(src, e.value.terms, e.truth) /\ Distinct(src, DOMAIN e.truth)
  /\ e.right => IsTrue(src, e) /\ DrawnUpTo(e.value.terms, n)
(* What a linked value, and one that is right, tell of another.            *)
Tied(src, e, f) ==
  /\ e.linked /\ f.linked => Distinct(src, DOMAIN e.truth \cup DOMAIN f.truth)
  /\ e.linked /\ f.right =>
       \A p \in DOMAIN e.truth : src[p].id \in DOMAIN f.value.terms => p \in DOMAIN f.truth
  /\ e.right /\ f.right =>
       (DOMAIN e.value.terms \cap DOMAIN f.value.terms # {} => DOMAIN e.truth \cap DOMAIN f.truth # {})
BothTied(src, e, f) == Tied(src, e, f) /\ Tied(src, f, e)
NamedOnce(src) == \A p, q \in DOMAIN src : src[p].named /\ src[q].named /\ src[p].id = src[q].id => p = q
TruthInv ==
  /\ IdInv
  /\ sources \in Seq(Range(sources)) /\ AreSources(sources) /\ NamedOnce(sources)
  /\ \A i \in DOMAIN values : IsSound(sources, draws, values[i])
  /\ \A i, j \in DOMAIN values : Tied(sources, values[i], values[j])

(* More is measured: what was said of the others holds.                    *)
Extends(src, more) == DOMAIN src \subseteq DOMAIN more /\ \A p \in DOMAIN src : more[p] = src[p]

LEMMA EntryFields ==
  ASSUME NEW value, NEW truth, NEW right, NEW linked
  PROVE  LET e == Entry(value, truth, right, linked)
         IN  /\ e.value = value /\ e.truth = truth /\ e.right = right /\ e.linked = linked
             /\ e = Entry(e.value, e.truth, e.right, e.linked)
BY DEF Entry

LEMMA SoundEntryExtends ==
  ASSUME NEW src, NEW more, Extends(src, more), NEW n \in Nat, NEW k \in Nat, n <= k,
         NEW e, IsSound(src, n, e), \A i \in DOMAIN e.value.terms : i \in Int
  PROVE  IsSound(more, k, e)
<1>1. DrawnUpTo(e.value.terms, n) => DrawnUpTo(e.value.terms, k)
  BY DEF DrawnUpTo
<1>2. Accounts(src, e.value.terms, e.truth) => Accounts(more, e.value.terms, e.truth)
  <2> SUFFICES ASSUME Accounts(src, e.value.terms, e.truth) PROVE Accounts(more, e.value.terms, e.truth)
    OBVIOUS
  <2> DEFINE a == e.value.terms
             t == e.truth
  <2>1. /\ DOMAIN t \subseteq DOMAIN src /\ DOMAIN a = {src[p].id : p \in DOMAIN t}
        /\ \A p \in DOMAIN t : t[p] \in Fractions \ {Zero} /\ a[src[p].id] = Term(t[p], src[p].var, src[p].third)
    BY DEF Accounts
  <2>2. DOMAIN t \subseteq DOMAIN more /\ \A p \in DOMAIN t : more[p] = src[p]
    BY <2>1 DEF Extends
  <2> HIDE DEF a, t
  <2>3. DOMAIN a = {more[p].id : p \in DOMAIN t}
    BY <2>1, <2>2
  <2>4. Accounts(more, a, t)
    BY <2>1, <2>2, <2>3 DEF Accounts
  <2> QED
    BY <2>4 DEF a, t
<1>3. IsTruth(src, e.truth) =>
        IsTruth(more, e.truth) /\ TrueTermsIn(more, e.truth) = TrueTermsIn(src, e.truth)
  BY DEF IsTruth, TrueTermsIn, Extends
<1>4. IsTruth(src, e.truth) /\ Distinct(src, DOMAIN e.truth) => Distinct(more, DOMAIN e.truth)
  BY DEF IsTruth, Distinct, Extends
<1>5. IsTrue(src, e) => IsTrue(more, e)
  BY <1>3 DEF IsTrue
<1> QED
  BY <1>1, <1>2, <1>4, <1>5 DEF IsSound, IsTrue

LEMMA TiesExtend ==
  ASSUME NEW src, NEW more, Extends(src, more), NEW n, NEW e, NEW f, IsSound(src, n, e), IsSound(src, n, f),
         Tied(src, e, f)
  PROVE  Tied(more, e, f)
<1>1. e.linked => DOMAIN e.truth \subseteq DOMAIN src
  BY DEF IsSound, Accounts
<1>2. f.linked => DOMAIN f.truth \subseteq DOMAIN src
  BY DEF IsSound, Accounts
<1> QED
  BY <1>1, <1>2 DEF Tied, Distinct, Extends

LEMMA TiedToItself ==
  ASSUME NEW src, AreSources(src), NEW n, NEW e, IsSound(src, n, e)
  PROVE  Tied(src, e, e)
<1>1. ASSUME e.right, DOMAIN e.value.terms # {} PROVE DOMAIN e.truth # {}
  <2> DEFINE u == TrueTermsIn(src, e.truth)
  <2>1. AreProper(e.value.terms) /\ IsTruth(src, e.truth) /\ Variance(e.value.terms) = Variance(u)
    BY <1>1 DEF IsSound, IsTrue
  <2>2. AreProper(u) /\ DOMAIN u = DOMAIN e.truth
    BY <2>1, TruthIsProper
  <2> HIDE DEF u
  <2> QED
    BY <1>1, <2>1, <2>2, ProperSpread
<1> QED
  BY <1>1 DEF Tied, IsSound

-----------------------------------------------------------------------------
(* A linked value made of linked ones is tied to whatever they are.        *)
LEMMA LinkedIsTied ==
  ASSUME NEW src, NEW n, NEW k, NEW e, NEW x, NEW y, NEW f, IsSound(src, n, e), IsSound(src, k, f),
         e.linked, x.linked, y.linked, Tied(src, x, y),
         DOMAIN e.truth \subseteq DOMAIN x.truth \cup DOMAIN y.truth,
         BothTied(src, x, f), BothTied(src, y, f)
  PROVE  BothTied(src, e, f)
<1>1. /\ e.right /\ DOMAIN e.value.terms = {src[p].id : p \in DOMAIN e.truth} /\ Distinct(src, DOMAIN e.truth)
      /\ f.linked => DOMAIN f.value.terms = {src[p].id : p \in DOMAIN f.truth} /\ Distinct(src, DOMAIN f.truth)
  BY DEF IsSound, Accounts
<1>2. ASSUME f.linked, NEW p \in DOMAIN e.truth, NEW q \in DOMAIN f.truth, src[p].id = src[q].id PROVE p = q
  <2>1. p \in DOMAIN x.truth \/ p \in DOMAIN y.truth
    OBVIOUS
  <2> QED
    BY <1>2, <2>1 DEF BothTied, Tied, Distinct
<1>3. f.linked => Distinct(src, DOMAIN e.truth \cup DOMAIN f.truth) /\ Distinct(src, DOMAIN f.truth \cup DOMAIN e.truth)
  BY <1>1, <1>2 DEF Distinct
<1>4. ASSUME f.right, NEW p \in DOMAIN e.truth, src[p].id \in DOMAIN f.value.terms PROVE p \in DOMAIN f.truth
  <2>1. p \in DOMAIN x.truth \/ p \in DOMAIN y.truth
    OBVIOUS
  <2> QED
    BY <1>4, <2>1 DEF BothTied, Tied
<1>5. ASSUME f.linked, NEW q \in DOMAIN f.truth, src[q].id \in DOMAIN e.value.terms PROVE q \in DOMAIN e.truth
  <2>1. PICK p \in DOMAIN e.truth : src[p].id = src[q].id
    BY <1>1, <1>5
  <2> QED
    BY <1>2, <1>5, <2>1
<1>6. ASSUME f.right, NEW i, i \in DOMAIN e.value.terms, i \in DOMAIN f.value.terms
      PROVE  \E p : p \in DOMAIN e.truth /\ p \in DOMAIN f.truth
  <2>1. PICK p \in DOMAIN e.truth : src[p].id = i
    BY <1>1, <1>6
  <2> QED
    BY <1>4, <1>6, <2>1
<1>7. Tied(src, e, f)
  BY <1>3, <1>4, <1>6 DEF Tied
<1>8. Tied(src, f, e)
  BY <1>3, <1>5, <1>6 DEF Tied
<1> QED
  BY <1>7, <1>8 DEF BothTied

(* A value that is right, of operands that are: each of its ids is of an   *)
(* operand whose truth it took over, or nobody else's.                     *)
LEMMA RightIsTied ==
  ASSUME NEW src, NEW n, NEW e, NEW x, NEW y, NEW f, IsSound(src, n, f),
         ~ e.linked, e.right => x.right /\ y.right,
         e.right => \A i \in DOMAIN e.value.terms :
           \/ i \in DOMAIN x.value.terms /\ DOMAIN x.truth \subseteq DOMAIN e.truth
           \/ i \in DOMAIN y.value.terms /\ DOMAIN y.truth \subseteq DOMAIN e.truth
           \/ f.right => i \notin DOMAIN f.value.terms,
         BothTied(src, x, f), BothTied(src, y, f)
  PROVE  BothTied(src, e, f)
<1>1. /\ f.linked => f.right
      /\ f.linked => DOMAIN f.value.terms = {src[p].id : p \in DOMAIN f.truth}
  BY DEF IsSound, Accounts
<1>2. ASSUME f.linked, e.right, NEW q \in DOMAIN f.truth, src[q].id \in DOMAIN e.value.terms PROVE q \in DOMAIN e.truth
  <2> DEFINE i == src[q].id
  <2>1. i \in DOMAIN f.value.terms /\ f.right
    BY <1>1, <1>2
  <2>2. CASE i \in DOMAIN x.value.terms /\ DOMAIN x.truth \subseteq DOMAIN e.truth
    BY <1>2, <2>2 DEF BothTied, Tied
  <2>3. CASE i \in DOMAIN y.value.terms /\ DOMAIN y.truth \subseteq DOMAIN e.truth
    BY <1>2, <2>3 DEF BothTied, Tied
  <2> HIDE DEF i
  <2>4. i \in DOMAIN e.value.terms
    BY <1>2 DEF i
  <2> QED
    BY <1>2, <2>1, <2>2, <2>3, <2>4
<1>3. ASSUME f.right, e.right, NEW i, i \in DOMAIN e.value.terms, i \in DOMAIN f.value.terms
      PROVE  \E p : p \in DOMAIN e.truth /\ p \in DOMAIN f.truth
  <2>1. CASE i \in DOMAIN x.value.terms /\ DOMAIN x.truth \subseteq DOMAIN e.truth
    <3>1. DOMAIN x.value.terms \cap DOMAIN f.value.terms # {} /\ x.right
      BY <1>3, <2>1
    <3>2. DOMAIN x.truth \cap DOMAIN f.truth # {}
      BY <1>3, <3>1 DEF BothTied, Tied
    <3> QED
      BY <2>1, <3>2
  <2>2. CASE i \in DOMAIN y.value.terms /\ DOMAIN y.truth \subseteq DOMAIN e.truth
    <3>1. DOMAIN y.value.terms \cap DOMAIN f.value.terms # {} /\ y.right
      BY <1>3, <2>2
    <3>2. DOMAIN y.truth \cap DOMAIN f.truth # {}
      BY <1>3, <3>1 DEF BothTied, Tied
    <3> QED
      BY <2>2, <3>2
  <2> QED
    BY <1>3, <2>1, <2>2
<1>4. Tied(src, e, f)
  BY <1>3 DEF Tied
<1>5. Tied(src, f, e)
  BY <1>2, <1>3 DEF Tied
<1> QED
  BY <1>4, <1>5 DEF BothTied

(* A measurement that nobody knows of is tied to nothing.                  *)
LEMMA NewIsTied ==
  ASSUME NEW src, NEW n, NEW k, NEW e, NEW f, IsSound(src, n, e), IsSound(src, k, f), e.linked,
         DOMAIN e.value.terms \cap DOMAIN f.value.terms = {}
  PROVE  BothTied(src, e, f)
<1>1. /\ e.right /\ DOMAIN e.value.terms = {src[p].id : p \in DOMAIN e.truth} /\ Distinct(src, DOMAIN e.truth)
      /\ f.linked => DOMAIN f.value.terms = {src[p].id : p \in DOMAIN f.truth} /\ Distinct(src, DOMAIN f.truth)
  BY DEF IsSound, Accounts
<1>2. ASSUME NEW p \in DOMAIN e.truth PROVE src[p].id \notin DOMAIN f.value.terms
  BY <1>1
<1>3. ASSUME f.linked, NEW q \in DOMAIN f.truth PROVE src[q].id \notin DOMAIN e.value.terms
  BY <1>1, <1>3
<1>4. ASSUME f.linked, NEW p \in DOMAIN e.truth, NEW q \in DOMAIN f.truth PROVE src[p].id # src[q].id
  BY <1>1, <1>3, <1>4
<1>5. f.linked => Distinct(src, DOMAIN e.truth \cup DOMAIN f.truth) /\ Distinct(src, DOMAIN f.truth \cup DOMAIN e.truth)
  BY <1>1, <1>4 DEF Distinct
<1>6. Tied(src, e, f)
  BY <1>2, <1>5 DEF Tied
<1>7. Tied(src, f, e)
  BY <1>3, <1>5 DEF Tied
<1> QED
  BY <1>6, <1>7 DEF BothTied

-----------------------------------------------------------------------------
(* A step that makes one value, perhaps of something new.                  *)
LEMMA MakingKeepsTruth ==
  ASSUME TruthInv, IdInv', NEW e, values' = Append(values, e), draws' >= draws,
         sources' \in Seq(Range(sources')), Extends(sources, sources'), AreSources(sources'), NamedOnce(sources'),
         IsSound(sources', draws', e),
         \A i \in DOMAIN values : BothTied(sources', e, values[i])
  PROVE  TruthInv'
<1>1. /\ values \in Seq(Range(values)) /\ draws \in Nat /\ draws' \in Nat
      /\ \A i \in DOMAIN values : Within(values[i].value.terms, Abstract!Ids \cap (1 .. (nextId - 1)))
  BY DEF IdInv, TruthInv
<1>2. /\ DOMAIN values = 1 .. Len(values) /\ Len(values) \in Nat
      /\ DOMAIN values' = 1 .. (Len(values) + 1)
      /\ \A i \in DOMAIN values : values'[i] = values[i]
      /\ values'[Len(values) + 1] = e
  BY <1>1
<1>3. \A i \in DOMAIN values' : i \in DOMAIN values \/ i = Len(values) + 1
  BY <1>2
<1>4. ASSUME NEW i \in DOMAIN values PROVE IsSound(sources', draws', values[i])
  <2>1. IsSound(sources, draws, values[i])
    BY DEF TruthInv
  <2>2. \A id \in DOMAIN values[i].value.terms : id \in Int
    BY <1>1 DEF Within
  <2> QED
    BY <1>1, <2>1, <2>2, SoundEntryExtends
<1>5. ASSUME NEW i \in DOMAIN values, NEW j \in DOMAIN values PROVE Tied(sources', values[i], values[j])
  <2>1. IsSound(sources, draws, values[i]) /\ IsSound(sources, draws, values[j]) /\ Tied(sources, values[i], values[j])
    BY DEF TruthInv
  <2> QED
    BY <2>1, TiesExtend
<1>6. Tied(sources', e, e)
  BY TiedToItself
<1>7. \A i \in DOMAIN values' : IsSound(sources', draws', values'[i])
  BY <1>2, <1>3, <1>4
<1>8. ASSUME NEW i \in DOMAIN values', NEW j \in DOMAIN values' PROVE Tied(sources', values'[i], values'[j])
  <2>1. CASE i \in DOMAIN values /\ j \in DOMAIN values
    BY <1>2, <1>5, <2>1
  <2>2. CASE i \in DOMAIN values /\ j = Len(values) + 1
    BY <1>2, <2>2 DEF BothTied
  <2>3. CASE i = Len(values) + 1 /\ j \in DOMAIN values
    BY <1>2, <2>3 DEF BothTied
  <2>4. CASE i = Len(values) + 1 /\ j = Len(values) + 1
    BY <1>2, <1>6, <2>4
  <2> QED
    BY <1>3, <2>1, <2>2, <2>3, <2>4
<1> QED
  BY <1>7, <1>8 DEF TruthInv

-----------------------------------------------------------------------------
(* What an operand is known to be.                                         *)
LEMMA OperandsAreSound ==
  ASSUME TruthInv, NEW i \in DOMAIN values
  PROVE  /\ IsSound(sources, draws, values[i]) /\ values[i].value.mean \in Fractions
         /\ IsValue(values[i].value) /\ AreSources(sources)
         /\ values[i].right => Operand(values[i].value.terms, nextId)
         /\ \A id \in DOMAIN values[i].value.terms : id \in Int /\ id < nextId
<1>1. IsSound(sources, draws, values[i]) /\ AreSources(sources)
  BY DEF TruthInv
<1>2. nextId \in Nat \ {0} /\ Within(values[i].value.terms, Abstract!Ids \cap (1 .. (nextId - 1)))
  BY DEF TruthInv, IdInv
<1>3. ASSUME NEW id \in DOMAIN values[i].value.terms PROVE id \in Int /\ id < nextId
  <2>1. id \in Int /\ (id > 0 => id \in 1 .. (nextId - 1))
    BY <1>2 DEF Within
  <2> QED
    BY <1>2, <2>1
<1>4. values[i].right => Operand(values[i].value.terms, nextId)
  BY <1>1, <1>3 DEF IsSound, IsTrue, DrawnUpTo, Operand, Below
<1> QED
  BY <1>1, <1>3, <1>4 DEF IsSound

LEMMA SameSources ==
  ASSUME TruthInv, sources' = sources
  PROVE  /\ sources' \in Seq(Range(sources')) /\ Extends(sources, sources') /\ AreSources(sources')
         /\ NamedOnce(sources')
BY DEF TruthInv, Extends

LEMMA TruthIsUnskewed ==
  ASSUME NEW src, NEW t
  PROVE  NoSkew(TrueTermsIn(src, t)) <=> \A p \in DOMAIN t : src[p].third = Zero
<1>1. DOMAIN TrueTermsIn(src, t) = DOMAIN t
  BY DEF TrueTermsIn
<1>2. ASSUME NEW p \in DOMAIN t PROVE TrueTermsIn(src, t)[p].third = src[p].third
  <2>1. TrueTermsIn(src, t)[p] = Term(t[p], src[p].var, src[p].third)
    BY DEF TrueTermsIn
  <2> QED
    BY <2>1, TermFields
<1> QED
  BY <1>1, <1>2 DEF NoSkew

(* A linked value is what its terms say.                                   *)
LEMMA LinkedIsSound ==
  ASSUME NEW src, AreSources(src), NEW n, NEW e, e = Entry(e.value, e.truth, e.right, e.linked),
         IsValue(e.value), e.value.mean \in Fractions, e.linked, e.right,
         Accounts(src, e.value.terms, e.truth), Distinct(src, DOMAIN e.truth), DrawnUpTo(e.value.terms, n),
         Is(e.value, {"gaussian"}) => \A p \in DOMAIN e.truth : src[p].third = Zero
  PROVE  IsSound(src, n, e)
<1> DEFINE v == e.value
           t == e.truth
<1>1. /\ AreProper(v.terms) /\ Variance(v.terms) = Variance(TrueTermsIn(src, t))
      /\ Third(v.terms) = Third(TrueTermsIn(src, t)) /\ IsTruth(src, t)
  BY NamesSpread, NamesTruth
<1>2. Is(v, {"gaussian"}) => NoSkew(v.terms)
  <2> SUFFICES ASSUME Is(v, {"gaussian"}), NEW i \in DOMAIN v.terms PROVE v.terms[i].third = Zero
    BY DEF NoSkew
  <2>1. PICK p \in DOMAIN t : src[p].id = i
    BY DEF Accounts
  <2>2. v.terms[i] = Term(t[p], src[p].var, src[p].third)
    BY <2>1 DEF Accounts
  <2> QED
    BY <2>2, TermFields
<1>3. IsTrue(src, e)
  BY <1>1, <1>2, TruthIsUnskewed DEF IsTrue
<1> QED
  BY <1>3 DEF IsSound

-----------------------------------------------------------------------------
(* Operations on two values.                                               *)
LEMMA BinaryKeepsTruth ==
  ASSUME TruthInv, IdInv', NEW op \in Operations, NEW i \in DOMAIN values, NEW j \in DOMAIN values, Binary(op, i, j)
  PROVE  TruthInv'
<1> DEFINE x == values[i]
           y == values[j]
           d == Derivatives(op, x.value.mean, y.value.mean)
           made == Propagate(op, x.value, y.value, nextId)
           t == MergedTruth(x.truth, d.ja, y.truth, d.jb)
           v == made.value
           e == Combined(v, d, x, y)
           linked == Relates(x.value, y.value) /\ x.linked /\ y.linked
           apart == x.right /\ y.right /\ DOMAIN x.truth \cap DOMAIN y.truth = {}
<1>1. /\ made # Unsupported /\ values' = Append(values, e) /\ draws' = made.drawn /\ sources' = sources
      /\ nextId + 3 < MaxId
  BY DEF Binary, MakeValue, HasRoom
<1>2. /\ IsSound(sources, draws, x) /\ IsSound(sources, draws, y) /\ AreSources(sources)
      /\ x.value.mean \in Fractions /\ y.value.mean \in Fractions
      /\ x.right => Operand(x.value.terms, nextId)
      /\ y.right => Operand(y.value.terms, nextId)
  BY OperandsAreSound
<1>3. \A k, l \in DOMAIN values : Tied(sources, values[k], values[l])
  BY DEF TruthInv
<1>4. d.mean \in Fractions /\ d.ja \in Fractions /\ d.jb \in Fractions
  <2>1. AreFractions(d)
    BY <1>2, DerivativesAreFractions
  <2> HIDE DEF d
  <2> QED
    BY <2>1 DEF AreFractions
<1>5. made = Dispatch(x.value, y.value, d, nextId)
  BY <1>1 DEF Propagate
<1>6. Shaped(made, x.value, y.value, d.mean)
  <2> HIDE DEF d, x, y
  <2> QED
    BY <1>1, <1>5, DispatchShapes
<1>7. draws \in Nat /\ nextId \in Nat \ {0}
  BY DEF TruthInv, IdInv
<1>8. draws' \in {draws, draws + 1} /\ IsValue(v) /\ v.mean \in Fractions /\ draws' >= draws
  <2> HIDE DEF made, d
  <2> QED
    BY <1>1, <1>4, <1>6, <1>7 DEF Shaped
<1>9. e.value = v /\ e.truth = t /\ e.linked = linked /\ e.right = (linked \/ apart)
      /\ e = Entry(e.value, e.truth, e.right, e.linked)
  BY EntryFields DEF Combined
<1>10. (e.linked <=> linked) /\ (e.right <=> linked \/ apart)
  BY <1>9
<1>11. \A k \in DOMAIN values : BothTied(sources, x, values[k]) /\ BothTied(sources, y, values[k])
  BY <1>3 DEF BothTied
<1>12. \A k \in DOMAIN values : IsSound(sources, draws, values[k])
  BY DEF TruthInv
<1>13. TruthMergesTo(t, x.truth, d.ja, y.truth, d.jb)
  BY MergedTruths
<1>14. DOMAIN t \subseteq DOMAIN x.truth \cup DOMAIN y.truth
  BY <1>13 DEF TruthMergesTo
<1>15. Is(v, {"gaussian"}) => Is(x.value, {"gaussian"}) /\ Is(y.value, {"gaussian"})
  BY <1>6 DEF Shaped
<1>16. Is(v, {"moments"}) => Is(x.value, {"moments"}) /\ Is(y.value, {"moments"})
  BY <1>6 DEF Shaped
<1> DEFINE Kept == IsSound(sources, draws', e) /\ \A k \in DOMAIN values : BothTied(sources, e, values[k])
<1>17. ASSUME x.right, y.right, Is(v, {"gaussian"})
       PROVE  /\ \A p \in DOMAIN t : sources[p].third = Zero
              /\ NoSkew(x.value.terms) /\ NoSkew(y.value.terms)
  <2>1. /\ \A p \in DOMAIN x.truth : sources[p].third = Zero
        /\ \A p \in DOMAIN y.truth : sources[p].third = Zero
        /\ NoSkew(x.value.terms) /\ NoSkew(y.value.terms)
    BY <1>2, <1>15, <1>17, TruthIsUnskewed DEF IsSound, IsTrue
  <2> QED
    BY <1>14, <2>1
<1> HIDE DEF t, made, d, x, y
<1>18. ASSUME linked PROVE Kept
  <2>1. /\ x.linked /\ y.linked /\ x.right /\ y.right /\ e.linked /\ e.right
        /\ Accounts(sources, x.value.terms, x.truth) /\ Accounts(sources, y.value.terms, y.truth)
        /\ DrawnUpTo(x.value.terms, draws) /\ DrawnUpTo(y.value.terms, draws)
    BY <1>2, <1>10, <1>18 DEF IsSound
  <2>2. Tied(sources, x, y)
    BY <1>3 DEF x, y
  <2>3. Distinct(sources, DOMAIN x.truth \cup DOMAIN y.truth)
    BY <2>1, <2>2 DEF Tied
  <2>4. Accounts(sources, v.terms, t)
    <3>1. Finite(sources) /\ Varying(sources) /\ Relates(x.value, y.value)
      BY <1>2, <1>18 DEF AreSources
    <3>2. Tells(sources, made, t)
      BY <1>4, <1>5, <2>1, <2>3, <3>1, DispatchTells DEF t
    <3> QED
      BY <1>1, <3>2 DEF Tells
  <2>5. Distinct(sources, DOMAIN t)
    BY <1>14, <2>3 DEF Distinct
  <2>6. DrawnUpTo(v.terms, draws')
    <3> SUFFICES ASSUME NEW id \in DOMAIN v.terms PROVE id >= -draws'
      BY DEF DrawnUpTo
    <3>1. PICK p \in DOMAIN t : id = sources[p].id
      BY <2>4 DEF Accounts
    <3>2. id \in DOMAIN x.value.terms \/ id \in DOMAIN y.value.terms
      BY <1>14, <2>1, <3>1 DEF Accounts
    <3>3. id \in Int /\ id >= -draws
      <4>1. \A z \in DOMAIN x.value.terms \cup DOMAIN y.value.terms : z \in Int
        BY OperandsAreSound DEF x, y
      <4> QED
        BY <2>1, <3>2, <4>1 DEF DrawnUpTo
    <3> QED
      BY <1>7, <1>8, <3>3
  <2>7. IsSound(sources, draws', e)
    BY <1>2, <1>8, <1>9, <1>17, <2>1, <2>4, <2>5, <2>6, LinkedIsSound
  <2>8. ASSUME NEW k \in DOMAIN values PROVE BothTied(sources, e, values[k])
    BY <1>9, <1>11, <1>12, <1>14, <2>1, <2>2, <2>7, LinkedIsTied
  <2> QED
    BY <2>7, <2>8
<1>19. ASSUME ~ linked, apart PROVE Kept
  <2>1. x.right /\ y.right /\ ~ e.linked /\ e.right /\ DOMAIN x.truth \cap DOMAIN y.truth = {}
    BY <1>10, <1>19
  <2>2. IsTrue(sources, x) /\ IsTrue(sources, y)
    BY <1>2, <2>1 DEF IsSound
  <2>3. Operand(x.value.terms, nextId) /\ Operand(y.value.terms, nextId) /\ Apart(x.value.terms, y.value.terms)
    <3>1. Tied(sources, x, y)
      BY <1>3 DEF x, y
    <3> QED
      BY <1>2, <2>1, <3>1 DEF Tied, Apart
  <2>4. Yields(made, x.value.terms, d.ja, y.value.terms, d.jb, nextId)
    <3>1. Gives(made, x.value.terms, d.ja, y.value.terms, d.jb, nextId)
      BY <1>1, <1>4, <1>5, <1>7, <2>3, DispatchGives
    <3> QED
      BY <1>1, <3>1 DEF Gives
  <2>5. /\ IsTruth(sources, t) /\ Keeps(t, x.truth, d.ja, y.truth, d.jb)
        /\ Spreads(TrueTermsIn(sources, t), TrueTermsIn(sources, x.truth), d.ja, TrueTermsIn(sources, y.truth), d.jb)
    BY <1>2, <1>4, <2>1, <2>2, TruthSpreads DEF t, IsTrue
  <2>6. Variance(v.terms) = Variance(TrueTermsIn(sources, t))
    BY <2>2, <2>4, <2>5 DEF Yields, Spreads, Variances, IsTrue
  <2>7. Is(v, {"moments"}) => Third(v.terms) = Third(TrueTermsIn(sources, t))
    BY <1>16, <2>2, <2>4, <2>5 DEF Yields, Spreads, Thirds, IsTrue
  <2>8. Is(v, {"gaussian"}) => NoSkew(v.terms) /\ NoSkew(TrueTermsIn(sources, t))
    BY <1>17, <2>1, <2>4, TruthIsUnskewed DEF Yields
  <2>9. IsTrue(sources, e)
    BY <1>9, <2>4, <2>5, <2>6, <2>7, <2>8 DEF IsTrue, Yields
  <2>10. ASSUME NEW id \in DOMAIN v.terms
         PROVE  \/ id \in DOMAIN x.value.terms /\ DOMAIN x.truth \subseteq DOMAIN e.truth
                \/ id \in DOMAIN y.value.terms /\ DOMAIN y.truth \subseteq DOMAIN e.truth
                \/ id \in Int /\ id >= nextId
                \/ id = -(draws + 1) /\ draws' = draws + 1
    BY <1>1, <1>9, <2>4, <2>5 DEF Yields, Comes, Keeps
  <2>11. DrawnUpTo(v.terms, draws')
    <3> SUFFICES ASSUME NEW id \in DOMAIN v.terms PROVE id >= -draws'
      BY DEF DrawnUpTo
    <3>1. draws' \in Nat
      BY <1>7, <1>8
    <3>2. CASE id \in DOMAIN x.value.terms \/ id \in DOMAIN y.value.terms
      <4>1. id \in Int /\ id >= -draws
        BY <2>3, <3>2 DEF Operand, Below
      <4> QED
        BY <1>7, <1>8, <3>1, <4>1
    <3>3. CASE id \in Int /\ id >= nextId
      BY <1>7, <3>1, <3>3
    <3>4. CASE id = -(draws + 1) /\ draws' = draws + 1
      BY <1>7, <3>4
    <3> QED
      BY <2>10, <3>2, <3>3, <3>4
  <2>12. IsSound(sources, draws', e)
    BY <1>8, <1>9, <2>1, <2>9, <2>11 DEF IsSound
  <2>13. ASSUME NEW k \in DOMAIN values PROVE BothTied(sources, e, values[k])
    <3> DEFINE f == values[k]
    <3>1. f.right => \A id \in DOMAIN f.value.terms : id \in Int /\ id < nextId /\ id >= -draws
      BY OperandsAreSound DEF Operand
    <3>2. IsSound(sources, draws, f) /\ BothTied(sources, x, f) /\ BothTied(sources, y, f)
      BY <1>11, <1>12
    <3> HIDE DEF f
    <3>3. ASSUME NEW id \in DOMAIN e.value.terms
          PROVE  \/ id \in DOMAIN x.value.terms /\ DOMAIN x.truth \subseteq DOMAIN e.truth
                 \/ id \in DOMAIN y.value.terms /\ DOMAIN y.truth \subseteq DOMAIN e.truth
                 \/ f.right => id \notin DOMAIN f.value.terms
      <4>1. id \in Int /\ id >= nextId => (f.right => id \notin DOMAIN f.value.terms)
        BY <1>7, <3>1
      <4>2. id = -(draws + 1) => (f.right => id \notin DOMAIN f.value.terms)
        BY <1>7, <3>1
      <4> QED
        BY <1>9, <2>10, <4>1, <4>2
    <3>4. BothTied(sources, e, f)
      BY <2>1, <3>2, <3>3, RightIsTied
    <3> QED
      BY <3>4 DEF f
  <2> QED
    BY <2>12, <2>13
<1>20. ASSUME ~ linked, ~ apart PROVE Kept
  <2>1. ~ e.linked /\ ~ e.right
    BY <1>10, <1>20
  <2>2. IsSound(sources, draws', e)
    BY <1>8, <1>9, <2>1 DEF IsSound
  <2>3. ASSUME NEW k \in DOMAIN values PROVE BothTied(sources, e, values[k])
    BY <1>11, <1>12, <2>1, RightIsTied
  <2> QED
    BY <2>2, <2>3
<1>21. Kept
  BY <1>18, <1>19, <1>20
<1> HIDE DEF e
<1>22. IsSound(sources', draws', e) /\ \A k \in DOMAIN values : BothTied(sources', e, values[k])
  BY <1>1, <1>21
<1>23. /\ sources' \in Seq(Range(sources')) /\ Extends(sources, sources') /\ AreSources(sources')
       /\ NamedOnce(sources')
  BY <1>1, SameSources
<1> QED
  BY <1>1, <1>8, <1>22, <1>23, MakingKeepsTruth

-----------------------------------------------------------------------------
(* Transforming a value, or promoting it to another model.                 *)
Rescaled(w, mean, terms) == [w EXCEPT !.mean = mean, !.terms = terms]
Reshaped(w, model, shape) == [w EXCEPT !.model = model, !.shape = shape]
LEMMA ChangedValue ==
  ASSUME NEW w, IsValue(w), NEW n, NEW s
  PROVE  /\ Rescaled(w, n, s) = Value(w.model, w.boxed, w.shape, n, s)
         /\ Reshaped(w, n, s) = Value(n, w.boxed, s, w.mean, w.terms)
<1>1. PICK mo, bx, sh, me, te : w = Value(mo, bx, sh, me, te)
  BY DEF IsValue
<1>2. w.model = mo /\ w.boxed = bx /\ w.shape = sh /\ w.mean = me /\ w.terms = te
  BY <1>1 DEF Value
<1>3. [w EXCEPT !.mean = n] = Value(mo, bx, sh, n, te) /\ [w EXCEPT !.model = n] = Value(n, bx, sh, me, te)
  BY <1>1 DEF Value
<1>4. /\ [Value(mo, bx, sh, n, te) EXCEPT !.terms = s] = Value(mo, bx, sh, n, s)
      /\ [Value(n, bx, sh, me, te) EXCEPT !.shape = s] = Value(n, bx, s, me, te)
  BY DEF Value
<1>5. Rescaled(w, n, s) = [[w EXCEPT !.mean = n] EXCEPT !.terms = s]
  BY DEF Rescaled
<1>6. Reshaped(w, n, s) = [[w EXCEPT !.model = n] EXCEPT !.shape = s]
  BY DEF Reshaped
<1> QED
  BY <1>2, <1>3, <1>4, <1>5, <1>6

LEMMA UnaryKeepsTruth ==
  ASSUME TruthInv, IdInv', NEW fn \in Transformations, NEW i \in DOMAIN values, Unary(fn, i)
  PROVE  TruthInv'
<1> DEFINE x == values[i]
           m == x.value.mean
           j == Transformed(fn, m).j
           keeps == KeepsSign(fn, x.value)
           turned == keeps /\ m[1] < 0
           c == IF keeps THEN One ELSE j
           t == MergedTruth(x.truth, j, NoTerms, Zero)
           v == Applied(fn, x.value)
           a == x.value.terms
           e == Entry(v, t, x.right, x.linked /\ ~ turned)
<1>1. values' = Append(values, e) /\ draws' = draws /\ sources' = sources
  BY DEF Unary, MakeValue
<1>2. /\ IsSound(sources, draws, x) /\ AreSources(sources) /\ m \in Fractions /\ IsValue(x.value)
      /\ x.right => Operand(a, nextId)
  BY OperandsAreSound
<1>3. \A k \in DOMAIN values : BothTied(sources, x, values[k]) /\ IsSound(sources, draws, values[k])
  BY DEF TruthInv, BothTied
<1>4. draws \in Nat
  BY DEF TruthInv, IdInv
<1>5. j \in Fractions /\ Transformed(fn, m).mean \in Fractions /\ One \in Fractions /\ One # Zero
  BY <1>2, TransformedIsFraction, ZeroAndOne DEF One, Zero
<1>6. c \in Fractions /\ (keeps => c = One) /\ (~ keeps => c = j)
  BY <1>5
<1>7. keeps => j = Turned(m)
  BY DEF KeepsSign, Transformed
<1>8. Square(c) = Square(j) /\ (c # Zero <=> j # Zero)
  <2>1. Square(Turned(m)) = One /\ Turned(m) # Zero /\ Square(One) = One
    BY <1>5, TurningKeepsSpread, Neutral DEF Square
  <2> HIDE DEF j, c, keeps
  <2> QED
    BY <1>5, <1>6, <1>7, <2>1
<1>9. v = Value(x.value.model, x.value.boxed, x.value.shape, Transformed(fn, m).mean, ScaledTerms(a, c))
  <2> DEFINE w == x.value
             q == Transformed(fn, m).mean
             s == ScaledTerms(w.terms, c)
  <2>0. IsValue(w)
    BY <1>2
  <2>1. v = [w EXCEPT !.mean = q, !.terms = ScaledTerms(@, c)]
    BY DEF Applied
  <2>2. v = Rescaled(w, q, s)
    BY <2>1 DEF Rescaled
  <2> HIDE DEF v, q, w, c, s
  <2>3. Rescaled(w, q, s) = Value(w.model, w.boxed, w.shape, q, s)
    BY ONLY <2>0, ChangedValue
  <2>4. v = Value(w.model, w.boxed, w.shape, q, s)
    BY <2>2, <2>3
  <2> QED
    BY <2>4 DEF w, q, s
<1>10. IsValue(v) /\ v.model = x.value.model /\ v.mean \in Fractions /\ v.terms = ScaledTerms(a, c)
  <2>1. \A mo, bx, sh, me, te : LET w == Value(mo, bx, sh, me, te)
                                IN  IsValue(w) /\ w.model = mo /\ w.mean = me /\ w.terms = te
    BY DEF IsValue, Value
  <2> HIDE DEF v, j, c
  <2> QED
    BY <1>5, <1>9, <2>1
<1>11. /\ e.value = v /\ e.truth = t /\ e.right = x.right /\ e.linked = (x.linked /\ ~ turned)
       /\ e = Entry(e.value, e.truth, e.right, e.linked)
  BY EntryFields
<1>12. (e.right <=> x.right) /\ (e.linked <=> x.linked /\ ~ turned)
  BY <1>11
<1>13. keeps => ~ Is(x.value, {"moments"})
  BY DEF KeepsSign, Box, Is
<1>14. ~ turned => c = j
  <2>1. ~ turned /\ keeps => Turned(m) = One
    <3>1. m[1] \in Int
      BY <1>2 DEF Fractions
    <3> QED
      BY <3>1 DEF Turned
  <2> QED
    BY <1>6, <1>7, <2>1
<1> HIDE DEF v, t, c, j, keeps
<1>15. ASSUME x.right
       PROVE  /\ IsTrue(sources, e) /\ DrawnUpTo(e.value.terms, draws)
              /\ \A id \in DOMAIN e.value.terms : id \in DOMAIN a /\ DOMAIN x.truth \subseteq DOMAIN e.truth
              /\ DOMAIN e.truth \subseteq DOMAIN x.truth
  <2> DEFINE u == TrueTermsIn(sources, x.truth)
             w == TrueTermsIn(sources, t)
  <2>1. IsTrue(sources, x) /\ AreProper(a) /\ IsTruth(sources, x.truth) /\ DrawnUpTo(a, draws)
    BY <1>2, <1>15 DEF IsSound, IsTrue
  <2>2. Scales(v.terms, a, c)
    BY <1>6, <1>10, <2>1, ScaledTermsScale
  <2>3. IsTruth(sources, t) /\ DOMAIN t = {p \in DOMAIN x.truth : j # Zero} /\ Scales(w, u, j)
    BY <1>2, <1>5, <2>1, TruthScales DEF t
  <2>4. /\ Variance(a) = Variance(u)
        /\ Is(x.value, {"moments"}) => Third(a) = Third(u)
        /\ Is(x.value, {"gaussian"}) => NoSkew(a) /\ NoSkew(u)
    BY <2>1 DEF IsTrue
  <2> HIDE DEF u, w
  <2>5. Variance(v.terms) = Variance(w)
    BY <1>8, <2>2, <2>3, <2>4 DEF Scales
  <2>6. Is(v, {"moments"}) => Third(v.terms) = Third(w)
    BY <1>6, <1>10, <1>13, <2>2, <2>3, <2>4 DEF Scales, Is
  <2>7. Is(v, {"gaussian"}) => NoSkew(v.terms) /\ NoSkew(w)
    BY <1>10, <2>2, <2>3, <2>4 DEF Scales, Is
  <2>8. IsTrue(sources, e)
    BY <1>11, <2>2, <2>3, <2>5, <2>6, <2>7 DEF IsTrue, Scales, w
  <2>9. DOMAIN v.terms = {id \in DOMAIN a : c # Zero}
    BY <2>2 DEF Scales
  <2>10. DrawnUpTo(e.value.terms, draws)
    BY <1>11, <2>1, <2>9 DEF DrawnUpTo
  <2> QED
    BY <1>8, <1>11, <2>3, <2>8, <2>9, <2>10
<1>16. ASSUME e.linked PROVE e.right /\ Accounts(sources, e.value.terms, e.truth) /\ Distinct(sources, DOMAIN e.truth)
  <2>1. x.linked /\ c = j /\ x.right /\ Accounts(sources, a, x.truth) /\ Distinct(sources, DOMAIN x.truth)
    BY <1>2, <1>12, <1>14, <1>16 DEF IsSound
  <2>2. Accounts(sources, ScaledTerms(a, j), t)
    BY <1>5, <2>1, ScaledNames DEF t
  <2>3. Distinct(sources, DOMAIN e.truth)
    BY <1>15, <2>1 DEF Distinct
  <2> QED
    BY <1>10, <1>11, <1>12, <2>1, <2>2, <2>3
<1>17. IsSound(sources, draws, e)
  BY <1>10, <1>11, <1>12, <1>15, <1>16 DEF IsSound
<1>18. ASSUME NEW k \in DOMAIN values PROVE BothTied(sources, e, values[k])
  <2>1. CASE e.linked
    <3>1. x.linked /\ x.right /\ Tied(sources, x, x)
      BY <1>2, <1>3, <1>12, <2>1 DEF IsSound, BothTied
    <3>2. DOMAIN e.truth \subseteq DOMAIN x.truth \cup DOMAIN x.truth
      BY <1>15, <3>1
    <3> HIDE DEF x, e
    <3> QED
      BY <1>3, <1>17, <2>1, <3>1, <3>2, LinkedIsTied
  <2>2. CASE ~ e.linked
    <3>1. e.right => \A id \in DOMAIN e.value.terms : id \in DOMAIN x.value.terms /\ DOMAIN x.truth \subseteq DOMAIN e.truth
      BY <1>12, <1>15
    <3>2. e.right => x.right
      BY <1>12
    <3> HIDE DEF x, e
    <3> QED
      BY <1>3, <2>2, <3>1, <3>2, RightIsTied
  <2> QED
    BY <2>1, <2>2
<1> HIDE DEF e
<1>19. /\ IsSound(sources', draws', e) /\ \A k \in DOMAIN values : BothTied(sources', e, values[k])
       /\ draws' >= draws
  BY <1>1, <1>4, <1>17, <1>18
<1>20. /\ sources' \in Seq(Range(sources')) /\ Extends(sources, sources') /\ AreSources(sources')
       /\ NamedOnce(sources')
  BY <1>1, SameSources
<1> QED
  BY <1>1, <1>19, <1>20, MakingKeepsTruth

LEMMA PromoteKeepsTruth ==
  ASSUME TruthInv, IdInv', NEW i \in DOMAIN values, Promote(i)
  PROVE  TruthInv'
<1> DEFINE x == values[i]
           e == [x EXCEPT !.value = [@ EXCEPT !.model = "moments", !.shape = DefaultShape]]
           v == Value("moments", x.value.boxed, DefaultShape, x.value.mean, x.value.terms)
<1>1. values' = Append(values, e) /\ draws' = draws /\ sources' = sources /\ Is(x.value, {"gaussian"})
  BY DEF Promote, MakeValue
<1>2. /\ IsSound(sources, draws, x) /\ AreSources(sources) /\ x.value.mean \in Fractions /\ IsValue(x.value)
      /\ draws \in Nat
  BY OperandsAreSound DEF TruthInv, IdInv
<1>3. \A k \in DOMAIN values : Tied(sources, x, values[k]) /\ Tied(sources, values[k], x)
  BY DEF TruthInv
<1>4. e = Entry(v, x.truth, x.right, x.linked)
  <2>1. [x.value EXCEPT !.model = "moments", !.shape = DefaultShape] = v
    <3>1. Reshaped(x.value, "moments", DefaultShape) = v
      BY <1>2, ChangedValue
    <3> QED
      BY <3>1 DEF Reshaped
  <2>2. x = Entry(x.value, x.truth, x.right, x.linked)
    BY <1>2 DEF IsSound
  <2>3. \A a, b, t, r, l : [Entry(a, t, r, l) EXCEPT !.value = b] = Entry(b, t, r, l)
    BY DEF Entry
  <2>4. e = [x EXCEPT !.value = v]
    BY <2>1
  <2> HIDE DEF e, v, x
  <2> QED
    BY <2>2, <2>3, <2>4
<1>5. IsValue(v) /\ v.mean = x.value.mean /\ v.terms = x.value.terms /\ v.model = "moments"
  BY DEF IsValue, Value
<1>6. /\ e.value = v /\ e.truth = x.truth /\ e.right = x.right /\ e.linked = x.linked
      /\ e = Entry(e.value, e.truth, e.right, e.linked)
  <2> HIDE DEF e, v
  <2> QED
    BY <1>4, EntryFields
<1> HIDE DEF e, v
<1>7. x.right => IsTrue(sources, e)
  <2> SUFFICES ASSUME x.right PROVE IsTrue(sources, e)
    OBVIOUS
  <2> DEFINE u == TrueTermsIn(sources, x.truth)
  <2>1. /\ IsTruth(sources, x.truth) /\ AreProper(x.value.terms) /\ Variance(x.value.terms) = Variance(u)
        /\ NoSkew(x.value.terms) /\ NoSkew(u)
    BY <1>1, <1>2 DEF IsSound, IsTrue
  <2>2. AreProper(u)
    BY <1>2, <2>1, TruthIsProper
  <2>3. Third(x.value.terms) = Zero /\ Third(u) = Zero
    BY <2>1, <2>2, NoSkewNoThird
  <2> QED
    BY <1>5, <1>6, <2>1, <2>3 DEF IsTrue, Is
<1>8. IsSound(sources, draws, e)
  BY <1>2, <1>5, <1>6, <1>7 DEF IsSound
<1>9. \A k \in DOMAIN values : BothTied(sources, e, values[k])
  BY <1>3, <1>5, <1>6 DEF BothTied, Tied
<1>10. /\ IsSound(sources', draws', e) /\ \A k \in DOMAIN values : BothTied(sources', e, values[k])
       /\ draws' >= draws
  BY <1>1, <1>2, <1>8, <1>9
<1>11. /\ sources' \in Seq(Range(sources')) /\ Extends(sources, sources') /\ AreSources(sources')
       /\ NamedOnce(sources')
  BY <1>1, SameSources
<1> QED
  BY <1>1, <1>10, <1>11, MakingKeepsTruth

-----------------------------------------------------------------------------
(* Measurements: the moments that are assumed of them, and what a new one  *)
(* is tied to, which is nothing.                                           *)
LEMMA AssumedMoments ==
  ASSUME NEW m \in Measurables
  PROVE  /\ m.mean \in Fractions /\ m.var \in Fractions /\ m.third \in Fractions
         /\ IsConstant(m) <=> m.var = Zero
         /\ m.var = Zero \/ m.model # "moments" => m.third = Zero
         /\ m.var # Zero => Positive(m.var)
<1>1. /\ IsFraction(m.mean) /\ IsFraction(m.var) /\ IsFraction(m.third) /\ m.var[1] >= 0
      /\ m.var = Zero \/ m.model # "moments" => m.third = Zero
  BY MomentsAssumption
<1>2. m.mean \in Fractions /\ m.var \in Fractions /\ m.third \in Fractions
  BY <1>1, AssumedFractions
<1>3. m.var # Zero => Positive(m.var)
  <2>1. m.var[1] \in Int /\ (m.var[1] = 0 <=> m.var = Zero)
    BY <1>2, ZeroIsNothing DEF Fractions
  <2> QED
    BY <1>1, <1>2, <2>1 DEF Positive
<1> QED
  BY <1>1, <1>2, <1>3 DEF IsConstant

LEMMA TakenWith ==
  ASSUME NEW m, NEW t
  PROVE  LET v == [Taken(m) EXCEPT !.terms = t]
         IN  /\ IsValue(v) /\ v.model = m.model /\ v.mean = m.mean /\ v.terms = t
             /\ v = Value(m.model, None, m.shape, m.mean, t)
BY DEF Taken, Value, IsValue

LEMMA SourceFields ==
  ASSUME NEW id, NEW m, NEW named
  PROVE  LET s == Source(id, m, named)
         IN  s.id = id /\ s.model = m.model /\ s.var = m.var /\ s.third = m.third /\ s.named = named
BY DEF Source

(* One more measurement.                                                   *)
LEMMA AppendedSource ==
  ASSUME TruthInv, NEW m \in Measurables, m.var # Zero, NEW id, NEW named,
         named => \A p \in DOMAIN sources : sources[p].named => sources[p].id # id,
         sources' = Append(sources, Source(id, m, named))
  PROVE  /\ sources' \in Seq(Range(sources')) /\ Extends(sources, sources') /\ AreSources(sources')
         /\ NamedOnce(sources')
         /\ Len(sources) \in Nat /\ DOMAIN sources = 1 .. Len(sources) /\ DOMAIN sources' = 1 .. (Len(sources) + 1)
         /\ sources'[Len(sources) + 1] = Source(id, m, named)
<1> DEFINE s == Source(id, m, named)
           S == Range(sources)
           n == Len(sources) + 1
<1>1. sources \in Seq(S) /\ AreSources(sources) /\ NamedOnce(sources)
  BY DEF TruthInv
<1>2. s.id = id /\ s.var = m.var /\ s.third = m.third /\ s.named = named
  BY SourceFields
<1> HIDE DEF s
<1>3. sources' = Append(sources, s)
  BY DEF s
<1>4. sources' \in Seq(S \cup {s})
  <2>1. sources \in Seq(S \cup {s})
    BY <1>1
  <2> QED
    BY <1>3, <2>1
<1>5. sources' \in Seq(Range(sources'))
  BY <1>4, SequenceOfItsRange
<1>6. /\ Len(sources) \in Nat /\ DOMAIN sources = 1 .. Len(sources) /\ DOMAIN sources' = 1 .. n
      /\ \A p \in DOMAIN sources : sources'[p] = sources[p]
      /\ sources'[n] = s
  BY <1>1, <1>3
<1>7. \A p \in DOMAIN sources' : p \in DOMAIN sources \/ p = n
  BY <1>6
<1>8. Extends(sources, sources')
  BY <1>6 DEF Extends
<1>9. AreSources(sources')
  <2>1. IsFiniteSet(DOMAIN sources')
    BY <1>6, FS_Interval
  <2>2. Positive(s.var) /\ s.third \in Fractions
    BY <1>2, AssumedMoments
  <2>3. \A p \in DOMAIN sources : Positive(sources[p].var) /\ sources[p].third \in Fractions
    BY <1>1 DEF AreSources, Varying
  <2>4. \A p \in DOMAIN sources' : Positive(sources'[p].var) /\ sources'[p].third \in Fractions
    BY <1>6, <1>7, <2>2, <2>3
  <2> QED
    BY <2>1, <2>4 DEF AreSources, Varying, Finite
<1>10. NamedOnce(sources')
  <2> SUFFICES ASSUME NEW p \in DOMAIN sources', NEW q \in DOMAIN sources',
                      sources'[p].named, sources'[q].named, sources'[p].id = sources'[q].id
               PROVE  p = q
    BY DEF NamedOnce
  <2>1. CASE p \in DOMAIN sources /\ q \in DOMAIN sources
    BY <1>1, <1>6, <2>1 DEF NamedOnce
  <2>2. CASE p \in DOMAIN sources /\ q = n
    BY <1>2, <1>6, <2>2
  <2>3. CASE p = n /\ q \in DOMAIN sources
    BY <1>2, <1>6, <2>3
  <2> QED
    BY <1>7, <2>1, <2>2, <2>3
<1> QED
  BY <1>5, <1>6, <1>8, <1>9, <1>10 DEF s

(* The value of one measurement, by its id.                                *)
ValueOf(id, m, p) ==
  Entry([Taken(m) EXCEPT !.terms = Only(id, Term(One, m.var, m.third))], Only(p, One), TRUE, TRUE)

Drawn(id, n) == id >= -n
LEMMA MeasuredIsSound ==
  ASSUME NEW src, AreSources(src), NEW n, NEW m \in Measurables, NEW id, Drawn(id, n), NEW p \in DOMAIN src,
         src[p].id = id, src[p].var = m.var, src[p].third = m.third, NEW f, f = ValueOf(id, m, p)
  PROVE  IsSound(src, n, f) /\ f.linked /\ DOMAIN f.value.terms = {id} /\ DOMAIN f.truth = {p}
<1> DEFINE t == Only(id, Term(One, m.var, m.third))
           v == [Taken(m) EXCEPT !.terms = t]
           u == Only(p, One)
           e == Entry(v, u, TRUE, TRUE)
<1>1. IsValue(v) /\ v.model = m.model /\ v.mean = m.mean /\ v.terms = t
  BY TakenWith
<1> HIDE DEF v
<1>2. e.value = v /\ e.truth = u /\ e.right /\ e.linked /\ e = Entry(e.value, e.truth, e.right, e.linked)
  BY DEF Entry
<1>3. DOMAIN t = {id} /\ t[id] = Term(One, m.var, m.third) /\ DOMAIN u = {p} /\ u[p] = One
  BY DEF Only
<1>4. One \in Fractions \ {Zero}
  BY ZeroAndOne DEF One, Zero
<1> HIDE DEF t, u, e
<1>5. Accounts(src, t, u)
  BY <1>3, <1>4 DEF Accounts
<1>6. Distinct(src, DOMAIN u) /\ DrawnUpTo(t, n)
  BY <1>3 DEF Distinct, DrawnUpTo, Drawn
<1>7. Is(v, {"gaussian"}) => \A q \in DOMAIN u : src[q].third = Zero
  <2>1. m.model # "moments" => m.third = Zero
    BY AssumedMoments
  <2>2. Is(v, {"gaussian"}) => m.model # "moments"
    BY <1>1 DEF Is
  <2> QED
    BY <1>3, <2>1, <2>2
<1>8. m.mean \in Fractions
  BY AssumedMoments
<1>9. IsSound(src, n, e)
  BY <1>1, <1>2, <1>5, <1>6, <1>7, <1>8, LinkedIsSound
<1>10. f = e
  BY DEF e, u, v, t, ValueOf
<1> QED
  BY <1>1, <1>2, <1>3, <1>9, <1>10

(* What is not right is tied to anything.                                  *)
LEMMA WrongIsTied ==
  ASSUME NEW src, NEW n, NEW e, NEW f, IsSound(src, n, f), ~ f.right
  PROVE  BothTied(src, e, f)
BY DEF BothTied, Tied, IsSound

(* A measurement by an id that nobody holds.                               *)
LEMMA NewMeasurement ==
  ASSUME TruthInv, IdInv', NEW m \in Measurables, m.var # Zero, NEW id, NEW named,
         named => \A p \in DOMAIN sources : sources[p].named => sources[p].id # id,
         sources' = Append(sources, Source(id, m, named)),
         values' = Append(values, ValueOf(id, m, Len(sources) + 1)), draws' >= draws, id >= -draws',
         \A i \in DOMAIN values : values[i].right => id \notin DOMAIN values[i].value.terms
  PROVE  TruthInv'
<1> DEFINE p == Len(sources) + 1
           e == ValueOf(id, m, p)
<1>1. /\ sources' \in Seq(Range(sources')) /\ Extends(sources, sources') /\ AreSources(sources')
      /\ NamedOnce(sources') /\ p \in DOMAIN sources' /\ sources'[p] = Source(id, m, named)
  BY AppendedSource
<1>2. sources'[p].id = id /\ sources'[p].var = m.var /\ sources'[p].third = m.third
  BY <1>1, SourceFields
<1> HIDE DEF p
<1>3. IsSound(sources', draws', e) /\ e.linked /\ DOMAIN e.value.terms = {id}
  <2>1. AreSources(sources') /\ e = ValueOf(id, m, p) /\ Drawn(id, draws') /\ m \in Measurables /\ p \in DOMAIN sources'
    BY <1>1 DEF Drawn
  <2> HIDE DEF e
  <2> QED
    <3>1. ASSUME NEW src, NEW n, NEW f, NEW q \in DOMAIN src, AreSources(src), Drawn(id, n),
                 src[q].id = id, src[q].var = m.var, src[q].third = m.third, f = ValueOf(id, m, q)
          PROVE  IsSound(src, n, f) /\ f.linked /\ DOMAIN f.value.terms = {id}
      BY ONLY <3>1, m \in Measurables, MeasuredIsSound
    <3> QED
      BY ONLY <1>2, <2>1, <3>1
<1> HIDE DEF e
<1>4. values' = Append(values, e) /\ draws \in Nat /\ draws' \in Nat
  BY DEF e, p, TruthInv, IdInv
<1>5. ASSUME NEW i \in DOMAIN values PROVE BothTied(sources', e, values[i])
  <2>1. IsSound(sources, draws, values[i]) /\ \A j \in DOMAIN values[i].value.terms : j \in Int
    BY OperandsAreSound
  <2>2. IsSound(sources', draws', values[i])
    BY <1>1, <1>4, <2>1, SoundEntryExtends
  <2>3. CASE values[i].right
    <3>1. DOMAIN e.value.terms \cap DOMAIN values[i].value.terms = {}
      BY <1>3, <2>3
    <3> QED
      BY <1>3, <2>2, <3>1, NewIsTied
  <2> QED
    BY <2>2, <2>3, WrongIsTied
<1> QED
  BY <1>1, <1>3, <1>4, <1>5, MakingKeepsTruth

LEMMA Repeated ==
  ASSUME NEW n, NEW x
  PROVE  /\ n = 0 => [i \in 1 .. n |-> x] = <<>>
         /\ n = 1 => [i \in 1 .. n |-> x] = <<x>>
<1>1. n = 0 => 1 .. n = {}
  OBVIOUS
<1>2. n = 1 => 1 .. n = {1}
  OBVIOUS
<1> QED
  BY <1>1, <1>2

LEMMA IdsOfOthers ==
  ASSUME TruthInv, NEW i \in DOMAIN values, NEW id \in DOMAIN values[i].value.terms
  PROVE  id < nextId /\ (values[i].right => id >= -draws)
<1>1. IsSound(sources, draws, values[i]) /\ id < nextId
  BY OperandsAreSound
<1> QED
  BY <1>1 DEF IsSound, DrawnUpTo

(* Measuring what is exact.                                                *)
LEMMA ExactIsKept ==
  ASSUME TruthInv, IdInv', NEW m \in Measurables, sources' = sources, draws' = draws, NEW truth, DOMAIN truth = {},
         values' = Append(values, Entry([Taken(m) EXCEPT !.terms = NoTerms], truth, TRUE, TRUE))
  PROVE  TruthInv'
<1> DEFINE v == [Taken(m) EXCEPT !.terms = NoTerms]
           e == Entry(v, truth, TRUE, TRUE)
<1>1. IsValue(v) /\ v.mean = m.mean /\ v.terms = NoTerms
  BY TakenWith
<1> HIDE DEF v
<1>2. /\ e.value = v /\ e.truth = truth /\ e.right /\ e.linked /\ values' = Append(values, e)
      /\ e = Entry(e.value, e.truth, e.right, e.linked)
  BY DEF Entry, v
<1> HIDE DEF e
<1>3. Accounts(sources, NoTerms, truth) /\ Distinct(sources, DOMAIN truth) /\ DrawnUpTo(NoTerms, draws)
  BY NothingNamed DEF Distinct, DrawnUpTo, NoTerms
<1>4. AreSources(sources) /\ draws \in Nat /\ m.mean \in Fractions
  BY AssumedMoments DEF TruthInv, IdInv
<1>5. IsSound(sources, draws, e)
  BY <1>1, <1>2, <1>3, <1>4, LinkedIsSound
<1>6. ASSUME NEW i \in DOMAIN values PROVE BothTied(sources, e, values[i])
  <2>1. IsSound(sources, draws, values[i]) /\ DOMAIN e.value.terms \cap DOMAIN values[i].value.terms = {}
    BY <1>1, <1>2, OperandsAreSound DEF NoTerms
  <2> QED
    BY <1>2, <1>5, <2>1, NewIsTied
<1>7. /\ sources' \in Seq(Range(sources')) /\ Extends(sources, sources') /\ AreSources(sources')
      /\ NamedOnce(sources')
  BY SameSources
<1>8. /\ IsSound(sources', draws', e) /\ \A i \in DOMAIN values : BothTied(sources', e, values[i])
      /\ draws' >= draws
  BY <1>4, <1>5, <1>6
<1> QED
  BY <1>2, <1>7, <1>8, MakingKeepsTruth

(* A measurement by the next draw, or by the next id.                      *)
LEMMA MeasureKeepsTruth ==
  ASSUME TruthInv, IdInv', NEW m \in Measurables, Measure(m)
  PROVE  TruthInv'
<1> DEFINE id == IF m.model = "monte_carlo" THEN -(draws + 1) ELSE nextId
           samples == With(IF IsConstant(m) THEN NoTerms ELSE Only(-(draws + 1), Term(One, m.var, Zero)), nextId)
           l == CASE m.model = "monte_carlo" -> samples
                  [] m.model = "moments" -> MeasuredMoments(nextId, m.var, m.third)
                  [] OTHER -> MeasuredLineage(nextId, m.var)
           drawn == IF m.model = "monte_carlo" /\ ~ IsConstant(m) THEN draws + 1 ELSE draws
           count == Cardinality(DOMAIN l.terms)
           first == Source(CHOOSE x \in DOMAIN l.terms : TRUE, m, FALSE)
           new == [i \in 1 .. count |-> first]
           truth == [p \in (DOMAIN sources') \ DOMAIN sources |-> One]
           e == Entry([Taken(m) EXCEPT !.terms = l.terms], truth, TRUE, TRUE)
<1>1. /\ sources' = sources \o new /\ values' = Append(values, e) /\ draws' = drawn
  BY DEF Measure, MakeValue
<1>2. /\ draws \in Nat /\ nextId \in Nat \ {0} /\ sources \in Seq(Range(sources))
      /\ DOMAIN sources = 1 .. Len(sources) /\ Len(sources) \in Nat
  BY DEF TruthInv, IdInv
<1>3. /\ IsConstant(m) <=> m.var = Zero
      /\ m.var = Zero \/ m.model # "moments" => m.third = Zero
  BY AssumedMoments
<1>4. l.terms = IF m.var = Zero THEN NoTerms ELSE Only(id, Term(One, m.var, m.third))
  BY <1>3 DEF With, MeasuredMoments, MeasuredLineage
<1>5. CASE m.var = Zero
  <2>1. l.terms = NoTerms /\ DOMAIN l.terms = {}
    BY <1>4, <1>5 DEF NoTerms
  <2>2. drawn = draws
    BY <1>3, <1>5
  <2>3. count = 0
    BY <2>1, FS_EmptySet
  <2> HIDE DEF count, first
  <2>4. new = <<>>
    BY <2>3, Repeated
  <2> HIDE DEF new, drawn, l
  <2>5. sources' = sources
    BY <1>1, <1>2, <2>4
  <2>6. DOMAIN truth = {}
    BY <2>5
  <2>7. values' = Append(values, Entry([Taken(m) EXCEPT !.terms = NoTerms], truth, TRUE, TRUE))
    BY <1>1, <2>1
  <2> HIDE DEF truth
  <2> QED
    BY <1>1, <2>2, <2>5, <2>6, <2>7, ExactIsKept
<1>6. CASE m.var # Zero
  <2> DEFINE s == Source(id, m, FALSE)
             n == Len(sources) + 1
  <2>1. l.terms = Only(id, Term(One, m.var, m.third)) /\ DOMAIN l.terms = {id}
    BY <1>4, <1>6 DEF Only
  <2>2. (drawn = IF m.model = "monte_carlo" THEN draws + 1 ELSE draws) /\ id \in Int
    BY <1>2, <1>3, <1>6
  <2>3. drawn >= draws /\ id >= -drawn
    BY <1>2, <2>2
  <2>4. ASSUME NEW i \in DOMAIN values, values[i].right PROVE id \notin DOMAIN values[i].value.terms
    <3> SUFFICES ASSUME id \in DOMAIN values[i].value.terms PROVE FALSE
      OBVIOUS
    <3>1. id < nextId /\ id >= -draws
      BY <2>4, IdsOfOthers
    <3> QED
      BY <1>2, <3>1
  <2> HIDE DEF drawn, l, id
  <2>5. count = 1 /\ first = s
    BY <2>1, FS_Singleton
  <2> HIDE DEF count, first
  <2>6. new = <<s>>
    BY <2>5, Repeated
  <2> HIDE DEF new, s
  <2>7. sources' = Append(sources, s)
    BY <1>1, <1>2, <2>6
  <2>8. DOMAIN sources' = 1 .. n
    BY <1>2, <2>7
  <2>9. truth = Only(n, One)
    <3>1. (DOMAIN sources') \ DOMAIN sources = {n}
      BY <1>2, <2>8
    <3> QED
      BY <3>1 DEF Only
  <2> HIDE DEF truth, n
  <2>10. e = ValueOf(id, m, n)
    BY <2>1, <2>9 DEF ValueOf
  <2> HIDE DEF e
  <2>11. values' = Append(values, ValueOf(id, m, Len(sources) + 1)) /\ draws' >= draws /\ id >= -draws'
    BY <1>1, <2>3, <2>10 DEF n
  <2>12. sources' = Append(sources, Source(id, m, FALSE))
    BY <2>7 DEF s
  <2> QED
    BY <1>6, <2>4, <2>11, <2>12, NewMeasurement
<1> QED
  BY <1>5, <1>6

(* A measurement that the caller names: its id is beyond the counter, or   *)
(* it is a measurement that a linked value depends on already.             *)
LEMMA NamingKeepsTruth ==
  ASSUME TruthInv, IdInv', NEW m \in Measurables, NEW id \in Named, MeasureNamed(id, m)
  PROVE  TruthInv'
<1> DEFINE same == {p \in DOMAIN sources : sources[p].id = id}
           q == IF same = {} THEN Len(sources) + 1 ELSE CHOOSE p \in same : TRUE
           e == ValueOf(id, m, q)
<1>1. /\ ~ IsConstant(m)
      /\ \A p \in same : sources[p] = Source(id, m, TRUE)
      /\ id >= nextId \/ \E i \in DOMAIN values : values[i].linked /\ same \cap DOMAIN values[i].truth # {}
      /\ sources' = IF same = {} THEN Append(sources, Source(id, m, TRUE)) ELSE sources
      /\ values' = Append(values, e) /\ draws' = draws
  BY DEF MeasureNamed, MakeValue, ValueOf
<1>2. /\ m.var # Zero /\ id \in Nat \ {0} /\ draws \in Nat /\ nextId \in Nat \ {0} /\ id >= -draws
      /\ AreSources(sources) /\ NamedOnce(sources)
  BY <1>1, AssumedMoments, IdsAssumption DEF TruthInv, IdInv
<1>3. \A i \in DOMAIN values : id >= nextId => id \notin DOMAIN values[i].value.terms
  <2> SUFFICES ASSUME NEW i \in DOMAIN values, id >= nextId, id \in DOMAIN values[i].value.terms PROVE FALSE
    OBVIOUS
  <2>1. id < nextId
    BY IdsOfOthers
  <2> QED
    BY <1>2, <2>1
<1>4. CASE same = {}
  <2>1. sources' = Append(sources, Source(id, m, TRUE)) /\ id >= nextId /\ q = Len(sources) + 1
    BY <1>1, <1>4
  <2>2. \A p \in DOMAIN sources : sources[p].id # id
    BY <1>4
  <2>3. values' = Append(values, ValueOf(id, m, Len(sources) + 1)) /\ draws' >= draws /\ id >= -draws'
    BY <1>1, <1>2, <2>1
  <2> HIDE DEF same, q
  <2> QED
    BY <1>2, <1>3, <2>1, <2>2, <2>3, NewMeasurement
<1>5. CASE same # {}
  <2>1. q \in same
    BY <1>5
  <2>2. /\ sources' = sources /\ q \in DOMAIN sources /\ sources[q] = Source(id, m, TRUE)
        /\ \A p \in DOMAIN sources : sources[p].id = id => sources[p] = Source(id, m, TRUE)
    BY <1>1, <1>5, <2>1
  <2> HIDE DEF q
  <2>3. /\ sources[q].id = id /\ sources[q].var = m.var /\ sources[q].third = m.third
        /\ \A p \in DOMAIN sources : sources[p].id = id => sources[p].named
    <3>1. \A s : s = Source(id, m, TRUE) => s.id = id /\ s.var = m.var /\ s.third = m.third /\ s.named
      BY DEF Source
    <3> HIDE DEF same
    <3> QED
      BY <2>2, <3>1
  <2>4. \A p \in DOMAIN sources : sources[p].id = id => p = q
    BY <1>2, <2>2, <2>3 DEF NamedOnce
  <2> HIDE DEF e
  <2>5. IsSound(sources, draws, e) /\ e.linked /\ DOMAIN e.value.terms = {id} /\ DOMAIN e.truth = {q}
    <3>1. e = ValueOf(id, m, q) /\ Drawn(id, draws)
      BY <1>2 DEF e, Drawn
    <3>2. ASSUME NEW src, NEW n, NEW f, NEW p \in DOMAIN src, AreSources(src), Drawn(id, n),
                 src[p].id = id, src[p].var = m.var, src[p].third = m.third, f = ValueOf(id, m, p)
          PROVE  IsSound(src, n, f) /\ f.linked /\ DOMAIN f.value.terms = {id} /\ DOMAIN f.truth = {p}
      BY ONLY <3>2, m \in Measurables, MeasuredIsSound
    <3> QED
      BY ONLY <1>2, <2>2, <2>3, <3>1, <3>2
  <2>6. ASSUME NEW i \in DOMAIN values PROVE BothTied(sources, e, values[i])
    <3>1. IsSound(sources, draws, values[i])
      BY OperandsAreSound
    <3>2. CASE id >= nextId
      <4>1. DOMAIN e.value.terms \cap DOMAIN values[i].value.terms = {}
        BY <1>3, <2>5, <3>2
      <4> QED
        BY <2>5, <3>1, <4>1, NewIsTied
    <3>3. CASE \E k \in DOMAIN values : values[k].linked /\ same \cap DOMAIN values[k].truth # {}
      <4>1. PICK k \in DOMAIN values : values[k].linked /\ same \cap DOMAIN values[k].truth # {}
        BY <3>3
      <4> DEFINE x == values[k]
      <4>2. PICK p \in DOMAIN sources : sources[p].id = id /\ p \in DOMAIN x.truth
        BY <4>1
      <4>3. DOMAIN e.truth \subseteq DOMAIN x.truth \cup DOMAIN x.truth
        BY <2>4, <2>5, <4>2
      <4>4. Tied(sources, x, x) /\ BothTied(sources, x, values[i])
        BY DEF TruthInv, BothTied
      <4>5. x.linked
        BY <4>1
      <4> HIDE DEF x
      <4> QED
        BY <2>5, <3>1, <4>3, <4>4, <4>5, LinkedIsTied
    <3> QED
      BY <1>1, <3>2, <3>3
  <2>7. /\ sources' \in Seq(Range(sources')) /\ Extends(sources, sources') /\ AreSources(sources')
        /\ NamedOnce(sources')
    BY <2>2, SameSources
  <2>8. /\ IsSound(sources', draws', e) /\ \A i \in DOMAIN values : BothTied(sources', e, values[i])
        /\ draws' >= draws /\ values' = Append(values, e)
    <3>1. draws' = draws /\ sources' = sources
      BY ONLY <1>1, <2>2
    <3>3. draws' >= draws
      BY ONLY <1>2, <3>1
    <3>2. values' = Append(values, e)
      BY <1>1 DEF e
    <3> QED
      BY <2>5, <2>6, <3>1, <3>2, <3>3
  <2> QED
    BY <2>7, <2>8, MakingKeepsTruth
<1> QED
  BY <1>4, <1>5

(* What a new process takes in is what was there.                          *)
LEMMA RestartKeepsTruth ==
  ASSUME TruthInv, IdInv', NEW kept \in SUBSET DOMAIN values, Restart(kept)
  PROVE  TruthInv'
<1>1. PICK order \in [1 .. Cardinality(kept) -> kept] : values' = [k \in DOMAIN order |-> values[order[k]]]
  BY DEF Restart
<1>2. sources' = sources /\ draws' = draws
  BY DEF Restart
<1>3. DOMAIN values' = DOMAIN order /\ \A k \in DOMAIN values' : order[k] \in DOMAIN values /\ values'[k] = values[order[k]]
  BY <1>1
<1>4. \A k \in DOMAIN values' : IsSound(sources, draws, values'[k])
  BY <1>3 DEF TruthInv
<1>5. \A k, l \in DOMAIN values' : Tied(sources, values'[k], values'[l])
  BY <1>3 DEF TruthInv
<1> QED
  BY <1>2, <1>4, <1>5 DEF TruthInv

LEMMA StillTrue ==
  ASSUME TruthInv, IdInv', values' = values, sources' = sources, draws' = draws
  PROVE  TruthInv'
BY DEF TruthInv

LEMMA StepsKeepTruth == TruthInv /\ [Next]_vars => TruthInv'
<1> SUFFICES ASSUME TruthInv, [Next]_vars PROVE TruthInv'
  OBVIOUS
<1>1. IdInv'
  BY StepsRefine DEF TruthInv, Refines
<1>2. ASSUME NEW m, SetMode(m) PROVE TruthInv'
  BY <1>1, <1>2, StillTrue DEF SetMode
<1>3. ASSUME NEW m \in Measurables, Measure(m) PROVE TruthInv'
  BY <1>1, <1>3, MeasureKeepsTruth
<1>4. ASSUME NEW m \in Measurables, NEW id \in Named, MeasureNamed(id, m) PROVE TruthInv'
  BY <1>1, <1>4, NamingKeepsTruth
<1>5. ASSUME NEW i \in DOMAIN values, NEW j \in DOMAIN values, NEW op \in Operations, Binary(op, i, j) PROVE TruthInv'
  BY <1>1, <1>5, BinaryKeepsTruth
<1>6. ASSUME NEW i \in DOMAIN values, Promote(i) PROVE TruthInv'
  BY <1>1, <1>6, PromoteKeepsTruth
<1>7. ASSUME NEW i \in DOMAIN values, NEW fn \in Transformations, Unary(fn, i) PROVE TruthInv'
  BY <1>1, <1>7, UnaryKeepsTruth
<1>8. ASSUME NEW kept \in SUBSET DOMAIN values, Restart(kept) PROVE TruthInv'
  BY <1>1, <1>8, RestartKeepsTruth
<1>9. CASE UNCHANGED vars
  BY <1>1, <1>9, StillTrue DEF vars
<1> QED
  BY <1>2, <1>3, <1>4, <1>5, <1>6, <1>7, <1>8, <1>9 DEF Next, Operations, Transformations

LEMMA NothingIsTrue == Init => TruthInv
<1> SUFFICES ASSUME Init PROVE TruthInv
  OBVIOUS
<1>1. IdInv /\ values = <<>> /\ sources = <<>>
  BY StartsRefining DEF Init
<1>2. DOMAIN values = {} /\ DOMAIN sources = {}
  BY <1>1
<1>3. sources \in Seq(Range(sources))
  BY <1>1
<1>4. AreSources(sources) /\ NamedOnce(sources)
  BY <1>2, FS_EmptySet DEF AreSources, Finite, Varying, NamedOnce
<1> QED
  BY <1>1, <1>2, <1>3, <1>4 DEF TruthInv

LEMMA TruthHolds == Spec => []TruthInv
BY NothingIsTrue, StepsKeepTruth, PTL DEF Spec

(* The spread a value reports is that of what it depends on, after any     *)
(* sequence of operations, modes and processes: what two operands share is *)
(* counted once and with its sign.                                         *)
THEOREM SpreadsAreTrue == Spec => []SpreadIsTrue
<1>1. ASSUME TruthInv PROVE SpreadIsTrue
  <2>1. \A t : TrueTerms(t) = TrueTermsIn(sources, t)
    BY DEF TrueTerms, TrueTermsIn
  <2>2. \A i \in DOMAIN values : values[i].right => IsTrue(sources, values[i])
    BY <1>1 DEF TruthInv, IsSound
  <2> QED
    BY <2>1, <2>2 DEF SpreadIsTrue, IsTrue
<1> QED
  BY <1>1, TruthHolds, PTL

(* A term of a linked value stands for one measurement of those that it    *)
(* depends on, and every one of them has its term, whichever process or    *)
(* caller gave it its id.                                                  *)
THEOREM TermsNameTheirSources == Spec => []TermsNameSources
<1>1. ASSUME TruthInv PROVE TermsNameSources
  <2> SUFFICES ASSUME NEW i \in DOMAIN values, values[i].linked
               PROVE  LET ids == [p \in DOMAIN values[i].truth |-> sources[p].id]
                      IN  /\ DOMAIN values[i].value.terms = Range(ids)
                          /\ \A p, q \in DOMAIN ids : p # q => ids[p] # ids[q]
                          /\ \A p \in DOMAIN ids : values[i].value.terms[ids[p]] = TrueTerms(values[i].truth)[p]
    BY DEF TermsNameSources
  <2> DEFINE t == values[i].truth
             a == values[i].value.terms
             ids == [p \in DOMAIN t |-> sources[p].id]
  <2>1. Accounts(sources, a, t) /\ Distinct(sources, DOMAIN t)
    BY <1>1 DEF TruthInv, IsSound
  <2>2. DOMAIN ids = DOMAIN t /\ \A p \in DOMAIN t : ids[p] = sources[p].id
    OBVIOUS
  <2>3. \A p \in DOMAIN t : TrueTerms(t)[p] = Term(t[p], sources[p].var, sources[p].third)
    BY DEF TrueTerms
  <2> HIDE DEF t, a, ids
  <2>4. DOMAIN a = Range(ids)
    BY <2>1, <2>2 DEF Accounts, Range
  <2>5. \A p, q \in DOMAIN ids : p # q => ids[p] # ids[q]
    BY <2>1, <2>2 DEF Distinct
  <2>6. \A p \in DOMAIN ids : a[ids[p]] = TrueTerms(t)[p]
    BY <2>1, <2>2, <2>3 DEF Accounts
  <2> QED
    BY <2>4, <2>5, <2>6 DEF t, a, ids
<1> QED
  BY <1>1, TruthHolds, PTL
-----------------------------------------------------------------------------
(***************************************************************************)
(* Units: powers of fractions, exact scales in their three representations *)
(* and conversions between plain units, zero points and levels.            *)
(***************************************************************************)
(* Powers. The recursion has a solution, from the finite runs of it.       *)
Run(f, a, n) == f \in [0..n -> Int] /\ f[0] = 1 /\ \A k \in 1..n : f[k] = a * f[k - 1]
IsRunOf(y, a, n) == \E f \in [0..n -> Int] : Run(f, a, n) /\ y = f[n]
PowerOf(a, n) == CHOOSE y \in Int : IsRunOf(y, a, n)

LEMMA RunsStart == ASSUME NEW a \in Int, NEW y PROVE IsRunOf(y, a, 0) <=> y = 1
<1>1. ASSUME IsRunOf(y, a, 0) PROVE y = 1
  BY <1>1 DEF IsRunOf, Run
<1>2. ASSUME y = 1 PROVE IsRunOf(y, a, 0)
  <2> DEFINE f == [k \in 0..0 |-> 1]
  <2>1. f \in [0..0 -> Int] /\ f[0] = 1 /\ \A k \in 1..0 : f[k] = a * f[k - 1]
    OBVIOUS
  <2> HIDE DEF f
  <2> QED
    BY <1>2, <2>1 DEF IsRunOf, Run
<1> QED
  BY <1>1, <1>2

LEMMA RunsGoOn ==
  ASSUME NEW a \in Int, NEW n \in Nat, NEW y
  PROVE  IsRunOf(y, a, n + 1) <=> \E z \in Int : IsRunOf(z, a, n) /\ y = a * z
<1>1. ASSUME IsRunOf(y, a, n + 1) PROVE \E z \in Int : IsRunOf(z, a, n) /\ y = a * z
  <2>1. PICK f \in [0..(n + 1) -> Int] : Run(f, a, n + 1) /\ y = f[n + 1]
    BY <1>1 DEF IsRunOf
  <2> DEFINE g == [k \in 0..n |-> f[k]]
  <2>2. g \in [0..n -> Int] /\ g[0] = 1 /\ g[n] = f[n] /\ f[n] \in Int
    BY <2>1 DEF Run
  <2>3. \A k \in 1..n : g[k] = a * g[k - 1]
    <3>1. ASSUME NEW k \in 1..n PROVE g[k] = a * g[k - 1]
      <4>1. k \in 1..(n + 1) /\ k \in 0..n /\ k - 1 \in 0..n
        OBVIOUS
      <4>2. f[k] = a * f[k - 1]
        BY <2>1, <4>1 DEF Run
      <4> QED
        BY <4>1, <4>2
    <3> QED
      BY <3>1
  <2>4. f[n + 1] = a * f[n]
    <3>1. n + 1 \in 1..(n + 1) /\ (n + 1) - 1 = n
      OBVIOUS
    <3> QED
      BY <2>1, <3>1 DEF Run
  <2> HIDE DEF g
  <2>5. IsRunOf(f[n], a, n)
    BY <2>2, <2>3 DEF IsRunOf, Run
  <2> QED
    BY <2>1, <2>2, <2>4, <2>5
<1>2. ASSUME NEW z \in Int, IsRunOf(z, a, n), y = a * z PROVE IsRunOf(y, a, n + 1)
  <2>1. PICK f \in [0..n -> Int] : Run(f, a, n) /\ z = f[n]
    BY <1>2 DEF IsRunOf
  <2> DEFINE g == [k \in 0..(n + 1) |-> IF k = n + 1 THEN y ELSE f[k]]
  <2>2. y \in Int
    BY <1>2
  <2>3. g \in [0..(n + 1) -> Int] /\ g[0] = 1 /\ g[n + 1] = y
    BY <2>1, <2>2 DEF Run
  <2>4. ASSUME NEW k \in 1..(n + 1) PROVE g[k] = a * g[k - 1]
    <3>1. CASE k = n + 1
      <4>1. g[k] = y /\ g[k - 1] = f[n]
        BY <3>1
      <4> QED
        BY <4>1, <2>1, <1>2
    <3>2. CASE k # n + 1
      <4>1. k \in 1..n /\ k \in 0..(n + 1) /\ k - 1 \in 0..(n + 1) /\ k - 1 # n + 1
        BY <3>2
      <4>2. f[k] = a * f[k - 1]
        BY <2>1, <4>1 DEF Run
      <4> QED
        BY <3>2, <4>1, <4>2
    <3> QED
      BY <3>1, <3>2
  <2> HIDE DEF g
  <2> QED
    BY <2>3, <2>4 DEF IsRunOf, Run
<1> QED
  BY <1>1, <1>2

LEMMA OneRun ==
  ASSUME NEW a \in Int, NEW n \in Nat
  PROVE  \E y \in Int : \A z : IsRunOf(z, a, n) <=> z = y
<1> DEFINE T == {k \in Nat : ~ \E y \in Int : \A z : IsRunOf(z, a, k) <=> z = y}
<1>1. SUFFICES ASSUME T # {} PROVE FALSE
  OBVIOUS
<1>2. PICK k \in T : \A j \in T : k <= j
  BY <1>1, LeastNatural
<1>3. CASE k = 0
  BY <1>3, RunsStart
<1>4. CASE k # 0
  <2>1. k - 1 \in Nat /\ ~ (k <= k - 1) /\ (k - 1) + 1 = k
    BY <1>4
  <2>2. PICK y \in Int : \A z : IsRunOf(z, a, k - 1) <=> z = y
    BY <1>2, <2>1
  <2>3. \A z : IsRunOf(z, a, (k - 1) + 1) <=> \E w \in Int : IsRunOf(w, a, k - 1) /\ z = a * w
    BY <2>1, RunsGoOn
  <2>4. \A z : IsRunOf(z, a, k) <=> z = a * y
    BY <2>1, <2>2, <2>3
  <2>5. a * y \in Int
    OBVIOUS
  <2> QED
    BY <2>4, <2>5
<1> QED
  BY <1>3, <1>4

LEMMA PowersOfRuns ==
  ASSUME NEW a \in Int, NEW n \in Nat
  PROVE  PowerOf(a, n) \in Int /\ PowerOf(a, 0) = 1 /\ PowerOf(a, n + 1) = a * PowerOf(a, n)
<1>1. ASSUME NEW k \in Nat PROVE PowerOf(a, k) \in Int /\ \A z : IsRunOf(z, a, k) <=> z = PowerOf(a, k)
  BY OneRun DEF PowerOf
<1>2. PowerOf(a, 0) = 1
  BY <1>1, RunsStart
<1>3. IsRunOf(a * PowerOf(a, n), a, n + 1)
  BY <1>1, RunsGoOn
<1>4. n + 1 \in Nat
  OBVIOUS
<1> QED
  BY <1>1, <1>2, <1>3, <1>4

Power(a, n) == intPower[<<a, n>>]
LEMMA PowerIsRecursive ==
  ASSUME NEW a \in Int, NEW n \in Nat
  PROVE  Power(a, n) \in Int /\ Power(a, 0) = 1 /\ Power(a, n + 1) = a * Power(a, n)
<1> DEFINE Step(f) == [p \in Int \X Nat |-> IF p[2] = 0 THEN 1 ELSE p[1] * f[<<p[1], p[2] - 1>>]]
           h == [p \in Int \X Nat |-> PowerOf(p[1], p[2])]
<1>1. h = Step(h)
  <2>1. ASSUME NEW p \in Int \X Nat
        PROVE  h[p] = IF p[2] = 0 THEN 1 ELSE p[1] * h[<<p[1], p[2] - 1>>]
    <3>1. CASE p[2] = 0
      BY <3>1, PowersOfRuns
    <3>2. CASE p[2] # 0
      <4>1. p[1] \in Int /\ p[2] - 1 \in Nat /\ (p[2] - 1) + 1 = p[2] /\ <<p[1], p[2] - 1>> \in Int \X Nat
        BY <3>2
      <4>2. PowerOf(p[1], (p[2] - 1) + 1) = p[1] * PowerOf(p[1], p[2] - 1)
        BY <4>1, PowersOfRuns
      <4> QED
        BY <3>2, <4>1, <4>2
    <3> QED
      BY <3>1, <3>2
  <2>2. h = [p \in Int \X Nat |-> h[p]]
    OBVIOUS
  <2> HIDE DEF h
  <2> QED
    BY <2>1, <2>2
<1>2. intPower = Step(intPower)
  <2>1. intPower = CHOOSE f : f = Step(f)
    BY DEF intPower
  <2> HIDE DEF h, Step
  <2> QED
    BY <1>1, <2>1
<1>3. \A m \in Nat : Power(a, m) = IF m = 0 THEN 1 ELSE a * Power(a, m - 1)
  <2>1. ASSUME NEW m \in Nat PROVE intPower[<<a, m>>] = IF m = 0 THEN 1 ELSE a * intPower[<<a, m - 1>>]
    <3>1. <<a, m>> \in Int \X Nat
      OBVIOUS
    <3> QED
      BY <1>2, <3>1
  <2> QED
    BY <2>1 DEF Power
<1>4. Power(a, 0) = 1
  BY <1>3
<1>5. ASSUME NEW m \in Nat PROVE Power(a, m + 1) = a * Power(a, m)
  <2>1. m + 1 \in Nat /\ m + 1 # 0 /\ (m + 1) - 1 = m
    OBVIOUS
  <2> QED
    BY <1>3, <2>1
<1> DEFINE T == {m \in Nat : Power(a, m) \notin Int}
<1>6. T = {}
  <2>1. SUFFICES ASSUME T # {} PROVE FALSE
    OBVIOUS
  <2>2. PICK m \in T : \A j \in T : m <= j
    BY <2>1, LeastNatural
  <2>3. m # 0
    BY <1>4
  <2>4. m - 1 \in Nat /\ ~ (m <= m - 1) /\ (m - 1) + 1 = m
    BY <2>3
  <2>5. Power(a, m - 1) \in Int /\ Power(a, m) = a * Power(a, m - 1)
    BY <1>5, <2>2, <2>4
  <2> QED
    BY <2>5
<1> QED
  BY <1>4, <1>5, <1>6

(* Numbers without a common factor.                                        *)
LEMMA CoprimeTurns == ASSUME NEW x \in Int, NEW z \in Int, Coprime(x, z) PROVE Coprime(z, x)
<1>1. PICK s \in Int, t \in Int : 1 = x * s + z * t
  BY DEF Coprime, Combines
<1>2. x * s + z * t = z * t + x * s
  OBVIOUS
<1> QED
  BY <1>1, <1>2 DEF Coprime, Combines

LEMMA CoprimeProduct ==
  ASSUME NEW x \in Int, NEW y \in Int, NEW z \in Int, Coprime(x, z), Coprime(y, z)
  PROVE  Coprime(x * y, z)
<1>1. PICK s \in Int, t \in Int : 1 = x * s + z * t
  BY DEF Coprime, Combines
<1>2. PICK u \in Int, v \in Int : 1 = y * u + z * v
  BY DEF Coprime, Combines
<1>3. (x * s + z * t) * (y * u + z * v) = (x * y) * (s * u) + z * ((x * s) * v + (t * y) * u + (z * t) * v)
  OBVIOUS
<1>4. s * u \in Int /\ (x * s) * v + (t * y) * u + (z * t) * v \in Int
  OBVIOUS
<1> DEFINE m == s * u
           n == (x * s) * v + (t * y) * u + (z * t) * v
<1>5. 1 * 1 = (x * y) * m + z * n
  BY <1>1, <1>2, <1>3
<1>6. m \in Int /\ n \in Int
  BY <1>4
<1> HIDE DEF m, n
<1> QED
  BY <1>5, <1>6 DEF Coprime, Combines

LEMMA CoprimeParts ==
  ASSUME NEW g \in Int, NEW u \in Int, NEW h \in Int, NEW v \in Int, Coprime(g * u, h * v)
  PROVE  Coprime(u, v)
<1>1. PICK s \in Int, t \in Int : 1 = (g * u) * s + (h * v) * t
  BY DEF Coprime, Combines
<1>2. (g * u) * s = u * (g * s) /\ (h * v) * t = v * (h * t) /\ g * s \in Int /\ h * t \in Int
  OBVIOUS
<1> QED
  BY <1>1, <1>2 DEF Coprime, Combines

LEMMA CoprimeOfOne == ASSUME NEW n \in Int PROVE Coprime(1, n) /\ Coprime(n, 1)
<1>1. 1 = 1 * 1 + n * 0 /\ 1 = n * 0 + 1 * 1
  OBVIOUS
<1> QED
  BY <1>1 DEF Coprime, Combines

LEMMA CoprimeToPower ==
  ASSUME NEW a \in Int, NEW b \in Int, Coprime(a, b), NEW n \in Nat
  PROVE  Coprime(Power(a, n), b)
<1> DEFINE T == {m \in Nat : ~ Coprime(Power(a, m), b)}
<1>1. SUFFICES ASSUME T # {} PROVE FALSE
  OBVIOUS
<1>2. PICK m \in T : \A j \in T : m <= j
  BY <1>1, LeastNatural
<1>3. m # 0
  BY CoprimeOfOne, PowerIsRecursive
<1>4. m - 1 \in Nat /\ ~ (m <= m - 1) /\ (m - 1) + 1 = m
  BY <1>3
<1>5. Coprime(Power(a, m - 1), b)
  BY <1>2, <1>4
<1>6. Power(a, m - 1) \in Int /\ Power(a, m) = a * Power(a, m - 1)
  BY <1>4, PowerIsRecursive
<1>7. Coprime(a * Power(a, m - 1), b)
  BY <1>5, <1>6, CoprimeProduct
<1> QED
  BY <1>2, <1>6, <1>7

LEMMA CoprimePowers ==
  ASSUME NEW a \in Int, NEW b \in Int, Coprime(a, b), NEW n \in Nat
  PROVE  Coprime(Power(a, n), Power(b, n))
<1>1. Power(a, n) \in Int /\ Power(b, n) \in Int
  BY PowerIsRecursive
<1>2. Coprime(Power(a, n), b)
  BY CoprimeToPower
<1>3. Coprime(Power(b, n), Power(a, n))
  BY <1>1, <1>2, CoprimeTurns, CoprimeToPower
<1> QED
  BY <1>1, <1>3, CoprimeTurns

LEMMA PowerIsPositive ==
  ASSUME NEW a \in Nat \ {0}, NEW n \in Nat
  PROVE  Power(a, n) \in Nat \ {0}
<1> DEFINE T == {m \in Nat : Power(a, m) \notin Nat \ {0}}
<1>1. SUFFICES ASSUME T # {} PROVE FALSE
  OBVIOUS
<1>2. PICK m \in T : \A j \in T : m <= j
  BY <1>1, LeastNatural
<1>3. m # 0
  BY PowerIsRecursive
<1>4. m - 1 \in Nat /\ ~ (m <= m - 1) /\ (m - 1) + 1 = m
  BY <1>3
<1>5. Power(a, m - 1) \in Nat \ {0}
  BY <1>2, <1>4
<1>6. Power(a, m) = a * Power(a, m - 1)
  BY <1>4, PowerIsRecursive
<1>7. \A b \in Nat \ {0} : a * b \in Nat \ {0}
  <2>1. ASSUME NEW b \in Nat \ {0} PROVE a * b \in Nat \ {0}
    <3>1. a * b >= a * 1
      OBVIOUS
    <3> QED
      BY <3>1
  <2> QED
    BY <2>1
<1> QED
  BY <1>2, <1>5, <1>6, <1>7

LEMMA PowerOfOne == ASSUME NEW n \in Nat PROVE Power(1, n) = 1
<1> DEFINE T == {m \in Nat : Power(1, m) # 1}
<1>1. SUFFICES ASSUME T # {} PROVE FALSE
  OBVIOUS
<1>2. PICK m \in T : \A j \in T : m <= j
  BY <1>1, LeastNatural
<1>3. m # 0
  BY PowerIsRecursive
<1>4. m - 1 \in Nat /\ ~ (m <= m - 1) /\ (m - 1) + 1 = m
  BY <1>3
<1>5. Power(1, m - 1) = 1
  BY <1>2, <1>4
<1>6. Power(1, m) = 1 * Power(1, m - 1)
  BY <1>4, PowerIsRecursive
<1> QED
  BY <1>2, <1>5, <1>6

-----------------------------------------------------------------------------
(* Positive fractions, turned round and raised.                            *)
LEMMA PositiveParts ==
  ASSUME NEW q, Positive(q)
  PROVE  q[1] \in Nat \ {0} /\ q[2] \in Nat \ {0} /\ q = <<q[1], q[2]>> /\ Coprime(q[1], q[2]) /\ q \in Fractions
BY DEF Positive, Fractions

LEMMA PositiveOf ==
  ASSUME NEW n \in Nat \ {0}, NEW d \in Nat \ {0}, Coprime(n, d)
  PROVE  Positive(<<n, d>>) /\ Frac(n, d) = <<n, d>>
<1>1. <<n, d>> \in Fractions
  BY DEF Fractions
<1>2. Frac(<<n, d>>[1], <<n, d>>[2]) = <<n, d>>
  BY <1>1, FracOfFraction
<1> QED
  BY <1>1, <1>2 DEF Positive

LEMMA InvertedIsPositive == ASSUME NEW q, Positive(q) PROVE Positive(Inverted(q)) /\ Inverted(Inverted(q)) = q
<1>1. q[1] \in Nat \ {0} /\ q[2] \in Nat \ {0} /\ q = <<q[1], q[2]>> /\ Coprime(q[1], q[2])
  BY PositiveParts
<1>2. Coprime(q[2], q[1])
  BY <1>1, CoprimeTurns
<1>3. Positive(<<q[2], q[1]>>)
  BY <1>1, <1>2, PositiveOf
<1> QED
  BY <1>1, <1>3 DEF Inverted

LEMMA OverIsTimes == ASSUME NEW a, NEW b PROVE Over(a, b) = Times(a, Inverted(b))
BY DEF Over, Times, Inverted

LEMMA RaisedIsPositive ==
  ASSUME NEW q, Positive(q), NEW n \in Nat
  PROVE  /\ Positive(Raise(q, n)) /\ Raise(Inverted(q), n) = Inverted(Raise(q, n))
         /\ Raise(q, n) = <<Power(q[1], n), Power(q[2], n)>>
<1>1. q[1] \in Nat \ {0} /\ q[2] \in Nat \ {0} /\ q[1] \in Int /\ q[2] \in Int /\ Coprime(q[1], q[2])
  BY PositiveParts
<1>2. Power(q[1], n) \in Nat \ {0} /\ Power(q[2], n) \in Nat \ {0} /\ Coprime(Power(q[1], n), Power(q[2], n))
  BY <1>1, PowerIsPositive, CoprimePowers
<1>3. Raise(q, n) = <<Power(q[1], n), Power(q[2], n)>>
  BY DEF Raise, Power
<1>4. Raise(Inverted(q), n) = Inverted(Raise(q, n))
  BY DEF Raise, Inverted
<1> QED
  BY <1>2, <1>3, <1>4, PositiveOf

LEMMA OneOver == ASSUME NEW q, Positive(q) PROVE Over(One, q) = Inverted(q)
<1>1. Over(One, q) = Times(One, Inverted(q))
  BY OverIsTimes
<1>2. Inverted(q) \in Fractions
  BY InvertedIsPositive DEF Positive
<1> QED
  BY <1>1, <1>2, Neutral

LEMMA WholePowers ==
  ASSUME NEW q, Positive(q), NEW i \in Int
  PROVE  /\ Positive(WholePower(q, i))
         /\ i >= 0 => WholePower(q, i) = Raise(q, i)
         /\ i < 0 => WholePower(q, i) = Raise(Inverted(q), -i)
<1>1. CASE i >= 0
  BY <1>1, RaisedIsPositive DEF WholePower
<1>2. CASE i < 0
  <2>1. -i \in Nat
    BY <1>2
  <2>2. Positive(Raise(q, -i)) /\ Raise(Inverted(q), -i) = Inverted(Raise(q, -i))
    BY <2>1, RaisedIsPositive
  <2>3. WholePower(q, i) = Over(One, Raise(q, -i))
    BY <1>2 DEF WholePower
  <2> QED
    BY <1>2, <2>2, <2>3, OneOver, InvertedIsPositive
<1> QED
  BY <1>1, <1>2

-----------------------------------------------------------------------------
(* Exact scales. Cancelling crosswise gives the product in lowest terms.   *)
Shared(x, y, g, u, v) ==
  /\ g = Gcd(x, y) /\ x = g * u /\ y = g * v /\ Coprime(u, v)
  /\ x \div g = u /\ y \div g = v
LEMMA CommonFactor ==
  ASSUME NEW x \in Nat \ {0}, NEW y \in Nat \ {0}
  PROVE  \E g, u, v \in Nat \ {0} : Shared(x, y, g, u, v)
<1> DEFINE g == Gcd(x, y)
<1>1. g \in Nat /\ Divides(g, x) /\ Divides(g, y) /\ Combines(g, x, y)
  BY GcdIsEuclidean DEF Euclidean
<1> HIDE DEF g
<1>2. PICK u \in Int : x = g * u
  BY <1>1 DEF Divides
<1>3. PICK v \in Int : y = g * v
  BY <1>1 DEF Divides
<1>4. g \in Nat \ {0}
  <2>1. SUFFICES ASSUME g = 0 PROVE FALSE
    BY <1>1
  <2>2. 0 * u = 0
    OBVIOUS
  <2> QED
    BY <1>2, <2>1, <2>2
<1>5. ASSUME NEW w \in Int, NEW z \in Nat \ {0}, z = g * w PROVE w \in Nat \ {0}
  <2>1. SUFFICES ASSUME w <= 0 PROVE FALSE
    OBVIOUS
  <2>2. g * w <= 0
    BY <1>4, <2>1
  <2> QED
    BY <1>5, <2>2
<1>6. u \in Nat \ {0} /\ v \in Nat \ {0}
  BY <1>2, <1>3, <1>5
<1>7. Coprime(u, v)
  BY <1>1, <1>2, <1>3, <1>4, CoprimeOfCommonFactor
<1>8. x \div g = u /\ y \div g = v
  BY <1>2, <1>3, <1>4, ExactQuotient
<1> QED
  BY <1>2, <1>3, <1>4, <1>6, <1>7, <1>8 DEF g, Shared

LEMMA NaturalProduct == ASSUME NEW a \in Nat \ {0}, NEW b \in Nat \ {0} PROVE a * b \in Nat \ {0}
<1>1. a * b >= a * 1
  OBVIOUS
<1> QED
  BY <1>1

LEMMA MulSmallIsTimes == ASSUME NEW a, NEW b, Positive(a), Positive(b) PROVE MulSmall(a, b) = Times(a, b)
<1> DEFINE a1 == a[1] a2 == a[2] b1 == b[1] b2 == b[2]
<1>1. /\ a1 \in Nat \ {0} /\ a2 \in Nat \ {0} /\ b1 \in Nat \ {0} /\ b2 \in Nat \ {0}
      /\ Coprime(a1, a2) /\ Coprime(b1, b2)
  BY PositiveParts
<1>2. MulSmall(a, b) = <<(a1 \div Gcd(a1, b2)) * (b1 \div Gcd(b1, a2)), (a2 \div Gcd(b1, a2)) * (b2 \div Gcd(a1, b2))>>
  BY DEF MulSmall
<1>3. Times(a, b) = Frac(a1 * b1, a2 * b2)
  BY DEF Times
<1> HIDE DEF a1, a2, b1, b2
<1>4. PICK g, u, v \in Nat \ {0} : Shared(a1, b2, g, u, v)
  BY <1>1, CommonFactor
<1>5. PICK h, w, x \in Nat \ {0} : Shared(b1, a2, h, w, x)
  BY <1>1, CommonFactor
<1>6. MulSmall(a, b) = <<u * w, x * v>>
  BY <1>2, <1>4, <1>5 DEF Shared
<1>7. Coprime(u, x) /\ Coprime(w, v)
  BY <1>1, <1>4, <1>5, CoprimeParts DEF Shared
<1>8. Coprime(u * w, x) /\ Coprime(u * w, v)
  BY <1>4, <1>5, <1>7, CoprimeProduct DEF Shared
<1>9. u * w \in Nat \ {0} /\ x * v \in Nat \ {0} /\ a1 * b1 \in Nat \ {0} /\ a2 * b2 \in Nat \ {0}
  BY <1>1, NaturalProduct
<1>10. Coprime(x * v, u * w)
  BY <1>8, <1>9, CoprimeTurns, CoprimeProduct
<1>11. Positive(<<u * w, x * v>>)
  BY <1>9, <1>10, CoprimeTurns, PositiveOf
<1>12. (u * w) * (a2 * b2) = (a1 * b1) * (x * v)
  <2>1. (u * w) * ((h * x) * (g * v)) = ((g * u) * (h * w)) * (x * v)
    OBVIOUS
  <2> QED
    BY <1>4, <1>5, <2>1 DEF Shared
<1> DEFINE p == <<u * w, x * v>>
           n == a1 * b1
           d == a2 * b2
<1>13. p \in Fractions /\ Means(p, n, d)
  BY <1>11, <1>12 DEF Positive, Means
<1>14. n \in Int /\ d \in Int /\ d # 0
  BY <1>9
<1> HIDE DEF p, n, d
<1>15. Frac(n, d) \in Fractions /\ Means(Frac(n, d), n, d)
  BY <1>14, FracIsFraction, FracKeepsValue DEF Means
<1>16. p = Frac(n, d)
  BY <1>13, <1>14, <1>15, MeansOneThing
<1> QED
  BY <1>3, <1>6, <1>16 DEF p, n, d
(* A value is held one way: 1, small or big, by its size alone.            *)
LEMMA HeldFields ==
  ASSUME NEW q, Positive(q)
  PROVE  /\ FromRatio(q).ratio = q
         /\ FromRatio(q).repr = "One" => q = One
         /\ FromRatio(q).repr \in {"One", "Small", "Big"}
         /\ FromRatio(q).repr = "Small" => Fits(q)
         /\ Fits(q) => Small(q[1], q[2]) = FromRatio(q)
         /\ q = One => FromRatio(q) = HeldOne
<1>1. q = <<q[1], q[2]>>
  BY PositiveParts
<1>2. Fits(One)
  BY ExactAssumption DEF Fits, One
<1>3. CASE ~ Fits(q)
  <2>1. FromRatio(q) = Held("Big", q)
    BY <1>3 DEF FromRatio
  <2> QED
    BY <1>2, <1>3, <2>1 DEF Held
<1>4. CASE Fits(q) /\ q = One
  <2>1. FromRatio(q) = HeldOne /\ Small(q[1], q[2]) = FromRatio(q)
    BY <1>4 DEF FromRatio, Small, One
  <2> QED
    BY <1>4, <2>1 DEF HeldOne, Held
<1>5. CASE Fits(q) /\ q # One
  <2>1. ~ (q[1] = 1 /\ q[2] = 1)
    BY <1>1, <1>5 DEF One
  <2>2. FromRatio(q) = Held("Small", q) /\ Small(q[1], q[2]) = FromRatio(q)
    BY <1>1, <1>5, <2>1 DEF FromRatio, Small
  <2> QED
    BY <1>5, <2>2 DEF Held
<1> QED
  BY <1>3, <1>4, <1>5

LEMMA OneIsPositive == Positive(One)
BY ZeroAndOne DEF Positive, One

LEMMA ProductsAreExact ==
  ASSUME NEW p, NEW q, Positive(p), Positive(q), NEW inverse \in BOOLEAN
  PROVE  Product(FromRatio(p), FromRatio(q), inverse) = FromRatio(Times(p, IF inverse THEN Inverted(q) ELSE q))
<1> DEFINE e == FromRatio(p)
           f == FromRatio(q)
           g == IF inverse THEN Inverted(q) ELSE q
           r == MulSmall(p, g)
<1>1. Positive(g) /\ g \in Fractions /\ p \in Fractions
  BY InvertedIsPositive DEF Positive
<1>2. e.ratio = p /\ f.ratio = q
  BY HeldFields
<1>3. Product(e, f, inverse) =
        CASE f.repr = "One" -> e
          [] f.repr # "One" /\ e.repr = "One" -> IF f.repr = "Small" THEN Small(g[1], g[2]) ELSE FromRatio(g)
          [] e.repr = "Small" /\ f.repr = "Small" /\ Fits(r) -> Small(r[1], r[2])
          [] OTHER -> FromRatio(Times(p, g))
  BY <1>2 DEF Product
<1>4. r = Times(p, g) /\ Positive(Times(p, g))
  BY <1>1, MulSmallIsTimes, PositiveTimes
<1>5. f.repr = "One" => g = One
  <2>1. f.repr = "One" => q = One
    BY HeldFields
  <2>2. Inverted(One) = One
    BY DEF Inverted, One
  <2> QED
    BY <2>1, <2>2
<1>6. f.repr = "Small" => Fits(g)
  <2>1. f.repr = "Small" => Fits(q)
    BY HeldFields
  <2>2. Fits(q) => Fits(Inverted(q))
    BY DEF Fits, Inverted
  <2> QED
    BY <2>1, <2>2
<1>7. e.repr = "One" => p = One
  BY HeldFields
<1>8. Times(p, One) = p /\ Times(One, g) = g
  BY <1>1, Neutral
<1>9. Fits(g) => Small(g[1], g[2]) = FromRatio(g)
  BY <1>1, HeldFields
<1>10. Fits(r) => Small(r[1], r[2]) = FromRatio(r)
  BY <1>4, HeldFields
<1> HIDE DEF f, g, r
<1> HIDE DEF e
<1>11. CASE f.repr = "One"
  <2>1. Product(e, f, inverse) = e /\ Times(p, g) = p
    BY <1>3, <1>5, <1>8, <1>11
  <2> QED
    BY <2>1 DEF e, f, g
<1>12. CASE f.repr # "One" /\ e.repr = "One"
  <2>1. Product(e, f, inverse) = IF f.repr = "Small" THEN Small(g[1], g[2]) ELSE FromRatio(g)
    BY <1>3, <1>12
  <2>2. Times(p, g) = g
    BY <1>7, <1>8, <1>12
  <2> QED
    BY <1>6, <1>9, <2>1, <2>2 DEF e, f, g
<1>13. CASE f.repr # "One" /\ e.repr # "One"
  <2>1. Product(e, f, inverse) = IF e.repr = "Small" /\ f.repr = "Small" /\ Fits(r) THEN Small(r[1], r[2]) ELSE FromRatio(Times(p, g))
    BY <1>3, <1>13
  <2> QED
    BY <1>4, <1>10, <2>1 DEF e, f, g
<1> QED
  BY <1>11, <1>12, <1>13 DEF e, f, g

LEMMA RaisedOne == ASSUME NEW i \in Int PROVE WholePower(One, i) = One
<1>1. ASSUME NEW n \in Nat PROVE Raise(One, n) = One
  <2>1. Raise(One, n) = <<Power(1, n), Power(1, n)>>
    BY OneIsPositive, RaisedIsPositive DEF One
  <2> QED
    BY <2>1, PowerOfOne DEF One
<1>2. Inverted(One) = One
  BY DEF Inverted, One
<1>3. i < 0 => -i \in Nat
  OBVIOUS
<1> QED
  BY <1>1, <1>2, <1>3, OneIsPositive, WholePowers

LEMMA PowersAreExact ==
  ASSUME NEW q, Positive(q), NEW i \in Int, AbsOf(i) <= MaxExponent
  PROVE  Powi(FromRatio(q), i) = FromRatio(WholePower(q, i))
<1> DEFINE e == FromRatio(q)
           r == WholePower(IF i < 0 THEN Inverted(q) ELSE q, AbsOf(i))
<1>1. e.ratio = q
  BY HeldFields
<1>2. Powi(e, i) =
        CASE AbsOf(i) > MaxExponent -> NotExact
          [] AbsOf(i) <= MaxExponent /\ e.repr = "One" -> HeldOne
          [] e.repr = "Small" /\ AbsOf(i) <= MaxExponent /\ Fits(r) -> Small(r[1], r[2])
          [] OTHER -> FromRatio(r)
  BY <1>1 DEF Powi
<1>3. AbsOf(i) \in Nat /\ (i < 0 => AbsOf(i) = -i) /\ (i >= 0 => AbsOf(i) = i)
  BY DEF AbsOf
<1>4. r = WholePower(q, i)
  <2>1. CASE i >= 0
    BY <1>3, <2>1
  <2>2. CASE i < 0
    <3>1. r = WholePower(Inverted(q), AbsOf(i)) /\ AbsOf(i) >= 0 /\ AbsOf(i) \in Int
      BY <1>3, <2>2
    <3>2. Positive(Inverted(q))
      BY InvertedIsPositive
    <3>3. r = Raise(Inverted(q), AbsOf(i))
      BY <3>1, <3>2, WholePowers
    <3> QED
      BY <1>3, <2>2, <3>3, WholePowers
  <2> QED
    BY <2>1, <2>2
<1>5. Positive(r)
  BY <1>4, WholePowers
<1>6. ~ (AbsOf(i) > MaxExponent)
  BY <1>3, ExactAssumption
<1>7. e.repr = "One" => WholePower(q, i) = One
  BY HeldFields, RaisedOne
<1>8. FromRatio(One) = HeldOne
  BY OneIsPositive, HeldFields
<1>9. Fits(r) => Small(r[1], r[2]) = FromRatio(r)
  BY <1>5, HeldFields
<1> HIDE DEF e, r
<1>10. CASE e.repr = "One"
  <2>1. Powi(e, i) = HeldOne
    BY <1>2, <1>6, <1>10
  <2> QED
    BY <1>7, <1>8, <1>10, <2>1 DEF e
<1>11. CASE e.repr # "One"
  <2>1. Powi(e, i) = IF e.repr = "Small" /\ Fits(r) THEN Small(r[1], r[2]) ELSE FromRatio(r)
    BY <1>2, <1>6, <1>11
  <2> QED
    BY <1>4, <1>9, <2>1 DEF e
<1> QED
  BY <1>10, <1>11

(* A decimal, read the quick way or the slow one, is what it says.         *)
LEMMA TenTos ==
  ASSUME NEW i \in Int
  PROVE  /\ Positive(TenTo(i))
         /\ i >= 0 => TenTo(i) = <<Power(10, i), 1>>
         /\ i < 0 => TenTo(i) = <<1, Power(10, -i)>>
<1>1. Positive(Whole(10))
  BY WholesAreFractions DEF Whole, Positive
<1>2. Positive(TenTo(i))
  BY <1>1, WholePowers DEF TenTo
<1>3. CASE i >= 0
  <2>1. TenTo(i) = Raise(Whole(10), i) /\ i \in Nat
    BY <1>1, <1>3, WholePowers DEF TenTo
  <2>2. Raise(Whole(10), i) = <<Power(10, i), Power(1, i)>>
    BY <1>1, <2>1, RaisedIsPositive DEF Whole
  <2> QED
    BY <1>2, <1>3, <2>1, <2>2, PowerOfOne
<1>4. CASE i < 0
  <2>1. TenTo(i) = Raise(Inverted(Whole(10)), -i) /\ -i \in Nat
    BY <1>1, <1>4, WholePowers DEF TenTo
  <2>2. Raise(Inverted(Whole(10)), -i) = <<Power(1, -i), Power(10, -i)>>
    BY <2>1 DEF Raise, Inverted, Whole, Power
  <2> QED
    BY <1>2, <1>4, <2>1, <2>2, PowerOfOne
<1> QED
  BY <1>3, <1>4

LEMMA ReducedIsSmaller ==
  ASSUME NEW n \in Nat \ {0}, NEW d \in Nat \ {0}
  PROVE  /\ Positive(Frac(n, d))
         /\ Frac(n, d)[1] <= n /\ Frac(n, d)[2] <= d
<1>0. n \in Int /\ d \in Int /\ n # 0 /\ d # 0
  OBVIOUS
<1>1. PICK g \in Nat \ {0}, u, v \in Int : Reduces(g, u, v, n, d)
  BY <1>0, FracReduces
<1>2. n = g * u /\ d = g * v /\ Frac(n, d) = <<u, v>>
  BY <1>1 DEF Reduces
<1>3. ASSUME NEW w \in Int, NEW z \in Nat \ {0}, z = g * w PROVE w > 0 /\ w <= z
  <2>1. w > 0
    <3>1. SUFFICES ASSUME w <= 0 PROVE FALSE
      OBVIOUS
    <3>2. g * w <= 0
      BY <3>1
    <3> QED
      BY <1>3, <3>2
  <2>2. g * w >= 1 * w
    BY <2>1
  <2> QED
    BY <1>3, <2>1, <2>2
<1>4. u > 0 /\ u <= n /\ v <= d
  BY <1>2, <1>3
<1>5. Frac(n, d) \in Fractions
  BY FracIsFraction
<1> QED
  BY <1>2, <1>4, <1>5 DEF Positive

LEMMA DecimalsAreExact ==
  ASSUME NEW text, text.digits \in Nat, text.point \in Nat, text.exponent \in Int
  PROVE  ParseDecimal(text) \in
           {NotExact, FromRatio(Times(Whole(text.digits), TenTo(text.exponent - text.point)))}
<1> DEFINE digits == text.digits
           power == text.exponent - text.point
           numer == IF power >= 0 THEN digits * TenTo(power)[1] ELSE digits
           denom == TenTo(IF power >= 0 THEN 0 ELSE -power)[1]
           r == Frac(numer, denom)
           value == Times(Whole(digits), TenTo(power))
<1>1. digits \in Nat /\ power \in Int
  OBVIOUS
<1>2. ReadSmall(text) = IF text.sign = "-" \/ digits = 0 \/ numer > Widest \/ denom > Widest
                        THEN NotExact ELSE Small(r[1], r[2])
  BY DEF ReadSmall
<1>3. \/ ParseDecimal(text) = ReadSmall(text) /\ ReadSmall(text) # NotExact
      \/ ParseDecimal(text) = NotExact
      \/ ParseDecimal(text) = FromRatio(value)
  BY DEF ParseDecimal
<1>4. ASSUME ReadSmall(text) # NotExact PROVE ReadSmall(text) = FromRatio(value)
  <2>1. /\ digits # 0 /\ ~ (numer > Widest) /\ ~ (denom > Widest)
        /\ ReadSmall(text) = Small(r[1], r[2])
    BY <1>2, <1>4
  <2>2. numer \in Nat \ {0} /\ denom \in Nat \ {0} /\ value = Frac(numer, denom)
    <3>1. Whole(digits) = <<digits, 1>>
      BY DEF Whole
    <3>2. CASE power >= 0
      <4>1. TenTo(power) = <<Power(10, power), 1>> /\ TenTo(0) = <<Power(10, 0), 1>>
        BY <1>1, <3>2, TenTos
      <4>2. Power(10, power) \in Nat \ {0} /\ Power(10, 0) = 1
        <5>1. power \in Nat
          BY <1>1, <3>2
        <5>2. Power(10, 0) = 1
          BY PowerIsRecursive
        <5> QED
          BY <5>1, <5>2, PowerIsPositive
      <4>3. numer = digits * Power(10, power) /\ denom = 1
        BY <3>2, <4>1, <4>2
      <4>4. value = Frac(digits * Power(10, power), 1)
        BY <1>1, <3>1, <4>1, <4>2 DEF Times
      <4> QED
        BY <1>1, <2>1, <4>2, <4>3, <4>4, NaturalProduct
    <3>3. CASE power < 0
      <4>1. TenTo(power) = <<1, Power(10, -power)>> /\ TenTo(-power) = <<Power(10, -power), 1>> /\ -power \in Nat
        BY <1>1, <3>3, TenTos
      <4>2. Power(10, -power) \in Nat \ {0}
        BY <4>1, PowerIsPositive
      <4>3. numer = digits /\ denom = Power(10, -power)
        BY <1>1, <3>3, <4>1
      <4>4. value = Frac(digits, Power(10, -power))
        BY <1>1, <3>1, <4>1, <4>2 DEF Times
      <4> QED
        BY <1>1, <2>1, <4>2, <4>3, <4>4
    <3> QED
      BY <1>1, <3>2, <3>3
  <2> HIDE DEF numer, denom, value, digits, power
  <2>3. Positive(r) /\ r[1] <= numer /\ r[2] <= denom
    BY <2>2, ReducedIsSmaller
  <2>4. r[1] \in Nat /\ r[2] \in Nat
    BY <2>3, PositiveParts
  <2>5. Fits(r)
    BY <2>1, <2>2, <2>3, <2>4, ExactAssumption DEF Fits
  <2>6. Small(r[1], r[2]) = FromRatio(r)
    BY <2>3, <2>5, HeldFields
  <2> QED
    BY <2>1, <2>2, <2>6
<1> QED
  BY <1>3, <1>4

LEMMA PositiveSamples == ASSUME NEW q, IsPositive(q) PROVE Positive(q)
<1>1. q \in Fractions
  BY AssumedFractions DEF IsPositive
<1> QED
  BY <1>1 DEF IsPositive, Positive

LEMMA ExactScales == ASSUME sample \in Samples PROVE ScalesAreExact
<1>1. SUFFICES ASSUME sample.kind = "exact" PROVE ScalesAreExact
  BY DEF ScalesAreExact
<1> DEFINE p == sample.left q == sample.right i == sample.power
<1>2. ProperExact(sample)
  BY <1>1, SamplesAssumption DEF SamplesOf
<1>3. Positive(p) /\ Positive(q) /\ i \in Int
  BY <1>2, PositiveSamples DEF ProperExact
<1>4. FromRatio(p).ratio = p /\ FromRatio(q).ratio = q
  BY <1>3, HeldFields
<1>5. Mul(FromRatio(p), FromRatio(q)) = FromRatio(Times(p, q))
  BY <1>3, ProductsAreExact DEF Mul
<1>6. Div(FromRatio(p), FromRatio(q)) = FromRatio(Over(p, q))
  BY <1>3, ProductsAreExact, OverIsTimes DEF Div
<1>7. AbsOf(i) <= MaxExponent => Powi(FromRatio(p), i) = FromRatio(WholePower(p, i))
  BY <1>3, PowersAreExact
<1>8. ParseDecimal(sample.decimal) \in
        {NotExact, FromRatio(Times(Whole(sample.decimal.digits), TenTo(sample.decimal.exponent - sample.decimal.point)))}
  BY <1>2, DecimalsAreExact DEF ProperExact
<1> QED
  BY <1>4, <1>5, <1>6, <1>7, <1>8 DEF ScalesAreExact
-----------------------------------------------------------------------------
(* Dividing is multiplying by the reciprocal.                              *)
Reciprocal(b) == Over(One, b)

LEMMA FracMeans ==
  ASSUME NEW n \in Int, NEW d \in Int, d # 0
  PROVE  Frac(n, d) \in Fractions /\ Means(Frac(n, d), n, d)
BY FracIsFraction, FracKeepsValue DEF Means

LEMMA NotZero ==
  ASSUME NEW a \in Fractions, a # Zero
  PROVE  a[1] \in Int /\ a[1] # 0 /\ a[2] \in Int /\ a[2] # 0
BY ZeroIsNothing DEF Fractions

LEMMA ProductsNotZero == ASSUME NEW a \in Int, NEW b \in Int, a # 0, b # 0 PROVE a * b \in Int /\ a * b # 0
<1>1. SUFFICES ASSUME a * b = 0 PROVE FALSE
  OBVIOUS
<1>2. a * b = a * 0
  BY <1>1
<1> QED
  BY <1>2, Cancels

LEMMA Reciprocals ==
  ASSUME NEW b \in Fractions, b # Zero
  PROVE  Reciprocal(b) \in Fractions /\ Times(b, Reciprocal(b)) = One /\ Times(Reciprocal(b), b) = One
<1> DEFINE n == b[1] d == b[2] r == Reciprocal(b)
<1>1. n \in Int /\ n # 0 /\ d \in Int /\ d # 0
  BY NotZero
<1>2. r = Frac(d, n)
  BY <1>1 DEF Reciprocal, Over, One
<1>3. Means(b, n, d) /\ n * d \in Int /\ d * n = n * d /\ n * d # 0
  BY <1>1, MeansItself, ProductsNotZero
<1> HIDE DEF n, d, r
<1>4. r \in Fractions /\ Means(r, d, n)
  BY <1>1, <1>2, FracMeans
<1>5. Times(b, r) \in Fractions
  BY <1>4, FractionsClosed
<1>6. Means(Times(b, r), n * d, d * n)
  BY <1>1, <1>3, <1>4, ProductMeans
<1>7. Means(One, n * d, n * d) /\ One \in Fractions
  BY <1>3, ZeroAndOne DEF Means, One
<1>8. Times(b, r) = One
  <2> DEFINE m == n * d
  <2>1. m \in Int /\ m # 0 /\ Means(Times(b, r), m, m) /\ Means(One, m, m)
    BY <1>3, <1>6, <1>7
  <2> HIDE DEF m
  <2> QED
    BY <1>5, <1>7, <2>1, MeansOneThing
<1> QED
  BY <1>4, <1>8, TimesCommutes DEF r

LEMMA OverByReciprocal ==
  ASSUME NEW a \in Fractions, NEW b \in Fractions, b # Zero
  PROVE  Over(a, b) = Times(a, Reciprocal(b)) /\ Over(a, b) \in Fractions
<1> DEFINE n == b[1] d == b[2] r == Reciprocal(b) a1 == a[1] a2 == a[2]
<1>1. n \in Int /\ n # 0 /\ d \in Int /\ d # 0 /\ a1 \in Int /\ a2 \in Int /\ a2 # 0
  BY NotZero, Denominators
<1>2. r = Frac(d, n) /\ Over(a, b) = Frac(a1 * d, a2 * n)
  BY <1>1 DEF Reciprocal, Over, One
<1>3. Means(a, a1, a2)
  BY MeansItself
<1> HIDE DEF n, d, r, a1, a2
<1>4. r \in Fractions /\ Means(r, d, n)
  BY <1>1, <1>2, FracMeans
<1>5. Times(a, r) \in Fractions
  BY <1>4, FractionsClosed
<1>6. Means(Times(a, r), a1 * d, a2 * n)
  BY <1>1, <1>3, <1>4, ProductMeans
<1> DEFINE x == a1 * d y == a2 * n
<1>7. x \in Int /\ y \in Int /\ y # 0
  BY <1>1, ProductsNotZero
<1>8. Means(Times(a, r), x, y) /\ Over(a, b) = Frac(x, y)
  BY <1>2, <1>6
<1> HIDE DEF x, y
<1>9. Frac(x, y) \in Fractions /\ Means(Frac(x, y), x, y)
  BY <1>7, FracMeans
<1>10. Over(a, b) \in Fractions /\ Over(a, b) = Times(a, r)
  BY <1>5, <1>7, <1>8, <1>9, MeansOneThing
<1> QED
  BY <1>10 DEF r

LEMMA DividedBack ==
  ASSUME NEW a \in Fractions, NEW b \in Fractions, b # Zero
  PROVE  /\ Over(Times(b, a), b) = a /\ Over(Times(a, b), b) = a
         /\ Times(b, Over(a, b)) = a /\ Times(Over(a, b), b) = a
<1> DEFINE r == Reciprocal(b)
<1>1. r \in Fractions /\ Times(b, r) = One /\ Times(r, b) = One
  BY Reciprocals
<1>2. Times(a, b) \in Fractions /\ Times(b, a) = Times(a, b)
  BY FractionsClosed, TimesCommutes
<1>3. Over(Times(a, b), b) = Times(Times(a, b), r) /\ Over(a, b) = Times(a, r) /\ Over(a, b) \in Fractions
  BY <1>2, OverByReciprocal
<1> HIDE DEF r
<1>4. Times(Times(a, b), r) = Times(a, Times(b, r)) /\ Times(Times(a, r), b) = Times(a, Times(r, b))
  BY <1>1, TimesAssociates
<1>5. Times(a, One) = a
  BY Neutral
<1>6. Times(b, Over(a, b)) = Times(Over(a, b), b)
  BY <1>3, TimesCommutes
<1> QED
  BY <1>1, <1>2, <1>3, <1>4, <1>5, <1>6

LEMMA OverDistributes ==
  ASSUME NEW a \in Fractions, NEW b \in Fractions, NEW c \in Fractions, c # Zero
  PROVE  Over(Plus(a, b), c) = Plus(Over(a, c), Over(b, c))
<1> DEFINE r == Reciprocal(c)
<1>1. r \in Fractions /\ Plus(a, b) \in Fractions
  BY Reciprocals, FractionsClosed
<1>2. /\ Over(Plus(a, b), c) = Times(Plus(a, b), r)
      /\ Over(a, c) = Times(a, r) /\ Over(b, c) = Times(b, r)
  BY <1>1, OverByReciprocal
<1> HIDE DEF r
<1>3. Times(r, Plus(a, b)) = Plus(Times(r, a), Times(r, b))
  BY <1>1, Distributes
<1>4. Times(r, Plus(a, b)) = Times(Plus(a, b), r) /\ Times(r, a) = Times(a, r) /\ Times(r, b) = Times(b, r)
  BY <1>1, TimesCommutes
<1> QED
  BY <1>2, <1>3, <1>4

LEMMA OverOfTimes ==
  ASSUME NEW a \in Fractions, NEW b \in Fractions, NEW c \in Fractions, c # Zero
  PROVE  Over(Times(a, b), c) = Times(a, Over(b, c))
<1> DEFINE r == Reciprocal(c)
<1>1. r \in Fractions /\ Times(a, b) \in Fractions
  BY Reciprocals, FractionsClosed
<1>2. Over(Times(a, b), c) = Times(Times(a, b), r) /\ Over(b, c) = Times(b, r)
  BY <1>1, OverByReciprocal
<1> HIDE DEF r
<1> QED
  BY <1>1, <1>2, TimesAssociates

LEMMA Opposites ==
  ASSUME NEW a \in Fractions
  PROVE  Negated(a) \in Fractions /\ Plus(a, Negated(a)) = Zero /\ Plus(Negated(a), a) = Zero
<1> DEFINE n == a[1] d == a[2]
<1>1. n \in Int /\ d \in Int /\ a = <<n, d>>
  BY Denominators
<1>2. Negated(a) = <<-n, d>>
  BY DEF Negated
<1>3. Plus(a, Negated(a)) = Frac(n * d + (-n) * d, d * d)
  BY <1>2 DEF Plus
<1>4. n * d + (-n) * d = 0
  BY <1>1
<1>5. Plus(a, Negated(a)) = Zero
  BY <1>3, <1>4 DEF Frac, Zero
<1> QED
  BY <1>5, NegatedIsFraction, PlusCommutes

(* Different powers of ten are different.                                  *)
LEMMA TenToGrows ==
  ASSUME NEW m \in Nat, NEW n \in Nat, m < n
  PROVE  Power(10, m) < Power(10, n)
<1> DEFINE T == {k \in Nat : \E j \in Nat : j < k /\ ~ (Power(10, j) < Power(10, k))}
<1>1. SUFFICES ASSUME T # {} PROVE FALSE
  OBVIOUS
<1>2. PICK k \in T : \A j \in T : k <= j
  BY <1>1, LeastNatural
<1>3. PICK j \in Nat : j < k /\ ~ (Power(10, j) < Power(10, k))
  BY <1>2
<1>4. k \in Nat /\ k # 0 /\ k - 1 \in Nat /\ ~ (k <= k - 1) /\ (k - 1) + 1 = k
  BY <1>2, <1>3
<1>5. Power(10, k - 1) \in Nat \ {0} /\ Power(10, j) \in Nat \ {0}
  BY <1>4, PowerIsPositive
<1>6. Power(10, k) = 10 * Power(10, k - 1)
  BY <1>4, PowerIsRecursive
<1>7. Power(10, k) > Power(10, k - 1)
  BY <1>5, <1>6
<1>8. j # k - 1
  BY <1>3, <1>7
<1>9. j < k - 1
  BY <1>3, <1>4, <1>8
<1>10. Power(10, j) < Power(10, k - 1)
  BY <1>2, <1>4, <1>9
<1>11. Power(10, k) \in Nat
  BY <1>5, <1>6
<1> QED
  BY <1>3, <1>5, <1>7, <1>10, <1>11

LEMMA TenToBeforeOne == ASSUME NEW n \in Nat, n # 0 PROVE Power(10, n) > 1
<1>1. Power(10, 0) = 1
  BY PowerIsRecursive
<1> QED
  BY <1>1, TenToGrows

LEMMA TenToTellsApart ==
  ASSUME NEW m \in Int, NEW n \in Int, PowerOfTen(m) = PowerOfTen(n)
  PROVE  m = n
<1>1. \A i \in Int : PowerOfTen(i) = TenTo(i)
  BY DEF PowerOfTen, TenTo, Ten
<1>2. ASSUME NEW i \in Nat, NEW j \in Nat, Power(10, i) = Power(10, j) PROVE i = j
  <2>1. Power(10, i) \in Nat
    BY PowerIsPositive
  <2>2. ~ (i < j) /\ ~ (j < i)
    BY <1>2, <2>1, TenToGrows
  <2> QED
    BY <2>2
<1>3. ASSUME NEW i \in Int, NEW j \in Int, i >= 0, j < 0 PROVE PowerOfTen(i) # PowerOfTen(j)
  <2>1. PowerOfTen(i) = <<Power(10, i), 1>> /\ PowerOfTen(j) = <<1, Power(10, -j)>>
    BY <1>1, <1>3, TenTos
  <2>2. -j \in Nat /\ -j # 0
    BY <1>3
  <2>3. Power(10, -j) > 1
    BY <2>2, TenToBeforeOne
  <2> QED
    BY <2>1, <2>3
<1>4. CASE m >= 0 /\ n >= 0
  <2>1. PowerOfTen(m) = <<Power(10, m), 1>> /\ PowerOfTen(n) = <<Power(10, n), 1>> /\ m \in Nat /\ n \in Nat
    BY <1>1, <1>4, TenTos
  <2>2. Power(10, m) = Power(10, n)
    <3>1. ASSUME NEW t, NEW a, t = <<a, 1>> PROVE t[1] = a
      BY <3>1
    <3>2. PowerOfTen(m)[1] = Power(10, m)
      BY <2>1, <3>1
    <3>3. PowerOfTen(n)[1] = Power(10, n)
      BY <2>1, <3>1
    <3> QED
      BY <3>2, <3>3
  <2> QED
    BY <1>2, <2>1, <2>2
<1>5. CASE m < 0 /\ n < 0
  <2>1. PowerOfTen(m) = <<1, Power(10, -m)>> /\ PowerOfTen(n) = <<1, Power(10, -n)>> /\ -m \in Nat /\ -n \in Nat
    BY <1>1, <1>5, TenTos
  <2>2. Power(10, -m) = Power(10, -n)
    <3>1. ASSUME NEW t, NEW a, t = <<1, a>> PROVE t[2] = a
      BY <3>1
    <3>2. PowerOfTen(m)[2] = Power(10, -m)
      BY <2>1, <3>1
    <3>3. PowerOfTen(n)[2] = Power(10, -n)
      BY <2>1, <3>1
    <3> QED
      BY <3>2, <3>3
  <2>3. -m = -n
    BY <1>2, <2>1, <2>2
  <2> QED
    BY <2>3
<1> QED
  BY <1>3, <1>4, <1>5

LEMMA PowersTable ==
  /\ \A r \in DOMAIN PowersOfTen : PowersOfTen[r] \in Int /\ PowerOfTen(PowersOfTen[r]) = r
  /\ \A n \in Int : PowerOfTen(n) \in DOMAIN PowersOfTen => PowersOfTen[PowerOfTen(n)] = n
<1>1. ASSUME NEW r \in DOMAIN PowersOfTen PROVE PowersOfTen[r] \in Int /\ PowerOfTen(PowersOfTen[r]) = r
  <2>1. r \in {PowerOfTen(n) : n \in -9..9} /\ PowersOfTen[r] = CHOOSE n \in -9..9 : PowerOfTen(n) = r
    BY DEF PowersOfTen
  <2>2. \E n \in -9..9 : PowerOfTen(n) = r
    BY <2>1
  <2> QED
    BY <2>1, <2>2
<1> QED
  BY <1>1, TenToTellsApart
-----------------------------------------------------------------------------
(* Conversions. The units of one: proper, of one dimension, and a level    *)
(* among them leaves no room for a zero point.                             *)
ConvertibleUnits(u, w) ==
  /\ IsProperUnit(u) /\ IsProperUnit(w) /\ SameDimensions(u, w)
  /\ IsLogarithmic(u) \/ IsLogarithmic(w) => ~ IsAffine(u) /\ ~ IsAffine(w)
MeansIn(u, x) == Meaning(u, u.offset, x)
NumberIn(w, meaning) == NumberFor(w, w.offset, meaning)
IsTold(u, x) == x \in Fractions /\ IsWholeLevel(u, x)

LEMMA ProperParts ==
  ASSUME NEW u, IsProperUnit(u)
  PROVE  /\ Positive(u.scale) /\ u.offset \in Fractions /\ u.scale # Zero
         /\ IsLogarithmic(u) => /\ u.log.factor \in Fractions /\ u.log.factor # Zero
                                /\ Positive(u.log.reference) /\ u.log.reference # Zero
                                /\ u.offset = Zero /\ u.scale = One
<1>1. Positive(u.scale) /\ u.offset \in Fractions
  BY PositiveSamples, AssumedFractions DEF IsProperUnit
<1>2. \A q : Positive(q) => q # Zero
  BY PositiveIsNotZero
<1>3. ASSUME IsLogarithmic(u)
      PROVE  u.log.factor \in Fractions /\ u.log.factor # Zero /\ Positive(u.log.reference) /\ u.offset = Zero /\ u.scale = One
  BY <1>3, PositiveSamples, AssumedFractions DEF IsProperUnit, IsProperLog, IsAffine
<1> QED
  BY <1>1, <1>2, <1>3

LEMMA TenToIsPositive == ASSUME NEW i \in Int PROVE Positive(PowerOfTen(i)) /\ PowerOfTen(i) \in Fractions
BY TenTos DEF PowerOfTen, TenTo, Ten, Positive

LEMMA WholeNumbers ==
  ASSUME NEW q \in Fractions, IsWhole(q)
  PROVE  q[1] \in Int /\ q = Whole(q[1])
BY Denominators DEF IsWhole, Whole

(* What a level stands for, and the level of it.                           *)
LEMMA LevelMeans ==
  ASSUME NEW u, NEW x, IsProperUnit(u), IsTold(u, x), IsLogarithmic(u), NEW o
  PROVE  /\ Over(x, u.log.factor)[1] \in Int /\ x = Times(u.log.factor, Whole(Over(x, u.log.factor)[1]))
         /\ Meaning(u, o, x) = Times(u.log.reference, PowerOfTen(Over(x, u.log.factor)[1]))
         /\ Meaning(u, o, x) \in Fractions
         /\ Over(Meaning(u, o, x), u.log.reference) = PowerOfTen(Over(x, u.log.factor)[1])
<1> DEFINE f == u.log.factor r == u.log.reference q == Over(x, f) n == q[1] p == PowerOfTen(n) m == Meaning(u, o, x)
<1>1. f \in Fractions /\ f # Zero /\ r \in Fractions /\ r # Zero /\ x \in Fractions
  BY ProperParts DEF IsTold, Positive
<1>2. IsWhole(q)
  BY DEF IsTold, IsWholeLevel
<1>3. m = Times(r, p)
  BY DEF Meaning
<1> HIDE DEF f, r, m
<1>4. q \in Fractions /\ Times(f, q) = x
  BY <1>1, OverByReciprocal, DividedBack
<1> HIDE DEF q
<1>5. n \in Int /\ q = Whole(n)
  BY <1>2, <1>4, WholeNumbers
<1> HIDE DEF n
<1>6. p \in Fractions
  BY <1>5, TenToIsPositive
<1> HIDE DEF p
<1>7. m \in Fractions /\ Over(m, r) = p
  BY <1>1, <1>3, <1>6, FractionsClosed, DividedBack
<1> QED
  BY <1>3, <1>4, <1>5, <1>7 DEF f, r, q, n, p, m

LEMMA PlainMeans ==
  ASSUME NEW u, NEW x \in Fractions, IsProperUnit(u), ~ IsLogarithmic(u), NEW o \in Fractions
  PROVE  Meaning(u, o, x) = Plus(Times(x, u.scale), o) /\ Meaning(u, o, x) \in Fractions
<1>1. u.scale \in Fractions
  BY ProperParts DEF Positive
<1>2. Meaning(u, o, x) = Plus(Times(x, u.scale), o)
  BY DEF Meaning
<1>3. Times(x, u.scale) \in Fractions
  BY <1>1, FractionsClosed
<1> QED
  BY <1>2, <1>3, FractionsClosed

LEMMA MeaningIsFraction ==
  ASSUME NEW u, NEW x, IsProperUnit(u), IsTold(u, x)
  PROVE  MeansIn(u, x) \in Fractions
<1>1. CASE IsLogarithmic(u)
  BY <1>1, LevelMeans DEF MeansIn
<1>2. CASE ~ IsLogarithmic(u)
  BY <1>2, PlainMeans, ProperParts DEF MeansIn, IsTold
<1> QED
  BY <1>1, <1>2

(* A number comes back from what it stands for.                            *)
LEMMA LevelOfMeaning ==
  ASSUME NEW v, NEW o, NEW meaning \in Fractions, IsProperUnit(v), IsLogarithmic(v), HasNumber(v, meaning)
  PROVE  /\ IsTold(v, NumberFor(v, o, meaning)) /\ MeansIn(v, NumberFor(v, o, meaning)) = meaning
<1> DEFINE f == v.log.factor r == v.log.reference q == Over(meaning, r) n == PowersOfTen[q]
           y == Times(f, Whole(n))
<1>1. f \in Fractions /\ f # Zero /\ r \in Fractions /\ r # Zero
  BY ProperParts DEF Positive
<1>2. NumberFor(v, o, meaning) = y /\ q \in DOMAIN PowersOfTen
  BY DEF NumberFor, HasNumber
<1> HIDE DEF f, r
<1>3. q \in Fractions /\ Times(r, q) = meaning
  BY <1>1, OverByReciprocal, DividedBack
<1> HIDE DEF q
<1>4. n \in Int /\ PowerOfTen(n) = q
  BY <1>2, PowersTable
<1> HIDE DEF n
<1>5. Whole(n) \in Fractions /\ IsWhole(Whole(n)) /\ Whole(n)[1] = n
  BY <1>4, WholesAreFractions DEF IsWhole, Whole
<1>6. y \in Fractions /\ Over(y, f) = Whole(n)
  BY <1>1, <1>5, FractionsClosed, DividedBack
<1> HIDE DEF y
<1>7. IsTold(v, y)
  BY <1>5, <1>6 DEF IsTold, IsWholeLevel, f
<1>8. MeansIn(v, y) = Times(r, PowerOfTen(n))
  BY <1>5, <1>6, <1>7, LevelMeans DEF MeansIn, f, r
<1> QED
  BY <1>2, <1>3, <1>4, <1>7, <1>8

LEMMA PlainOfMeaning ==
  ASSUME NEW v, NEW meaning \in Fractions, IsProperUnit(v), ~ IsLogarithmic(v)
  PROVE  /\ IsTold(v, NumberIn(v, meaning)) /\ MeansIn(v, NumberIn(v, meaning)) = meaning
<1> DEFINE s == v.scale o == v.offset d == Minus(meaning, o) y == Over(d, s)
<1>1. s \in Fractions /\ s # Zero /\ o \in Fractions
  BY ProperParts DEF Positive
<1>2. NumberIn(v, meaning) = y
  BY DEF NumberIn, NumberFor
<1> HIDE DEF s, o
<1>3. Negated(o) \in Fractions /\ Plus(Negated(o), o) = Zero
  BY <1>1, Opposites
<1>4. d = Plus(meaning, Negated(o)) /\ d \in Fractions
  BY <1>3, FractionsClosed DEF Minus
<1>5. Plus(d, o) = meaning
  <2>1. Plus(d, o) = Plus(meaning, Plus(Negated(o), o))
    BY <1>1, <1>3, <1>4, PlusAssociates
  <2> QED
    BY <1>3, <2>1, Neutral
<1> HIDE DEF d
<1>6. y \in Fractions /\ Times(y, s) = d
  BY <1>1, <1>4, OverByReciprocal, DividedBack
<1> HIDE DEF y
<1>7. MeansIn(v, y) = Plus(Times(y, s), o)
  BY <1>1, <1>6, PlainMeans DEF MeansIn, s, o
<1> QED
  BY <1>2, <1>5, <1>6, <1>7 DEF IsTold, IsWholeLevel

LEMMA NumberOfMeaning ==
  ASSUME NEW v, NEW meaning \in Fractions, IsProperUnit(v), HasNumber(v, meaning)
  PROVE  IsTold(v, NumberIn(v, meaning)) /\ MeansIn(v, NumberIn(v, meaning)) = meaning
<1>1. CASE IsLogarithmic(v)
  BY <1>1, LevelOfMeaning DEF NumberIn
<1>2. CASE ~ IsLogarithmic(v)
  BY <1>2, PlainOfMeaning
<1> QED
  BY <1>1, <1>2

(* The plan of a conversion gives the number there is for the meaning.     *)
LEMMA PlainPlans ==
  ASSUME NEW u, NEW w, NEW x, ConvertibleUnits(u, w), IsTold(u, x), ~ IsLogarithmic(u), ~ IsLogarithmic(w)
  PROVE  Converted(PlanBetween(u, w), x) = NumberIn(w, MeansIn(u, x))
<1> DEFINE us == u.scale uo == u.offset ws == w.scale wo == w.offset
           ratio == Over(us, ws) no == Negated(wo) shift == Over(Minus(uo, wo), ws)
           plan == PlanBetween(u, w)
<1>1. us \in Fractions /\ uo \in Fractions /\ ws \in Fractions /\ ws # Zero /\ wo \in Fractions /\ x \in Fractions
  BY ProperParts DEF ConvertibleUnits, Positive, IsTold
<1>2. no \in Fractions /\ Plus(wo, no) = Zero
  BY <1>1, Opposites
<1>3. MeansIn(u, x) = Plus(Times(x, us), uo) /\ Times(x, us) \in Fractions
  BY <1>1, PlainMeans, FractionsClosed DEF ConvertibleUnits, MeansIn
<1>4. NumberIn(w, MeansIn(u, x)) = Over(Minus(MeansIn(u, x), wo), ws)
  BY DEF NumberIn, NumberFor
<1>5. Converted(plan, x) = Plus(Times(x, ratio), shift)
  <2>1. CASE IsAffine(u) \/ IsAffine(w)
    <3>1. plan = AffinePlan(ratio, shift)
      BY <2>1 DEF PlanBetween, AffineTo, RatioTo
    <3> QED
      BY <3>1 DEF Converted, AffinePlan
  <2>2. CASE ~ (IsAffine(u) \/ IsAffine(w))
    <3>1. plan = AffinePlan(ratio, Zero)
      BY <2>2 DEF PlanBetween, RatioTo
    <3>2. uo = Zero /\ wo = Zero
      BY <2>2 DEF IsAffine
    <3>3. Plus(uo, no) = Zero
      BY <1>2, <3>2
    <3>4. shift = Over(Zero, ws)
      BY <3>3 DEF Minus
    <3>5. Over(Zero, ws) = Zero
      <4>1. Over(Times(Zero, ws), ws) = Zero
        BY <1>1, ZeroAndOne, DividedBack
      <4> QED
        BY <1>1, <4>1, Neutral
    <3> QED
      BY <3>1, <3>4, <3>5 DEF Converted, AffinePlan
  <2> QED
    BY <2>1, <2>2
<1>6. shift = Over(Plus(uo, no), ws) /\ Minus(MeansIn(u, x), wo) = Plus(MeansIn(u, x), no)
  BY DEF Minus
<1>7. Plus(uo, no) \in Fractions
  BY <1>1, <1>2, FractionsClosed
<1> HIDE DEF us, uo, ws, wo, no, plan
<1>8. Plus(Plus(Times(x, us), uo), no) = Plus(Times(x, us), Plus(uo, no))
  BY <1>1, <1>2, <1>3, PlusAssociates
<1>9. Over(Plus(Times(x, us), Plus(uo, no)), ws) = Plus(Over(Times(x, us), ws), Over(Plus(uo, no), ws))
  BY <1>1, <1>3, <1>7, OverDistributes
<1>10. Over(Times(x, us), ws) = Times(x, ratio)
  BY <1>1, OverOfTimes
<1> QED
  BY <1>3, <1>4, <1>5, <1>6, <1>8, <1>9, <1>10 DEF plan

LEMMA LevelPlans ==
  ASSUME NEW u, NEW w, NEW x, ConvertibleUnits(u, w), IsTold(u, x), IsLogarithmic(u) \/ IsLogarithmic(w),
         HasNumber(w, MeansIn(u, x))
  PROVE  Converted(PlanBetween(u, w), x) = NumberIn(w, MeansIn(u, x))
<1>1. u.offset = Zero /\ w.offset = Zero
  BY DEF ConvertibleUnits, IsAffine
<1>2. CASE u.log = w.log /\ u.scale = w.scale
  <2>1. Converted(PlanBetween(u, w), x) = Plus(Times(x, One), Zero) /\ x \in Fractions
    BY <1>2 DEF PlanBetween, Converted, AffinePlan, IsTold
  <2>2. Converted(PlanBetween(u, w), x) = x
    BY <2>1, Neutral
  <2>3. IsLogarithmic(u) /\ IsLogarithmic(w) /\ IsProperUnit(u)
    BY <1>2 DEF IsLogarithmic, ConvertibleUnits
  <2> DEFINE n == Over(x, u.log.factor)[1]
  <2>4. /\ n \in Int /\ x = Times(u.log.factor, Whole(n))
        /\ Over(MeansIn(u, x), u.log.reference) = PowerOfTen(n)
    BY <2>3, LevelMeans DEF MeansIn
  <2> HIDE DEF n
  <2>5. PowerOfTen(n) \in DOMAIN PowersOfTen
    BY <1>2, <2>3, <2>4 DEF HasNumber
  <2>6. PowersOfTen[PowerOfTen(n)] = n
    BY <2>4, <2>5, PowersTable
  <2>7. NumberIn(w, MeansIn(u, x)) = Times(u.log.factor, Whole(n))
    BY <1>2, <2>3, <2>4, <2>6 DEF NumberIn, NumberFor
  <2> QED
    BY <2>2, <2>4, <2>7
<1>3. CASE ~ (u.log = w.log /\ u.scale = w.scale)
  <2>1. PlanBetween(u, w) = [plan |-> "level", from |-> Stage(u), to |-> Stage(w)]
    BY <1>3 DEF PlanBetween, LevelPlan
  <2>2. Converted(PlanBetween(u, w), x) = NumberFor(Stage(w), Zero, Meaning(Stage(u), Zero, x))
    BY <2>1 DEF Converted
  <2>3. \A s : /\ Stage(s).log = s.log /\ (IsLogarithmic(Stage(s)) <=> IsLogarithmic(s))
               /\ ~ IsLogarithmic(s) => Stage(s).scale = s.scale
    BY DEF Stage, IsLogarithmic
  <2>4. Meaning(Stage(u), Zero, x) = MeansIn(u, x)
    BY <1>1, <2>3 DEF Meaning, MeansIn
  <2>5. \A m : NumberFor(Stage(w), Zero, m) = NumberIn(w, m)
    BY <1>1, <2>3 DEF NumberFor, NumberIn
  <2> QED
    BY <2>2, <2>4, <2>5
<1> QED
  BY <1>2, <1>3

LEMMA PlansKeepMeaning ==
  ASSUME NEW u, NEW w, NEW x, ConvertibleUnits(u, w), IsTold(u, x), HasNumber(w, MeansIn(u, x))
  PROVE  Converted(PlanBetween(u, w), x) = NumberIn(w, MeansIn(u, x))
<1>1. CASE ~ IsLogarithmic(u) /\ ~ IsLogarithmic(w)
  BY <1>1, PlainPlans
<1>2. CASE IsLogarithmic(u) \/ IsLogarithmic(w)
  BY <1>2, LevelPlans
<1> QED
  BY <1>1, <1>2

LEMMA ConversionsGoAround ==
  ASSUME NEW u, NEW v, NEW w, NEW x,
         ConvertibleUnits(u, v), ConvertibleUnits(v, w), ConvertibleUnits(u, w), IsTold(u, x),
         HasNumber(v, MeansIn(u, x)), HasNumber(w, MeansIn(u, x))
  PROVE  Converted(PlanBetween(v, w), Converted(PlanBetween(u, v), x)) = Converted(PlanBetween(u, w), x)
<1> DEFINE m == MeansIn(u, x) y == NumberIn(v, m)
<1>1. Converted(PlanBetween(u, v), x) = y /\ Converted(PlanBetween(u, w), x) = NumberIn(w, m)
  BY PlansKeepMeaning
<1>2. m \in Fractions
  BY MeaningIsFraction DEF ConvertibleUnits
<1> HIDE DEF m
<1>3. IsTold(v, y) /\ MeansIn(v, y) = m
  BY <1>2, NumberOfMeaning DEF ConvertibleUnits, m
<1> HIDE DEF y
<1>4. Converted(PlanBetween(v, w), y) = NumberIn(w, m)
  BY <1>3, PlansKeepMeaning DEF m
<1> QED
  BY <1>1, <1>4

LEMMA ConversionsAreKept == ASSUME sample \in Samples PROVE ConversionsKeepMeaning
<1>1. SUFFICES ASSUME sample.kind = "conversion" PROVE ConversionsKeepMeaning
  BY DEF ConversionsKeepMeaning
<1> DEFINE u == Expand(Embedded, sample.from) v == Expand(Embedded, sample.via) w == Expand(Embedded, sample.to)
           x == sample.number
<1>2. IsFraction(x) /\ ProperUnits({Expand(Embedded, a) : a \in {sample.from, sample.via, sample.to}})
  BY <1>1, SamplesAssumption DEF SamplesOf
<1>3. /\ x \in Fractions
      /\ \A a \in {u, v, w} : IsProperUnit(a)
      /\ \A a, b \in {u, v, w} : SameDimensions(a, b) /\ IsLogarithmic(a) => ~ IsAffine(b)
  <2>1. {Expand(Embedded, a) : a \in {sample.from, sample.via, sample.to}} = {u, v, w}
    OBVIOUS
  <2> QED
    BY <1>2, <2>1, AssumedFractions DEF ProperUnits
<1>4. Between(sample.from, sample.to) = IF SameDimensions(u, w) THEN PlanBetween(u, w) ELSE Refused
  BY <1>3 DEF Between, Conversion, IsProperUnit
<1>5. Between(sample.from, sample.via) = IF SameDimensions(u, v) THEN PlanBetween(u, v) ELSE Refused
  BY <1>3 DEF Between, Conversion, IsProperUnit
<1>6. Between(sample.via, sample.to) = IF SameDimensions(v, w) THEN PlanBetween(v, w) ELSE Refused
  BY <1>3 DEF Between, Conversion, IsProperUnit
<1> HIDE DEF u, v, w, x
<1>7. ASSUME NEW a \in {u, v, w}, NEW b \in {u, v, w}, SameDimensions(a, b) PROVE ConvertibleUnits(a, b)
  <2>1. SameDimensions(b, a) /\ SameDimensions(a, a) /\ SameDimensions(b, b)
    BY <1>7 DEF SameDimensions
  <2> QED
    BY <1>3, <1>7, <2>1 DEF ConvertibleUnits
<1>8. ASSUME IsWholeLevel(u, x), SameDimensions(u, w), HasNumber(w, MeansIn(u, x))
      PROVE  /\ Converted(Between(sample.from, sample.to), x) = NumberIn(w, MeansIn(u, x))
             /\ SameDimensions(v, w) /\ HasNumber(v, MeansIn(u, x)) =>
                  Converted(Between(sample.via, sample.to), Converted(Between(sample.from, sample.via), x))
                    = Converted(Between(sample.from, sample.to), x)
  <2>1. IsTold(u, x) /\ ConvertibleUnits(u, w)
    BY <1>3, <1>7, <1>8 DEF IsTold
  <2>2. Converted(Between(sample.from, sample.to), x) = NumberIn(w, MeansIn(u, x))
    BY <1>4, <1>8, <2>1, PlansKeepMeaning
  <2>3. ASSUME SameDimensions(v, w), HasNumber(v, MeansIn(u, x))
        PROVE  Converted(Between(sample.via, sample.to), Converted(Between(sample.from, sample.via), x))
                 = Converted(Between(sample.from, sample.to), x)
    <3>1. SameDimensions(u, v)
      BY <1>8, <2>3 DEF SameDimensions
    <3>2. ConvertibleUnits(u, v) /\ ConvertibleUnits(v, w)
      BY <1>7, <2>3, <3>1
    <3> QED
      BY <1>4, <1>5, <1>6, <1>8, <2>1, <2>3, <3>1, <3>2, ConversionsGoAround
  <2> QED
    BY <2>2, <2>3
<1> QED
  BY <1>8 DEF ConversionsKeepMeaning, MeansIn, NumberIn, u, v, w, x

(* A conversion keeps what its number stands for, whatever the units and   *)
(* the way round, and the scales it is done with are the exact values:     *)
(* ConversionsAgree, for every catalog and every proper sample.            *)
THEOREM ConversionsHold == Sampling => []ConversionsAgree
<1>1. SampleInit => sample \in Samples
  BY DEF SampleInit
<1>2. sample \in Samples /\ [SampleNext]_sample => (sample \in Samples)'
  BY DEF SampleNext
<1>3. sample \in Samples => ConversionsAgree
  BY ExactScales, ConversionsAreKept DEF ConversionsAgree
<1> QED
  BY <1>1, <1>2, <1>3, PTL DEF Sampling
=============================================================================
