----------------------------- MODULE UnitAlgebra -----------------------------
(***************************************************************************)
(* Units (physure-core/src/units/rational.rs). A text is a sequence of     *)
(* characters; "^2" stands for the superscript two. A unit has dims (from  *)
(* symbols to exponents, none zero), the scale and the zero point in base  *)
(* units, and a level has its logarithm. Doubles are the fractions they    *)
(* round; the scale of a fractional power is Unknown unless it is one. The *)
(* id of a unit is its dims: the hash behind it is taken not to collide.   *)
(*                                                                         *)
(* Exact scales (units/exact.rs): a positive fraction held in the smallest *)
(* of three representations that fits, so that equal values are equal      *)
(* records. One is 1; Small is reduced with both numbers up to Widest      *)
(* (u128::MAX); Big is whatever remains. Units keep the fraction alone.    *)
(***************************************************************************)
EXTENDS Rationals, FiniteSets, TLC

CONSTANTS
  Alphabet,             \* the characters of symbols, in their order
  Widest, MaxExponent   \* of exact scales

ASSUME ExactAssumption == Widest \in Nat \ {0} /\ MaxExponent \in Nat

-----------------------------------------------------------------------------
Held(repr, r) == [repr |-> repr, ratio |-> r]

HeldOne == Held("One", One)

Small(n, d) == IF n = 1 /\ d = 1 THEN HeldOne ELSE Held("Small", <<n, d>>)

Fits(r) == r[1] <= Widest /\ r[2] <= Widest

FromRatio(r) == IF Fits(r) THEN Small(r[1], r[2]) ELSE Held("Big", r)

(* A variant with a bug: the product is not reduced.                       *)
MulUnreduced(a, b) == <<a[1] * b[1], a[2] * b[2]>>

(* mul_small: dividing out what cancels crosswise leaves the product       *)
(* reduced; it may still not fit.                                          *)
MulSmall(a, b) ==
  LET g == Gcd(a[1], b[2]) h == Gcd(b[1], a[2])
  IN  <<(a[1] \div g) * (b[1] \div h), (a[2] \div h) * (b[2] \div g)>>

Inverted(r) == <<r[2], r[1]>>

Product(e, f, inverse) ==
  LET g == IF inverse THEN Inverted(f.ratio) ELSE f.ratio
      r == MulSmall(e.ratio, g)
  IN  CASE f.repr = "One" -> e
        [] f.repr # "One" /\ e.repr = "One" ->
             IF f.repr = "Small" THEN Small(g[1], g[2]) ELSE FromRatio(g)
        [] e.repr = "Small" /\ f.repr = "Small" /\ Fits(r) -> Small(r[1], r[2])
        [] OTHER -> FromRatio(Times(e.ratio, g))

Mul(e, f) == Product(e, f, FALSE)
Div(e, f) == Product(e, f, TRUE)

NotExact == Held("None", Zero)

(* powi: the numbers of a reduced fraction stay reduced when raised.       *)
Powi(e, i) ==
  LET r == WholePower(IF i < 0 THEN Inverted(e.ratio) ELSE e.ratio, AbsOf(i))
  IN  CASE AbsOf(i) > MaxExponent -> NotExact
        [] AbsOf(i) <= MaxExponent /\ e.repr = "One" -> HeldOne
        [] e.repr = "Small" /\ AbsOf(i) <= MaxExponent /\ Fits(r) -> Small(r[1], r[2])
        [] OTHER -> FromRatio(r)

(* A decimal is [sign, digits, point, exponent]: the digits before and     *)
(* after the point as one number, how many stand after it, and the e part. *)
TenTo(i) == WholePower(Whole(10), i)

ReadSmall(text) ==
  LET power == text.exponent - text.point
      numer == IF power >= 0 THEN text.digits * TenTo(power)[1] ELSE text.digits
      denom == TenTo(IF power >= 0 THEN 0 ELSE -power)[1]
      r     == Frac(numer, denom)
  IN  IF text.sign = "-" \/ text.digits = 0 \/ numer > Widest \/ denom > Widest
      THEN NotExact ELSE Small(r[1], r[2])

(* ExactScale::parse: the quick way, or the slow one when that gives up.   *)
ParseDecimal(text) ==
  LET power == text.exponent - text.point
  IN  CASE ReadSmall(text) # NotExact -> ReadSmall(text)
        [] ReadSmall(text) = NotExact /\ (text.sign = "-" \/ text.digits = 0) -> NotExact
        [] AbsOf(power) > MaxExponent -> NotExact
        [] OTHER -> FromRatio(Times(Whole(text.digits), TenTo(power)))

-----------------------------------------------------------------------------
NoName == <<>>
NoLog  == [factor |-> Zero, reference |-> Zero]
Unknown == Zero

(* Dimensions: functions from symbols to exponents.                        *)
NoDims == [s \in {} |-> One]
Exponent(dims, s) == IF s \in DOMAIN dims THEN dims[s] ELSE Zero
Without0(f) == [s \in {x \in DOMAIN f : f[x] # Zero} |-> f[s]]

(* A variant with a bug: a symbol that cancels out stays.                  *)
KeepingZeros(a, b, subtract) ==
  [s \in DOMAIN a \cup DOMAIN b |->
     IF subtract THEN Minus(Exponent(a, s), Exponent(b, s))
                 ELSE Plus(Exponent(a, s), Exponent(b, s))]

CombineDimensions(a, b, subtract) ==
  Without0([s \in DOMAIN a \cup DOMAIN b |->
     IF subtract THEN Minus(Exponent(a, s), Exponent(b, s))
                 ELSE Plus(Exponent(a, s), Exponent(b, s))])

RaisedDims(dims, e) == Without0([s \in DOMAIN dims |-> Times(dims[s], e)])

Unit(dims, scale, exact) ==
  [dims |-> Without0(dims), scale |-> scale, exact |-> exact,
   offset |-> Zero, log |-> NoLog, name |-> NoName]

NewFromDimensions(dims) == Unit(dims, One, TRUE)
Dimensionless == NewFromDimensions(NoDims)
Base(s) == [NewFromDimensions(s :> One) EXCEPT !.name = s]

SameUnit(u, v) ==
  u.dims = v.dims /\ u.scale = v.scale /\ u.offset = v.offset /\ u.log = v.log
SameDimensions(u, v) == u.dims = v.dims

WithName(u, name)    == [u EXCEPT !.name = name]
WithScale(u, s)      == [u EXCEPT !.scale = s, !.exact = FALSE]
WithExactScale(u, s) == [u EXCEPT !.scale = s, !.exact = TRUE]
WithUnitScale(u)     == WithExactScale(u, One)
WithOffset(u, o)     == [u EXCEPT !.offset = o]
WithLog(u, log)      == [u EXCEPT !.log = log]
ToDelta(u)           == WithOffset(u, Zero)

IsLogarithmic(u) == u.log # NoLog
IsAffine(u)      == u.offset # Zero
IsPlainNumber(u) == ~ IsLogarithmic(u) /\ DOMAIN u.dims = {} /\ u.scale = One
IsOne(u)         == DOMAIN u.dims = {} /\ u.scale = One

(* affine_to: new = old * scale + shift.                                   *)
RatioTo(u, target)  == Over(u.scale, target.scale)
AffineTo(u, target) ==
  [scale |-> RatioTo(u, target), shift |-> Over(Minus(u.offset, target.offset), target.scale)]

(* A product, quotient or power has no zero point, and is a level only if  *)
(* the other operand is a plain number.                                    *)
MulUnits(u, v) ==
  [dims   |-> CombineDimensions(u.dims, v.dims, FALSE),
   scale  |-> Times(u.scale, v.scale), exact |-> u.exact /\ v.exact,
   offset |-> Zero,
   log    |-> IF IsPlainNumber(v) THEN u.log ELSE IF IsPlainNumber(u) THEN v.log ELSE NoLog,
   name   |-> IF IsOne(v) THEN u.name ELSE IF IsOne(u) THEN v.name ELSE NoName]

DivUnits(u, v) ==
  [dims   |-> CombineDimensions(u.dims, v.dims, TRUE),
   scale  |-> Over(u.scale, v.scale), exact |-> u.exact /\ v.exact,
   offset |-> Zero,
   log    |-> IF IsPlainNumber(v) THEN u.log ELSE NoLog,
   name   |-> IF IsOne(v) THEN u.name ELSE NoName]

PowUnit(u, e) ==
  LET exactly == u.exact /\ (u.scale = One \/ (IsWhole(e) /\ AbsOf(e[1]) <= MaxExponent))
  IN  [dims   |-> RaisedDims(u.dims, e),
       scale  |-> IF u.scale = One THEN One
                  ELSE IF IsWhole(e) THEN WholePower(u.scale, e[1]) ELSE Unknown,
       exact  |-> exactly, offset |-> Zero,
       log    |-> IF e = One THEN u.log ELSE NoLog, name |-> NoName]

(* refuse_logarithmic_compound                                             *)
LosesLevel(operands, result) == (\E u \in operands : IsLogarithmic(u)) /\ ~ IsLogarithmic(result)

-----------------------------------------------------------------------------
(* Text. The digits of a number, plain and raised.                         *)
DigitChars == <<"0", "1", "2", "3", "4", "5", "6", "7", "8", "9">>
Raised == <<"^0", "^1", "^2", "^3", "^4", "^5", "^6", "^7", "^8", "^9">>

decimal[n \in Nat] == (IF n < 10 THEN <<>> ELSE decimal[n \div 10]) \o <<n % 10>>
DigitsIn(digits, n) == LET of(ds) == [i \in DOMAIN ds |-> digits[ds[i] + 1]] IN of(decimal[n])

WrittenNumber(n) == IF n < 0 THEN <<"-">> \o DigitsIn(DigitChars, -n) ELSE DigitsIn(DigitChars, n)
Superscript(n)   == IF n < 0 THEN <<"^-">> \o DigitsIn(Raised, -n) ELSE DigitsIn(Raised, n)

Fraction(e) == <<"^", "(">> \o WrittenNumber(e[1]) \o <<"/">> \o WrittenNumber(e[2]) \o <<")">>
(* A variant with a bug: a fraction without its parentheses.               *)
BareFraction(e) == IF IsWhole(e) THEN Superscript(e[1])
                   ELSE <<"^">> \o WrittenNumber(e[1]) \o <<"/">> \o WrittenNumber(e[2])
PowerText(e) == IF IsWhole(e) THEN Superscript(e[1]) ELSE Fraction(e)

RankOf(c) == CHOOSE i \in DOMAIN Alphabet : Alphabet[i] = c
Precedes(a, b) ==
  \E n \in 0..Len(a) :
    /\ n < Len(b) /\ \A i \in 1..n : a[i] = b[i]
    /\ n < Len(a) => RankOf(a[n + 1]) < RankOf(b[n + 1])

Sorted(dims) == SetToSortSeq(DOMAIN dims, Precedes)
JoinedBy(sep, parts) == FlattenSeq([i \in DOMAIN parts |-> IF i = 1 THEN parts[i] ELSE sep \o parts[i]])

UnitTerm(s, e) ==
  LET size == <<AbsOf(e[1]), e[2]>> IN IF size = One THEN s ELSE s \o PowerText(size)

(* unit_text: negative exponents go below the bar, in parentheses if there *)
(* are several of them.                                                    *)
UnitTextIn(dims, order) ==
  LET terms(S) == JoinedBy(<<"·">>, [i \in DOMAIN S |-> UnitTerm(S[i], dims[S[i]])])
      above(S) == IF S = <<>> THEN <<"1">> ELSE terms(S)
      below(S) == CASE Len(S) = 0 -> <<>>
                    [] Len(S) = 1 -> <<"/">> \o terms(S)
                    [] Len(S) > 1 -> <<"/", "(">> \o terms(S) \o <<")">>
  IN  above(SelectSeq(order, LAMBDA s : dims[s][1] > 0)) \o below(SelectSeq(order, LAMBDA s : dims[s][1] < 0))
SymbolicRepr(u) == UnitTextIn(u.dims, Sorted(u.dims))

FormulaText(dims) ==
  LET term(s) == IF dims[s] = One THEN s ELSE s \o PowerText(dims[s])
      text(order) == JoinedBy(<<"·">>, [i \in DOMAIN order |-> term(order[i])])
  IN  text(Sorted(dims))

BaseRepr(u) ==
  LET term(s, e) ==
        CASE e = One -> s
          [] e # One /\ IsWhole(e) -> s \o <<"^">> \o WrittenNumber(e[1])
          [] ~ IsWhole(e) -> s \o Fraction(e)
      text(order) == JoinedBy(<<" ", "*", " ">>, [i \in DOMAIN order |-> term(order[i], u.dims[order[i]])])
  IN  text(Sorted(u.dims))

(* known_derived_symbol, for the base symbols this catalog can have.       *)
Kg == <<"k", "g">>
DerivedSymbols ==                 \* by the exponents of kg, m, s and A
  (<<1, 1, -2, 0>> :> <<"N">>) @@ (<<1, 2, -2, 0>> :> <<"J">>) @@ (<<1, 2, -3, 0>> :> <<"W">>)
  @@ (<<1, -1, -2, 0>> :> <<"P", "a">>) @@ (<<0, 0, 1, 1>> :> <<"C">>) @@ (<<0, 0, -1, 0>> :> <<"H", "z">>)
  @@ (<<1, 1, -3, -1>> :> <<"N", "/", "C">>) @@ (<<1, 2, -3, -1>> :> <<"V">>) @@ (<<1, 2, -3, -2>> :> <<"O">>)
  @@ (<<-1, -2, 4, 2>> :> <<"F">>) @@ (<<-1, -2, 3, 2>> :> <<"S">>) @@ (<<1, 2, -2, -1>> :> <<"W", "b">>)
  @@ (<<1, 0, -2, -1>> :> <<"T">>) @@ (<<1, 2, -2, -2>> :> <<"H">>)
MechanicalDims(p) ==
  Without0((Kg :> Whole(p[1])) @@ (<<"m">> :> Whole(p[2])) @@ (<<"s">> :> Whole(p[3])) @@ (<<"A">> :> Whole(p[4])))
KnownDerived ==
  [dims \in {MechanicalDims(p) : p \in DOMAIN DerivedSymbols} |->
     DerivedSymbols[CHOOSE p \in DOMAIN DerivedSymbols : MechanicalDims(p) = dims]]

SiPrefixes ==
  (One :> <<>>) @@ (<<1000, 1>> :> <<"k">>) @@ (<<1000000, 1>> :> <<"M">>) @@ (<<1, 1000>> :> <<"m">>) @@ (<<1, 1000000>> :> <<"µ">>)

(* __repr__                                                                *)
Repr(u) ==
  LET shown(known) ==
        CASE u.name # NoName -> u.name
          [] u.name = NoName /\ u.dims \in DOMAIN known /\ u.scale \in DOMAIN SiPrefixes ->
               SiPrefixes[u.scale] \o known[u.dims]
          [] OTHER -> BaseRepr(u)
  IN  shown(KnownDerived)
=============================================================================
