------------------------------- MODULE Quantity -------------------------------
(***************************************************************************)
(* Quantities: a number in a unit, and what arithmetic, conversions and    *)
(* functions do with them (physure-core/src/quantity.rs). A unit is plain, *)
(* a point (it has a zero point: degC) or a level (a logarithm: dB), and   *)
(* every operation chooses by that kind. Of the uncertainty only whether   *)
(* there is any is kept. Numbers are exact: times * fn(arg), so that       *)
(* levels of any ratio are numbers too; one that has no such form is       *)
(* Irrational. Every error is Refused.                                     *)
(***************************************************************************)
EXTENDS UnitRegistry

Ten == Whole(10)
FnOf(fn, x) == [times |-> One, fn |-> fn, arg |-> x]
Number(q)  == [times |-> q, fn |-> "log10", arg |-> Ten]     \* q times log10(10)
Irrational == FnOf("irrational", Zero)
IsRational(x) == x.fn = "log10" /\ x.arg = Ten
IsZero(x) == x.times = Zero

PowerOfTen(n) == WholePower(Ten, n)
PowersOfTen == [r \in {PowerOfTen(n) : n \in -9..9} |-> CHOOSE n \in -9..9 : PowerOfTen(n) = r]
Log10(x) ==
  LET of(powers) ==
        CASE ~ IsRational(x) -> Irrational
          [] IsRational(x) /\ x.times \in DOMAIN powers -> Number(Whole(powers[x.times]))
          [] OTHER -> FnOf("log10", x.times)
  IN  of(PowersOfTen)
Pow10(x) ==
  IF x.fn = "log10" /\ IsWhole(x.times) /\ AbsOf(x.times[1]) <= 9 THEN Number(WholePower(x.arg, x.times[1])) ELSE Irrational
FunctionOf(fn, x) == IF IsRational(x) THEN FnOf(fn, x.times) ELSE Irrational

Scale(x, q) == IF q = Zero THEN Number(Zero) ELSE [x EXCEPT !.times = Times(@, q)]
Sum(x, y) ==
  CASE IsZero(x) -> y
    [] ~ IsZero(x) /\ IsZero(y) -> x
    [] ~ IsZero(x) /\ ~ IsZero(y) /\ x.fn = y.fn /\ x.arg = y.arg /\ x.fn # "irrational" ->
         IF Plus(x.times, y.times) = Zero THEN Number(Zero) ELSE [x EXCEPT !.times = Plus(@, y.times)]
    [] OTHER -> Irrational
ProductOf(x, y) == IF IsRational(x) THEN Scale(y, x.times) ELSE IF IsRational(y) THEN Scale(x, y.times) ELSE Irrational
Quotient(x, y) == IF IsRational(y) /\ ~ IsZero(y) THEN Scale(x, Over(One, y.times)) ELSE Irrational
RaisedNumber(x, e) ==
  CASE e = One -> x
    [] e # One /\ IsRational(x) /\ IsWhole(e) /\ (~ IsZero(x) \/ e[1] > 0) -> Number(WholePower(x.times, e[1]))
    [] OTHER -> Irrational
(* The sign of a number: log10(arg) is negative below one.                 *)
IsNegative(x) == x.fn = "log10" /\ (Less(x.times, Zero) # Less(x.arg, One)) /\ ~ IsZero(x)

-----------------------------------------------------------------------------
Measured(mean, exact, unit) == [mean |-> mean, exact |-> exact, unit |-> unit]
Relabelled(q, unit) == [q EXCEPT !.unit = unit]
IsPointQ(q) == IsAffine(q.unit)
IsLevelQ(q) == IsLogarithmic(q.unit)

(* The ratio a level stands for, or the number of base units.              *)
RatioValue(q) ==
  LET log == q.unit.log
  IN  IF IsLevelQ(q) THEN Scale(Pow10(Scale(q.mean, Over(One, log.factor))), log.reference)
      ELSE Scale(q.mean, q.unit.scale)
CanonicalMagnitude(q) ==
  IF IsLevelQ(q) THEN RatioValue(q) ELSE Sum(Scale(q.mean, q.unit.scale), Number(q.unit.offset))

ConvertLogarithmic(q, target) ==
  LET level(relative) ==
        IF IsZero(relative) \/ IsNegative(relative) THEN Refused
        ELSE Measured(Scale(Log10(relative), target.log.factor), q.exact, target)
      through(ratio) ==
        IF IsLogarithmic(target) THEN level(Scale(ratio, Over(One, target.log.reference)))
        ELSE Measured(Scale(ratio, Over(One, target.scale)), q.exact, target)
  IN  IF q.unit.log = target.log /\ q.unit.scale = target.scale THEN Relabelled(q, target)
      ELSE through(RatioValue(q))
ConvertTo(q, target) ==
  LET affine(plan) == Measured(Sum(Scale(q.mean, plan.scale), Number(plan.shift)), q.exact, target)
  IN  CASE ~ SameDimensions(q.unit, target) -> Refused
        [] SameDimensions(q.unit, target) /\ (IsLevelQ(q) \/ IsLogarithmic(target)) -> ConvertLogarithmic(q, target)
        [] OTHER -> IF IsPointQ(q) \/ IsAffine(target) THEN affine(AffineTo(q.unit, target))
                    ELSE Measured(Scale(q.mean, RatioTo(q.unit, target)), q.exact, target)

(* to_delta: a point as the absolute quantity it stands for.               *)
ToDeltaQ(q) ==
  IF IsPointQ(q) THEN ConvertTo(q, WithName(WithUnitScale(ToDelta(q.unit)), NoName)) ELSE q
PlainOf(unit) == NewFromDimensions(unit.dims)
Signed(x, subtract) == IF subtract THEN Scale(x, Whole(-1)) ELSE x

(* add and sub of plain quantities. The variant with a bug adds numbers of *)
(* different units as they are.                                            *)
SumUnscaled(a, b, subtract) ==
  IF SameDimensions(a.unit, b.unit) THEN Measured(Sum(a.mean, Signed(b.mean, subtract)), a.exact /\ b.exact, a.unit)
  ELSE Refused
SumPlain(a, b, subtract) ==
  LET scaled == Scale(b.mean, RatioTo(b.unit, a.unit))
  IN  IF SameDimensions(a.unit, b.unit) THEN Measured(Sum(a.mean, Signed(scaled, subtract)), a.exact /\ b.exact, a.unit)
      ELSE Refused

(* shifted_by: the interval in the scale of the point. The variant with a  *)
(* bug takes it for a point.                                               *)
ShiftedByPoint(point, interval, subtract) ==
  LET by(moved) == IF moved = Refused THEN Refused
                   ELSE [point EXCEPT !.mean = Sum(@, Signed(moved.mean, subtract)), !.exact = @ /\ moved.exact]
  IN  by(ConvertTo(interval, point.unit))
ShiftedBy(point, interval, subtract) ==
  LET by(moved) == IF moved = Refused THEN Refused
                   ELSE [point EXCEPT !.mean = Sum(@, Signed(moved.mean, subtract)), !.exact = @ /\ moved.exact]
  IN  by(ConvertTo(interval, ToDelta(point.unit)))
CombineWithPoint(a, b, subtract) ==
  LET apart(delta) == SumPlain(delta[a], delta[b], TRUE)
      shifted(point, interval) == ShiftedBy(point, interval, subtract)
  IN  CASE subtract /\ IsPointQ(a) /\ IsPointQ(b) -> apart([q \in {a, b} |-> ToDeltaQ(q)])
        [] IsPointQ(a) # IsPointQ(b) /\ ~ (subtract /\ IsPointQ(b)) ->
             shifted(IF IsPointQ(a) THEN a ELSE b, IF IsPointQ(a) THEN b ELSE a)
        [] OTHER -> Refused

(* combine_levels: the sum of what the levels stand for, as a level.       *)
CombineLevels(a, b, subtract) ==
  LET plain == [q \in {a, b} |-> ConvertTo(q, PlainOf(a.unit))]
      level(sum) == IF sum = Refused THEN Refused ELSE ConvertTo(sum, a.unit)
      of(ratio) == level(SumPlain(ratio[a], ratio[b], subtract))
  IN  IF IsLevelQ(a) /\ IsLevelQ(b) /\ SameDimensions(a.unit, b.unit) THEN of(plain) ELSE Refused

Combine(a, b, subtract) ==
  CASE IsLevelQ(a) \/ IsLevelQ(b) -> CombineLevels(a, b, subtract)
    [] ~ (IsLevelQ(a) \/ IsLevelQ(b)) /\ (IsPointQ(a) \/ IsPointQ(b)) -> CombineWithPoint(a, b, subtract)
    [] OTHER -> SumPlain(a, b, subtract)
AddQ(a, b) == Combine(a, b, FALSE)
SubQ(a, b) == Combine(a, b, TRUE)

-----------------------------------------------------------------------------
Keeping(operands, mean, exact, unit) ==
  IF LosesLevel(operands, unit) THEN Refused ELSE Measured(mean, exact, unit)
ProductPlain(a, b, divide) ==
  IF divide THEN Keeping({a.unit, b.unit}, Quotient(a.mean, b.mean), a.exact /\ b.exact, DivUnits(a.unit, b.unit))
  ELSE Keeping({a.unit, b.unit}, ProductOf(a.mean, b.mean), a.exact /\ b.exact, MulUnits(a.unit, b.unit))

(* mirrored_by_sign: a point is multiplied by a sign in its own scale.     *)
IsSign(q) == IsPlainNumber(q.unit) /\ q.exact /\ q.mean \in {Number(One), Number(Whole(-1))}
Mirrored(q, sign) == [q EXCEPT !.mean = Scale(@, sign.mean.times)]
IsPlainQ(q) == DOMAIN q.unit.dims = {} /\ ~ IsLevelQ(q)
ScaleOrAbsolute(a, b, divide) ==
  LET absolute(delta) == ProductPlain(delta[a], delta[b], divide)
  IN  CASE IsPointQ(a) /\ IsSign(b) -> Mirrored(a, b)
        [] ~ IsPointQ(a) /\ ~ divide /\ IsSign(a) -> Mirrored(b, a)
        [] OTHER -> IF (IsPointQ(a) /\ IsPlainQ(b)) \/ (IsPointQ(b) /\ IsPlainQ(a)) THEN Refused
                    ELSE absolute([q \in {a, b} |-> ToDeltaQ(q)])
Multiply(a, b, divide) ==
  IF IsPointQ(a) \/ IsPointQ(b) THEN ScaleOrAbsolute(a, b, divide) ELSE ProductPlain(a, b, divide)
MulQ(a, b) == Multiply(a, b, FALSE)
DivQ(a, b) == Multiply(a, b, TRUE)

PowQ(q, e) ==
  LET raised(a) == IF IsNegative(a.mean) /\ ~ IsWhole(e) THEN Refused
                   ELSE Keeping({a.unit}, RaisedNumber(a.mean, e), a.exact, PowUnit(a.unit, e))
  IN  raised(ToDeltaQ(q))
(* sqrt looks at the number before the power makes a point absolute.       *)
Sqrt(q) == IF IsNegative(q.mean) THEN Refused ELSE PowQ(q, <<1, 2>>)

AbsQ(q) == IF IsNegative(q.mean) THEN [q EXCEPT !.mean = Scale(@, Whole(-1))] ELSE q
ShiftMeanTo(q, target) == [q EXCEPT !.mean = Number(Whole(target))]
Floor(q) == IF IsRational(q.mean) THEN ShiftMeanTo(q, q.mean.times[1] \div q.mean.times[2]) ELSE Refused
Ceil(q)  == IF IsRational(q.mean) THEN ShiftMeanTo(q, -((-(q.mean.times[1])) \div q.mean.times[2])) ELSE Refused

-----------------------------------------------------------------------------
Rad == <<"r", "a", "d">>
Trig(fn, q) ==
  IF IsLevelQ(q) \/ (DOMAIN q.unit.dims # {} /\ ~ SameDimensions(q.unit, Base(Rad))) THEN Refused
  ELSE Measured(FunctionOf(fn, Scale(q.mean, q.unit.scale)), q.exact, Dimensionless)

Transcendental(fn, q) ==
  LET of(x) == IF fn = "log" /\ (IsZero(x) \/ IsNegative(x)) THEN Refused
               ELSE Measured(FunctionOf(fn, x), q.exact, Dimensionless)
  IN  IF IsLevelQ(q) \/ DOMAIN q.unit.dims # {} THEN Refused ELSE of(Scale(q.mean, q.unit.scale))
(* Divided by ln 10, the natural logarithm is the decimal one.             *)
Log10Q(q) ==
  LET of(l) == IF l = Refused THEN Refused ELSE [l EXCEPT !.mean = IF @ = Irrational THEN @ ELSE Log10(Number(@.arg))]
  IN  of(Transcendental("log", q))

(* assert and exact_assert; the tolerance is left out with the rounding.   *)
ApproxEq(a, b) == SameDimensions(a.unit, b.unit) /\ CanonicalMagnitude(a) = CanonicalMagnitude(b)
PhsAssert(a, b) == ApproxEq(a, b)
PhsExactAssert(a, b) == SameUnit(a.unit, b.unit) /\ a.mean = b.mean

(* base_display: the number and the unit it is shown with.                 *)
BaseDisplay(q) ==
  LET shown(a) == <<CanonicalMagnitude(a), BaseRepr(a.unit)>>
  IN  shown(IF IsLevelQ(q) THEN ConvertTo(q, PlainOf(q.unit)) ELSE q)
=============================================================================
