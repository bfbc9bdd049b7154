--------------------------- MODULE UnitProperties ---------------------------
(* What makes scales, conversions and quantities right. Each property is   *)
(* about one sample of its kind: two exact scales and a decimal, a number  *)
(* and the three units it is converted over, or an operation on two        *)
(* quantities. Units are as they were read.                                *)
EXTENDS Quantity

CONSTANTS Samples, Embedded     \* the inputs, and the catalog they are read with

VARIABLE sample

SampleInit == sample \in Samples
SampleNext == UNCHANGED sample
Sampling == SampleInit /\ [][SampleNext]_sample

(* The samples are ones the program can be in. A scale is positive, a      *)
(* level has a factor and no scale or zero point of its own, and of the    *)
(* units of one dimension some may be levels or some may have zero points. *)
IsPositive(q) == IsFraction(q) /\ q[1] > 0
IsProperLog(log) == IsFraction(log.factor) /\ log.factor # Zero /\ IsPositive(log.reference)
IsProperUnit(u) ==
  /\ u # Refused
  /\ IsPositive(u.scale) /\ IsFraction(u.offset)
  /\ IsLogarithmic(u) => IsProperLog(u.log) /\ u.scale = One /\ ~ IsAffine(u)
ProperUnits(units) ==
  /\ \A u \in units : IsProperUnit(u)
  /\ \A u, v \in units : SameDimensions(u, v) /\ IsLogarithmic(u) => ~ IsAffine(v)
ProperExact(s) ==
  /\ IsPositive(s.left) /\ IsPositive(s.right) /\ s.power \in Int
  /\ s.decimal.digits \in Nat /\ s.decimal.point \in Nat /\ s.decimal.exponent \in Int
SamplesOf(kind) == {s \in Samples : s.kind = kind}
ASSUME SamplesAssumption ==
  /\ \A s \in SamplesOf("conversion") : IsFraction(s.number)
  /\ \A read \in {{s.from, s.via, s.to} : s \in SamplesOf("conversion")} : ProperUnits({Expand(Embedded, u) : u \in read})
  /\ \A s \in SamplesOf("exact") : ProperExact(s)

(* What a number in a unit stands for: a ratio for a level, a number of    *)
(* base units for all others; and back. Levels here are whole powers of    *)
(* ten apart, so that they stay fractions.                                 *)
Meaning(stage, offset, x) ==
  IF IsLogarithmic(stage) THEN Times(stage.log.reference, PowerOfTen(Over(x, stage.log.factor)[1]))
  ELSE Plus(Times(x, stage.scale), offset)
IsWholeLevel(u, x) == IsLogarithmic(u) => IsWhole(Over(x, u.log.factor))
HasNumber(stage, meaning) == IsLogarithmic(stage) => Over(meaning, stage.log.reference) \in DOMAIN PowersOfTen
NumberFor(stage, offset, meaning) ==
  IF IsLogarithmic(stage)
  THEN Times(stage.log.factor, Whole(PowersOfTen[Over(meaning, stage.log.reference)]))
  ELSE Over(Minus(meaning, offset), stage.scale)

Converted(plan, x) ==
  IF plan.plan = "affine" THEN Plus(Times(x, plan.scale), plan.shift)
  ELSE NumberFor(plan.to, Zero, Meaning(plan.from, Zero, x))

(* However a scale is computed or read, it is the exact value, held the    *)
(* one way that value is held, small or big: two units whose scales are    *)
(* equal compare equal whatever made them.                                 *)
ScalesAreExact ==
  sample.kind = "exact" =>
    LET e == FromRatio(sample.left) f == FromRatio(sample.right) i == sample.power
    IN  /\ Mul(e, f) = FromRatio(Times(e.ratio, f.ratio))
        /\ Div(e, f) = FromRatio(Over(e.ratio, f.ratio))
        /\ AbsOf(i) <= MaxExponent => Powi(e, i) = FromRatio(WholePower(e.ratio, i))
        /\ ParseDecimal(sample.decimal) \in
             {NotExact, FromRatio(Times(Whole(sample.decimal.digits), TenTo(sample.decimal.exponent - sample.decimal.point)))}
(* The plan of a conversion keeps what the number stands for, between      *)
(* plain units, zero points and levels alike; there is one whenever the    *)
(* dimensions agree, and a way round over a third unit is the direct way.  *)
Between(from, to) == Conversion(Embedded, from, to)
ConversionsKeepMeaning ==
  sample.kind = "conversion" =>
    LET agree(u, v, w, planUW, planUV, planVW, meaning) ==
          IsWholeLevel(u, sample.number) /\ SameDimensions(u, w) /\ HasNumber(w, meaning) =>
            /\ Converted(planUW, sample.number) = NumberFor(w, w.offset, meaning)
            /\ SameDimensions(v, w) /\ HasNumber(v, meaning) =>
                 Converted(planVW, Converted(planUV, sample.number)) = Converted(planUW, sample.number)
        units(u, v, w) ==
          agree(u, v, w, Between(sample.from, sample.to), Between(sample.from, sample.via), Between(sample.via, sample.to),
                Meaning(u, u.offset, sample.number))
    IN  units(Expand(Embedded, sample.from), Expand(Embedded, sample.via), Expand(Embedded, sample.to))

(* Converting keeps what a number stands for, and the scales it is done    *)
(* with are exact (registry.rs, exact.rs).                                 *)
ConversionsAgree == ConversionsKeepMeaning /\ ScalesAreExact

SameAmount(q, r) ==
  LET same(x, y) == x.fn = "irrational" \/ y.fn = "irrational" \/ x = y
  IN  same(CanonicalMagnitude(q), CanonicalMagnitude(r))

(* Two results that stand for the same quantity.                           *)
SameKind(q, u) == IsPointQ(q) = IsAffine(u) /\ IsLevelQ(q) = IsLogarithmic(u)
SameQuantity(q, r) ==
  IF q = Refused \/ r = Refused THEN q = r
  ELSE SameKind(q, r.unit) /\ SameDimensions(q.unit, r.unit) /\ SameAmount(q, r)

Binaries == {"add", "sub", "mul", "div"}
BinaryOp(op, a, b) == IF op \in {"add", "sub"} THEN Combine(a, b, op = "sub") ELSE Multiply(a, b, op = "div")
RaisedTo == [square |-> Whole(2), inverse |-> Whole(-1), once |-> One, half |-> <<1, 2>>]
Operation(op, a, b) ==
  CASE op \in Binaries -> BinaryOp(op, a, b)
    [] op \in DOMAIN RaisedTo -> PowQ(a, RaisedTo[op])
    [] op = "sqrt" -> Sqrt(a)
    [] op = "sin" -> Trig(op, a)
    [] op \in {"exp", "log"} -> Transcendental(op, a)
    [] op = "log10" -> Log10Q(a)
(* What is read in the scale the number is written in: a point mirrored by *)
(* a sign, and the square root of a point.                                 *)
ReadsItsScale(op, a, b) ==
  \/ op \in {"mul", "div"} /\ ((IsPointQ(a) /\ IsSign(b)) \/ (IsPointQ(b) /\ IsSign(a)))
  \/ op = "sqrt" /\ IsPointQ(a)
(* A plain number beside a point or a level is not one written in percent. *)
Rewritten(q, beside, u) ==
  IF /\ SameDimensions(q.unit, u) /\ SameKind(q, u)
     /\ IsPlainNumber(q.unit) = IsPlainNumber(u) \/ ~ (IsPointQ(beside) \/ IsLevelQ(beside))
  THEN ConvertTo(q, u) ELSE q

(* The result of an operation does not depend on the units its operands    *)
(* are written in: of points, intervals, levels and plain quantities, an   *)
(* operand and the same in another unit give the same quantity or are both *)
(* refused, are equal, and are shown alike in base units.                  *)
AreSame(results) == \A q, r \in Range(results) : SameQuantity(q, r)
AgreeOn(op, a, b, c, d) ==
  /\ ~ ReadsItsScale(op, a, b) => AreSame([pair \in {<<a, b>>, <<c, d>>} |-> Operation(op, pair[1], pair[2])])
  /\ PhsAssert(a, c) /\ BaseDisplay(a) = BaseDisplay(c)
IndependentOfUnits ==
  sample.kind = "operation" =>
    LET a == sample.left b == sample.right
    IN  AgreeOn(sample.op, a, b, Rewritten(a, b, sample.in[1]), Rewritten(b, a, sample.in[2]))

(* Taking away what was added gives back what there was, and so do adding  *)
(* and subtracting, multiplying and dividing, in any units of any kind;    *)
(* sums and products do not depend on the order.                           *)
UndoneBy == [add |-> "sub", sub |-> "add", mul |-> "div", div |-> "mul"]
GoesBack(op, a, b, result) ==
  result # Refused /\ (op = "mul" => ~ IsZero(b.mean) /\ ~ ReadsItsScale(op, a, b))
IsBack(op, q, a) == IF op = "sub" THEN SameQuantity(q, a) ELSE q # Refused => SameAmount(q, a)
UndoesTo(op, a, b, results) ==
  /\ op # "sub" => AreSame(results)
  /\ GoesBack(op, a, b, results[<<a, b>>]) => IsBack(op, BinaryOp(UndoneBy[op], results[<<a, b>>], b), a)
IsUndone ==
  sample.kind = "operation" /\ sample.op \in {"add", "sub", "mul"} =>
    LET a == sample.left b == sample.right
    IN  UndoesTo(sample.op, a, b, [pair \in {<<a, b>>, <<b, a>>} |-> BinaryOp(sample.op, pair[1], pair[2])])

(* Operations mean the same in every unit, order and direction.            *)
OperationsAgree == IndependentOfUnits /\ IsUndone
=============================================================================
