--------------------------- MODULE ScriptCorrectness ---------------------------
(* What the symbolic operations of a script promise, against a meaning of  *)
(* expressions that shares nothing with their code: the Taylor             *)
(* coefficients at a point, in exact fractions.                            *)
EXTENDS SymbolicSolvers, SymbolicText, FiniteSets, TLC

CONSTANT Samples
VARIABLE sample

(* A script asks something; the step answers it, and every property is     *)
(* about that step.                                                        *)
Done == [task |-> "done"]
Init == sample \in Samples
Answer == sample # Done /\ sample' = Done
Spec == Init /\ [][Answer]_sample

(***************************************************************************)
(* Truncated power series: value, slope and half the curvature, or << >>   *)
(* where there is none.                                                    *)
(***************************************************************************)
N == 3
Undefined == << >>
Known(s) == Len(s) = N
Unknown2(s, t) == IF Known(s) THEN t ELSE s

(* Fractions above MaxPart are not followed: they have no value.           *)
MaxPart == 30000
NoValue == <<0, 0>>
Kept(q) == IF AbsOf(q[1]) > MaxPart \/ q[2] > MaxPart THEN NoValue ELSE q
Sum2(p, q)  == IF p = NoValue \/ q = NoValue THEN NoValue ELSE Kept(Plus(p, q))
Prod2(p, q) == IF p = NoValue \/ q = NoValue THEN NoValue ELSE Kept(Times(p, q))
Sum3(p, q, r) == Sum2(p, Sum2(q, r))
TooLarge == <<NoValue>>
Defined(s) == IF \E i \in DOMAIN s : s[i] = NoValue THEN TooLarge ELSE s

Constant(q) == <<q, Zero, Zero>>
SumS(s, t) == IF ~(Known(s) /\ Known(t)) THEN Unknown2(s, t)
              ELSE Defined([i \in 1..N |-> Sum2(s[i], t[i])])
ScaleS(q, s) == IF ~Known(s) THEN s ELSE Defined([i \in DOMAIN s |-> Prod2(q, s[i])])
NegS(s) == ScaleS(Whole(-1), s)
ProductS(s, t) ==
  IF ~(Known(s) /\ Known(t)) THEN Unknown2(s, t)
  ELSE Defined(<<Prod2(s[1], t[1]),
                 Sum2(Prod2(s[1], t[2]), Prod2(s[2], t[1])),
                 Sum3(Prod2(s[1], t[3]), Prod2(s[3], t[1]), Prod2(s[2], t[2]))>>)

(* f(u) from f(u0), f'(u0) and f''(u0)/2.                                  *)
Compose(f, u) ==
  Defined(<<f[1], Prod2(f[2], u[2]),
            Sum2(Prod2(f[2], u[3]), Prod2(f[3], Prod2(u[2], u[2])))>>)

ReciprocalS(u) ==
  IF ~Known(u) THEN u
  ELSE IF u[1] = Zero THEN Undefined
  ELSE IF u = Constant(u[1]) THEN Defined(Constant(Kept(Over(One, u[1]))))
  ELSE LET r == Over(One, u[1]) square == Prod2(r, r)
       IN  Compose(<<r, Prod2(Whole(-1), square), Prod2(r, square)>>, u)
QuotientS(s, t) == ProductS(s, ReciprocalS(t))

(* The antiderivative of a series, up to a constant, and the derivative    *)
(* with its last coefficient unknown, which the callers do not look at.    *)
IntegralS(s, at) == Defined(<<at, s[1], Prod2(<<1, 2>>, s[2])>>)
SlopeS(s) == <<s[2], Times(Whole(2), s[3]), Zero>>

RECURSIVE PowerS(_, _)
PowerS(u, n) == IF n = 0 THEN Constant(One) ELSE ProductS(u, PowerS(u, n - 1))

(* u^r for a number r; the root has to be a fraction.                      *)
NumberPowerS(u, r) ==
  CASE ~Known(u) -> u
    [] Known(u) /\ IsWhole(r) ->
         IF r[1] >= 0 THEN PowerS(u, r[1]) ELSE ReciprocalS(PowerS(u, -r[1]))
    [] OTHER -> IF u[1][1] <= 0 \/ PowerOf(u[1], r) = {} THEN Undefined
                ELSE LET p == Kept(CHOOSE q \in PowerOf(u[1], r) : TRUE)
                         over == Over(One, u[1])
                         d == Prod2(r, Prod2(p, over))
                     IN  Compose(<<p, d, Prod2(Times(<<1, 2>>, Minus(r, One)),
                                               Prod2(d, over))>>, u)

(* e is 2, so that ln(8) is 3; sin(2) and cos(2) are 3/5 and 4/5, and so   *)
(* on for their multiples by the addition theorems.  Any values that fit   *)
(* together would do: the functions are told apart by their slopes.        *)
ExpAt(q) == IF IsWhole(q) /\ AbsOf(q[1]) <= 12
            THEN {WholePower(Whole(2), q[1])} ELSE {}
LnAt(q) ==
  LET ks == {k \in -12..12 : WholePower(Whole(2), k) = q}
  IN  {Whole(k) : k \in ks}

RECURSIVE Turn(_)
Turn(k) ==
  CASE k = 0 -> [sin |-> Zero, cos |-> One]
    [] k < 0 -> [sin |-> Negated(Turn(-k).sin), cos |-> Turn(-k).cos]
    [] k > 0 -> LET t == Turn(k - 1)
                IN  [sin |-> Plus(Times(t.sin, <<4, 5>>), Times(t.cos, <<3, 5>>)),
                     cos |-> Minus(Times(t.cos, <<4, 5>>),
                                   Times(t.sin, <<3, 5>>))]

ExpS(u) == IF ~Known(u) THEN u
           ELSE LET at == ExpAt(u[1])
                IN  IF at = {} THEN Undefined
                    ELSE LET v == CHOOSE q \in at : TRUE
                         IN  Compose(<<v, v, Times(<<1, 2>>, v)>>, u)
SinS(u) == IF ~Known(u) THEN u
           ELSE IF u[1][1] % (2 * u[1][2]) # 0 \/ AbsOf(u[1][1]) > 6 * u[1][2]
           THEN Undefined
           ELSE LET t == Turn(u[1][1] \div (2 * u[1][2]))
                IN  Compose(<<t.sin, t.cos, Times(<<-1, 2>>, t.sin)>>, u)
CosS(u) == IF ~Known(SinS(u)) THEN SinS(u)
           ELSE LET t == Turn(u[1][1] \div (2 * u[1][2]))
                IN  Compose(<<t.cos, Negated(t.sin), Times(<<-1, 2>>, t.cos)>>, u)
HalfSum(u, sign) ==
  ScaleS(<<1, 2>>, SumS(ExpS(u), ScaleS(sign, ExpS(NegS(u)))))
AbsS(u) == CASE ~Known(u) -> u
             [] Known(u) /\ u[1] = Zero -> Undefined
             [] OTHER -> IF u[1][1] < 0 THEN NegS(u) ELSE u
RootS(u) == NumberPowerS(u, <<1, 2>>)
OneMinusSquare(u) == SumS(Constant(One), NegS(ProductS(u, u)))

(* A function given by the series of its slope over u's, and its value.    *)
ByDerivative(d, u, at) ==
  LET of(du) == IF Known(du) THEN IntegralS(du, at) ELSE du
  IN  of(IF Known(d) THEN ProductS(d, SlopeS(u)) ELSE d)
(* The inverse functions come in pairs of one slope with two signs; their  *)
(* values fit those at 0 and 1 that the code folds.                        *)
ArcDivisor(f, u) ==
  CASE f \in {"Arcsin", "Arccos"} -> RootS(OneMinusSquare(u))
    [] f \in {"Arctan", "Arccot"} -> SumS(Constant(One), ProductS(u, u))
    [] f \in {"Arcsec", "Arccsc"} ->
         ProductS(AbsS(u), RootS(NegS(OneMinusSquare(u))))
ArcValue(f, q) ==
  CASE f \in {"Arcsin", "Arctan"} -> q
    [] f = "Arccos" -> Minus(One, q)
    [] f = "Arcsec" -> Minus(q, One)
    [] f \in {"Arccot", "Arccsc"} -> Negated(q)
ArcS(f, u) ==
  LET sign == IF f \in {"Arccos", "Arccot", "Arccsc"} THEN Whole(-1) ELSE One
  IN  ByDerivative(ScaleS(sign, ReciprocalS(ArcDivisor(f, u))), u,
                   ArcValue(f, u[1]))
LnS(u) ==
  LET at == LnAt(u[1])
  IN  IF at = {} THEN Undefined
      ELSE ByDerivative(ReciprocalS(u), u, CHOOSE q \in at : TRUE)

Reciprocals == [Sec |-> "Cos", Csc |-> "Sin", Sech |-> "Cosh", Csch |-> "Sinh"]
Quotients == [Tan |-> <<"Sin", "Cos">>, Cot |-> <<"Cos", "Sin">>,
              Tanh |-> <<"Sinh", "Cosh">>, Coth |-> <<"Cosh", "Sinh">>]
RECURSIVE FunctionS(_, _)
FunctionS(f, u) ==
  CASE ~Known(u) -> u
    [] Known(u) /\ f \in DOMAIN Reciprocals ->
         ReciprocalS(FunctionS(Reciprocals[f], u))
    [] Known(u) /\ f \in DOMAIN Quotients ->
         QuotientS(FunctionS(Quotients[f][1], u), FunctionS(Quotients[f][2], u))
    [] OTHER ->
         CASE f = "Sin" -> SinS(u)
           [] f = "Cos" -> CosS(u)
           [] f = "Exp" -> ExpS(u)
           [] f = "Ln" -> LnS(u)
           [] f = "Sinh" -> HalfSum(u, Whole(-1))
           [] f = "Cosh" -> HalfSum(u, One)
           [] f = "Abs" -> AbsS(u)
           [] f = "Sqrt" -> RootS(u)
           [] f \in InverseTrigonometric -> ArcS(f, u)

(* u^v                                                                     *)
GeneralPowerS(u, v) ==
  CASE ~(Known(u) /\ Known(v)) -> Unknown2(u, v)
    [] Known(u) /\ v = Constant(v[1]) -> NumberPowerS(u, v[1])
    [] OTHER -> FunctionS("Exp", ProductS(v, FunctionS("Ln", u)))

RECURSIVE SumOfAll(_), ProductOfAll(_)
SumOfAll(s) == IF s = << >> THEN Constant(Zero) ELSE SumS(s[1], SumOfAll(Tail(s)))
ProductOfAll(s) ==
  IF s = << >> THEN Constant(One) ELSE ProductS(s[1], ProductOfAll(Tail(s)))

(* The series of an expression, given the series of its names.             *)
RECURSIVE Meaning(_, _)
Meaning(e, names) ==
  CASE e.op = "Number" -> Constant(e.value)
    [] e.op \in {"Symbol", "Quantity"} ->
         IF e.name \in DOMAIN names THEN names[e.name] ELSE Undefined
    [] e.op \in {"Refused", "Equation"} -> Undefined
    [] e.op = "Integral" ->
         LET s == Meaning(e.args[1], names)
         IN  IF Known(s) THEN IntegralS(s, Zero) ELSE s
    [] OTHER ->
         LET s == Tuple([i \in DOMAIN e.args |-> Meaning(e.args[i], names)])
         IN  CASE e.op = "Add" -> SumOfAll(s)
               [] e.op = "Mul" -> ProductOfAll(s)
               [] e.op = "Sub" -> SumS(s[1], NegS(s[2]))
               [] e.op = "Div" -> QuotientS(s[1], s[2])
               [] e.op = "Pow" /\ IsNumber(e.args[2]) ->
                    NumberPowerS(s[1], e.args[2].value)
               [] e.op = "Pow" /\ ~IsNumber(e.args[2]) ->
                    GeneralPowerS(s[1], s[2])
               [] OTHER -> FunctionS(e.op, s[1])

With1(f, n, v) == [m \in DOMAIN f \cup {n} |-> IF m = n THEN v ELSE f[m]]

(* The names at a point: x is the variable, the rest are constants.        *)
Given == [a |-> <<3, 1>>, b |-> <<1, 2>>, c |-> <<2, 1>>, e |-> <<2, 1>>,
           k |-> <<4, 1>>, y |-> <<4, 1>>, z |-> <<-1, 1>>, t |-> <<5, 1>>,
           s |-> <<3, 1>>, C1 |-> <<3, 1>>, C2 |-> <<-2, 1>>]
Constants == [n \in DOMAIN Given |-> Constant(Given[n])]
AtPoint(x) == With1(Constants, "x", <<x, One, Zero>>)
Points == {Whole(2), Zero, <<3, 5>>, Whole(-2)}

Same(s, t) == ~Known(s) \/ s = t \/ t = TooLarge
Agree(k, s, t) == SubSeq(s, 1, k) = SubSeq(t, 1, k)
BothKnown(s, t) == Known(s) /\ Known(t)

RECURSIVE Nodes(_)
Nodes(e) == {e} \cup IF e.op \in Atoms THEN {}
                     ELSE UNION {Nodes(e.args[i]) : i \in DOMAIN e.args}
Asked(task) == sample.task = task

(***************************************************************************)
(* Rewriting.                                                              *)
(***************************************************************************)
(* A product raises the factors of a base to its exponent one by one. That *)
(* is not the base's power if the exponent is a fraction and a factor is   *)
(* negative: (x^2)^(1/2) becomes x, and (-2*x)^(1/2) asks for the root of  *)
(* -2.                                                                     *)
RECURSIVE FactorsIn(_)
FactorsIn(e) ==
  CASE e.op \in {"Mul", "Div"} -> UNION {FactorsIn(e.args[i]) : i \in DOMAIN e.args}
    [] e.op = "Pow" /\ IsNumber(e.args[2]) -> FactorsIn(e.args[1])
    [] OTHER -> {e}
IsSplitRoot(n, names) ==
  LET isNegative(m) == LET s == Meaning(m, names) IN Known(s) /\ s # TooLarge /\ s[1][1] < 0
      splits(base) == FactorsIn(base) # {base} /\ \E m \in FactorsIn(base) : isNegative(m)
  IN  /\ n.op = "Pow" /\ IsNumber(n.args[2]) /\ ~IsWhole(n.args[2].value)
      /\ splits(Simplify(n.args[1]))
HasSplitRoot(e, names) == \E n \in Nodes(e) : IsSplitRoot(n, names)
SplitsARoot(e, names) == \E n \in Nodes(e) : n.op \in {"Mul", "Div"} /\ HasSplitRoot(n, names)

ValueKept(e, rewritten) ==
  \A p \in Points :
    SplitsARoot(e, AtPoint(p)) \/ Same(Meaning(e, AtPoint(p)), Meaning(rewritten, AtPoint(p)))
UnitKept(e, simple) ==
  LET was == InferUnit(e) is == InferUnit(simple)
  IN  was.ok /\ was.known /\ simple # Num(0)
        => is.ok /\ (is.known => is.unit = was.unit)

(* What simplify and factor write has the value of what was written, at    *)
(* every point where that has one and splits no root, and so do its slope  *)
(* and curvature; and the unit of what was written, if that has one and    *)
(* the result is not 0 (simplify and collect_mul_powers of ast.rs).        *)
RewritingKeepsMeaning == [][
  /\ Asked("expression") => /\ ValueKept(sample.e, Simplify(sample.e))
                            /\ ValueKept(sample.e, Factor(sample.e))
  /\ Asked("quantities") => UnitKept(sample.e, Simplify(sample.e))]_sample

(***************************************************************************)
(* Derivatives, Taylor polynomials and antiderivatives.                    *)
(***************************************************************************)
(* df is the slope of f, at every point where both have a value and split  *)
(* no root.                                                                *)
HasSlope(f, df) ==
  \A p \in Points :
    LET m == Meaning(f, AtPoint(p)) dm == Meaning(df, AtPoint(p))
        split == \E e \in {f, df} : HasSplitRoot(e, AtPoint(p))
    IN  BothKnown(m, dm) => split \/ Agree(2, dm, SlopeS(m))

HasTaylor(f) ==
  \A p \in {Zero, Whole(2)} : \A order \in 0..2 :
    LET m == Meaning(f, AtPoint(p))
        taylor == Meaning(Series(f, "x", Number(p), order), AtPoint(p))
    IN  BothKnown(m, taylor) => Agree(order + 1, m, taylor)

(* The two sides of an equation between x and y where y has this slope.    *)
SidesAt(e, p, slope) ==
  LET names == With1(With1(AtPoint(p), "y", <<Given.y, slope, Zero>>),
                     "y'", Constant(slope))
  IN  [i \in {1, 2} |-> Meaning(e.args[i], names)]

(* Whatever curve y is at the point: the derivative's two sides are the    *)
(* slopes of the equation's, or its solution for y' makes those equal.     *)
HasImplicitSlope(e, d) ==
  LET solved == d.args[1] = Symbol("y'") /\ ~DependsOn(d.args[2], "y'")
      equal(s) == BothKnown(s[1], s[2]) => s[1][2] = s[2][2]
      solves(p, m) == Known(m) => equal(SidesAt(e, p, m[1]))
      areSlopes(s, ds) == \A i \in {1, 2} :
                            BothKnown(s[i], ds[i]) => ds[i][1] = s[i][2]
  IN  \A p \in Points :
        IF solved THEN solves(p, SidesAt(d, p, One)[2])
        ELSE \A slope \in {Zero, Whole(3)} :
               areSlopes(SidesAt(e, p, slope), SidesAt(d, p, slope))

(* Where the code's antiderivative is another function's: names next to    *)
(* two factors with the variable are dropped, a linear base of an          *)
(* arctangent is multiplied by its factor again, and the logarithm of the  *)
(* base 1 divides by 0.                                                    *)
IntegralGoesWrong(e) ==
  \E n \in Nodes(e) :
    \/ n.op = "Mul" /\ Len(With(n.args, "x")) > 1
                    /\ Others(Without(n.args, "x")) # << >>
    \/ n.op = "Pow" /\ SumWithSquare(n.args[1], "x", {"linear"}) # {}
    \/ n.op = "Pow" /\ Is(n.args[1], One)

IntegralHasSlope(e) ==
  LET integral == Integrate(e, "x")
  IN  IntegralGoesWrong(e) \/ IsRefused(integral) \/ HasSlope(integral, e)

(* The derivative is the slope, of an expression and of an equation; the   *)
(* Taylor polynomial has the first coefficients of the function; and the   *)
(* antiderivative has the slope of what was integrated, where no root is   *)
(* split.                                                                  *)
CalculusIsTrue == [][
  /\ Asked("expression") => /\ HasSlope(sample.e, Derivative(sample.e, "x"))
                            /\ HasTaylor(sample.e)
                            /\ IntegralHasSlope(sample.e)
  /\ Asked("equation") => HasImplicitSlope(sample.e, Derivative(sample.e, "x"))]_sample

(***************************************************************************)
(* Equations.                                                              *)
(***************************************************************************)
(* A power of the target next to other terms is solved as if only the      *)
(* numbers among those were there.                                         *)
PowerNextToNames(l, r) ==
  LET zero == EquationAsDifference(Simplify(l), Simplify(r))
  IN  /\ zero.op = "Add"
      /\ Others(Without(zero.args, "x")) # << >>
      /\ \E i \in DOMAIN zero.args : zero.args[i].op = "Pow"

(* Dividing by 0 is left out of a product: y/x = 0 gives y/0, which is y.  *)
SolvesByZero(l, r) ==
  \E <<quotient, other>> \in {<<l, r>>, <<r, l>>} :
    /\ Is(Simplify(other), Zero)
    /\ quotient.op = "Div" /\ DependsOn(quotient.args[2], "x")

(* Both sides of e have the same k-th coefficient.                         *)
SidesAgree(e, k, names) ==
  LET l == Meaning(e.args[1], names) r == Meaning(e.args[2], names)
  IN  BothKnown(l, r) => l[k] = r[k]

(* The answer is free of x, and makes both sides equal.                    *)
Solves(e, answer) ==
  LET value == Meaning(answer, Constants)
  IN  /\ ~DependsOn(answer, "x")
      /\ Known(value) => SidesAgree(e, 1, With1(Constants, "x", value))

(* A curve puts its slopes in for y' and y''.                              *)
OnCurve(p, y) ==
  With1(With1(With1(AtPoint(p), "y", y), "y'", SlopeS(y)),
        "y''", SlopeS(SlopeS(y)))

(* An answer for y is a curve that makes both sides equal; an answer that  *)
(* is not solved for y fits the slope the equation y' = ... gives y.       *)
SolvesDifferential(e, answer) ==
  \A p \in Points :
    IF answer.args[1] = Symbol("y")
    THEN LET y == Meaning(answer.args[2], AtPoint(p))
         IN  Known(y) => SidesAgree(e, 1, OnCurve(p, y))
    ELSE LET slope == Meaning(e.args[2], AtPoint(p))
         IN  Known(slope) =>
               SidesAgree(answer, 2, OnCurve(p, <<Given.y, slope[1], Zero>>))

(* What solve and dsolve answer is a solution.                             *)
SolutionsSolve == [][
  LET l == Simplify(sample.e.args[1]) r == Simplify(sample.e.args[2])
      solution == SolveEquation(sample.e, "x")
      curve == Dsolve(l, r, "y", "x")
  IN  /\ Asked("equation") =>
           \/ IsRefused(solution)
           \/ PowerNextToNames(sample.e.args[1], sample.e.args[2])
           \/ SolvesByZero(sample.e.args[1], sample.e.args[2])
           \/ Solves(sample.e, solution)
      /\ Asked("differential") =>
           IsRefused(curve) \/ SolvesDifferential(sample.e, curve)]_sample

(***************************************************************************)
(* Transforms, matrices, fields.                                           *)
(***************************************************************************)
(* The transform of a slope is s times the transform less the value at 0,  *)
(* and what the inverse answers for a transform is what was transformed.   *)
IsTransform(e) ==
  LET of == Laplace(e, "t", "s")
      ofSlope == Laplace(Derivative(e, "t"), "t", "s")
      back == InvLaplace(of, "s", "t")
      start == Meaning(Subst(e, "t", Num(0)), Constants)
      big == Meaning(of, Constants)
      bigSlope == Meaning(ofSlope, Constants)
      same(p) ==
        LET names == With1(Constants, "t", <<p, One, Zero>>)
            was == Meaning(e, names) is == Meaning(back, names)
        IN  BothKnown(was, is) => was = is
  IN  Answered(of) =>
        /\ Answered(ofSlope) /\ BothKnown(big, bigSlope) /\ Known(start) =>
             bigSlope[1] = Minus(Times(Given.s, big[1]), start[1])
        /\ Answered(back) => \A p \in Points : same(p)

(* The determinant of two or three rows, by the rule of Sarrus: the        *)
(* products along the falling diagonals less those along the rising ones.  *)
Cross(m, i, j, c, d) == Minus(Times(m[i][c], m[j][d]), Times(m[i][d], m[j][c]))
SarrusDet(m) ==
  LET along(c) == Times(m[1][c], Cross(m, 2, 3, (c % 3) + 1, ((c + 1) % 3) + 1))
  IN  IF Len(m) = 2 THEN Cross(m, 1, 2, 1, 2)
      ELSE Plus(along(1), Plus(along(2), along(3)))
LessOnDiagonal(m, q) ==
  [i \in DOMAIN m |-> [j \in DOMAIN m |->
     LET entry == Meaning(m[i][j], Constants)[1]
     IN  IF i = j THEN Minus(entry, q) ELSE entry]]

(* The determinant of a matrix and of its transpose, its characteristic    *)
(* polynomial and its eigenvalues are what they are defined to be.         *)
IsTrueOfMatrix(m) ==
  LET roots == Eigenvalues(m, "k")
      is(e, q) ==
        LET value == Meaning(e, Constants)
        IN  Known(value) => value[1] = SarrusDet(LessOnDiagonal(m, q))
      isRoot(e) ==
        LET root == Meaning(e, Constants)
        IN  Known(root) => SarrusDet(LessOnDiagonal(m, root[1])) = Zero
  IN  /\ is(Det(m), Zero) /\ is(Det(Transpose(m)), Zero)
      /\ is(Charpoly(m, "k"), Given.k)
      /\ \A i \in DOMAIN roots : isRoot(roots[i])

(* A gradient has no curl, a curl no divergence, and the laplacian is the  *)
(* divergence of the gradient.                                             *)
FieldsAgree(f) ==
  LET names == <<"x", "y", "z">>
      gradient == Grad(f[1], names)
      at(e) == Meaning(e, AtPoint(Whole(2)))
      isZero(m) == Known(m) => m[1] = Zero
      equal(l, r) == BothKnown(l, r) => l[1] = r[1]
  IN  /\ \A i \in 1..3 : isZero(at(Curl(gradient, names)[i]))
      /\ isZero(at(Divergence(Curl(f, names), names)))
      /\ equal(at(Laplacian(f[1], names)), at(Divergence(gradient, names)))

(* What laplace and its inverse answer for a signal, det, charpoly and     *)
(* eigenvalues for a matrix, grad, curl, divergence and laplacian for a    *)
(* field is what their names say.                                          *)
OperatorsAreTrue == [][
  /\ Asked("signal") => IsTransform(sample.e)
  /\ Asked("matrix") => IsTrueOfMatrix(sample.rows)
  /\ Asked("field")  => FieldsAgree(sample.field)]_sample

(***************************************************************************)
(* Stack code and texts.                                                   *)
(***************************************************************************)
(* What the instructions leave on the stack.                               *)
RECURSIVE Executed(_, _, _)
Executed(code, inputs, stack) ==
  LET i == code[1]
      n == Len(stack)
      push(under, value) ==
        Executed(Tail(code), inputs, Append(SubSeq(stack, 1, n - under), value))
  IN  CASE code = << >> -> stack
        [] code # << >> /\ i.op = "PushNumber" -> push(0, Constant(i.value))
        [] code # << >> /\ i.op = "PushVar" -> push(0, inputs[i.var])
        [] code # << >> /\ i.op \in Compiled -> push(1, FunctionS(i.op, stack[n]))
        [] OTHER ->
             LET a == stack[n - 1] b == stack[n]
             IN  push(2, CASE i.op = "Add" -> SumS(a, b)
                           [] i.op = "Sub" -> SumS(a, NegS(b))
                           [] i.op = "Mul" -> ProductS(a, b)
                           [] i.op = "Div" -> QuotientS(a, b)
                           [] i.op = "Pow" -> GeneralPowerS(a, b))

(* The stack code of an expression leaves one value, the expression's.     *)
CompilesTo(e) ==
  LET compiled == Compile(e)
      inputs(p) == [v \in DOMAIN compiled.names |-> AtPoint(p)[compiled.names[v]]]
  IN  compiled.ok =>
        \A p \in Points : Executed(compiled.code, inputs(p), << >>) = <<Meaning(e, AtPoint(p))>>

(* Where the text of a tree is that of another: a difference or quotient   *)
(* whose second part is of its own kind, a power to a power, and a power   *)
(* of a negative number after a plus.                                      *)
RECURSIVE LeadsWithNegativePower(_)
LeadsWithNegativePower(e) ==
  CASE e.op = "Pow" -> IsNumber(e.args[1]) /\ e.args[1].value[1] < 0
    [] e.op \in {"Mul", "Add", "Div", "Sub"} -> LeadsWithNegativePower(e.args[1])
    [] OTHER -> FALSE
LosesParentheses(e) ==
  \E n \in Nodes(e) :
    \/ n.op = "Sub" /\ n.args[2].op \in {"Add", "Sub"}
    \/ n.op = "Div" /\ n.args[2].op = "Div"
    \/ n.op = "Pow" /\ n.args[1].op = "Pow"
    \/ n.op = "Add" /\ \E i \in DOMAIN n.args \ {1} :
                          LeadsWithNegativePower(n.args[i])

(* What is compiled of an expression has its value (compiler.rs); what is    *)
(* printed of it or of its simplified form is read back as an expression   *)
(* with that value, unless the text loses parentheses (display.rs).           *)
TextsAndCodeAgree == [][
  Asked("expression") =>
    /\ CompilesTo(sample.e)
    /\ \A e \in {sample.e, Simplify(sample.e)} :
         LosesParentheses(e) \/ ValueKept(e, ParseStr(Text(e)))]_sample
=============================================================================
