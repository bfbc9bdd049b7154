------------------------------ MODULE Calculus ------------------------------
(* What a PHS script can do with an expression: derivatives                *)
(* (symbolic/diff.rs), antiderivatives (integrate.rs), the solution of an  *)
(* equation (solve.rs) and Taylor polynomials (series.rs).                 *)
EXTENDS Symbolic

Square(u) == Pow(u, Num(2))
Minus1    == Num(-1)
Half      == Number(<<1, 2>>)

(***************************************************************************)
(* Derivatives.  dep is the set of the one dependent variable, empty when  *)
(* there is none.                                                          *)
(***************************************************************************)
PlainNames == {"a", "b", "c", "t", "v", "x", "y", "z"}
Primed == {n \o p : n \in PlainNames, p \in {"'", "''"}}
KnownNames == {"e", "pi"}

DiffName(name, var, dep, leibniz) ==
  LET d == CHOOSE n \in dep : TRUE
  IN  CASE name = var -> Num(1)
        [] name # var /\ dep = {} ->
             IF name \in Primed THEN Symbol(name \o "'") ELSE Num(0)
        [] name # var /\ dep # {} /\ name \in {d, d \o "'", d \o "''"} ->
             Symbol(name \o "'")
        [] leibniz /\ dep # {}
             /\ name \in {"d" \o d \o "/d" \o var, "d(" \o d \o ")/d(" \o var \o ")"} ->
             Symbol("d^2" \o d \o "/d" \o var \o "^2")
        [] OTHER -> Num(0)

(* f'(u), as the factors the chain rule multiplies the derivative of u by. *)
OuterFactors(f, u) ==
  CASE f = "Sin"  -> <<Fn("Cos", u)>>
    [] f = "Cos"  -> <<Minus1, Fn("Sin", u)>>
    [] f = "Tan"  -> <<Square(Fn("Sec", u))>>
    [] f = "Cot"  -> <<Minus1, Square(Fn("Csc", u))>>
    [] f = "Sec"  -> <<Fn("Sec", u), Fn("Tan", u)>>
    [] f = "Csc"  -> <<Minus1, Fn("Csc", u), Fn("Cot", u)>>
    [] f = "Sinh" -> <<Fn("Cosh", u)>>
    [] f = "Cosh" -> <<Fn("Sinh", u)>>
    [] f = "Tanh" -> <<Square(Fn("Sech", u))>>
    [] f = "Coth" -> <<Minus1, Square(Fn("Csch", u))>>
    [] f = "Sech" -> <<Minus1, Fn("Sech", u), Fn("Tanh", u)>>
    [] f = "Csch" -> <<Minus1, Fn("Csch", u), Fn("Coth", u)>>
    [] f = "Exp"  -> <<Fn("Exp", u)>>
    [] f = "Abs"  -> <<Div(u, Fn("Abs", u))>>
    [] f = "Sqrt" -> <<Half, Pow(u, Number(<<-1, 2>>))>>

(* What the derivative of u is divided by.                                 *)
OuterDivisor(f, u) ==
  CASE f \in {"Arcsin", "Arccos"} -> Pow(Sub(Num(1), Square(u)), Half)
    [] f \in {"Arctan", "Arccot"} -> Add(<<Num(1), Square(u)>>)
    [] f \in {"Arcsec", "Arccsc"} ->
         Mul(<<Fn("Abs", u), Pow(Sub(Square(u), Num(1)), Half)>>)
    [] f = "Ln" -> u

DiffUnary(f, u, du) ==
  CASE f \in {"Arcsin", "Arctan", "Arcsec", "Ln"} -> Div(du, OuterDivisor(f, u))
    [] f \in {"Arccos", "Arccot", "Arccsc"} ->
         Mul(<<Minus1, Div(du, OuterDivisor(f, u))>>)
    [] OTHER -> Mul(Append(OuterFactors(f, u), du))

(* b^n with the derivatives of base and exponent.                          *)
DiffPow(base, exp, db, dv, depends) ==
  CASE IsNumber(exp) ->
         Mul(<<exp, Pow(base, Number(Minus(exp.value, One))), db>>)
    [] ~IsNumber(exp) /\ ~depends ->
         Mul(<<exp, Pow(base, Sub(exp, Num(1))), db>>)
    [] OTHER ->
         Mul(<<Pow(base, exp), Add(<<Mul(<<dv, Fn("Ln", base)>>),
                                     Div(Mul(<<exp, db>>), base)>>)>>)

(* Mutant: the quotient rule with its terms swapped.                       *)
DiffDivSwapped(a, b, da, db) ==
  Div(Sub(Mul(<<a, db>>), Mul(<<da, b>>)), Square(b))

DiffDiv(a, b, da, db) ==
  Div(Sub(Mul(<<da, b>>), Mul(<<a, db>>)), Square(b))

(* The first name in order that could be the dependent variable.           *)
DependentOf(e, var) ==
  LET candidates == FreeSymbols(e) \ ({var} \cup KnownNames)
      first == {n \in candidates : \A m \in candidates :
                  Place(Names, n) <= Place(Names, m)}
  IN  first

RECURSIVE Diff(_, _, _), SolveEquation(_, _)

DiffEquation(e, var, dep) ==
  LET found == DependentOf(e, var)
      name == CHOOSE n \in found : TRUE
      sides(d) == Tuple([i \in 1..2 |-> Diff(e.args[i], var, d)])
      solving(eq) ==
        LET solved == SolveEquation(eq, name \o "'")
        IN  IF IsRefused(solved) THEN Simplify(eq)
            ELSE Equation(Symbol(name \o "'"), solved)
  IN  IF found = {} THEN Node("Equation", sides(dep))
      ELSE LET ds == sides(found)
           IN  solving(Equation(Simplify(ds[1]), Simplify(ds[2])))

Diff(e, var, dep) ==
  CASE e.op = "Number" -> Num(0)
    [] e.op = "Symbol" -> DiffName(e.name, var, dep, TRUE)
    [] e.op = "Quantity" -> DiffName(e.name, var, dep, FALSE)
    [] e.op = "Equation" -> DiffEquation(e, var, dep)
    [] e.op = "Integral" ->
         IF e.args[2] = Symbol(var) THEN e.args[1]
         ELSE [e EXCEPT !.args[1] = Diff(@, var, dep)]
    [] OTHER ->
         LET d == Tuple([i \in DOMAIN e.args |-> Diff(e.args[i], var, dep)])
         IN  CASE e.op \in {"Add", "Sub"} -> Node(e.op, d)
               [] e.op = "Mul" ->
                    Add([i \in DOMAIN d |-> Mul([e.args EXCEPT ![i] = d[i]])])
               [] e.op = "Div" -> DiffDiv(e.args[1], e.args[2], d[1], d[2])
               [] e.op = "Pow" ->
                    DiffPow(e.args[1], e.args[2], d[1], d[2],
                      \E v \in {var} \cup dep : DependsOn(e.args[2], v))
               [] OTHER -> DiffUnary(e.op, e.args[1], d[1])

DiffNode(e, var) == Diff(e, var, {})
Derivative(e, var) == Simplify(DiffNode(e, var))

RECURSIVE DiffNodeN(_, _, _)
DiffNodeN(e, var, n) ==
  IF n = 0 THEN e ELSE DiffNodeN(Derivative(e, var), var, n - 1)

(* e as a * var + b, as the set of the one pair of numbers, if it is.      *)
RECURSIVE LinearCoeff(_, _)
LinearCoeff(e, var) ==
  CASE e.op = "Number" -> {[a |-> Zero, b |-> e.value]}
    [] IsName(e, var) -> {[a |-> One, b |-> Zero]}
    [] e.op \in {"Add", "Sub"} ->
         LET parts == Tuple([i \in DOMAIN e.args |-> LinearCoeff(e.args[i], var)])
             signed(i, q) == IF e.op = "Sub" /\ i = 2 THEN Negated(q) ELSE q
             one(i) == CHOOSE l \in parts[i] : TRUE
             sum(f(_)) == FoldLeft(LAMBDA acc, i : Plus(acc, signed(i, f(one(i)))),
                                   Zero, [i \in DOMAIN parts |-> i])
         IN  IF \E i \in DOMAIN parts : parts[i] = {} THEN {}
             ELSE {[a |-> sum(LAMBDA l : l.a), b |-> sum(LAMBDA l : l.b)]}
    [] e.op = "Mul" ->
         LET with == SelectSeq(e.args, LAMBDA f : DependsOn(f, var))
             rest == SelectSeq(e.args, LAMBDA f : ~DependsOn(f, var))
             lin == CASE with = << >> -> {[a |-> Zero, b |-> One]}
                      [] Len(with) = 1 -> LinearCoeff(with[1], var)
                      [] OTHER -> {}
             coeff == ProductOfNumbers(rest)
         IN  IF Others(rest) # << >> THEN {}
             ELSE {[a |-> Times(coeff, l.a), b |-> Times(coeff, l.b)]
                   : l \in lin}
    [] OTHER -> {}

(***************************************************************************)
(* The solution of an equation for one name.                               *)
(***************************************************************************)
NegateTerm(t) == Simplify(Mul(<<Minus1, t>>))

EquationAsDifference(l, r) ==
  CASE ~Is(l, Zero) -> Sub(l, r)
    [] r.op = "Add" ->
         Simplify(Add([i \in DOMAIN r.args |-> NegateTerm(r.args[i])]))
    [] OTHER -> NegateTerm(r)

ProductOf(factors) ==
  IF factors = << >> THEN Num(1) ELSE SingleOrProduct(factors)
SumOf(terms) ==
  CASE terms = << >> -> Num(0)
    [] Len(terms) = 1 -> terms[1]
    [] OTHER -> Add(terms)

With(nodes, target)    == SelectSeq(nodes, LAMBDA n : DependsOn(n, target))
Without(nodes, target) == SelectSeq(nodes, LAMBDA n : ~DependsOn(n, target))

(* target * k = constant, or target^n * k = constant.                      *)
SolveProduct(factors, constant, target) ==
  LET found == With(factors, target)
      quotient == Div(constant, ProductOf(Without(factors, target)))
  IN  CASE Len(found) # 1 -> Refused
        [] found = <<Symbol(target)>> -> Simplify(quotient)
        [] Len(found) = 1 /\ found[1].op = "Pow" ->
             IF found[1].args[1] = Symbol(target)
             THEN Simplify(Pow(quotient, Div(Num(1), found[1].args[2])))
             ELSE Refused
        [] OTHER -> Refused

(* A quotient that holds the target above is cleared, the difference       *)
(* turned the way it stood.                                                *)
SolveIsolated(dependent, constant, target, constantOnLeft) ==
  CASE dependent.op = "Mul" -> SolveProduct(dependent.args, constant, target)
    [] dependent = Symbol(target) -> constant
    [] dependent.op = "Div" ->
         LET num == dependent.args[1] den == dependent.args[2]
             cleared == Mul(<<constant, den>>)
         IN  CASE DependsOn(num, target) /\ ~DependsOn(den, target) ->
                    SolveEquation(IF constantOnLeft THEN Sub(cleared, num)
                                  ELSE Sub(num, cleared), target)
               [] den = Symbol(target) /\ ~DependsOn(num, target) ->
                    Simplify(Div(num, constant))
               [] OTHER -> Refused
    [] OTHER -> Refused

SolveDifference(left, right, target) ==
  CASE ~DependsOn(left, target) /\ DependsOn(right, target) ->
         SolveIsolated(right, left, target, TRUE)
    [] DependsOn(left, target) /\ ~DependsOn(right, target) ->
         SolveIsolated(left, right, target, FALSE)
    [] OTHER -> Refused

(* Mutant: the other terms change sides and keep their sign.               *)
SolveSingleTermUnmoved(t, others, target) ==
  LET rest == SumOf(others)
  IN  CASE t = Symbol(target) -> Simplify(rest)
        [] t.op = "Mul" -> Simplify(Div(rest, ProductOf(Without(t.args, target))))
        [] OTHER -> Refused

(* The target, or the target times something, plus the rest.               *)
SolveSingleTerm(t, others, target) ==
  LET negated == Mul(<<Minus1, SumOf(others)>>)
  IN  CASE t = Symbol(target) -> Simplify(negated)
        [] t.op = "Mul" ->
             IF With(t.args, target) = <<Symbol(target)>>
             THEN Simplify(Div(negated, ProductOf(Without(t.args, target))))
             ELSE Refused
        [] OTHER -> Refused

(* target^n plus the numbers of the sum; its other terms are not looked at *)
SolvePowerTerm(terms, target) ==
  LET found == With(terms, target)
      const == SumOfNumbers(Without(terms, target))
  IN  IF Len(found) = 1 /\ found[1].op = "Pow"
      THEN IF found[1].args[1] = Symbol(target)
           THEN Simplify(Pow(Number(Negated(const)),
                             Div(Num(1), found[1].args[2])))
           ELSE Refused
      ELSE Refused

SolveSum(terms, target) ==
  LET found == With(terms, target)
      single == IF Len(found) = 1
                THEN SolveSingleTerm(found[1], Without(terms, target), target)
                ELSE Refused
  IN  IF IsRefused(single) THEN SolvePowerTerm(terms, target) ELSE single

SolveEquation(e, target) ==
  LET simple == Simplify(e)
      zero == IF simple.op \in {"Equation", "Sub"}
              THEN EquationAsDifference(simple.args[1], simple.args[2])
              ELSE simple
      linear == {l \in LinearCoeff(zero, target) : l.a # Zero}
  IN  CASE linear # {} ->
             LET l == CHOOSE k \in linear : TRUE
             IN  Simplify(Div(Number(Negated(l.b)), Number(l.a)))
        [] linear = {} /\ zero.op = "Sub" ->
             SolveDifference(zero.args[1], zero.args[2], target)
        [] linear = {} /\ zero.op = "Add" -> SolveSum(zero.args, target)
        [] OTHER -> Refused

(***************************************************************************)
(* The Taylor polynomial about a point, from the derivatives one by one.   *)
(***************************************************************************)
RECURSIVE TaylorTerms(_, _, _, _, _, _)
TaylorTerms(deriv, var, at, k, order, factorial) ==
  IF k > order THEN << >>
  ELSE LET coeff == Simplify(Subst(deriv, var, at))
           shift == Simplify(Sub(Symbol(var), at))
           numerator == IF k = 0 THEN coeff
                        ELSE Mul(<<coeff, Pow(shift, Num(k))>>)
           term == IF factorial = 1 THEN Simplify(numerator)
                   ELSE Simplify(Div(numerator, Num(factorial)))
       IN  (IF Is(coeff, Zero) THEN << >> ELSE <<term>>)
             \o IF k = order THEN << >>
                ELSE TaylorTerms(Derivative(deriv, var), var, at, k + 1, order,
                                 factorial * (k + 1))

Series(e, var, at, order) ==
  LET terms == TaylorTerms(e, var, at, 0, order, 1)
  IN  IF terms = << >> THEN Num(0) ELSE Simplify(Add(terms))

(***************************************************************************)
(* Antiderivatives.  Refused stands for the errors and for the patterns    *)
(* that do not apply; an Integral node for what is left undone.            *)
(***************************************************************************)
(* The variable itself, a * var + b, or something without the variable.    *)
ArgForm(u, var) ==
  LET linear == {l \in LinearCoeff(u, var) : l.a # Zero}
  IN  CASE IsName(u, var) -> [form |-> "var", a |-> One]
        [] ~DependsOn(u, var) -> [form |-> "constant", a |-> Zero]
        [] linear # {} ->
             [form |-> "linear", a |-> (CHOOSE l \in linear : TRUE).a]
        [] OTHER -> [form |-> "other", a |-> Zero]

LnAbs(u) == Fn("Ln", Fn("Abs", u))

Antiderivative(f, u) ==
  CASE f = "Sin"  -> Mul(<<Minus1, Fn("Cos", u)>>)
    [] f = "Cos"  -> Fn("Sin", u)
    [] f = "Exp"  -> Fn("Exp", u)
    [] f = "Tan"  -> LnAbs(Fn("Sec", u))
    [] f = "Cot"  -> LnAbs(Fn("Sin", u))
    [] f = "Sec"  -> LnAbs(Add(<<Fn("Sec", u), Fn("Tan", u)>>))
    [] f = "Csc"  -> Mul(<<Minus1, LnAbs(Add(<<Fn("Csc", u), Fn("Cot", u)>>))>>)
    [] f = "Sinh" -> Fn("Cosh", u)
    [] f = "Cosh" -> Fn("Sinh", u)
    [] f = "Tanh" -> Fn("Ln", Fn("Cosh", u))

DividedBy(e, form) ==
  IF form.form = "linear" THEN Div(e, Number(form.a)) ELSE e

IntegrateUnary(f, u, var) ==
  LET form == ArgForm(u, var)
  IN  CASE form.form \in {"var", "linear"} ->
             DividedBy(Antiderivative(f, u), form)
        [] form.form = "constant" -> Mul(<<Fn(f, u), Symbol(var)>>)
        [] OTHER -> Refused

IntegrateLn(u, var) ==
  LET form == ArgForm(u, var).form
  IN  CASE form = "var" -> Sub(Mul(<<u, Fn("Ln", u)>>), u)
        [] form = "constant" -> Mul(<<Fn("Ln", u), Symbol(var)>>)
        [] OTHER -> Refused

(* a^(k x) with a constant base.                                           *)
IntegrateExponential(base, exp, var) ==
  LET form == ArgForm(exp, var)
      ln == Fn("Ln", base)
  IN  CASE DependsOn(base, var) \/ ~DependsOn(exp, var) -> Refused
        [] form.form = "var" -> Div(Pow(base, exp), ln)
        [] form.form = "linear" ->
             Div(Pow(base, exp), Mul(<<Number(form.a), ln>>))
        [] OTHER -> Refused

(* sec^2 and cos^-2, csc^2 and sin^-2.                                     *)
IntegrateTrigSquare(base, n, var) ==
  LET tangent == \/ n = Whole(2) /\ base.op = "Sec"
                 \/ n = Whole(-2) /\ base.op = "Cos"
      cotangent == \/ n = Whole(2) /\ base.op = "Csc"
                   \/ n = Whole(-2) /\ base.op = "Sin"
      u == base.args[1]
  IN  IF (tangent \/ cotangent) /\ ArgForm(u, var).form \in {"var", "linear"}
      THEN DividedBy(IF tangent THEN Fn("Tan", u)
                     ELSE Mul(<<Minus1, Fn("Cot", u)>>), ArgForm(u, var))
      ELSE Refused

SquareRoot(c) ==
  LET root == PowerOf(c, <<1, 2>>)
  IN  IF root = {} THEN Pow(Number(c), Half)
      ELSE Number(CHOOSE q \in root : TRUE)

(* The two terms of c + u^2, u of one of these forms, as the pairs of u    *)
(* and c > 0.                                                              *)
SumWithSquare(e, var, forms) ==
  IF e.op # "Add" THEN {}
  ELSE {[u |-> e.args[i].args[1], c |-> e.args[j].value] :
          <<i, j>> \in {p \in {1, 2} \X {1, 2} :
            /\ Len(e.args) = 2
            /\ e.args[p[1]].op = "Pow"
            /\ Is(e.args[p[1]].args[2], Whole(2))
            /\ ArgForm(e.args[p[1]].args[1], var).form \in forms
            /\ IsNumber(e.args[p[2]]) /\ e.args[p[2]].value[1] > 0}}

(* (c + u^2)^-1; a linear u is multiplied by its own factor once more.     *)
IntegrateArctanForm(base, var) ==
  LET found == SumWithSquare(base, var, {"var", "linear"})
      s == CHOOSE p \in found : TRUE
      form == ArgForm(s.u, var)
      x == IF form.form = "linear" THEN Mul(<<Number(form.a), s.u>>) ELSE s.u
      a == SquareRoot(s.c)
  IN  IF found = {} THEN Refused
      ELSE Mul(<<Div(Num(1), a), Fn("Arctan", Div(x, a))>>)

(* (1 - x^2)^(-1/2)                                                        *)
IntegrateArcsinForm(base, var) ==
  IF base.op = "Sub" /\ Is(base.args[1], One) /\ base.args[2].op = "Pow"
  THEN LET power == base.args[2].args
       IN  IF Is(power[2], Whole(2)) /\ ArgForm(power[1], var).form = "var"
           THEN Fn("Arcsin", power[1]) ELSE Refused
  ELSE Refused

IntegrateInverseTrig(base, n, var) ==
  CASE n = Whole(-1) -> IntegrateArctanForm(base, var)
    [] n = <<-1, 2>> -> IntegrateArcsinForm(base, var)
    [] OTHER -> Refused

PowerRule(u, n, divisor) == Div(Pow(u, Number(Plus(n, One))), Number(divisor))

IntegratePlainPow(base, n, var) ==
  LET form == ArgForm(base, var)
  IN  CASE form.form \in {"var", "linear"} /\ n = Whole(-1) ->
             DividedBy(Fn("Ln", base), form)
        [] form.form \in {"var", "linear"} ->
             PowerRule(base, n, Times(form.a, Plus(n, One)))
        [] form.form = "constant" ->
             Mul(<<Pow(base, Number(n)), Symbol(var)>>)
        [] OTHER -> Integral(Pow(base, Number(n)), var)

FirstOf(results, otherwise) ==
  LET found == SelectSeq(results, LAMBDA r : ~IsRefused(r))
  IN  IF found = << >> THEN otherwise ELSE found[1]

IntegratePow(base, exp, var) ==
  LET exponential == IntegrateExponential(base, exp, var)
  IN  CASE ~IsRefused(exponential) -> exponential
        [] ~IsNumber(exp) -> Integral(Pow(base, exp), var)
        [] OTHER ->
             FirstOf(<<IntegrateTrigSquare(base, exp.value, var),
                       IntegrateInverseTrig(base, exp.value, var)>>,
                     IntegratePlainPow(base, exp.value, var))

(* 1 / (c + x^2)                                                           *)
IntegrateArctanReciprocal(b, var) ==
  LET found == SumWithSquare(b, var, {"var"})
      s == CHOOSE p \in found : TRUE
      k == SquareRoot(s.c)
  IN  CASE found = {} -> Refused
        [] found # {} /\ Is(k, One) -> Fn("Arctan", s.u)
        [] OTHER -> Div(Fn("Arctan", Div(s.u, k)), k)

IntegrateReciprocal(b, var) ==
  LET form == ArgForm(b, var)
  IN  IF form.form \in {"var", "linear"} THEN DividedBy(Fn("Ln", b), form)
      ELSE IntegrateArctanReciprocal(b, var)

(* g' / g, and k * g' / g as simplify writes it.                           *)
LogarithmicQuotient(a, b, var) ==
  LET db == Derivative(b, var)
      sa == Simplify(a)
      scaled == /\ sa.op = "Mul"
                /\ Len(sa.args) = 2
                /\ sa.args[2] = db
                /\ IsNumber(sa.args[1])
  IN  CASE db = sa -> LnAbs(b)
        [] db # sa /\ scaled -> Mul(<<sa.args[1], LnAbs(b)>>)
        [] OTHER -> Refused

Scaled(coeff, e) == IF coeff = One THEN e ELSE Mul(<<Number(coeff), e>>)

(* q is u^v and p its logarithmic derivative.                              *)
TryGeneralPowerAntiderivative(p, q, var) ==
  IF q.op = "Pow" /\ DependsOn(q.args[1], var) /\ DependsOn(q.args[2], var)
  THEN LET u == q.args[1] v == q.args[2]
           w == Simplify(Add(<<
                  Mul(<<Derivative(v, var), Fn("Ln", u)>>),
                  Div(Mul(<<v, Derivative(u, var)>>), u)>>))
       IN  IF Simplify(p) = w THEN q ELSE Refused
  ELSE Refused

(* q is sin, cos or exp of a u whose derivative is p, or p times coeff.    *)
TryUSubstitution(p, q, var, coeff) ==
  IF q.op \in {"Sin", "Cos", "Exp"}
  THEN LET u == q.args[1]
           du == Derivative(u, var)
           done == Antiderivative(q.op, u)
       IN  CASE du = Simplify(Mul(<<Number(coeff), p>>)) -> done
             [] du = Simplify(p) -> Scaled(coeff, done)
             [] OTHER -> Refused
  ELSE Refused

IsPolynomialFactor(u, var) ==
  \/ u = Symbol(var)
  \/ /\ u.op = "Pow"
     /\ u.args[1] = Symbol(var)
     /\ IsNumber(u.args[2])
     /\ IsWhole(u.args[2].value) /\ u.args[2].value[1] > 0

RECURSIVE IntegrateNode(_, _)

(* u v minus the integral of v du, when u is a logarithm, or a power of    *)
(* the variable and dv something worth integrating.                        *)
TryIntegrationByParts(u, dv, var) ==
  LET byParts(v) ==
        LET rest == IntegrateNode(Simplify(Mul(<<v, DiffNode(u, var)>>)), var)
        IN  IF IsRefused(rest) THEN Refused ELSE Sub(Mul(<<u, v>>), rest)
  IN  IF \/ u.op = "Ln"
         \/ /\ dv.op \in {"Sin", "Cos", "Exp", "Pow", "Ln"}
            /\ IsPolynomialFactor(u, var)
      THEN LET v == IntegrateNode(dv, var)
           IN  IF IsRefused(v) THEN Refused ELSE byParts(v)
      ELSE Refused

(* Two factors with the variable, in either order.                         *)
IntegratePair(factors, p, q, coeff, var) ==
  LET general(a, b) == LET e == TryGeneralPowerAntiderivative(a, b, var)
                       IN  IF IsRefused(e) THEN e ELSE Scaled(coeff, e)
      parts(a, b) == LET e == TryIntegrationByParts(a, b, var)
                     IN  IF IsRefused(e) THEN e ELSE Scaled(coeff, e)
      quick == FirstOf(<<general(p, q), TryUSubstitution(p, q, var, coeff),
                         general(q, p), TryUSubstitution(q, p, var, coeff)>>,
                       Refused)
      first == parts(p, q)
      second == parts(q, p)
  IN  CASE ~IsRefused(quick) -> quick
        [] IsRefused(quick) /\ ~IsRefused(first) -> first
        [] IsRefused(quick) /\ IsRefused(first) /\ ~IsRefused(second) -> second
        [] OTHER -> Integral(Mul(factors), var)

(* The constant factors ride along, but next to two factors with the       *)
(* variable only if all of them are numbers: a name among them is lost.    *)
IntegrateMul(factors, var) ==
  LET const == Without(factors, var)
      var2 == With(factors, var)
      numeric == Others(const) = << >>
      coeff == IF numeric THEN ProductOfNumbers(const) ELSE One
  IN  CASE var2 = << >> -> Mul(<<Mul(factors), Symbol(var)>>)
        [] Len(var2) = 1 ->
             LET inner == IntegrateNode(var2[1], var)
             IN  CASE IsRefused(inner) -> Refused
                   [] numeric /\ ~IsRefused(inner) ->
                        Mul(<<Number(coeff), inner>>)
                   [] OTHER -> Mul(Append(const, inner))
        [] Len(var2) = 2 -> IntegratePair(factors, var2[1], var2[2], coeff, var)
        [] OTHER -> Integral(Mul(factors), var)

IntegrateDiv(a, b, var) ==
  IF ~DependsOn(b, var)
  THEN LET inner == IntegrateNode(a, var)
       IN  IF IsRefused(inner) THEN Refused ELSE Div(inner, b)
  ELSE LET reciprocal == IF Is(a, One) THEN IntegrateReciprocal(b, var)
                         ELSE Refused
       IN  IF ~IsRefused(reciprocal) THEN reciprocal
           ELSE LogarithmicQuotient(a, b, var)

IntegrateNode(e, var) ==
  CASE e.op = "Number" -> Mul(<<e, Symbol(var)>>)
    [] IsName(e, var) -> Div(Square(e), Num(2))
    [] e.op \in {"Symbol", "Quantity"} /\ ~IsName(e, var) ->
         Mul(<<e, Symbol(var)>>)
    [] e.op \in {"Add", "Sub"} ->
         LET parts == Tuple([i \in DOMAIN e.args |-> IntegrateNode(e.args[i], var)])
         IN  IF \E i \in DOMAIN parts : IsRefused(parts[i]) THEN Refused
             ELSE Node(e.op, parts)
    [] e.op = "Mul" -> IntegrateMul(e.args, var)
    [] e.op = "Div" -> IntegrateDiv(e.args[1], e.args[2], var)
    [] e.op = "Pow" -> IntegratePow(e.args[1], e.args[2], var)
    [] e.op = "Ln" -> IntegrateLn(e.args[1], var)
    [] e.op \in {"Sin", "Cos", "Tan", "Cot", "Sec", "Csc", "Sinh", "Cosh",
                 "Tanh", "Exp"} -> IntegrateUnary(e.op, e.args[1], var)
    [] OTHER -> Integral(e, var)

(* integrate of an Expr: an Integral left at the top is an error.          *)
Integrate(e, var) ==
  LET whole(res) == IF res.op = "Integral" THEN Refused ELSE res
      finish(raw) == IF IsRefused(raw) THEN Refused ELSE whole(Simplify(raw))
  IN  finish(IntegrateNode(e, var))
=============================================================================
