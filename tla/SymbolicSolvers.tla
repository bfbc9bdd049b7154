---------------------------- MODULE SymbolicSolvers ----------------------------
(* What is built on top of the calculus: differential equations            *)
(* (symbolic/ode.rs), Laplace transforms (transforms.rs), matrices of      *)
(* expressions (sym_matrix.rs), vector fields (builtins/calc.rs) and the   *)
(* stack code an expression compiles to (compiler.rs).                     *)
EXTENDS Calculus

(***************************************************************************)
(* Where the code looks for a name in the text of a term, it also finds it *)
(* in the names of functions; these are the letters they have.             *)
(***************************************************************************)
Letters == [Sin |-> {"s"}, Cos |-> {"c", "s"}, Tan |-> {"t", "a"},
  Cot |-> {"c", "t"}, Sec |-> {"s", "c"}, Csc |-> {"c", "s"},
  Arcsin |-> {"a", "s"}, Arccos |-> {"a", "c", "s"}, Arctan |-> {"a", "t"},
  Arccot |-> {"a", "c", "t"}, Arcsec |-> {"a", "s", "c"},
  Arccsc |-> {"a", "c", "s"}, Sinh |-> {"s"}, Cosh |-> {"c", "s"},
  Tanh |-> {"t", "a"}, Coth |-> {"c", "t"}, Sech |-> {"s", "c"},
  Csch |-> {"c", "s"}, Ln |-> {}, Exp |-> {"x"}, Abs |-> {"a", "b", "s"},
  Sqrt |-> {"s", "t"}]

RECURSIVE TextContains(_, _)
TextContains(e, name) ==
  CASE e.op = "Number" -> FALSE
    [] e.op \in {"Symbol", "Quantity"} ->
         e.name \in {name, name \o "'", name \o "''"}
    [] OTHER -> \/ e.op \in DOMAIN Letters /\ name \in Letters[e.op]
                \/ \E i \in DOMAIN e.args : TextContains(e.args[i], name)

(***************************************************************************)
(* Differential equations.                                                 *)
(***************************************************************************)
SumNode(terms) ==
  CASE terms = << >> -> Num(0)
    [] Len(terms) = 1 -> terms[1]
    [] OTHER -> Simplify(Add(terms))
ProductNode(factors) ==
  CASE factors = << >> -> Num(1)
    [] Len(factors) = 1 -> factors[1]
    [] OTHER -> Simplify(Mul(factors))

RECURSIVE ToAddTerms(_)
ToAddTerms(e) ==
  CASE e.op = "Add" ->
         FlattenSeq([i \in DOMAIN e.args |-> ToAddTerms(e.args[i])])
    [] e.op = "Sub" ->
         ToAddTerms(e.args[1]) \o ToAddTerms(NegateTerm(e.args[2]))
    [] OTHER -> <<e>>

(* The numbers a term multiplies the name by, if there is nothing else.    *)
ExtractConstCoeff(term, name) ==
  LET factors == IF term.op = "Mul" THEN FlattenMul(term.args) ELSE <<term>>
  IN  IF Others(factors) = <<Symbol(name)>> THEN {ProductOfNumbers(factors)}
      ELSE {}

(* The derivative of the dependent variable a term is about.               *)
OrderOf(term, dep) ==
  CASE TextContains(term, dep \o "''") -> 2
    [] TextContains(term, dep \o "'") -> 1
    [] TextContains(term, dep) -> 0
    [] OTHER -> -1
DerivativeName(dep, order) ==
  CASE order = 2 -> dep \o "''" [] order = 1 -> dep \o "'" [] order = 0 -> dep

TermsOfOrder(terms, dep, n) == SelectSeq(terms, LAMBDA t : OrderOf(t, dep) = n)
Negate(terms) == Tuple([i \in DOMAIN terms |-> NegateTerm(terms[i])])

(* The sum of the coefficients of the terms, if all of them have one.      *)
CoefficientSum(terms, name) ==
  LET each == Tuple([i \in DOMAIN terms |-> ExtractConstCoeff(terms[i], name)])
  IN  IF \E i \in DOMAIN each : each[i] = {} THEN {}
      ELSE {FoldLeft(LAMBDA acc, c : Plus(acc, CHOOSE q \in c : TRUE),
                     Zero, each)}

(* a y'' + b y' + c y = rhs with a # 0, as the set of the one such.        *)
Extract2ndOrder(e, dep) ==
  LET terms == ToAddTerms(e)
      coeff(n) == CoefficientSum(TermsOfOrder(terms, dep, n),
                                 DerivativeName(dep, n))
  IN  {[a |-> a, b |-> b, c |-> c,
        rhs |-> SumNode(Negate(TermsOfOrder(terms, dep, -1)))] :
          a \in coeff(2) \ {Zero}, b \in coeff(1), c \in coeff(0)}

Scaling(q, var) == Simplify(Mul(<<Number(q), Symbol(var)>>))

(* The solutions of the homogeneous equation, by the sign of the           *)
(* discriminant; an irrational root is not in the model.                   *)
Homogeneous(a, b, c, var) ==
  LET disc == Minus(Times(b, b), Times(Whole(4), Times(a, c)))
      over == Times(Whole(2), a)
      size == PowerOf(<<AbsOf(disc[1]), disc[2]>>, <<1, 2>>)
      root == CHOOSE q \in size : TRUE
      alpha == Over(Negated(b), over)
      beta == Over(root, over)
      exp(r) == Fn("Exp", Scaling(r, var))
      term(name, f) == Simplify(Mul(<<Symbol(name), f>>))
      waves == Add(<<term("C1", Fn("Cos", Scaling(beta, var))),
                     term("C2", Fn("Sin", Scaling(beta, var)))>>)
  IN  CASE disc = Zero ->
             Simplify(Mul(<<
               Add(<<Symbol("C1"), term("C2", Symbol(var))>>),
               IF alpha = Zero THEN Num(1) ELSE exp(alpha)>>))
        [] disc # Zero /\ size = {} -> Refused
        [] disc[1] > 0 /\ size # {} ->
             Simplify(Add(<<term("C1", exp(Plus(alpha, beta))),
                            term("C2", exp(Minus(alpha, beta)))>>))
        [] disc[1] < 0 /\ size # {} ->
             IF alpha = Zero THEN Simplify(waves)
             ELSE Simplify(Mul(<<exp(alpha), waves>>))

(* A right-hand side other than a number is refused.                       *)
Solve2ndOrder(o, dep, var) ==
  LET rhs == Simplify(o.rhs)
      plus(h, q) == IF q = Zero THEN h ELSE Simplify(Add(<<h, Number(q)>>))
      solution(h) ==
        IF \/ IsRefused(h)
           \/ ~IsNumber(rhs)
           \/ o.c = Zero /\ ~Is(rhs, Zero)
        THEN Refused
        ELSE Equation(Symbol(dep),
                      plus(h, IF o.c = Zero THEN Zero ELSE Over(rhs.value, o.c)))
  IN  solution(Homogeneous(o.a, o.b, o.c, var))

(* k for a term k * y.                                                     *)
DependentCoefficient(term, dep) ==
  LET factors == IF term.op = "Mul" THEN term.args ELSE <<term>>
      rest == SelectSeq(factors, LAMBDA f : ~IsName(f, dep))
  IN  IF \/ Len(rest) # Len(factors) - 1
         \/ term.op # "Mul" /\ term # Symbol(dep)
      THEN Refused ELSE ProductNode(rest)

(* y' + p y = q, with 1 in front of y'.                                    *)
Extract1stOrder(e, dep) ==
  LET terms == ToAddTerms(e)
      primed == TermsOfOrder(terms, dep, 1) \o TermsOfOrder(terms, dep, 2)
      bare == TermsOfOrder(terms, dep, 0)
      ps == Tuple([i \in DOMAIN bare |-> DependentCoefficient(bare[i], dep)])
  IN  IF \E i \in DOMAIN ps : IsRefused(ps[i]) THEN {}
      ELSE {[p |-> SumNode(ps),
             q |-> SumNode(Negate(TermsOfOrder(terms, dep, -1)))] :
              k \in CoefficientSum(primed, dep \o "'") \cap {One}}

(* By the integrating factor.                                              *)
Solve1stOrder(l, dep, var) ==
  LET divided(intMuQ, mu) ==
        IF IsRefused(intMuQ) THEN Refused
        ELSE Equation(Symbol(dep),
               Simplify(Div(Simplify(Add(<<intMuQ, Symbol("C1")>>)), mu)))
      by(mu) == divided(IntegrateNode(Simplify(Mul(<<mu, l.q>>)), var), mu)
      factor(intP) == IF IsRefused(intP) THEN Refused
                      ELSE by(Simplify(Fn("Exp", intP)))
  IN  factor(IntegrateNode(l.p, var))

(* y' = f(x) g(y).                                                         *)
ExtractSeparable(e, dep, var) ==
  LET terms == ToAddTerms(e)
      primed == {i \in DOMAIN terms : TextContains(terms[i], dep \o "'")
                                      \/ TextContains(terms[i], dep \o "''")}
      at == CHOOSE i \in primed : \A j \in primed : i <= j
      rhs == NegateTerm(terms[3 - at])
      split(f, g) == {[f |-> f, g |-> g]}
  IN  CASE Len(terms) # 2 \/ primed = {} -> {}
        [] Len(terms) = 2 /\ primed # {} /\ terms[at] # Symbol(dep \o "'") -> {}
        [] OTHER ->
             CASE rhs.op = "Mul" ->
                    split(ProductNode(Without(rhs.args, dep)),
                          ProductNode(With(rhs.args, dep)))
               [] rhs.op # "Mul" /\ ~DependsOn(rhs, dep) -> split(rhs, Num(1))
               [] rhs.op # "Mul" /\ DependsOn(rhs, dep)
                    /\ ~DependsOn(rhs, var) -> split(Num(1), rhs)
               [] OTHER -> {}

SolveSeparable(s, dep, var) ==
  LET answer(intY, rhs, explicit) ==
        IF IsRefused(explicit) THEN Equation(intY, rhs)
        ELSE Equation(Symbol(dep), explicit)
      between(intY, rhs) ==
        answer(intY, rhs, SolveEquation(Sub(intY, rhs), dep))
      joined(intY, intX) ==
        IF IsRefused(intY) \/ IsRefused(intX) THEN Refused
        ELSE between(intY, Simplify(Add(<<intX, Symbol("C1")>>)))
  IN  joined(IntegrateNode(Simplify(Div(Num(1), s.g)), dep),
             IntegrateNode(s.f, var))

(* The first of the forms the equation has decides.                        *)
Dsolve(left, right, dep, var) ==
  LET only(forms) == CHOOSE form \in forms : TRUE
      separable(forms) == IF forms = {} THEN Refused
                          ELSE SolveSeparable(only(forms), dep, var)
      first(forms, e) == IF forms = {} THEN separable(ExtractSeparable(e, dep, var))
                         ELSE Solve1stOrder(only(forms), dep, var)
      second(forms, e) == IF forms = {} THEN first(Extract1stOrder(e, dep), e)
                          ELSE Solve2ndOrder(only(forms), dep, var)
      of(e) == second(Extract2ndOrder(e, dep), e)
  IN  of(Simplify(Sub(Simplify(left), Simplify(right))))

(***************************************************************************)
(* Laplace transforms.                                                     *)
(***************************************************************************)
(* What the code never comes back from: a product of two factors with the  *)
(* variable is split into itself.                                          *)
Endless == [op |-> "Endless"]
Answered(e) == e.op \notin {"Refused", "Endless"}

RECURSIVE Factorial(_)
Factorial(n) == IF n = 0 THEN 1 ELSE n * Factorial(n - 1)

(* w for an argument w * var.                                              *)
ExtractLinearCoeff(e, var) ==
  LET simple == Simplify(e)
      rest == SelectSeq(simple.args, LAMBDA f : ~IsName(f, var))
  IN  CASE simple = Symbol(var) -> Num(1)
        [] simple.op = "Mul" -> IF Len(rest) = Len(simple.args) - 1
                                THEN ProductNode(rest) ELSE Refused
        [] OTHER -> Refused

LaplaceOscillation(inner, t, s, numeratorIsS, hyperbolic) ==
  LET w == ExtractLinearCoeff(inner, t)
      wsq == Simplify(Mul(<<w, w>>))
      den == Simplify(IF hyperbolic THEN Sub(Square(s), wsq)
                      ELSE Add(<<Square(s), wsq>>))
  IN  IF IsRefused(w) THEN Refused
      ELSE Simplify(Div(IF numeratorIsS THEN s ELSE w, den))

LaplaceExp(inner, t, s) ==
  LET a == ExtractLinearCoeff(inner, t)
  IN  IF IsRefused(a) THEN Refused
      ELSE Simplify(Div(Num(1), Simplify(Sub(s, a))))

(* Mutant: the exponent of s is one too small.                             *)
LaplacePowerLow(n, s) ==
  IF IsWhole(n) /\ n[1] >= 0
  THEN Simplify(Div(Num(Factorial(n[1])), Pow(s, Number(n)))) ELSE Refused

LaplacePower(n, s) ==
  IF IsWhole(n) /\ n[1] >= 0
  THEN Simplify(Div(Num(Factorial(n[1])), Pow(s, Number(Plus(n, One)))))
  ELSE Refused

FirstUnanswered(es) ==
  LET bad == SelectSeq(es, LAMBDA e : ~Answered(e))
  IN  bad[1]
AllAnswered(es) == \A i \in DOMAIN es : Answered(es[i])

RECURSIVE Laplace(_, _, _)
Laplace(e, t, sv) ==
  LET s == Symbol(sv)
      simple == Simplify(e)
      arg == simple.args[1]
      terms == Tuple([i \in DOMAIN simple.args |-> Laplace(simple.args[i], t, sv)])
      varying == ProductNode(With(simple.args, t))
      of(part) == IF Answered(part)
                  THEN Simplify(Mul(<<ProductNode(Without(simple.args, t)),
                                      part>>))
                  ELSE part
  IN  CASE simple.op = "Number" -> Simplify(Div(simple, s))
        [] simple.op = "Symbol" ->
             Simplify(IF simple.name = t THEN Div(Num(1), Square(s))
                      ELSE Div(simple, s))
        [] simple.op = "Add" -> IF AllAnswered(terms) THEN Simplify(Add(terms))
                                ELSE FirstUnanswered(terms)
        [] simple.op = "Mul" -> IF varying = simple THEN Endless
                                ELSE of(Laplace(varying, t, sv))
        [] simple.op = "Pow" ->
             IF arg = Symbol(t) /\ IsNumber(simple.args[2])
             THEN LaplacePower(simple.args[2].value, s) ELSE Refused
        [] simple.op = "Exp"  -> LaplaceExp(arg, t, s)
        [] simple.op = "Sin"  -> LaplaceOscillation(arg, t, s, FALSE, FALSE)
        [] simple.op = "Cos"  -> LaplaceOscillation(arg, t, s, TRUE, FALSE)
        [] simple.op = "Sinh" -> LaplaceOscillation(arg, t, s, FALSE, TRUE)
        [] simple.op = "Cosh" -> LaplaceOscillation(arg, t, s, TRUE, TRUE)
        [] OTHER -> Refused

(* num / (s^2 + w^2)                                                       *)
InvertOscillation(num, terms, s, t) ==
  LET first == IF TextContains(terms[1], s.name) THEN 1 ELSE 2
      wTerm == terms[3 - first]
      w == CASE wTerm.op = "Number" -> SquareRoot(wTerm.value)
             [] wTerm.op = "Pow" -> IF Is(wTerm.args[2], Whole(2))
                                    THEN wTerm.args[1] ELSE Fn("Sqrt", wTerm)
             [] OTHER -> Fn("Sqrt", wTerm)
      wt == Simplify(Mul(<<w, t>>))
  IN  CASE Len(terms) # 2 -> Refused
        [] Len(terms) = 2 /\ terms[first] # Square(s) -> Refused
        [] OTHER -> CASE num = s -> Fn("Cos", wt)
                      [] num # s /\ num = w -> Fn("Sin", wt)
                      [] num # s /\ num # w /\ Is(num, One) ->
                           Simplify(Div(Fn("Sin", wt), w))
                      [] OTHER -> Refused

(* Over s alone the numerator is the answer, whatever is in it.            *)
InvLaplaceFraction(num, den, s, t) ==
  CASE den = s -> num
    [] Is(num, One) /\ den = Square(s) -> t
    [] den.op = "Sub" ->
         IF Is(num, One) /\ den.args[1] = s
         THEN Fn("Exp", Simplify(Mul(<<den.args[2], t>>))) ELSE Refused
    [] den.op = "Add" -> InvertOscillation(num, den.args, s, t)
    [] OTHER -> Refused

RECURSIVE InvLaplace(_, _, _)
InvLaplace(e, sv, tv) ==
  LET simple == Simplify(e)
      terms == Tuple([i \in DOMAIN simple.args |-> InvLaplace(simple.args[i], sv, tv)])
  IN  CASE simple.op = "Div" ->
             InvLaplaceFraction(simple.args[1], simple.args[2],
                                Symbol(sv), Symbol(tv))
        [] simple.op = "Add" -> IF AllAnswered(terms) THEN Simplify(Add(terms))
                                ELSE Refused
        [] OTHER -> Refused

(***************************************************************************)
(* Matrices, as sequences of rows.                                         *)
(***************************************************************************)
IsMatrix(m) == m # << >> /\ \A i \in DOMAIN m : Len(m[i]) = Len(m[1])
IsSquare(m) == Len(m) = Len(m[1])
Transpose(m) == [c \in DOMAIN m[1] |-> [r \in DOMAIN m |-> m[r][c]]]
Trace(m) == IF IsSquare(m) THEN Simplify(Add([i \in DOMAIN m |-> m[i][i]]))
            ELSE Refused
(* Mutant: the minor always leaves the first column out.                   *)
MinorOfFirst(m, col) == [r \in 1..Len(m) - 1 |-> RemoveAt(m[r + 1], 1)]
Minor(m, col) == [r \in 1..Len(m) - 1 |-> RemoveAt(m[r + 1], col)]

(* Along the first row, the entries that are 0 left out.                   *)
RECURSIVE DetRecursive(_)
DetRecursive(m) ==
  LET cols == SelectSeq([c \in DOMAIN m |-> c],
                        LAMBDA c : ~Is(Simplify(m[1][c]), Zero))
      terms == Tuple([i \in DOMAIN cols |->
        Simplify(Mul(<<m[1][cols[i]], DetRecursive(Minor(m, cols[i]))>>))])
  IN  CASE Len(m) = 1 -> Simplify(m[1][1])
        [] Len(m) = 2 -> Simplify(Sub(Mul(<<m[1][1], m[2][2]>>),
                                      Mul(<<m[1][2], m[2][1]>>)))
        [] OTHER -> SumNode([i \in DOMAIN cols |->
                      IF cols[i] % 2 = 1 THEN terms[i] ELSE NegateTerm(terms[i])])

Det(m) == IF IsSquare(m) THEN DetRecursive(m) ELSE Refused

Charpoly(m, lambda) ==
  IF IsSquare(m)
  THEN DetRecursive([i \in DOMAIN m |-> [j \in DOMAIN m |->
         IF i = j THEN Simplify(Sub(m[i][i], Symbol(lambda))) ELSE m[i][j]]])
  ELSE Refused

Eigenvalues(m, lambda) ==
  LET tr == Trace(m)
      disc == Simplify(Sub(Square(tr), Simplify(Mul(<<Num(4), Det(m)>>))))
      root == Fn("Sqrt", disc)
  IN  CASE ~IsSquare(m) \/ Len(m) > 2 -> <<Refused>>
        [] Len(m) = 2 ->
             <<Simplify(Div(Add(<<tr, root>>), Num(2))),
               Simplify(Div(Sub(tr, root), Num(2)))>>
        [] OTHER -> <<SolveEquation(Equation(Charpoly(m, lambda), Num(0)),
                                    lambda)>>

(***************************************************************************)
(* Vector fields over a sequence of variables.                             *)
(***************************************************************************)
Grad(e, names) == Tuple([i \in DOMAIN names |-> Derivative(e, names[i])])
Divergence(field, names) ==
  IF Len(field) # Len(names) THEN Refused
  ELSE Simplify(Add([i \in DOMAIN names |-> Derivative(field[i], names[i])]))
Curl(field, names) ==
  LET d(i, j) == DiffNode(field[i], names[j])
      twist(i, j) == Simplify(Sub(d(i, j), d(j, i)))
  IN  IF Len(field) # 3 \/ Len(names) # 3 THEN <<Refused>>
      ELSE <<twist(3, 2), twist(1, 3), twist(2, 1)>>
Laplacian(e, names) ==
  Simplify(Add([i \in DOMAIN names |-> Simplify(DiffNodeN(e, names[i], 2))]))

(***************************************************************************)
(* Stack code.                                                             *)
(***************************************************************************)
(* Mutant: a difference is compiled to a sum.                              *)
InstructionOfSum(op) == [op |-> IF op = "Sub" THEN "Add" ELSE op]
Instruction(op) == [op |-> op]
PushNumber(q) == [op |-> "PushNumber", value |-> q]
PushVar(i) == [op |-> "PushVar", var |-> i]
Compiled == {"Sin", "Cos", "Ln", "Exp"}

RECURSIVE CompileNode(_, _)
(* code is the instructions and the names of the inputs so far.            *)
CompileNode(e, code) ==
  LET emit(c, i) == [c EXCEPT !.code = Append(@, i)]
      next(c, i) ==
        LET compiled == CompileNode(e.args[i], c)
        IN  IF i = 1 \/ ~compiled.ok THEN compiled
            ELSE emit(compiled, Instruction(e.op))
      named == IF e.name \in Range(code.names) THEN code
               ELSE [code EXCEPT !.names = Append(@, e.name)]
  IN  CASE ~code.ok -> code
        [] code.ok /\ e.op = "Number" -> emit(code, PushNumber(e.value))
        [] code.ok /\ e.op \in {"Symbol", "Quantity"} ->
             emit(named, PushVar(Place(named.names, e.name)))
        [] code.ok /\ e.op \in {"Add", "Mul"} /\ e.args = << >> ->
             emit(code, PushNumber(IF e.op = "Add" THEN Zero ELSE One))
        [] code.ok /\ e.op \in {"Add", "Mul", "Sub", "Div", "Pow"} ->
             FoldLeft(next, code, [i \in DOMAIN e.args |-> i])
        [] code.ok /\ e.op \in Compiled ->
             emit(CompileNode(e.args[1], code), Instruction(e.op))
        [] OTHER -> [code EXCEPT !.ok = FALSE]

Compile(e) == CompileNode(e, [ok |-> TRUE, code |-> << >>, names |-> << >>])
=============================================================================
