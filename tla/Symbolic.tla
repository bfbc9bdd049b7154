------------------------------ MODULE Symbolic ------------------------------
(* The symbolic expressions of a PHS script: the tree (symbolic/ast.rs),   *)
(* the unit it has, what simplify and factor (symbolic/factor.rs) rewrite  *)
(* it to, and the checked constructors of symbolic/expr.rs.                *)
(*                                                                         *)
(* A number is an exact fraction where the code has an f64.  A power of    *)
(* numbers that is not a fraction stays a power, where the code has its    *)
(* float: neither has the value of anything else.                          *)
EXTENDS Rationals

(* A sequence with its members evaluated.                                  *)
Tuple(f) == << >> \o f

Number(q)   == [op |-> "Number", value |-> q]
Symbol(s)   == [op |-> "Symbol", name |-> s]
Quantity(s, u) == [op |-> "Quantity", name |-> s, unit |-> u]
Node(op, args) == [op |-> op, args |-> Tuple(args)]

Num(i)      == Number(Whole(i))
Add(ts)     == Node("Add", ts)
Mul(fs)     == Node("Mul", fs)
Sub(a, b)   == Node("Sub", <<a, b>>)
Div(a, b)   == Node("Div", <<a, b>>)
Pow(a, b)   == Node("Pow", <<a, b>>)
Fn(f, u)    == Node(f, <<u>>)
Equation(a, b) == Node("Equation", <<a, b>>)
Integral(u, v) == Node("Integral", <<u, Symbol(v)>>)

(* What an operation returns in place of a tree when it gives up with an   *)
(* error.                                                                  *)
Refused == [op |-> "Refused"]
IsRefused(e) == e.op = "Refused"

Trigonometric == {"Sin", "Cos", "Tan", "Cot", "Sec", "Csc"}
InverseTrigonometric ==
  {"Arcsin", "Arccos", "Arctan", "Arccot", "Arcsec", "Arccsc"}
Hyperbolic == {"Sinh", "Cosh", "Tanh", "Coth", "Sech", "Csch"}
Transcendental ==
  Trigonometric \cup InverseTrigonometric \cup Hyperbolic \cup {"Ln", "Exp"}
Atoms == {"Number", "Symbol", "Quantity"}

IsNumber(e) == e.op = "Number"
Is(e, q)    == IsNumber(e) /\ e.value = q
IsName(e, s) == e.op \in {"Symbol", "Quantity"} /\ e.name = s

(***************************************************************************)
(* The order of terms and factors: the text the tree prints as for         *)
(* debugging, so the variant's name comes first.                           *)
(***************************************************************************)
Variants == <<"Abs", "Add", "Arccos", "Arccot", "Arccsc", "Arcsec", "Arcsin",
  "Arctan", "Cos", "Cosh", "Cot", "Coth", "Csc", "Csch", "Div", "Equation",
  "Exp", "Integral", "Ln", "Mul", "Number", "Pow", "Quantity", "Sec", "Sech",
  "Sin", "Sinh", "Sqrt", "Sub", "Symbol", "Tan", "Tanh">>
Names == <<"A", "B", "C1", "C2", "F", "X", "Y", "a", "b", "c", "d", "e", "f",
  "k", "kg", "m", "n", "pi", "s", "t", "u", "v", "w", "x", "x'", "y", "y'",
  "y''", "y'''", "z">>
Place(list, member) == CHOOSE i \in DOMAIN list : list[i] = member

(* Numbers in the order of their texts: "-" comes before a digit, and a    *)
(* "." too, so that 10 stands between 1 and 2.                             *)
DigitsOf(n) == CHOOSE k \in 1..9 : n < 10^k /\ (k = 1 \/ n >= 10^(k - 1))
FirstDigits(n) == n * 10^(9 - DigitsOf(n))
NumberPrecedes(p, q) ==
  LET a == <<AbsOf(p[1]), p[2]>>  b == <<AbsOf(q[1]), q[2]>>
      m == a[1] \div a[2]  n == b[1] \div b[2]
  IN  CASE (p[1] < 0) # (q[1] < 0) -> p[1] < 0
        [] (p[1] < 0) = (q[1] < 0) /\ FirstDigits(m) # FirstDigits(n) ->
             FirstDigits(m) < FirstDigits(n)
        [] OTHER -> Less(a, b)

RECURSIVE Precedes(_, _)
Precedes(a, b) ==
  CASE a.op # b.op -> Place(Variants, a.op) < Place(Variants, b.op)
    [] a.op = "Number" -> NumberPrecedes(a.value, b.value)
    [] a.op \in {"Symbol", "Quantity"} ->
         Place(Names, a.name) < Place(Names, b.name)
    [] OTHER ->
         LET shared == DOMAIN a.args \cap DOMAIN b.args
             differ == {i \in shared : a.args[i] # b.args[i]}
         IN  IF differ = {} THEN Len(a.args) > Len(b.args)
             ELSE LET first == CHOOSE i \in differ : \A j \in differ : i <= j
                  IN  Precedes(a.args[first], b.args[first])

(* A stable sort, each node put behind those it does not precede.          *)
SortNodes(nodes) ==
  LET put(sorted, n) ==
        LET before == SelectSeq(sorted, LAMBDA m : ~Precedes(n, m))
        IN  before \o <<n>> \o SubSeq(sorted, Len(before) + 1, Len(sorted))
  IN  FoldLeft(put, << >>, nodes)

(***************************************************************************)
(* The unit of a tree: the power of the one base unit, known or not, and   *)
(* whether the tree has one at all.                                        *)
(***************************************************************************)
UnitKnown(u) == [ok |-> TRUE, known |-> TRUE, unit |-> u]
UnitUnknown  == [ok |-> TRUE, known |-> FALSE, unit |-> Zero]
UnitError    == [ok |-> FALSE, known |-> FALSE, unit |-> Zero]

SumUnit(units) ==
  LET known == {i \in DOMAIN units : units[i].known}
  IN  CASE \E i \in DOMAIN units : ~units[i].ok -> UnitError
        [] known = {} -> UnitUnknown
        [] \E i, j \in known : units[i].unit # units[j].unit -> UnitError
        [] OTHER -> units[CHOOSE i \in known : TRUE]

ProductUnit(units) ==
  LET known == SelectSeq(units, LAMBDA u : u.known)
  IN  CASE \E i \in DOMAIN units : ~units[i].ok -> UnitError
        [] known = << >> -> UnitUnknown
        [] OTHER -> UnitKnown(FoldLeft(LAMBDA acc, u : Plus(acc, u.unit),
                                       Zero, known))

QuotientUnit(ua, ub) ==
  CASE ~(ua.ok /\ ub.ok) -> UnitError
    [] ~(ua.known \/ ub.known) -> UnitUnknown
    [] OTHER -> UnitKnown(Minus(ua.unit, ub.unit))

PowerUnit(u, exp) ==
  CASE ~u.known -> u
    [] IsNumber(exp) -> UnitKnown(Times(u.unit, exp.value))
    [] OTHER -> UnitError

RECURSIVE InferUnit(_)
InferUnit(e) ==
  CASE e.op = "Number" -> UnitKnown(Zero)
    [] e.op = "Symbol" -> UnitUnknown
    [] e.op = "Quantity" -> UnitKnown(e.unit)
    [] e.op \in {"Add", "Sub", "Equation"} ->
         SumUnit(Tuple([i \in DOMAIN e.args |-> InferUnit(e.args[i])]))
    [] e.op = "Mul" ->
         ProductUnit(Tuple([i \in DOMAIN e.args |-> InferUnit(e.args[i])]))
    [] e.op = "Div" -> QuotientUnit(InferUnit(e.args[1]), InferUnit(e.args[2]))
    [] e.op = "Pow" -> PowerUnit(InferUnit(e.args[1]), e.args[2])
    [] e.op \in Transcendental ->
         LET u == InferUnit(e.args[1])
         IN  IF u.ok /\ u.unit = Zero THEN UnitUnknown ELSE UnitError
    [] e.op \in {"Abs", "Integral"} -> InferUnit(e.args[1])
    [] e.op = "Sqrt" ->
         LET u == InferUnit(e.args[1])
         IN  [u EXCEPT !.unit = Times(@, <<1, 2>>)]

CheckAddCompat(a, b) == SumUnit(<<InferUnit(a), InferUnit(b)>>).ok

(***************************************************************************)
(* simplify.                                                               *)
(***************************************************************************)
(* The whole number r with r^d = n, or -1.                                 *)
RootOf(n, d) ==
  LET roots == {r \in 0..n : r <= 1000 /\ r^d = n}
  IN  IF n > 4096 \/ roots = {} THEN -1 ELSE CHOOSE r \in roots : TRUE

(* v^r as the set of the one fraction it is, empty when it is none.        *)
PowerOf(v, r) ==
  CASE v[1] = 0 -> IF r[1] > 0 THEN {Zero} ELSE IF r[1] = 0 THEN {One} ELSE {}
    [] r[2] = 1 -> {WholePower(v, r[1])}
    [] v[1] < 0 -> {}
    [] OTHER -> LET n == RootOf(v[1], r[2]) d == RootOf(v[2], r[2])
                IN  IF n < 0 \/ d < 0 THEN {}
                    ELSE {WholePower(<<n, d>>, r[1])}

(* The whole numbers the functions of a number fold to.                    *)
WholeValue(f, q) ==
  CASE f \in {"Sin", "Tan", "Arcsin", "Arctan", "Sinh", "Tanh"} /\ q = Zero
         -> {Zero}
    [] f \in {"Cos", "Sec", "Cosh", "Sech", "Exp"} /\ q = Zero -> {One}
    [] f \in {"Arccos", "Arcsec", "Ln"} /\ q = One -> {Zero}
    [] f = "Abs" /\ IsWhole(q) -> {<<AbsOf(q[1]), 1>>}
    [] f = "Sqrt" /\ IsWhole(q) ->
         {r \in PowerOf(q, <<1, 2>>) : IsWhole(r)}
    [] OTHER -> {}

FoldNumericUnary(e) ==
  IF e.op \in Transcendental \cup {"Abs", "Sqrt"} /\ IsNumber(e.args[1])
  THEN LET folded == WholeValue(e.op, e.args[1].value)
       IN  IF folded = {} THEN e ELSE Number(CHOOSE q \in folded : TRUE)
  ELSE e

RECURSIVE Flatten(_, _)
Flatten(op, nodes) ==
  FlattenSeq([i \in DOMAIN nodes |->
    IF nodes[i].op = op THEN Flatten(op, nodes[i].args) ELSE <<nodes[i]>>])
FlattenAdd(terms)   == Flatten("Add", terms)
FlattenMul(factors) == Flatten("Mul", factors)

(* amount added to the entry of node, entered last when it is new.         *)
AddTo(entries, node, amount) ==
  IF \E i \in DOMAIN entries : entries[i].node = node
  THEN LET i == CHOOSE k \in DOMAIN entries : entries[k].node = node
       IN  [entries EXCEPT ![i].amount = Plus(@, amount)]
  ELSE Append(entries, [node |-> node, amount |-> amount])

Numbers(nodes)  == SelectSeq(nodes, IsNumber)
Others(nodes)   == SelectSeq(nodes, LAMBDA n : ~IsNumber(n))
SumOfNumbers(nodes) ==
  FoldLeft(LAMBDA acc, n : Plus(acc, n.value), Zero, Numbers(nodes))
ProductOfNumbers(nodes) ==
  FoldLeft(LAMBDA acc, n : Times(acc, n.value), One, Numbers(nodes))

SingleOrProduct(nodes) == IF Len(nodes) = 1 THEN nodes[1] ELSE Mul(nodes)

ExtractCoeff(t) ==
  IF t.op # "Mul" THEN [coeff |-> One, base |-> t]
  ELSE LET rest == Others(t.args)
       IN  [coeff |-> ProductOfNumbers(t.args),
            base  |-> IF rest = << >> THEN Num(1) ELSE SingleOrProduct(rest)]

CollectLikeTerms(rest) ==
  LET collect(entries, t) ==
        LET split == ExtractCoeff(t)
        IN  AddTo(entries, split.base, split.coeff)
  IN  FoldLeft(collect, << >>, rest)

ScaledTerm(t, count) ==
  CASE count = One -> t
    [] t.op = "Mul" -> Mul(<<Number(count)>> \o t.args)
    [] OTHER -> Mul(<<Number(count), t>>)

SimplifyAdd(terms) ==
  LET flat == FlattenAdd(terms)
      const == SumOfNumbers(flat)
      kept == SelectSeq(CollectLikeTerms(Others(flat)),
                        LAMBDA entry : entry.amount # Zero)
      out == Tuple([i \in DOMAIN kept |->
                      ScaledTerm(kept[i].node, kept[i].amount)])
      all == IF const # Zero \/ out = << >>
             THEN Append(out, Number(const)) ELSE out
  IN  IF Len(all) = 1 THEN all[1] ELSE Add(SortNodes(all))

SimplifySub(a, b) ==
  CASE a = b -> Num(0)
    [] Is(b, Zero) -> a
    [] IsNumber(a) /\ IsNumber(b) -> Number(Minus(a.value, b.value))
    [] OTHER -> Sub(a, b)

(* Dividing by the number 0 is dropped: the code multiplies its constant   *)
(* by no power of it.                                                      *)
ScaleConst(acc, v, exponent) ==
  CASE v = Zero -> IF exponent[1] > 0 THEN [acc EXCEPT !.const = Zero] ELSE acc
    [] PowerOf(v, exponent) = {} ->
         [acc EXCEPT !.powers = AddTo(@, Number(v), exponent)]
    [] OTHER -> [acc EXCEPT !.const =
                   Times(@, CHOOSE q \in PowerOf(v, exponent) : TRUE)]

RECURSIVE CollectMulPowers(_, _, _)
CollectMulPowers(acc, nodes, exponent) ==
  LET collect(a, n) ==
        CASE IsNumber(n) -> ScaleConst(a, n.value, exponent)
          [] n.op = "Mul" ->
               CollectMulPowers(a, FlattenMul(n.args), exponent)
          [] n.op = "Div" ->
               CollectMulPowers(
                 CollectMulPowers(a, <<n.args[1]>>, exponent),
                 <<n.args[2]>>, Negated(exponent))
          [] n.op = "Pow" /\ IsNumber(n.args[2]) ->
               CollectMulPowers(a, <<n.args[1]>>,
                                Times(exponent, n.args[2].value))
          [] OTHER -> [a EXCEPT !.powers = AddTo(@, n, exponent)]
  IN  FoldLeft(collect, acc, nodes)

(* The factors with a power of this sign, each raised to its magnitude.    *)
PowersOfSign(powers, positive) ==
  LET chosen == SelectSeq(powers, LAMBDA p : p.amount # Zero
                                    /\ (p.amount[1] > 0) = positive)
  IN  [i \in DOMAIN chosen |->
         LET abs == <<AbsOf(chosen[i].amount[1]), chosen[i].amount[2]>>
         IN  IF abs = One THEN chosen[i].node
             ELSE Pow(chosen[i].node, Number(abs))]

(* 1/n and -1/n for a whole n above 1 are written as a division by n.      *)
IsUnitFraction(c) == AbsOf(c[1]) = 1 /\ c[2] > 1

ReconstructFromPowers(acc) ==
  IF acc.const = Zero THEN Num(0)
  ELSE LET fraction == IsUnitFraction(acc.const)
           const == IF fraction THEN Whole(acc.const[1]) ELSE acc.const
           above == PowersOfSign(acc.powers, TRUE)
           below == PowersOfSign(acc.powers, FALSE)
           numerator == IF const # One \/ above = << >>
                        THEN Append(above, Number(const)) ELSE above
           denominator == IF fraction THEN Append(below, Num(acc.const[2]))
                          ELSE below
           num == SingleOrProduct(SortNodes(numerator))
       IN  IF denominator = << >> THEN num
           ELSE Div(num, SingleOrProduct(SortNodes(denominator)))

NoPowers == [const |-> One, powers |-> << >>]
SimplifyMul(factors) ==
  ReconstructFromPowers(CollectMulPowers(NoPowers, FlattenMul(factors), One))

SimplifyDiv(a, b) ==
  CASE a = b -> Num(1)
    [] IsNumber(a) /\ IsNumber(b) /\ ~Is(b, Zero) ->
         Number(Over(a.value, b.value))
    [] OTHER ->
         ReconstructFromPowers(
           CollectMulPowers(CollectMulPowers(NoPowers, <<a>>, One),
                            <<b>>, Whole(-1)))

SimplifyPow(base, exp) ==
  CASE IsNumber(base) /\ IsNumber(exp) ->
         LET power == PowerOf(base.value, exp.value)
         IN  IF power = {} THEN Pow(base, exp)
             ELSE Number(CHOOSE q \in power : TRUE)
    [] Is(exp, One) -> base
    [] Is(exp, Zero) \/ Is(base, One) -> Num(1)
    [] OTHER -> Pow(base, exp)

SimplifyLn(u) ==
  CASE u = Symbol("e") -> Num(1)
    [] Is(u, One) -> Num(0)
    [] u.op = "Exp" -> u.args[1]
    [] OTHER -> Fn("Ln", u)

SimplifyExp(u) ==
  CASE Is(u, Zero) -> Num(1)
    [] u.op = "Ln" -> u.args[1]
    [] OTHER -> Fn("Exp", u)

RECURSIVE Simplify(_)
Simplify(e) ==
  IF e.op \in Atoms THEN e
  ELSE LET args == Tuple([i \in DOMAIN e.args |-> Simplify(e.args[i])])
       IN  FoldNumericUnary(
             CASE e.op = "Add" -> SimplifyAdd(args)
               [] e.op = "Sub" -> SimplifySub(args[1], args[2])
               [] e.op = "Mul" -> SimplifyMul(args)
               [] e.op = "Div" -> SimplifyDiv(args[1], args[2])
               [] e.op = "Pow" -> SimplifyPow(args[1], args[2])
               [] e.op = "Ln"  -> SimplifyLn(args[1])
               [] e.op = "Exp" -> SimplifyExp(args[1])
               [] OTHER -> Node(e.op, args))

(***************************************************************************)
(* factor: common factors taken out of a sum, equal bases joined in a      *)
(* product.                                                                *)
(***************************************************************************)
CountOf(nodes, n) == Len(SelectSeq(nodes, LAMBDA m : m = n))

FactorsOf(t) == IF t.op = "Mul" THEN FlattenMul(t.args) ELSE <<t>>

(* The product of what is left of a product. *)
RebuiltProduct(nodes) ==
  CASE nodes = << >> -> Num(1)
    [] Len(nodes) = 1 -> nodes[1]
    [] OTHER -> Simplify(Mul(nodes))

(* The first term's factors that are no numbers, each as often as every    *)
(* term has it.                                                            *)
SharedFactors(terms) ==
  LET once(acc, n) == IF IsNumber(n) \/ n \in Range(acc) THEN acc ELSE Append(acc, n)
      often(n) == Min({CountOf(terms[i], n) : i \in DOMAIN terms})
      repeated(distinct) == FlattenSeq([i \in DOMAIN distinct |->
                              [k \in 1..often(distinct[i]) |-> distinct[i]]])
  IN  repeated(FoldLeft(once, << >>, terms[1]))

(* The term without one occurrence of each shared factor.                  *)
RemainingTerm(term, shared) ==
  LET without(rem, n) == IF n \in Range(rem) THEN RemoveFirst(rem, n) ELSE rem
  IN  RebuiltProduct(FoldLeft(without, term, shared))

FactorOut(factors, shared, flat) ==
  IF Len(flat) < 2 \/ shared = << >> THEN Simplify(Add(flat))
  ELSE Simplify(Mul(Append(shared, Simplify(Add(
         [i \in DOMAIN factors |-> RemainingTerm(factors[i], shared)])))))

FactorAdd(terms) ==
  LET out(factors, flat) == FactorOut(factors, SharedFactors(factors), flat)
      each(flat) == out(Tuple([i \in DOMAIN flat |-> FactorsOf(flat[i])]), flat)
  IN  each(FlattenAdd(terms))

(* Mutant: the exponent of a base that was met before is dropped.          *)
JoinPowerOnce(groups, f) ==
  LET new == IF f.op = "Pow" THEN [base |-> f.args[1], exp |-> f.args[2]]
             ELSE [base |-> f, exp |-> Num(1)]
  IN  IF \E i \in DOMAIN groups : groups[i].base = new.base THEN groups
      ELSE Append(groups, new)

(* The exponents of equal bases added up, in the order of the bases.       *)
JoinPower(groups, f) ==
  LET new == IF f.op = "Pow" THEN [base |-> f.args[1], exp |-> f.args[2]]
             ELSE [base |-> f, exp |-> Num(1)]
      same == {i \in DOMAIN groups : groups[i].base = new.base}
  IN  IF same = {} THEN Append(groups, new)
      ELSE [groups EXCEPT ![CHOOSE i \in same : TRUE].exp =
              Simplify(Add(<<@, new.exp>>))]

GroupAsFactor(g) ==
  IF Is(g.exp, One) THEN g.base ELSE Simplify(Pow(g.base, g.exp))

FactorMul(factors) ==
  LET kept(groups) == SelectSeq(groups, LAMBDA g : ~Is(g.exp, Zero))
      product(groups) ==
        RebuiltProduct(Tuple([i \in DOMAIN groups |-> GroupAsFactor(groups[i])]))
  IN  product(kept(FoldLeft(JoinPower, << >>, FlattenMul(factors))))

RECURSIVE Factor(_)
Factor(e) ==
  IF e.op \notin {"Add", "Mul", "Sub", "Div", "Pow"} THEN e
  ELSE LET args == Tuple([i \in DOMAIN e.args |-> Factor(e.args[i])])
       IN  CASE e.op = "Add" -> FactorAdd(args)
             [] e.op = "Mul" -> FactorMul(args)
             [] OTHER -> Simplify(Node(e.op, args))

(***************************************************************************)
(* What depends on a name, and the names a tree is free in.                *)
(***************************************************************************)
RECURSIVE DependsOn(_, _)
DependsOn(e, var) ==
  CASE e.op = "Number" -> FALSE
    [] e.op \in {"Symbol", "Quantity"} -> e.name = var
    [] OTHER -> \E i \in DOMAIN e.args : DependsOn(e.args[i], var)

RECURSIVE FreeSymbols(_)
FreeSymbols(e) ==
  CASE e.op = "Number" -> {}
    [] e.op \in {"Symbol", "Quantity"} -> {e.name}
    [] OTHER -> UNION {FreeSymbols(e.args[i]) : i \in DOMAIN e.args}

(* The tree with value in place of the name; the name an integral binds is *)
(* left alone.                                                             *)
RECURSIVE Subst(_, _, _)
Subst(e, var, value) ==
  CASE e.op = "Number" -> e
    [] e.op \in {"Symbol", "Quantity"} -> IF e.name = var THEN value ELSE e
    [] e.op = "Integral" ->
         IF e.args[2] = Symbol(var) THEN e
         ELSE [e EXCEPT !.args[1] = Subst(@, var, value)]
    [] OTHER -> Node(e.op, [i \in DOMAIN e.args |->
                              Subst(e.args[i], var, value)])

(***************************************************************************)
(* The constructors a script's operators call.                             *)
(***************************************************************************)
ExprAdd(a, b) ==
  IF CheckAddCompat(a, b) THEN Add(FlattenAdd(<<a, b>>)) ELSE Refused
ExprSub(a, b) == IF CheckAddCompat(a, b) THEN Sub(a, b) ELSE Refused
ExprMul(a, b) == Mul(FlattenMul(<<a, b>>))
=============================================================================
