---------------------------- MODULE PhsEvaluator ----------------------------
(***************************************************************************)
(* What the interpreter makes of a program: expressions, calls, functions  *)
(* with units and contracts, statements                                    *)
(* (physure-script/src/interpreter, builtins/core.rs). An expression is a  *)
(* record with its kind in e, a statement one with its kind in s, a value  *)
(* one with its type; every error is Refused. Left out are the equations   *)
(* and derivatives of the symbolic layer, text templates, literals with    *)
(* two uncertainties or a sigma, named arguments, which only domains take, *)
(* and the budget of an evaluation.                                        *)
(***************************************************************************)
EXTENDS Quantity

CONSTANTS Words,            \* the unit words, each with its unit and its facts
          MaxCallDepth, MaxIterations

NoWord == ""
PlainQ(n) == Measured(n, TRUE, Dimensionless)
QuantityV(q) == IF q = Refused THEN Refused ELSE [type |-> "quantity", q |-> q]
NumberV(n)   == [type |-> "number", n |-> n]
BoolV(b)     == [type |-> "bool", b |-> b]
TextV(w)     == [type |-> "text", w |-> w]
FunctionV(f) == [type |-> "function", f |-> f]
VectorV(s)   == IF Refused \in Range(s) THEN Refused ELSE [type |-> "vector", items |-> s]
NoneV        == [type |-> "none"]

IsMagnitude(v) == v.type \in {"quantity", "number"}
AsQuantity(v)  == IF v.type = "quantity" THEN v.q ELSE PlainQ(v.n)
LessNumber(x, y) == IsRational(x) /\ IsRational(y) /\ Less(x.times, y.times)
IsTruthy(v) ==
  CASE v.type = "quantity" -> ~ IsZero(v.q.mean)
    [] v.type = "number"   -> ~ IsZero(v.n)
    [] v.type = "bool"     -> v.b
    [] v.type = "text"     -> v.w \in {"true", "True", "1"}
    [] OTHER               -> FALSE

UnitOf(word) == IF word = NoWord THEN Dimensionless ELSE IF word \in DOMAIN Words THEN Words[word].unit ELSE Refused
OfUnit(word) == LET of(u) == IF u = Refused THEN Refused ELSE Measured(Number(One), TRUE, u) IN of(UnitOf(word))
Literal(x) ==
  LET of(u) == IF u = Refused THEN Refused ELSE QuantityV(Measured(Number(x.number), x.exact, u)) IN of(UnitOf(x.unit))

(* make_range: an endpoint of no dimension takes the unit of one that has  *)
(* a dimension.                                                            *)
RangeV(l, r) ==
  LET plain(q) == DOMAIN q.unit.dims = {}
      rewrapped(v, q) == IF v.type = "number" /\ plain(q) THEN v ELSE QuantityV(q)
      upwards(lo, hi) ==
        IF SameDimensions(lo.unit, hi.unit) /\ LessNumber(CanonicalMagnitude(lo), CanonicalMagnitude(hi))
        THEN [type |-> "range", lo |-> rewrapped(l, lo), hi |-> rewrapped(r, hi)] ELSE Refused
      taking(q, other) == IF plain(q) /\ ~ plain(other) THEN Relabelled(q, other.unit) ELSE q
      between(a, b) == upwards(taking(a, b), taking(b, a))
  IN  IF IsMagnitude(l) /\ IsMagnitude(r) THEN between(AsQuantity(l), AsQuantity(r)) ELSE Refused

-----------------------------------------------------------------------------
(* binary_ops.rs                                                           *)
IsExponent(q) == SameUnit(q.unit, Dimensionless) /\ q.exact /\ IsRational(q.mean)
QuantityOp(op, l, r) ==
  CASE op = "add" -> AddQ(l, r)
    [] op = "sub" -> SubQ(l, r)
    [] op = "mul" -> MulQ(l, r)
    [] op = "div" -> DivQ(l, r)
    [] op = "pow" -> IF IsExponent(r) THEN PowQ(l, r.mean.times) ELSE Refused

NumberOp(op, l, r) ==
  LET of(q) == IF q = Refused THEN Refused ELSE NumberV(q.mean)
  IN  IF op = "div" /\ IsZero(r) THEN Refused ELSE of(QuantityOp(op, PlainQ(l), PlainQ(r)))

(* A word that is bound to nothing is text, and next to a number a unit.   *)
ByUnitWord(op, l, word, converts) ==
  LET by(one) == CASE one = Refused -> Refused
                   [] one # Refused /\ op = "mul" -> MulQ(l, one)
                   [] one # Refused /\ op = "div" -> DivQ(l, one)
                   [] one # Refused /\ op = "convert" /\ converts -> ConvertTo(l, one.unit)
                   [] OTHER -> Refused
  IN  QuantityV(by(OfUnit(word)))
UnitWordBy(op, word, r) ==
  LET by(one) == CASE one = Refused -> Refused
                   [] one # Refused /\ op = "mul" -> MulQ(one, r)
                   [] one # Refused /\ op = "pow" -> PowQ(one, r.mean.times)
                   [] OTHER -> Refused
  IN  QuantityV(by(OfUnit(word)))

Name(n) == [e |-> "name", name |-> n]
Binary(op, l, r) == [e |-> "binary", op |-> op, left |-> l, right |-> r]
CallOf(f, args) == [e |-> "call", name |-> f, args |-> args]
Yields(x) == [s |-> "expr", value |-> x]
(* combine_functions and compose_functions: functions of the same          *)
(* arguments, which call the two by name.                                  *)
FunctionOver(params, units, body) ==
  [params |-> params, units |-> units, body |-> <<Yields(body)>>, implicit |-> FALSE, requires |-> <<>>, ensures |-> <<>>]
Named(name, f) == [name |-> name, params |-> f.params, units |-> f.units, body |-> f.body,
                   implicit |-> f.implicit, requires |-> f.requires, ensures |-> f.ensures]
CombineFunctions(op, f, g) ==
  LET of == IF f.params # <<>> THEN f ELSE g
      args == [i \in DOMAIN of.params |-> Name(of.params[i])]
  IN  Named(f.name \o "_" \o op \o "_" \o g.name,
            FunctionOver(of.params, of.units, Binary(op, CallOf(f.name, args), CallOf(g.name, args))))
Composed(f, g) ==
  LET args == [i \in DOMAIN g.params |-> Name(g.params[i])]
  IN  Named(f.name \o "_" \o g.name, FunctionOver(g.params, g.units, CallOf(f.name, <<CallOf(g.name, args)>>)))

RECURSIVE BinaryOpOn(_, _, _)
BinaryOpVals(op, l, r) == IF op = "range" THEN RangeV(l, r) ELSE BinaryOpOn(op, l, r)
BinaryOpOn(op, l, r) ==
  LET of(a, b) == l.type = a /\ r.type = b
      each(n, item(_)) == VectorV([i \in 1..n |-> item(i)])
      ends(lo, hi) == IF lo = Refused \/ hi = Refused THEN Refused ELSE RangeV(lo, hi)
      byEnds == l.type = "range" /\ op \in {"mul", "div", "convert"}
  IN  CASE byEnds -> ends(BinaryOpOn(op, l.lo, r), BinaryOpOn(op, l.hi, r))
        [] of("function", "function") -> FunctionV(CombineFunctions(op, l.f, r.f))
        [] of("vector", "vector") -> IF Len(l.items) # Len(r.items) THEN Refused
                                     ELSE each(Len(l.items), LAMBDA i : BinaryOpOn(op, l.items[i], r.items[i]))
        [] l.type = "vector" /\ r.type # "vector" -> each(Len(l.items), LAMBDA i : BinaryOpOn(op, l.items[i], r))
        [] l.type # "vector" /\ ~ byEnds /\ r.type = "vector" -> each(Len(r.items), LAMBDA i : BinaryOpOn(op, l, r.items[i]))
        [] of("number", "number") -> NumberOp(op, l.n, r.n)
        [] IsMagnitude(l) /\ IsMagnitude(r) /\ ~ of("number", "number") -> QuantityV(QuantityOp(op, AsQuantity(l), AsQuantity(r)))
        [] IsMagnitude(l) /\ r.type = "text" -> ByUnitWord(op, AsQuantity(l), r.w, l.type = "quantity")
        [] l.type = "text" /\ IsMagnitude(r) -> UnitWordBy(op, l.w, AsQuantity(r))
        [] OTHER -> Refused

RECURSIVE ConvertValue(_, _)
ConvertValue(v, unit) ==
  LET ends(lo, hi) == IF lo = Refused \/ hi = Refused THEN Refused ELSE RangeV(lo, hi)
  IN  CASE v.type = "quantity" -> QuantityV(ConvertTo(v.q, unit))
        [] v.type = "vector"   -> VectorV([i \in DOMAIN v.items |-> ConvertValue(v.items[i], unit)])
        [] v.type = "range"    -> ends(ConvertValue(v.lo, unit), ConvertValue(v.hi, unit))
        [] OTHER               -> v

-----------------------------------------------------------------------------
(* builtins/core.rs. Rounding tolerances are left out.                     *)
NotBuiltin == [type |-> "no builtin"]
Comparisons == {"op_<", "op_>", "op_<=", "op_>=", "op_==", "op_!=", "op_approx"}
IsSo(op, l, r) ==
  CASE op = "op_<"  -> LessNumber(l, r)
    [] op = "op_>"  -> LessNumber(r, l)
    [] op = "op_<=" -> ~ LessNumber(r, l)
    [] op = "op_>=" -> ~ LessNumber(l, r)
    [] op \in {"op_==", "op_approx"} -> l = r
    [] op = "op_!=" -> l # r

(* comparable: a zero of no dimension is comparable with anything. The     *)
(* variant with a bug is strict about it.                                  *)
ComparableStrictly(l, r) == SameDimensions(l.unit, r.unit)
Comparable(l, r) ==
  LET zero(q) == DOMAIN q.unit.dims = {} /\ IsZero(q.mean)
  IN  SameDimensions(l.unit, r.unit) \/ zero(l) \/ zero(r)
Compare(op, args) ==
  LET l == args[1] r == args[2]
      sized(a, b) == IF Comparable(a, b) THEN BoolV(IsSo(op, CanonicalMagnitude(a), CanonicalMagnitude(b))) ELSE Refused
  IN  CASE Len(args) < 2 -> BoolV(FALSE)
        [] Len(args) >= 2 /\ l.type = "text" /\ r.type = "text" ->
             BoolV(IsSo(op, Number(Zero), Number(IF l.w = r.w THEN Zero ELSE One)))
        [] Len(args) >= 2 /\ IsMagnitude(l) /\ IsMagnitude(r) -> sized(AsQuantity(l), AsQuantity(r))
        [] OTHER -> BoolV(FALSE)
(* bool_equality: a truth value equals only a truth value.                 *)
Equality(op, args) ==
  LET bools == {i \in DOMAIN args : i <= 2 /\ args[i].type = "bool"}
  IN  CASE bools = {} -> Compare(op, args)
        [] bools = {1, 2} -> BoolV((args[1].b = args[2].b) = (op = "op_=="))
        [] OTHER -> Refused

UnaryOf(fn, q) ==
  CASE fn = "sqrt" -> Sqrt(q)
    [] fn \in {"sin", "cos", "tan"} -> Trig(fn, q)
    [] fn = "exp" -> Transcendental("exp", q)
    [] fn = "ln" -> Transcendental("log", q)
    [] fn = "log" -> Log10Q(q)
    [] fn = "abs" -> AbsQ(q)
    [] fn = "floor" -> Floor(q)
    [] fn = "ceil" -> Ceil(q)
UnaryNames == {"sqrt", "sin", "cos", "tan", "exp", "ln", "log", "abs", "floor", "ceil"}
UnaryBuiltin(fn, args) ==
  LET number(q) == IF q = Refused THEN Refused ELSE NumberV(q.mean)
      of(v) == CASE v.type = "number" -> number(UnaryOf(fn, PlainQ(v.n)))
                 [] v.type = "quantity" -> QuantityV(UnaryOf(fn, v.q))
                 [] OTHER -> Refused
  IN  IF Len(args) = 1 THEN of(args[1]) ELSE Refused

(* round: away from zero at the half, and to as many decimals as asked.    *)
RoundedTo(x, decimals) ==
  LET factor == WholePower(Whole(10), decimals)
      nearest(y) == IF y[1] < 0 THEN -((2 * (-(y[1])) + y[2]) \div (2 * y[2])) ELSE (2 * y[1] + y[2]) \div (2 * y[2])
  IN  IF IsRational(x) THEN Number(Over(Whole(nearest(Times(x.times, factor))), factor)) ELSE Irrational
Truncated(x) == IF ~ IsRational(x) THEN 0 ELSE IF x.times[1] < 0 THEN -((-(x.times[1])) \div x.times[2]) ELSE x.times[1] \div x.times[2]
RoundBuiltin(args) ==
  LET decimals == IF Len(args) > 1 /\ IsMagnitude(args[2]) THEN Truncated(CanonicalMagnitude(AsQuantity(args[2]))) ELSE 0
  IN  CASE args = <<>> -> Refused
        [] args # <<>> /\ args[1].type = "number" -> NumberV(RoundedTo(args[1].n, decimals))
        [] args # <<>> /\ args[1].type = "quantity" -> QuantityV([args[1].q EXCEPT !.mean = RoundedTo(@, decimals)])
        [] OTHER -> Refused

(* extremum: the first argument of the least or the greatest magnitude.    *)
Extremum(args, greatest) ==
  LET magnitude(v) == CanonicalMagnitude(AsQuantity(v))
      better(v, best) == IF greatest THEN LessNumber(magnitude(best), magnitude(v)) ELSE LessNumber(magnitude(v), magnitude(best))
  IN  CASE args = <<>> \/ (Len(args) > 1 /\ \E i \in DOMAIN args : ~ IsMagnitude(args[i])) -> Refused
        [] OTHER -> FoldLeft(LAMBDA best, v : IF better(v, best) THEN v ELSE best, args[1], args)

Uncertain(args) ==
  CASE args # <<>> /\ args[1].type = "quantity" ->
         QuantityV(Measured(IF args[1].q.exact THEN Number(Zero) ELSE Irrational, TRUE, args[1].q.unit))
    [] args # <<>> /\ args[1].type = "number" -> NumberV(Number(Zero))
    [] OTHER -> Refused
Ternary(args) ==
  LET taken == IF args # <<>> /\ IsTruthy(args[1]) THEN 2 ELSE 3 IN IF taken \in DOMAIN args THEN args[taken] ELSE NotBuiltin
AssertBuiltin(args) ==
  LET types == [i \in DOMAIN args |-> args[i].type]
      asserted(holds) == IF holds THEN NoneV ELSE Refused
  IN  CASE types = <<"bool">> \/ types = <<"bool", "text">> -> asserted(args[1].b)
        [] types = <<"quantity", "quantity">> -> asserted(PhsAssert(args[1].q, args[2].q))
        [] OTHER -> Refused
ExactAssertBuiltin(args) ==
  IF [i \in DOMAIN args |-> args[i].type] = <<"quantity", "quantity">> /\ PhsExactAssert(args[1].q, args[2].q) THEN NoneV ELSE Refused
FormatBuiltin(args) ==
  CASE args = <<>> -> NotBuiltin
    [] Len(args) > 1 /\ args[2].type = "text" -> TextV("formatted")
    [] OTHER -> args[1]

(* eval_core_builtin, all but parallel_map, which calls back.              *)
CoreBuiltin(name, args) ==
  CASE name \in {"op_==", "op_!="} -> Equality(name, args)
    [] name \in Comparisons \ {"op_==", "op_!="} -> Compare(name, args)
    [] name = "ternary" -> Ternary(args)
    [] name \in {"uncertainty", "sigma"} -> Uncertain(args)
    [] name = "vector" -> VectorV(args)
    [] name \in UnaryNames -> UnaryBuiltin(name, args)
    [] name \in {"min", "max"} -> Extremum(args, name = "max")
    [] name = "round" -> RoundBuiltin(args)
    [] name = "assert" -> AssertBuiltin(args)
    [] name = "exact_assert" -> ExactAssertBuiltin(args)
    [] name = "format" -> FormatBuiltin(args)
    [] OTHER -> NotBuiltin

-----------------------------------------------------------------------------
(* expressions.rs and statements.rs. A name that is bound to nothing is    *)
(* one of its unit, or its own text. A call sees the names of its caller;  *)
(* depth counts the calls that are running.                                *)
EvalIdentifier(name, env) ==
  CASE name \in DOMAIN env -> env[name]
    [] name \notin DOMAIN env /\ OfUnit(name) # Refused -> QuantityV(OfUnit(name))
    [] OTHER -> TextV(name)

Largest(a, b) == IF a > b THEN a ELSE b
(* iteration_items: the whole numbers of a range, up to its end.           *)
RangeItems(lo, hi) ==
  LET unit == AsQuantity(lo).unit
      item(i) == IF DOMAIN unit.dims = {} THEN NumberV(Number(Whole(i))) ELSE QuantityV(Measured(Number(Whole(i)), TRUE, unit))
      items(a, b) == IF b - a > MaxIterations THEN Refused ELSE VectorV([i \in 1..Largest(b - a, 0) |-> item(a + i - 1)])
  IN  items(Truncated(AsQuantity(lo).mean), Truncated(AsQuantity(hi).mean))
IterationItems(v) ==
  CASE v.type = "vector" -> v
    [] v.type = "range" -> RangeItems(v.lo, v.hi)
    [] OTHER -> Refused

(* bind_param_value: an argument in the unit of its parameter; implicit    *)
(* units are given to a number that has none. The variant with a bug binds *)
(* whatever comes.                                                         *)
BindAnything(unit, arg, implicit) == arg
BindParamValue(unit, arg, implicit) ==
  LET to(target) ==
        CASE target = Refused -> Refused
          [] target # Refused /\ implicit /\ SameUnit(arg.q.unit, Dimensionless) /\ ~ SameUnit(target, Dimensionless) ->
               QuantityV(Relabelled(arg.q, target))
          [] OTHER -> QuantityV(ConvertTo(arg.q, target))
  IN  IF unit = NoWord \/ arg.type # "quantity" THEN arg ELSE to(UnitOf(unit))

Bound(env, name, v) == (name :> v) @@ env
IsLet(x) == x.name = "let" /\ Len(x.args) = 3 /\ x.args[1].e = "name"
Done(v, env) == IF v = Refused THEN Refused ELSE [value |-> v, env |-> env, returns |-> FALSE]
Left(v, env) == IF v = Refused THEN Refused ELSE [value |-> v, env |-> env, returns |-> TRUE]

RECURSIVE Evaluate(_, _, _), EvalCall(_, _, _), CallFunction(_, _, _, _), RunStatement(_, _, _), Iterate(_, _, _, _, _)

IsBool(v) == IF v = Refused THEN FALSE ELSE v.type = "bool"
EvalNot(x, env, depth) ==
  LET not(v) == IF IsBool(v) THEN BoolV(~ v.b) ELSE Refused IN not(Evaluate(x.args[1], env, depth))
EvalAndOr(isAnd, x, env, depth) ==
  LET right(v) == IF IsBool(v) THEN v ELSE Refused
      left(v) == CASE ~ IsBool(v) -> Refused
                   [] IsBool(v) /\ v.b # isAnd -> v
                   [] OTHER -> right(Evaluate(x.args[2], env, depth))
  IN  left(Evaluate(x.args[1], env, depth))
EvalBinary(x, env, depth) ==
  LET converted(v) == CASE v = Refused \/ x.right = Name(NoWord) -> v
                        [] UnitOf(x.right.name) = Refused -> Refused
                        [] OTHER -> ConvertValue(v, UnitOf(x.right.name))
      of(l, r) == IF l = Refused \/ r = Refused THEN Refused ELSE BinaryOpVals(x.op, l, r)
  IN  IF x.op = "convert" THEN converted(Evaluate(x.left, env, depth))
      ELSE of(Evaluate(x.left, env, depth), Evaluate(x.right, env, depth))
EvalFor(x, env, depth) ==
  LET each(items) == IF items = Refused THEN Refused
                     ELSE VectorV([i \in DOMAIN items.items |-> Evaluate(x.body, Bound(env, x.var, items.items[i]), depth)])
      over(v) == IF v = Refused THEN Refused ELSE each(IterationItems(v))
  IN  over(Evaluate(x.iterable, env, depth))

Evaluate(x, env, depth) ==
  CASE x.e = "quantity" -> Literal(x)
    [] x.e = "bool"     -> BoolV(x.b)
    [] x.e = "str"      -> TextV(x.w)
    [] x.e = "name"     -> EvalIdentifier(x.name, env)
    [] x.e = "binary"   -> EvalBinary(x, env, depth)
    [] x.e = "call"     -> EvalCall(x, env, depth)
    [] x.e = "for"      -> EvalFor(x, env, depth)

(* parallel_map: in the order of the items, whichever thread has each.     *)
ParallelMap(args, env, depth) ==
  IF Len(args) < 2 THEN Refused
  ELSE IF args[1].type # "function" \/ args[2].type # "vector" THEN Refused
  ELSE IF Len(args[2].items) > MaxIterations THEN Refused
  ELSE VectorV([i \in DOMAIN args[2].items |-> CallFunction(args[1].f, <<args[2].items[i]>>, env, depth)])
(* call_by_name: a builtin of the core comes before a function of the      *)
(* program that has its name.                                              *)
CallByName(name, args, env, depth) ==
  LET builtin(v) == CASE v # NotBuiltin -> v
                      [] v = NotBuiltin /\ name \in DOMAIN env ->
                           IF env[name].type = "function" THEN CallFunction(env[name].f, args, env, depth) ELSE Refused
                      [] OTHER -> Refused
  IN  IF name = "parallel_map" THEN ParallelMap(args, env, depth) ELSE builtin(CoreBuiltin(name, args))
IsFunction(name, env) == name \in DOMAIN env /\ env[name].type = "function"
EvalCall(x, env, depth) ==
  LET let(v) == IF v = Refused THEN Refused ELSE Evaluate(x.args[3], Bound(env, x.args[1].name, v), depth)
      called(args) ==
        CASE Refused \in Range(args) -> Refused
          [] Refused \notin Range(args) /\ Len(args) = 1 /\ IsFunction(x.name, env) /\ args[1].type = "function" ->
               FunctionV(Composed(env[x.name].f, args[1].f))
          [] OTHER -> CallByName(x.name, args, env, depth)
  IN  CASE IsLet(x) -> let(Evaluate(x.args[2], env, depth))
        [] x.name = "op_not" /\ Len(x.args) = 1 -> EvalNot(x, env, depth)
        [] x.name \in {"op_and", "op_or"} /\ Len(x.args) = 2 -> EvalAndOr(x.name = "op_and", x, env, depth)
        [] OTHER -> called([i \in DOMAIN x.args |-> Evaluate(x.args[i], env, depth)])

(* check_requires and check_ensures: every condition is truthy.            *)
AllTruthy(conditions, env, depth) ==
  \A i \in DOMAIN conditions :
    LET v == Evaluate(conditions[i], env, depth) IN v # Refused /\ IsTruthy(v)

(* call_function_node: units, contracts, then the body up to what returns. *)
(* What a guard that does not hold leaves is the value before it.          *)
CallFunction(f, args, env, depth) ==
  LET unitOf(i) == IF i \in DOMAIN f.units THEN f.units[i] ELSE NoWord
      given == [i \in DOMAIN args |-> BindParamValue(unitOf(i), args[i], f.implicit)]
      local == [n \in Range(f.params) |->
                  given[CHOOSE i \in DOMAIN f.params : f.params[i] = n /\ \A j \in DOMAIN f.params : f.params[j] = n => j <= i]]
      step(so, s) ==
        CASE so = Refused -> Refused
          [] so # Refused /\ so.returns -> so
          [] so # Refused /\ ~ so.returns /\ s.s = "return" -> Left(Evaluate(s.value, so.env, depth + 1), so.env)
          [] so # Refused /\ ~ so.returns /\ s.s = "guard" ->
               LET holds == Evaluate(s.cond, so.env, depth + 1)
               IN  IF holds = Refused THEN Refused
                   ELSE IF IsTruthy(holds) THEN Left(Evaluate(s.value, so.env, depth + 1), so.env) ELSE so
          [] OTHER -> RunStatement(s, so.env, depth + 1)
      ensured(so) ==
        IF so = Refused THEN Refused
        ELSE IF AllTruthy(f.ensures, Bound(so.env, "result", so.value), depth + 1) THEN so.value ELSE Refused
      run(inner) ==
        IF ~ AllTruthy(f.requires, inner, depth + 1) THEN Refused
        ELSE ensured(FoldLeft(step, Done(NoneV, inner), f.body))
  IN  IF Len(f.params) # Len(args) \/ depth >= MaxCallDepth \/ Refused \in Range(given) THEN Refused
      ELSE run(local @@ env)

(* A while loop: what its last statement gave, and the bindings so far.    *)
Iterate(s, env, last, count, depth) ==
  LET holds == Evaluate(s.cond, env, depth)
      step(so, inner) == IF so = Refused THEN Refused ELSE RunStatement(inner, so.env, depth)
      again(so) == IF so = Refused THEN Refused ELSE Iterate(s, so.env, so.value, count + 1, depth)
  IN  CASE holds = Refused -> Refused
        [] holds # Refused /\ ~ IsTruthy(holds) -> Done(last, env)
        [] OTHER -> IF count >= MaxIterations THEN Refused ELSE again(FoldLeft(step, Done(last, env), s.body))
RunStatement(s, env, depth) ==
  LET assigned(v) == IF v = Refused THEN Refused ELSE Done(v, Bound(env, s.name, v))
      guarded(v) == IF v = Refused THEN Refused
                    ELSE IF IsTruthy(v) THEN Done(Evaluate(s.value, env, depth), env) ELSE Done(NoneV, env)
  IN  CASE s.s = "assign" -> assigned(Evaluate(s.value, env, depth))
        [] s.s = "fn" -> Done(NoneV, Bound(env, s.f.name, FunctionV(s.f)))
        [] s.s \in {"expr", "return"} -> Done(Evaluate(s.value, env, depth), env)
        [] s.s = "guard" -> guarded(Evaluate(s.cond, env, depth))
        [] s.s = "while" -> Iterate(s, env, NoneV, 0, depth)

(* A program runs statement by statement up to the first that is refused.  *)
NoBindings == [n \in {} |-> NoneV]
RunProgram(program) ==
  LET step(run, s) ==
        IF run.stopped # 0 THEN run
        ELSE LET so == RunStatement(s, run.env, 0)
             IN  IF so = Refused THEN [run EXCEPT !.stopped = run.ran + 1] ELSE [env |-> so.env, ran |-> run.ran + 1, stopped |-> 0]
  IN  FoldLeft(step, [env |-> NoBindings, ran |-> 0, stopped |-> 0], program)
=============================================================================
