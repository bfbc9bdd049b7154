---------------------------- MODULE DimensionCheck ----------------------------
(***************************************************************************)
(* The static check of dimensions (physure-script/src/check.rs): a pass    *)
(* over the program that gives every expression what it knows of it, and   *)
(* reports the operations the interpreter would refuse. The checker is     *)
(* passed along in c. A line is a path: the statement's place in the       *)
(* program, then in the body. during is the statement of the program that  *)
(* was checked when a finding was made; messages, imports and named        *)
(* arguments are left out. A literal's value is a fraction, and a root of  *)
(* one is taken for no value that is known.                                *)
(***************************************************************************)
EXTENDS PhsEvaluator

MaxCheckDepth == 6
NoValue == <<>>
NoDim   == [undeclared |-> TRUE]

Dim(exps, point, constant) == [exps |-> exps, point |-> point, constant |-> constant]
PlainDim(constant) == Dim(NoDims, FALSE, constant)
WithoutValue(dim) == [dim EXCEPT !.constant = NoValue]
UnknownTy    == [ty |-> "unknown"]
QtyTy(dim)   == [ty |-> "qty", dim |-> dim]
BoolTy       == [ty |-> "bool"]
SymbolTy(n)  == [ty |-> "symbol", name |-> n]
IsQty(t)     == t.ty = "qty"

Typed(ty, c) == [ty |-> ty, c |-> c]
(* The same finding is made once, whoever leads to it.                     *)
Report(c, severity, code) ==
  [c EXCEPT !.found = @ \cup {[line |-> c.line, severity |-> severity, code |-> code, call |-> c.call, during |-> c.during]}]
Mismatch(c, code) == Typed(UnknownTy, Report(c, "error", code))

(* unit_dim: what the catalog says of a unit text.                         *)
FactsDim(word) == Dim(Words[word].facts.dimension, Words[word].facts.kind = "point", NoValue)
UnitDim(word, c) ==
  CASE word = NoWord -> [dim |-> PlainDim(NoValue), c |-> c]
    [] word # NoWord /\ word \in DOMAIN Words -> [dim |-> FactsDim(word), c |-> c]
    [] OTHER -> [dim |-> NoDim, c |-> Report(c, "error", "unknown-unit")]

-----------------------------------------------------------------------------
(* The names a program binds anywhere.                                     *)
RECURSIVE BoundIn(_), BoundBy(_)
BoundIn(x) ==
  CASE x.e = "binary" -> BoundIn(x.left) \cup (IF x.op = "convert" THEN {} ELSE BoundIn(x.right))
    [] x.e = "call"   -> UNION {BoundIn(a) : a \in Range(x.args)}
    [] x.e = "for"    -> {x.var} \cup BoundIn(x.iterable) \cup BoundIn(x.body)
    [] OTHER          -> {}
BoundBy(statements) ==
  LET by(s) == CASE s.s = "fn" -> {s.f.name} \cup Range(s.f.params) \cup BoundBy(s.f.body)
                 [] s.s = "assign" -> {s.name} \cup BoundIn(s.value)
                 [] s.s = "while" -> BoundIn(s.cond) \cup BoundBy(s.body)
                 [] s.s = "guard" -> BoundIn(s.cond) \cup BoundIn(s.value)
                 [] s.s \in {"expr", "return"} -> BoundIn(s.value)
  IN  UNION {by(s) : s \in Range(statements)}
RECURSIVE CollectAssigned(_)
CollectAssigned(statements) ==
  LET by(s) == CASE s.s = "assign" -> {s.name} [] s.s = "fn" -> {s.f.name} [] s.s = "while" -> CollectAssigned(s.body) [] OTHER -> {}
  IN  UNION {by(s) : s \in Range(statements)}

-----------------------------------------------------------------------------
(* Arithmetic.                                                             *)
ValueOf(op, x, y) ==
  CASE x = NoValue \/ y = NoValue -> NoValue
    [] x # NoValue /\ y # NoValue /\ op = "add" -> Plus(x, y)
    [] x # NoValue /\ y # NoValue /\ op = "sub" -> Minus(x, y)
    [] x # NoValue /\ y # NoValue /\ op = "mul" -> Times(x, y)
    [] OTHER -> IF y = Zero THEN NoValue ELSE Over(x, y)
(* Two points have no sum, and a point is not taken from an interval; the  *)
(* difference of two points is an interval. The variant with a bug takes   *)
(* it for a point.                                                         *)
HaveSum(op, a, b) == ~ (b.point /\ (a.point = (op = "add")))
IsAnyPoint(a, b) == a.point \/ b.point
IsPointSum(a, b) == a.point # b.point
AddSub(op, a, b, c) ==
  CASE a.exps # b.exps -> Mismatch(c, "dimension-mismatch")
    [] a.exps = b.exps /\ ~ HaveSum(op, a, b) -> Mismatch(c, "temperature-points")
    [] OTHER -> Typed(QtyTy(Dim(a.exps, IsPointSum(a, b), ValueOf(op, a.constant, b.constant))), c)
MulDiv(op, a, b, c) ==
  LET plain(dim) == DOMAIN dim.exps = {}
  IN  IF (a.point /\ plain(b)) \/ (b.point /\ plain(a) /\ op = "mul") THEN Mismatch(c, "temperature-points")
      ELSE Typed(QtyTy(Dim(CombineDimensions(a.exps, b.exps, op = "div"), FALSE, ValueOf(op, a.constant, b.constant))), c)
AsRational(value) == IF value = NoValue THEN NoValue ELSE IF value[2] > 12 THEN NoValue ELSE value
PowerTy(a, b, c) ==
  LET value(e) == IF a.constant = NoValue \/ ~ IsWhole(e) THEN NoValue
                  ELSE IF a.constant = Zero /\ e[1] < 0 THEN NoValue ELSE WholePower(a.constant, e[1])
      to(e) == CASE e # NoValue -> QtyTy(Dim(RaisedDims(a.exps, e), FALSE, value(e)))
                 [] e = NoValue /\ DOMAIN a.exps = {} -> QtyTy(PlainDim(NoValue))
                 [] OTHER -> UnknownTy
  IN  IF DOMAIN b.exps # {} THEN Mismatch(c, "bad-exponent") ELSE Typed(to(AsRational(b.constant)), c)
Arithmetic(op, a, b, c) ==
  CASE op \in {"add", "sub"} -> AddSub(op, a, b, c)
    [] op \in {"mul", "div"} -> MulDiv(op, a, b, c)
    [] op = "pow" -> PowerTy(a, b, c)

-----------------------------------------------------------------------------
(* Builtins.                                                               *)
Angle == <<"A">> :> One
DimensionlessFunction(tys, c) ==
  IF Len(tys) # 1 THEN Typed(UnknownTy, c)
  ELSE IF ~ IsQty(tys[1]) THEN Typed(UnknownTy, c)
  ELSE Typed(QtyTy(PlainDim(NoValue)),
             IF tys[1].dim.exps \in {NoDims, Angle} THEN c ELSE Report(c, "error", "bad-argument"))
ExtremumTy(tys, c) ==
  CASE tys = <<>> \/ (\E i \in DOMAIN tys : ~ IsQty(tys[i])) -> Typed(UnknownTy, c)
    [] OTHER -> IF \E i \in DOMAIN tys : tys[i].dim.exps # tys[1].dim.exps
                THEN Typed(UnknownTy, Report(c, "warning", "mixed-extremum"))
                ELSE Typed(QtyTy(WithoutValue(tys[1].dim)), c)
ComparisonTy(tys, c) ==
  Typed(BoolTy, IF Len(tys) # 2 THEN c
                ELSE IF IsQty(tys[1]) /\ IsQty(tys[2])
                THEN IF tys[1].dim.exps = tys[2].dim.exps THEN c ELSE Report(c, "error", "dimension-mismatch")
                ELSE c)
BuiltinTy(name, tys, c) ==
  LET only(ty(_)) == IF Len(tys) # 1 THEN UnknownTy ELSE IF IsQty(tys[1]) THEN QtyTy(ty(tys[1].dim)) ELSE UnknownTy
      root(dim) == Dim(RaisedDims(dim.exps, <<1, 2>>), FALSE, NoValue)
      first == IF tys = <<>> THEN UnknownTy ELSE IF IsQty(tys[1]) THEN QtyTy(WithoutValue(tys[1].dim)) ELSE UnknownTy
      branches == IF Len(tys) # 3 THEN UnknownTy ELSE IF tys[2] = tys[3] THEN tys[2] ELSE UnknownTy
  IN  CASE name = "sqrt" -> Typed(only(root), c)
        [] name \in {"sin", "cos", "tan", "exp", "ln", "log"} -> DimensionlessFunction(tys, c)
        [] name \in {"abs", "floor", "ceil", "uncertainty", "sigma"} -> Typed(only(WithoutValue), c)
        [] name = "round" -> Typed(first, c)
        [] name \in {"min", "max"} -> ExtremumTy(tys, c)
        [] name \in Comparisons -> ComparisonTy(tys, c)
        [] name \in {"op_and", "op_or", "op_not"} -> Typed(BoolTy, c)
        [] name = "ternary" -> Typed(branches, c)
        [] OTHER -> Typed(UnknownTy, c)

-----------------------------------------------------------------------------
(* Expressions, calls and blocks.                                          *)
IdentifierTy(name, env, c) ==
  CASE name \in DOMAIN env -> env[name]
    [] name \notin DOMAIN env /\ (name \in DOMAIN c.funcs \/ name \in c.assigned) -> UnknownTy
    [] OTHER -> IF name \in DOMAIN Words THEN QtyTy(FactsDim(name)) ELSE SymbolTy(name)
QuantityTy(x, c) ==
  LET of(read) == Typed(IF read.dim = NoDim THEN UnknownTy ELSE QtyTy(read.dim), read.c)
  IN  IF x.unit = NoWord THEN Typed(QtyTy(PlainDim(IF x.exact THEN x.number ELSE NoValue)), c) ELSE of(UnitDim(x.unit, c))

RECURSIVE CheckExpr(_, _, _, _), CheckCall(_, _, _, _), CheckBlock(_, _, _, _, _)

CheckAll(xs, env, c, depth) ==
  LET next(so, t) == [tys |-> Append(so.tys, t.ty), c |-> t.c]
  IN  FoldLeft(LAMBDA so, x : next(so, CheckExpr(x, env, so.c, depth)), [tys |-> <<>>, c |-> c], xs)

(* A conversion has the type of its target, whatever it converts.          *)
ConvertTy(from, word) ==
  LET to(read) ==
        CASE read.dim = NoDim -> Typed(UnknownTy, read.c)
          [] read.dim # NoDim /\ IsQty(from.ty) ->
               Typed(QtyTy(read.dim), IF from.ty.dim.exps = read.dim.exps THEN read.c ELSE Report(read.c, "error", "dimension-mismatch"))
          [] OTHER -> Typed(QtyTy(read.dim), read.c)
  IN  IF word = NoWord THEN from ELSE to(UnitDim(word, from.c))
BinaryTy(op, l, r, c) ==
  CASE op = "range" -> Typed(UnknownTy, c)
    [] op # "range" /\ IsQty(l) /\ IsQty(r) -> Arithmetic(op, l.dim, r.dim, c)
    [] op # "range" /\ {l.ty, r.ty} = {"qty", "symbol"} -> Mismatch(c, "unknown-name")
    [] OTHER -> Typed(UnknownTy, c)
CheckBinary(x, env, c, depth) ==
  LET of(all) == BinaryTy(x.op, all.tys[1], all.tys[2], all.c)
  IN  IF x.op = "convert" THEN ConvertTy(CheckExpr(x.left, env, c, depth), x.right.name)
      ELSE of(CheckAll(<<x.left, x.right>>, env, c, depth))
CheckFor(x, env, c, depth) ==
  LET body(t) == Typed(UnknownTy, CheckExpr(x.body, Bound(env, x.var, UnknownTy), t.c, depth).c)
  IN  body(CheckExpr(x.iterable, env, c, depth))
CheckExpr(x, env, c, depth) ==
  CASE x.e = "quantity" -> QuantityTy(x, c)
    [] x.e = "bool"     -> Typed(BoolTy, c)
    [] x.e = "str"      -> Typed(UnknownTy, c)
    [] x.e = "name"     -> Typed(IdentifierTy(x.name, env, c), c)
    [] x.e = "binary"   -> CheckBinary(x, env, c, depth)
    [] x.e = "call"     -> CheckCall(x, env, c, depth)
    [] x.e = "for"      -> CheckFor(x, env, c, depth)

(* check_body: a body sees its parameters, not the variables around it.    *)
CheckBody(func, types, c, depth) ==
  LET last(n) == CHOOSE i \in DOMAIN func.node.params :
                   func.node.params[i] = n /\ \A j \in DOMAIN func.node.params : func.node.params[j] = n => j <= i
      back(block) == Typed(block.ty, [block.c EXCEPT !.line = c.line])
  IN  back(CheckBlock(func.node.body, func.at, [n \in Range(func.node.params) |-> types[last(n)]], c, depth))

(* user_call: an argument must have the dimension its parameter declares;  *)
(* the body is checked again for arguments of parameters that declare      *)
(* none. What it yields is remembered by the name and the types.           *)
UserCall(name, func, tys, c, depth) ==
  LET places == DOMAIN func.node.params
      arg(i) == IF i \in DOMAIN tys THEN tys[i] ELSE UnknownTy
      declares(i) == func.declared[i] # NoDim
      allowed(i) == func.implicit /\ DOMAIN arg(i).dim.exps = {}
      wrong(i) == declares(i) /\ IsQty(arg(i)) /\ arg(i).dim.exps # func.declared[i].exps /\ ~ allowed(i)
      type(i) == CASE declares(i) -> QtyTy(func.declared[i])
                   [] ~ declares(i) /\ IsQty(arg(i)) -> QtyTy(WithoutValue(arg(i).dim))
                   [] OTHER -> UnknownTy
      known == IF \E i \in places : wrong(i) THEN Report(c, "error", "bad-argument") ELSE c
      key == [name |-> name, types |-> [i \in places |-> type(i)]]
      remember(t) == Typed(t.ty, [t.c EXCEPT !.memo = Bound(@, key, t.ty), !.call = c.call, !.active = c.active])
  IN  CASE ~ \E i \in places : ~ declares(i) /\ IsQty(arg(i)) -> Typed(func.returns, known)
        [] OTHER -> IF depth >= MaxCheckDepth THEN Typed(UnknownTy, known)
                    ELSE IF key \in DOMAIN known.memo THEN Typed(known.memo[key], known)
                    ELSE IF key \in known.active THEN Typed(UnknownTy, known)
                    ELSE remember(CheckBody(func, key.types,
                                            [known EXCEPT !.active = @ \cup {key}, !.call = <<c.line, key>>], depth + 1))
CheckCall(x, env, c, depth) ==
  LET in(t) == CheckExpr(x.args[3], Bound(env, x.args[1].name, t.ty), t.c, depth)
      of(all) == CASE x.name \notin DOMAIN env /\ x.name \in DOMAIN all.c.funcs ->
                        UserCall(x.name, all.c.funcs[x.name], all.tys, all.c, depth)
                   [] x.name \in DOMAIN env \/ (x.name \notin DOMAIN all.c.funcs /\ x.name \in c.assigned) -> Typed(UnknownTy, all.c)
                   [] OTHER -> BuiltinTy(x.name, all.tys, all.c)
  IN  IF IsLet(x) THEN in(CheckExpr(x.args[2], env, c, depth)) ELSE of(CheckAll(x.args, env, c, depth))

(* define: registered first, for what its body calls; the body is checked  *)
(* for the dimensions it declares.                                         *)
Define(f, c, depth) ==
  LET read == FoldLeft(LAMBDA so, word :
                         LET of(r) == [dims |-> Append(so.dims, r.dim), c |-> r.c]
                         IN  of(IF word = NoWord THEN [dim |-> NoDim, c |-> so.c] ELSE UnitDim(word, so.c)),
                       [dims |-> <<>>, c |-> c],
                       [i \in DOMAIN f.params |-> IF i \in DOMAIN f.units THEN f.units[i] ELSE NoWord])
      func == [node |-> f, declared |-> read.dims, implicit |-> f.implicit, returns |-> UnknownTy, at |-> c.line]
      types == [i \in DOMAIN read.dims |-> IF read.dims[i] = NoDim THEN UnknownTy ELSE QtyTy(read.dims[i])]
      defined(t) == IF t.c.funcs[f.name].at = c.line THEN [t.c EXCEPT !.funcs[f.name].returns = t.ty] ELSE t.c
  IN  defined(CheckBody(func, types, [read.c EXCEPT !.funcs = Bound(@, f.name, func)], depth))

(* A loop's body may or may not run: what it assigns is no longer known.   *)
CheckWhile(s, env, c, depth) ==
  LET lost == CollectAssigned(s.body)
      body(t) == [c |-> CheckBlock(s.body, t.c.line, env, t.c, depth).c,
                  env |-> [n \in lost |-> UnknownTy] @@ env, yields |-> <<>>]
  IN  body(CheckExpr(s.cond, env, c, depth))
CheckStatement(s, isLast, env, c, depth) ==
  LET step(t, e, yields) == [c |-> t.c, env |-> e, yields |-> IF yields THEN <<t.ty>> ELSE <<>>]
      value(t) == CASE s.s = "assign" -> step(t, Bound(env, s.name, t.ty), FALSE)
                    [] s.s = "expr"   -> step(t, env, isLast)
                    [] OTHER          -> step(t, env, TRUE)
      guarded == IF s.s = "guard" THEN CheckExpr(s.cond, env, c, depth).c ELSE c
      without(n) == [x \in DOMAIN env \ {n} |-> env[x]]
  IN  CASE s.s \in {"assign", "expr", "return", "guard"} -> value(CheckExpr(s.value, env, guarded, depth))
        [] s.s = "while" -> CheckWhile(s, env, c, depth)
        [] s.s = "fn"    -> [c |-> Define(s.f, c, depth), env |-> without(s.f.name), yields |-> <<>>]
Joined(tys) == IF tys = <<>> THEN UnknownTy ELSE IF \A i \in DOMAIN tys : tys[i] = tys[1] THEN tys[1] ELSE UnknownTy
CheckBlock(statements, at, env, c, depth) ==
  LET on(i, so) == [so.c EXCEPT !.line = Append(at, i), !.during = IF at = <<>> THEN i ELSE @]
      next(so, step) == [c |-> step.c, env |-> step.env, tys |-> so.tys \o step.yields]
      all(so) == [ty |-> Joined(so.tys), c |-> so.c, env |-> so.env]
  IN  all(FoldLeft(LAMBDA so, i : next(so, CheckStatement(statements[i], i = Len(statements), so.env, on(i, so), depth)),
                   [c |-> c, env |-> env, tys |-> <<>>], [i \in DOMAIN statements |-> i]))

(* check_program                                                           *)
NoTypes == [n \in {} |-> UnknownTy]
Checker(program) ==
  [found |-> {}, assigned |-> BoundBy(program), line |-> <<>>, during |-> 0, call |-> <<>>,
   memo |-> [k \in {} |-> UnknownTy], active |-> {}, funcs |-> [n \in {} |-> NoDim]]
CheckProgram(program) == CheckBlock(program, <<>>, NoTypes, Checker(program), 0)

-----------------------------------------------------------------------------
(* An error says that the interpreter is certain to refuse: the run of the *)
(* program ends at the statement the error was found in, or before it. One *)
(* found where a function is defined is about its calls.                   *)
Errors(found) == {f \in found : f.severity = "error"}
IsCertain(program, f, stopped) == program[f.during].s = "fn" \/ stopped \in 1..f.during
ErrorsStopTheRun(program, checked, run) == \A f \in Errors(checked.c.found) : IsCertain(program, f, run.stopped)

(* What the pass knows of a variable is so of its value.                   *)
BaseDimension(b) ==
  LET word == CHOOSE w \in DOMAIN Words : Words[w].unit # Refused /\ Words[w].unit.dims = (b :> One)
  IN  OnlySymbol([dims |-> Words[word].facts.dimension])
DimensionsOf(unit) ==
  [d \in {BaseDimension(b) : b \in DOMAIN unit.dims} |-> unit.dims[CHOOSE b \in DOMAIN unit.dims : BaseDimension(b) = d]]
IsTrueOf(ty, v) ==
  CASE ty.ty = "qty" -> /\ IsMagnitude(v)
                        /\ DimensionsOf(AsQuantity(v).unit) = ty.dim.exps
                        /\ IsPointQ(AsQuantity(v)) = ty.dim.point
                        /\ ty.dim.constant # NoValue => CanonicalMagnitude(AsQuantity(v)) = Number(ty.dim.constant)
    [] ty.ty = "bool" -> v.type = "bool"
    [] ty.ty = "symbol" -> v = TextV(ty.name)
    [] OTHER -> TRUE
TypesAreTrue(checked, run) ==
  \A n \in DOMAIN checked.env \cap DOMAIN run.env : run.stopped = 0 => IsTrueOf(checked.env[n], run.env[n])

(* The interpreter also takes what the pass refuses: a zero compares with  *)
(* anything, and a point is multiplied by a sign.                          *)
HasNoSigns(run) ==
  \A n \in DOMAIN run.env :
    LET v == run.env[n]
    IN  IsMagnitude(v) => AsQuantity(v).mean \notin {Number(Zero), Number(One), Number(Whole(-1))}
=============================================================================
