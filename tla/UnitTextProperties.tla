------------------------- MODULE UnitTextProperties -------------------------
(* What makes the texts of units and their catalogs right. Each property   *)
(* is about one sample of its kind: dims, a text, the lines of a conf, a   *)
(* program, a source, an import, a package, a composition or a decorated   *)
(* function.                                                               *)
EXTENDS UnitText, UnitProperties, DimensionCheck, PhsModules

CONSTANT Interpret(_)       \* RunProgram: what the check of dimensions is compared with

IsRead(u) == u # Unreadable

(* What the names of the base catalog mean, with and without prefixes.     *)
BaseMeanings == [n \in ResolvableNames(Embedded) |-> GetUnit(Embedded, n)]
HasDims(u, dims) == IsRead(u) /\ u.dims = dims

(* What rational.rs prints of a unit, the parser reads back: as a unit     *)
(* text, as the formula of a dimension, as a repr, with fractional and     *)
(* negative powers; and a name it knows with a prefix is read as that very *)
(* unit.                                                                   *)
PrintedReadsBack ==
  sample.kind = "dims" =>
    LET printed(u, known) ==
          /\ \A text \in {SymbolicRepr(u), FormulaText(u.dims), BaseRepr(u)} : HasDims(ParseAtomic(text), u.dims)
          /\ /\ u.dims \in DOMAIN known /\ u.scale \in DOMAIN SiPrefixes
             /\ Knows(Embedded, known[u.dims])
             =>
               SameUnit(Parse(Embedded, Repr(u)), u)
    IN  printed(Unit(sample.dims, sample.scale, TRUE), KnownDerived)

(* However a unit expression is taken, it is one unit: read at once or     *)
(* symbol by symbol and expanded, simplified to base symbols, or shown by  *)
(* its alias and read again. A temperature scale in a power keeps its zero *)
(* point in one of these ways only.                                        *)
IsOneUnit ==
  sample.kind = "text" =>
    LET reg == Embedded
        same(read, atomic, expanded, simple, shown) ==
          /\ IsRead(atomic) /\ AllKnown(reg, atomic)
          /\ IsLinear(reg, atomic) /\ read.scale # Unknown =>
               /\ SameUnit(expanded, read) /\ SameUnit(Expand(reg, simple), read)
               /\ DimensionOf(reg, simple) = DimensionOf(reg, atomic)
               /\ FactorBetween(reg, simple, atomic) = One
               /\ SameUnit(shown, read)
          /\ IsPoint(reg, atomic) => SameUnit(shown, expanded)
        asTaken(read, atomic) ==
          IsRead(read) =>
            same(read, atomic, Expand(reg, atomic), Simplify(reg, atomic), Parse(reg, AliasOf(reg, atomic)))
    IN  asTaken(Parse(reg, sample.text), ParseAtomic(sample.text))

(* A unit is the same before and after it is printed, read, expanded,      *)
(* simplified and shown by its alias (rational.rs, parser.rs, registry.rs).*)
TextsMeanTheirUnits == PrintedReadsBack /\ IsOneUnit

-----------------------------------------------------------------------------
(* What the lines of a catalog say, read on their own: a line is about its *)
(* names, and no base unit, alias or other line stands before them.        *)
NamesIn(line) == Range(AliasesOf(line)) \cup {line.key}
UnitLinesOf(lines) == {i \in DOMAIN lines : lines[i].section = "Units"}
StandsAlone(base, lines, i) ==
  LET others == UNION {NamesIn(lines[j]) : j \in UnitLinesOf(lines) \ {i}}
  IN  NamesIn(lines[i]) \cap (others \cup DOMAIN base.baseUnits \cup DOMAIN base.aliases) = {}

(* The definition of a unit is its recipe, if the base catalog and the     *)
(* lines above have what it is made of, and the formula of its dimension   *)
(* otherwise. A formula is made of dimension symbols, or of units.         *)
NamesAbove(lines, i) == UNION {NamesIn(lines[j]) : j \in {k \in UnitLinesOf(lines) : k < i}}
IsMade(base, lines, i, atomic) ==
  IsRead(atomic) /\ \A n \in DOMAIN atomic.dims : Knows(base, n) \/ n \in NamesAbove(lines, i)
DefinitionOf(base, lines, i) ==
  LET fields == ValueFields(lines[i])
      recipe == WordAt(fields, DimIndex(fields) + 1)
  IN  IF fields[1].word = LogWord THEN fields[4].word
      ELSE IF recipe # <<>> /\ IsMade(base, lines, i, ParseAtomic(recipe)) THEN recipe ELSE DimWord(fields)

(* A line can be read if it gives a value and its definition is a formula  *)
(* over dimensions that have a base unit, or is made of known units.       *)
DimensionSymbols(base, lines) ==
  DOMAIN base.dimensionBase
    \cup {lines[i].fields[2].word : i \in {j \in UnitLinesOf(lines) :
            Len(lines[j].fields) >= 2 /\ lines[j].fields[1].number = One}}
HasNoValue(line) ==
  IF line.section = "Prefixes" THEN line.factor = NoNumber
  ELSE line.fields[1].word # LogWord /\ line.fields[1].number = NoNumber
CanBeRead(base, lines, i) ==
  LET made(atomic) ==
        IsMade(base, lines, i, atomic) \/ (IsRead(atomic) /\ DOMAIN atomic.dims \subseteq DimensionSymbols(base, lines))
  IN  ~ HasNoValue(lines[i]) /\ (i \in UnitLinesOf(lines) => made(ParseAtomic(DefinitionOf(base, lines, i))))

IsFormula(reg, atomic) == DOMAIN atomic.dims \subseteq DOMAIN reg.dimensionBase
DimensionSaid(reg, atomic) ==
  IF IsFormula(reg, atomic) THEN atomic.dims ELSE DimensionOf(reg, atomic)
ScaleSaid(reg, atomic) ==
  IF IsFormula(reg, atomic) THEN One ELSE Expand(reg, atomic).scale

(* What u is, if it is the unit the fields define: so many times its       *)
(* definition, from this zero point on; or the level of a ratio to a       *)
(* reference quantity.                                                     *)
IsSaid(reg, fields, atomic, u) ==
  /\ u # Nothing /\ DimensionOf(reg, NewFromDimensions(u.dims)) = DimensionSaid(reg, atomic)
  /\ IF fields[1].word = LogWord
     THEN u.log = [factor |-> fields[2].number, reference |-> fields[3].number] /\ u.scale = One
     ELSE u.log = NoLog /\ u.scale = Times(fields[1].number, ScaleSaid(reg, atomic))
  /\ u.offset = IF Len(fields) > 2 /\ fields[1].word # LogWord /\ fields[2].number # NoNumber
                THEN fields[2].number ELSE Zero

(* "Absolute affine units carry a zero point between the factor and the    *)
(* dimension", and "only a 3+ field line can be one", says the comment of  *)
(* parse_unit_line. A whole number is taken for a dimension of a base unit *)
(* before that, and the zero point of a ratio is dropped.                  *)
LosesZeroPoint(line) ==
  LET fields == ValueFields(line)
  IN  /\ Len(fields) > 2 /\ fields[1].word # LogWord /\ fields[2].number # NoNumber
      /\ IsSingleIdent(fields[2].word) \/ fields[3].word = <<"1">>

(* A prefix stands for the factor of its line, if there is one.            *)
PrefixFactors(base, lines) ==
  LET prefixLines == {lines[i] : i \in DOMAIN lines \ UnitLinesOf(lines)}
  IN  [p \in {line.symbol : line \in prefixLines} |->
         (CHOOSE line \in prefixLines : line.symbol = p).factor] @@ base.prefixes

(* The line's names, alone and with a prefix in front where nothing else   *)
(* has that name, mean what the line says.                                 *)
MeansWhatItSays(base, lines, i, reg) ==
  LET line   == lines[i]
      fields == ValueFields(line)
      factors == PrefixFactors(base, lines)
      others(n, p) == {o \in DOMAIN factors \ {p} : Len(o) < Len(p \o n) /\ IsPrefix(o, p \o n)}
      takes(u) == ~ HasFlag(line, Noprefix) /\ ~ IsLogarithmic(u)
      prefixed(u, n, p) ==
        p \o n \notin Names(reg) /\ others(n, p) = {} =>
          GetUnit(reg, p \o n) =
            IF takes(u) THEN [WithName(u, p \o n) EXCEPT !.scale = Times(@, factors[p])] ELSE Nothing
      means(atomic) ==
        \A n \in NamesIn(line) :
          /\ IsSaid(reg, fields, atomic, GetUnit(reg, n))
          /\ \A p \in DOMAIN factors : prefixed(GetUnit(reg, n), n, p)
  IN  means(ParseAtomic(DefinitionOf(base, lines, i)))

(* extend_registry: a text is refused if one of its lines cannot be read,  *)
(* and only then. Otherwise each line's names mean what the line says, if  *)
(* nothing stands before them and it does not lose its zero point; and a   *)
(* name of the base catalog, with a prefix or without, that comes to mean  *)
(* something else is reported by redefinitions_of, itself or by its unit   *)
(* or by the prefixes.                                                     *)
ExtensionsAreWhole ==
  sample.kind = "conf" =>
    LET base  == Embedded
        lines == sample.lines
        isTold(n, reported) ==
          n \in reported \/ PrefixesWord \in reported
            \/ (n \notin Names(base) /\ SplitPrefix(base, n).rest \in reported)
        whole(read, reported) ==
          /\ read.problems = <<>> <=> \A i \in DOMAIN lines : CanBeRead(base, lines, i)
          /\ read.problems = <<>> =>
               /\ \A i \in UnitLinesOf(lines) :
                    StandsAlone(base, lines, i) /\ ~ LosesZeroPoint(lines[i]) =>
                      MeansWhatItSays(base, lines, i, read.reg)
               /\ \A n \in DOMAIN BaseMeanings :
                    isTold(n, reported) \/ GetUnit(read.reg, n) = Nothing
                      \/ SameUnit(GetUnit(read.reg, n), BaseMeanings[n])
        extended(read) == whole(read, RedefinitionsOf(read.reg, base))
    IN  extended(ExtendRegistry(base, lines))

-----------------------------------------------------------------------------
(* What the check of dimensions says of a program is so when it runs       *)
(* (check.rs against the interpreter).                                     *)
CheckIsTrue ==
  sample.kind = "program" =>
    LET agree(checked, run) ==
          HasNoSigns(run) => ErrorsStopTheRun(sample.program, checked, run) /\ TypesAreTrue(checked, run)
    IN  agree(CheckProgram(sample.program), Interpret(sample.program))

(* As the module comment of check.rs says it, of any program: an error is  *)
(* reported only when the interpreter is certain to refuse the operation.  *)
ErrorsAreCertain ==
  sample.kind = "program" =>
    ErrorsStopTheRun(sample.program, CheckProgram(sample.program), Interpret(sample.program))

-----------------------------------------------------------------------------
(* The expressions of a program, and the names it binds.                   *)
RECURSIVE PartsOf(_), PartsOfAll(_), NamesBoundBy(_)
PartsOf(x) ==
  {x} \cup CASE x.e = "binary" -> PartsOf(x.left) \cup PartsOf(x.right)
             [] x.e = "call"   -> UNION {PartsOf(a) : a \in Range(x.args)}
             [] x.e = "for"    -> PartsOf(x.iterable) \cup PartsOf(x.body)
             [] OTHER          -> {}
PartsOfAll(statements) ==
  LET values(s) == {s[field] : field \in DOMAIN s \cap {"value", "cond"}}
      contracts(s) == IF s.s = "fn" THEN Range(s.f.requires) \cup Range(s.f.ensures) ELSE {}
      body(s) == CASE s.s = "fn" -> PartsOfAll(s.f.body) [] s.s = "while" -> PartsOfAll(s.body) [] OTHER -> {}
  IN  UNION {body(s) \cup UNION {PartsOf(x) : x \in values(s) \cup contracts(s)} : s \in Range(statements)}
NamesBoundBy(statements) ==
  LET by(s) == CASE s.s = "assign" -> {s.name}
                 [] s.s = "fn" -> HeaderOf(s.f) \cup NamesBoundBy(s.f.body)
                 [] s.s = "while" -> NamesBoundBy(s.body)
                 [] OTHER -> {}
      passing == {x \in PartsOfAll(statements) : x.e = "for"}
      lets == {x \in PartsOfAll(statements) : x.e = "call"}
  IN  UNION {by(s) : s \in Range(statements)} \cup {x.var : x \in passing}
        \cup {x.args[1].name : x \in {y \in lets : IsLet(y)}}
SpelledIn(statements) == UNION {WordsOf(x.unit) : x \in {y \in PartsOfAll(statements) : y.e = "quantity"}}

Gives(x, env) == LET of(so) == IF so = Refused THEN Refused ELSE so.value IN of(Run(Yields(x), env, 0))

(* A source whose every unit is written as a product with its words, which *)
(* are then names like any other.                                          *)
RECURSIVE WrittenOut(_), WrittenOutAll(_)
WrittenOut(x) ==
  CASE x.e = "quantity" ->
         FoldLeft(LAMBDA l, token : Binary(IF token.op = "/" THEN "div" ELSE "mul", l, Name(token.word)),
                  [x EXCEPT !.unit = NoWord], ChainOf(x.unit))
    [] x.e = "binary" -> [x EXCEPT !.left = WrittenOut(@), !.right = WrittenOut(@)]
    [] x.e = "call"   -> [x EXCEPT !.args = [i \in DOMAIN x.args |-> WrittenOut(x.args[i])]]
    [] x.e = "for"    -> [x EXCEPT !.iterable = WrittenOut(@), !.body = WrittenOut(@)]
    [] OTHER          -> x
WrittenOutAll(statements) ==
  LET written(s) == CASE s.s \in {"assign", "expr", "return"} -> [s EXCEPT !.value = WrittenOut(@)]
                      [] s.s = "guard" -> [s EXCEPT !.value = WrittenOut(@), !.cond = WrittenOut(@)]
                      [] s.s = "while" -> [s EXCEPT !.body = WrittenOutAll(@), !.cond = WrittenOut(@)]
                      [] s.s = "fn"    -> [s EXCEPT !.f.body = WrittenOutAll(@)]
  IN  [i \in DOMAIN statements |-> written(statements[i])]

(* The words of a function's body or a loop's are bound by nothing that    *)
(* runs around them or in a later round: the language leaves those to the  *)
(* unit, whatever the name is by then.                                     *)
OthersThan(i, statements) == [j \in DOMAIN statements \ {i} |-> statements[j]]
KeepsItsWords(program) ==
  \A i \in DOMAIN program :
    /\ program[i].s = "fn" =>
         SpelledIn(program[i].f.body) \cap NamesBoundBy(OthersThan(i, program)) = {}
    /\ program[i].s = "while" => SpelledIn(<<program[i]>>) \cap NamesBoundBy(<<program[i]>>) = {}
RECURSIVE IsSameValue(_, _)
IsSameValue(v, w) ==
  CASE v.type = "quantity" /\ w.type = "quantity" ->
         v.q.mean = w.q.mean /\ v.q.exact = w.q.exact /\ SameUnit(v.q.unit, w.q.unit)
    [] v.type = "vector" /\ w.type = "vector" ->
         Len(v.items) = Len(w.items) /\ \A i \in DOMAIN v.items : IsSameValue(v.items[i], w.items[i])
    [] v.type = "function" -> w.type = "function"
    [] OTHER -> v = w
AreSameBindings(a, b) ==
  IF a = Refused \/ b = Refused THEN a = b ELSE DOMAIN a = DOMAIN b /\ \A n \in DOMAIN a : IsSameValue(a[n], b[n])

(* A source that is not refused for its words can be read in one way: what *)
(* it gives does not depend on whether a word after a number is its unit   *)
(* or the variable of that name (shadowing.rs).                            *)
NoFiles == [path \in {} |-> Failed]
IsReadOneWay ==
  sample.kind = "source" =>
    (Parses(sample.source) /\ KeepsItsWords(sample.source.program) =>
       AreSameBindings(RunSource(sample.source.program, NoFiles, <<>>),
                       RunSource(WrittenOutAll(sample.source.program), NoFiles, <<>>)))

(* What an import binds is what its module has under that name, as long as *)
(* it reads no name of the module and the name is of one kind; and with    *)
(* export statements, nothing else comes in (resolver.rs, import_module).  *)
OwnName(program, n) ==
  LET exports == {i \in DOMAIN program : program[i].s = "export" /\ program[i].name = n}
  IN  IF exports = {} THEN n ELSE LaterOf(program, exports).symbol
Reads(x) == {y.name : y \in {z \in PartsOf(x) : z.e \in {"name", "call"}}}
ImportsMeanTheirModule ==
  sample.kind = "import" =>
    LET program == sample.file.source.program
        files == [path \in {"mod"} |-> sample.file]
        comesIn(export, n) == n \in DOMAIN export.symbols \cup DOMAIN export.functions
        isOfOneKind(n) == n \notin DOMAIN SymbolsOf(program) \cap DOMAIN FunctionsOf(program)
        isClosed(export, n) == n \in DOMAIN export.symbols => Reads(export.symbols[n]) \cap NamesBoundBy(program) = {}
        true(export, own, env) ==
          /\ sample.use.specifier = "all" => \A n \in DOMAIN env : comesIn(export, n)
          /\ \A n \in DOMAIN export.symbols \cup DOMAIN export.functions :
               (/\ isOfOneKind(OwnName(program, n)) /\ n \notin DOMAIN export.symbols \cap DOMAIN export.functions
                /\ isClosed(export, n)) =>
                 \A t \in DOMAIN env \cap (IF sample.use.specifier = "all" THEN {n}
                                          ELSE {sym.alias : sym \in {q \in Range(sample.use.symbols) : q.name = n}}) :
                   (\A q \in Range(sample.use.symbols) : q.alias = t => q.name = n) => env[t] = own[OwnName(program, n)]
        of(export, module, so) == export.ok /\ module.ok /\ so # Refused => true(export, module.env, so.env)
    IN  of(Resolve(sample.file), FromFile(sample.file, files, sample.order), ResolveUse(sample.use, files, sample.order, NoBindings))

(* What a bundle lists of a module is what the source beside it gives when *)
(* it runs, whatever became of the files while it was packed; and if       *)
(* nothing did, the report tells the bundle and the entry parses.          *)
IsTold(m, run) ==
  /\ sample.execute => run.ok
  /\ run.ok => \A n \in DOMAIN m.functions \ DOMAIN SymbolsOf(m.source.program) :
       IsFunction(n, run.env) /\ SignatureOf(run.env[n].f) = m.functions[n]
TellsItsSources(report, bundle) ==
  /\ bundle.ok /\ DOMAIN bundle.modules = DOMAIN sample.manifest.exports
  /\ \A m \in Range(bundle.modules) : IsTold(m, FromSource(m.source, sample.again, sample.order))
  /\ sample.files = sample.again =>
       /\ \A n \in DOMAIN bundle.modules : report.modules[n] = DOMAIN bundle.modules[n].functions
       /\ \A source \in Range(bundle.entry) : Parses(source)
BundlesTellTheirSources ==
  sample.kind = "package" =>
    LET of(packed) == packed.ok => TellsItsSources(packed.report, LoadBundle(packed.bundle))
    IN  of(Pack(sample.manifest, sample.files, sample.again, sample.execute, sample.again, sample.order))

ParamsOf(module, fn) == LET params == module.functions[fn].params IN [i \in DOMAIN params |-> params[i].name]
Given(names) == [i \in DOMAIN names |-> sample.given[names[i]]]

(* A call composed of functions of two modules gives what the nested call  *)
(* gives in one source with the text of both, as long as neither reads     *)
(* what the other binds (module.rs).                                       *)
ComposedIsNested ==
  sample.kind = "composition" =>
    LET asOne(out) == sample.outer \o sample.inner \o <<[s |-> "assign", name |-> "out", value |-> out]>>
        top(p) == DOMAIN DefinedBy(p, "assign") \cup DOMAIN DefinedBy(p, "fn")
        apart(pair) == top(pair[1]) \cap (top(pair[2]) \cup UNION {Reads(x) : x \in PartsOfAll(pair[2])}) = {}
        nested(outer, inner) ==
          CallOf("f", [i \in DOMAIN outer |-> IF outer[i] = sample.bind THEN CallOf("g", Given(inner)) ELSE sample.given[outer[i]]])
        result(env) == IF env = Refused THEN Refused ELSE env["out"]
        args(names) == [i \in DOMAIN names |-> Gives(sample.given[names[i]], NoBindings)]
        true(made, outer, inner) ==
          CallComposed(made, args(SelectSeq(outer, LAMBDA n : n # sample.bind) \o inner)) =
            result(RunSource(asOne(nested(outer, inner)), NoFiles, <<>>))
        of(made) == made.ok => true(made, ParamsOf(made.outer, "f"), ParamsOf(made.inner, "g"))
        modules(of2) == of2[1].ok /\ of2[2].ok => of(ComposeWith(of2[1], of2[2], "f", "g", sample.bind))
        both == <<sample.outer, sample.inner>>
    IN  (\A pair \in {both, Reverse(both)} : apart(pair)) =>
          modules([i \in 1..2 |-> FromSource([parses |-> TRUE, program |-> both[i]], NoFiles, <<>>)])

(* A function with decorators that are not refused gives what it gives     *)
(* without them, if what its contracts say of the argument and the result  *)
(* is so when their caller asks it before and after the call, and nothing  *)
(* otherwise; as long as the body binds no name that a contract reads. A   *)
(* range is asked in the unit of the argument (decorators.rs).             *)
IsInside(v, limit, isUpper) ==
  LET in(q) == q # Refused => ~ (IF isUpper THEN LessNumber(q.mean, AsQuantity(v).mean) ELSE LessNumber(AsQuantity(v).mean, q.mean))
  IN  /\ limit # Refused /\ IsMagnitude(v)
      /\ SameDimensions(AsQuantity(v).unit, AsQuantity(limit).unit)
      /\ in(ConvertTo(AsQuantity(limit), AsQuantity(v).unit))
DecoratorsHold ==
  sample.kind = "decorated" =>
    LET decorators == sample.decorators
        isSet(name) == \E i \in DOMAIN decorators : decorators[i].name = name
        bare == [sample.f EXCEPT !.implicit = isSet("implicit_units")]
        param == bare.params[1]
        called(f) == <<[s |-> "fn", f |-> f], [s |-> "assign", name |-> "out", value |-> CallOf("f", <<sample.arg>>)]>>
        outcome(f) == LET of(env) == IF env = Refused THEN Refused ELSE env["out"] IN of(RunSource(called(f), NoFiles, <<>>))
        isSo(d, gives) ==
          CASE d.name \in {"requires", "ensures"} -> gives[1] # Refused /\ IsTruthy(gives[1])
            [] d.name = "range" -> \A i \in {2, 3} : IsInside(gives[1], gives[i], i = 3)
            [] OTHER -> TRUE
        asked(d, env) == [i \in DOMAIN d.args |-> Gives(d.args[i], IF i = 1 THEN env ELSE NoBindings)]
        expected(before, after) ==
          LET env == (param :> before) @@ ("result" :> after)
          IN  IF before = Refused \/ after = Refused THEN Refused
              ELSE IF \A d \in Range(decorators) : isSo(d, asked(d, env)) THEN after ELSE Refused
        echo == [bare EXCEPT !.body = <<Yields(Name(param))>>]
        same(is) == is[3] = expected(is[1], is[2])
        of(s) == s # Refused => same([i \in 1..3 |-> outcome(<<echo, bare, s.f>>[i])])
        reads == UNION {UNION {Reads(d.args[i]) : i \in DOMAIN d.args} : d \in Range(decorators)}
    IN  reads \cap NamesBoundBy(bare.body) = {} => of(Decorate([s |-> "fn", f |-> bare], decorators))

(* A source means one thing, to who runs it, who imports it, who packs it  *)
(* and who calls it (parser/shadowing.rs, decorators.rs, resolver.rs,      *)
(* module.rs, package.rs).                                                 *)
ModulesAreTrue == IsReadOneWay /\ ImportsMeanTheirModule /\ BundlesTellTheirSources /\ ComposedIsNested /\ DecoratorsHold
=============================================================================
