----------------------------- MODULE PhsModules -----------------------------
(***************************************************************************)
(* Sources as files: what the parser refuses once it has read a program    *)
(* (parser/shadowing.rs, decorators.rs), what a module exports and an      *)
(* import binds (resolver.rs, interpreter/statements.rs), what a module lists, makes and *)
(* lets a host call (module.rs), and packages (physure-cli/src/package.rs).*)
(* A source is [parses, program]: whether the grammar and the decorators   *)
(* hold, and the statements. Left out are doc comments, plugins and        *)
(* builtin domains, which an import finds elsewhere, and the positions and *)
(* rewrites of a message. What runs a statement and a call is a parameter: *)
(* it is the interpreter of PhsEvaluator, from which only the shape of     *)
(* sources and values is taken here.                                       *)
(***************************************************************************)
EXTENDS PhsEvaluator

CONSTANTS Run(_, _, _),     \* RunStatement(statement, bindings, depth)
          Call(_, _, _, _)  \* CallFunction(function, arguments, bindings, depth)

Failed == [ok |-> FALSE]

(* unit_chain_tokens: the words of a unit text and the operator before     *)
(* each. What starts with a digit or follows a power is no word.           *)
NoOp == "none"
UnitChainTokens(text) ==
  LET digits == {"0", "1", "2", "3", "4", "5", "6", "7", "8", "9"}
      isWordChar(ch) == ch \notin {"*", "/", "^", "(", ")", "-", ".", " "}
      starts(so, ch) == IF so.power \/ ch \in digits THEN [so EXCEPT !.run = "skipped"]
                        ELSE [so EXCEPT !.run = "word", !.op = NoOp, !.words = Append(@, [text |-> <<ch>>, op |-> so.op])]
      read(so, ch) ==
        CASE ch \in {"*", "/"} -> [so EXCEPT !.op = ch, !.power = FALSE, !.run = "none"]
          [] ch = "^" -> [so EXCEPT !.power = TRUE, !.run = "none"]
          [] isWordChar(ch) /\ so.run = "none" -> starts(so, ch)
          [] isWordChar(ch) /\ so.run = "word" -> [so EXCEPT !.words[Len(so.words)].text = Append(@, ch)]
          [] OTHER -> IF isWordChar(ch) THEN so ELSE [so EXCEPT !.run = "none"]
  IN  FoldLeft(read, [words |-> <<>>, op |-> NoOp, power |-> FALSE, run |-> "none"], text).words
ChainOf(unit) ==
  CASE unit = NoWord -> <<>>
    [] unit # NoWord /\ unit \in DOMAIN Words -> Words[unit].chain
    [] OTHER -> <<[word |-> unit, op |-> NoOp]>>
WordsOf(unit) == {token.word : token \in Range(ChainOf(unit))}

(* A literal whose unit has a word that is bound above it is refused. The  *)
(* walk is in the order of the source; what is bound in passing is bound   *)
(* there only, and a contract is not walked.                               *)
RECURSIVE IsClear(_, _), Walk(_, _)
IsClear(x, bound) ==
  CASE x.e = "quantity" -> WordsOf(x.unit) \cap bound = {}
    [] x.e = "binary"   -> IsClear(x.left, bound) /\ IsClear(x.right, bound)
    [] x.e = "for"      -> IsClear(x.iterable, bound) /\ IsClear(x.body, bound \cup {x.var})
    [] x.e = "call"     -> IF IsLet(x) THEN IsClear(x.args[2], bound) /\ IsClear(x.args[3], bound \cup {x.args[1].name})
                           ELSE \A i \in DOMAIN x.args : IsClear(x.args[i], bound)
    [] OTHER            -> TRUE
(* What a function's body may see: its own name and its parameters.        *)
HeaderOf(f) == {f.name} \cup Range(f.params)
Walk(statements, bound) ==
  LET s == Head(statements)
      isClear == \A field \in DOMAIN s \cap {"value", "cond"} : IsClear(s[field], bound)
      next(now) == Walk(Tail(statements), now)
      inside(body, now) == IF body.clear THEN next(now) ELSE body
      loop(body) == inside(body, body.bound)
  IN  IF statements = <<>> THEN [clear |-> TRUE, bound |-> bound]
      ELSE IF ~ isClear THEN [clear |-> FALSE, bound |-> bound]
      ELSE CASE s.s = "assign" -> next(bound \cup {s.name})
             [] s.s = "fn" -> inside(Walk(s.f.body, bound \cup HeaderOf(s.f)), bound \cup {s.f.name})
             [] s.s = "while" -> loop(Walk(s.body, bound))
             [] s.s \in {"guard", "expr", "return", "import", "export"} -> next(bound)
Parses(source) == source.parses /\ Walk(source.program, {}).clear

-----------------------------------------------------------------------------
(* decorators.rs. A decorator is [name, args]; a range is two conditions.  *)
KnownDecorators == {"requires", "ensures", "stable", "experimental", "implicit_units", "precision"}
Requires(op, x, bound) == [name |-> "requires", args |-> <<CallOf(op, <<x, bound>>), [e |-> "str", w |-> "of the range"]>>]
LowerRange(d) ==
  CASE d.name # "range" -> <<d>>
    [] d.name = "range" /\ Len(d.args) = 3 /\ d.args[1].e = "name" ->
         <<Requires("op_>=", d.args[1], d.args[2]), Requires("op_<=", d.args[1], d.args[3])>>
    [] OTHER -> <<[name |-> "range", args |-> <<>>]>>
IsPrecision(args) == Len(args) = 1 /\ args[1].e = "quantity" /\ IsWhole(args[1].number) /\ args[1].number[1] > 0
CheckDecorator(d, isFunction) ==
  CASE d.name \in {"requires", "ensures"} -> isFunction /\ Len(d.args) = 2
    [] d.name \in {"stable", "experimental"} -> d.args = <<>>
    [] d.name = "implicit_units" -> isFunction /\ d.args = <<>>
    [] d.name = "precision" -> ~ isFunction /\ IsPrecision(d.args)
    [] d.name \notin KnownDecorators -> FALSE
CheckDecoratorList(decorators, s) ==
  LET has(name) == \E i \in DOMAIN decorators : decorators[i].name = name
  IN  /\ \A i \in DOMAIN decorators : CheckDecorator(decorators[i], s.s = "fn")
      /\ ~ (has("stable") /\ has("experimental"))
      /\ has("ensures") /\ s.s = "fn" => "result" \notin Range(s.f.params)

(* A statement with its decorators, or Refused: the conditions stay in     *)
(* their order, and what says nothing of a call is left out.               *)
Decorate(s, decorators) ==
  LET lowered == FlattenSeq([i \in DOMAIN decorators |-> LowerRange(decorators[i])])
      named(name) == SelectSeq(lowered, LAMBDA d : d.name = name)
      conditions(name) == [i \in DOMAIN named(name) |-> named(name)[i].args[1]]
      contracts(f) == [f EXCEPT !.requires = conditions("requires"), !.ensures = conditions("ensures"),
                                !.implicit = named("implicit_units") # <<>>]
  IN  CASE ~ CheckDecoratorList(lowered, s) -> Refused
        [] CheckDecoratorList(lowered, s) /\ s.s = "fn" -> [s EXCEPT !.f = contracts(@)]
        [] OTHER -> s

-----------------------------------------------------------------------------
(* What a program defines at its top: of two definitions the later counts. *)
(* In the variant with a bug it is the first.                              *)
FirstOf(program, places) == program[CHOOSE i \in places : \A j \in places : i <= j]
LaterOf(program, places) == program[CHOOSE i \in places : \A j \in places : j <= i]
DefinedBy(program, kind) ==
  LET name(s) == IF s.s = "fn" THEN s.f.name ELSE s.name
      places == {i \in DOMAIN program : program[i].s = kind}
  IN  [n \in {name(program[i]) : i \in places} |-> LaterOf(program, {i \in places : name(program[i]) = n})]
SymbolsOf(program)   == LET defined == DefinedBy(program, "assign") IN [n \in DOMAIN defined |-> defined[n].value]
FunctionsOf(program) == LET defined == DefinedBy(program, "fn") IN [n \in DOMAIN defined |-> defined[n].f]

(* FsModuleResolver::resolve. A file is at a place: none is there, or it   *)
(* is a directory, or a source inside the base directory or outside of it. *)
IsReadable(file) == file.place \in {"inside", "outside"}
Resolve(file) ==
  LET symbols == SymbolsOf(file.source.program)
      functions == FunctionsOf(file.source.program)
      step(export, s) ==
        CASE s.s # "export" \/ ~ export.ok -> export
          [] s.s = "export" /\ export.ok /\ s.symbol \in DOMAIN symbols ->
               [export EXCEPT !.symbols = Bound(@, s.name, symbols[s.symbol])]
          [] s.s = "export" /\ export.ok /\ s.symbol \in DOMAIN functions \ DOMAIN symbols ->
               [export EXCEPT !.functions = Bound(@, s.name, functions[s.symbol])]
          [] OTHER -> Failed
      named == FoldLeft(step, [ok |-> TRUE, symbols |-> NoBindings, functions |-> NoBindings], file.source.program)
      exports == {i \in DOMAIN file.source.program : file.source.program[i].s = "export"}
  IN  IF ~ IsReadable(file) THEN Failed
      ELSE IF ~ Parses(file.source) THEN Failed
      ELSE IF exports = {} THEN [ok |-> TRUE, symbols |-> symbols, functions |-> functions] ELSE named

(* import_module: symbols are evaluated among the names of the importer.   *)
(* All of them come in whatever order the map has, then the functions.     *)
ImportSymbol(export, name, alias, env) ==
  LET bound(so) == IF so = Refused THEN Refused ELSE Bound(env, alias, so.value)
  IN  CASE name \in DOMAIN export.symbols -> bound(Run(Yields(export.symbols[name]), env, 0))
        [] name \in DOMAIN export.functions \ DOMAIN export.symbols -> Bound(env, alias, FunctionV(export.functions[name]))
        [] OTHER -> Refused
ImportModule(export, s, order, env) ==
  LET named(so, sym) == IF so = Refused THEN Refused ELSE ImportSymbol(export, sym.name, sym.alias, so)
      listed(names) == [i \in DOMAIN names |-> [name |-> names[i], alias |-> names[i]]]
      all(so) == IF so = Refused THEN Refused ELSE [n \in DOMAIN export.functions |-> FunctionV(export.functions[n])] @@ so
  IN  CASE s.specifier = "all" -> all(FoldLeft(named, env, listed(SelectSeq(order, LAMBDA n : n \in DOMAIN export.symbols))))
        [] s.specifier = "some" -> FoldLeft(named, env, s.symbols)
        [] s.specifier = "module" -> Refused
ResolveUse(s, files, order, env) ==
  LET bound(so) == IF so = Refused THEN Refused ELSE Done(NoneV, so)
      of(export) == IF ~ export.ok THEN Refused ELSE bound(ImportModule(export, s, order, env))
  IN  of(Resolve(files[s.path]))
(* from_source runs every statement; one that is refused leaves no module. *)
RECURSIVE RunEvery(_, _, _, _)
RunEvery(statements, files, order, env) ==
  LET next(so) == IF so = Refused THEN Refused ELSE RunEvery(Tail(statements), files, order, so.env)
      done(s) == CASE s.s = "import" -> ResolveUse(s, files, order, env)
                   [] s.s = "export" -> Done(NoneV, env)
                   [] OTHER -> Run(s, env, 0)
  IN  IF statements = <<>> THEN env ELSE next(done(Head(statements)))
RunSource(program, files, order) == RunEvery(program, files, order, NoBindings)

-----------------------------------------------------------------------------
(* module.rs: the signatures of a source, without running it, and the      *)
(* module it makes when it runs.                                           *)
SignatureOf(f) ==
  [name |-> f.name,
   params |-> [i \in DOMAIN f.params |-> [name |-> f.params[i], unit |-> IF i \in DOMAIN f.units THEN f.units[i] ELSE NoWord]]]
FunctionSignatures(program) == LET functions == FunctionsOf(program) IN [n \in DOMAIN functions |-> SignatureOf(functions[n])]
ExtractFunctionSignatures(source) ==
  IF Parses(source) THEN [ok |-> TRUE, functions |-> FunctionSignatures(source.program)] ELSE Failed
FromSource(source, files, order) ==
  LET of(env) == IF env = Refused THEN Failed ELSE [ok |-> TRUE, functions |-> FunctionSignatures(source.program), env |-> env]
  IN  IF Parses(source) THEN of(RunSource(source.program, files, order)) ELSE Failed
FromFile(file, files, order) == IF IsReadable(file) THEN FromSource(file.source, files, order) ELSE Failed

(* What a host calls: a name that is listed and still is a function; and   *)
(* two of them, the one on what the other gives. The arguments are those   *)
(* of the outer function without the one in between, then the inner ones.  *)
Invoke(module, name, args) ==
  IF name \in DOMAIN module.functions /\ IsFunction(name, module.env)
  THEN Call(module.env[name].f, args, module.env, 0) ELSE Refused
ComposeWith(outer, inner, outerFn, innerFn, param) ==
  LET params(module, fn) == IF fn \in DOMAIN module.functions THEN module.functions[fn].params ELSE <<>>
      places == {i \in DOMAIN params(outer, outerFn) : params(outer, outerFn)[i].name = param}
  IN  IF places # {} /\ innerFn \in DOMAIN inner.functions
      THEN [ok |-> TRUE, outer |-> outer, inner |-> inner, outerFn |-> outerFn, innerFn |-> innerFn,
            outerArity |-> Len(params(outer, outerFn)), innerArity |-> Len(params(inner, innerFn)),
            bindIndex |-> CHOOSE i \in places : \A j \in places : i <= j]
      ELSE Failed
CallComposed(c, args) ==
  LET partial == c.outerArity - 1
      outer(v) == IF v = Refused THEN Refused
                  ELSE Invoke(c.outer, c.outerFn, InsertAt(SubSeq(args, 1, partial), c.bindIndex, v))
  IN  IF Len(args) # partial + c.innerArity THEN Refused
      ELSE outer(Invoke(c.inner, c.innerFn, SubSeq(args, partial + 1, Len(args))))

-----------------------------------------------------------------------------
(* package.rs. A manifest is [named, versioned, entry, exports], exports   *)
(* being a path for each export name; files are read where phs runs, here. *)
NoPath == ""
EnsurePathWithinBase(file) == file.place \in {"inside", "directory"}
IsFile(file) == file.place \in {"inside", "outside"}
Inspect(source, execute, here, order) ==
  IF execute THEN FromSource(source, here, order) ELSE ExtractFunctionSignatures(source)
InspectAll(manifest, files, execute, here, order) ==
  [n \in DOMAIN manifest.exports |-> Inspect(files[manifest.exports[n]].source, execute, here, order)]
Validated(manifest, files, found) ==
  LET inside(path) == EnsurePathWithinBase(files[path]) /\ IsFile(files[path])
  IN  IF /\ manifest.named
         /\ manifest.versioned
         /\ manifest.entry # NoPath => inside(manifest.entry) /\ Parses(files[manifest.entry].source)
         /\ \A n \in DOMAIN manifest.exports : inside(manifest.exports[n]) /\ found[n].ok
      THEN [ok |-> TRUE, modules |-> [n \in DOMAIN found |-> DOMAIN found[n].functions]]
      ELSE Failed
Validate(manifest, files, execute, here, order) ==
  Validated(manifest, files, InspectAll(manifest, files, execute, here, order))

(* pack: the files were valid when they were first read, and are read      *)
(* again for the bundle, the entry as it is by then.                       *)
FormatVersion == 1
Bundled(manifest, report, again, inspected) ==
  LET path(n) == manifest.exports[n]
      module(n) == [path |-> path(n), source |-> again[path(n)].source, functions |-> inspected[n].functions]
      bundle == [ok |-> TRUE, version |-> FormatVersion, modules |-> [n \in DOMAIN manifest.exports |-> module(n)],
                 entry |-> IF manifest.entry = NoPath THEN <<>> ELSE <<again[manifest.entry].source>>]
  IN  IF /\ report.ok
         /\ \A n \in DOMAIN manifest.exports : IsReadable(again[path(n)]) /\ inspected[n].ok
         /\ manifest.entry # NoPath => IsReadable(again[manifest.entry])
      THEN [ok |-> TRUE, bundle |-> bundle, report |-> report]
      ELSE Failed
Pack(manifest, files, again, execute, here, order) ==
  Bundled(manifest, Validate(manifest, files, execute, here, order), again,
          InspectAll(manifest, again, execute, here, order))
LoadBundle(bundle) == IF bundle.version = FormatVersion THEN bundle ELSE Failed
=============================================================================
