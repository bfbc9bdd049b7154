------------------------------- MODULE MCUnits -------------------------------
(* A small catalog, and texts, units and numbers around it.                *)
EXTENDS UnitTextProperties

MCAlphabet == <<"%", "A", "B", "C", "F", "H", "J", "K", "L", "M", "N", "O", "P", "T", "V", "W",
                "a", "b", "c", "d", "e", "f", "g", "h", "i", "k", "l", "m", "o", "p", "r", "s", "t", "u", "x", "y", "z", "µ">>
MCWidest == 20
MCMaxExponent == 3
MCStandard == (<<"L">> :> <<"m">>) @@ (<<"M">> :> Kg) @@ (<<"T">> :> <<"s">>) @@ (<<"O">> :> <<"K">>)

Num(word, n, d) == Field(word, Frac(n, d))
Text(word) == Field(word, NoNumber)
Unity == Num(<<"1">>, 1, 1)
One0 == Num(<<"1", ".", "0">>, 1, 1)
L == <<"L">>  M == <<"m">>  K == <<"K">>  S == <<"s">>  Hour == <<"h">>
Km == <<"k", "m">>  Newton == <<"N">>  DegC == <<"d", "e", "g", "C">>  DB == <<"d", "B">>
Kilo == <<"k", "i", "l", "o">>  Meter == <<"m", "e", "t", "e", "r">>
Dam == <<"d", "a", "m">>  Am == <<"a", "m">>  Pct == <<"%">>  Np == <<"N", "p">>  BM == <<"B", "m">>

P(name, symbol, n, d) == PrefixLine(name, symbol, Frac(n, d))
U(key, fields, listed) == UnitLine(key, fields, listed)

(* The catalog is read in parts, so that TLC's stack is enough.        *)
Bases == <<
  P(Kilo, <<"k">>, 1000, 1), P(<<"d", "e", "c", "i">>, <<"d">>, 1, 10), P(<<"d", "e", "c", "a">>, <<"d", "a">>, 10, 1),
  P(<<"m", "i", "c", "r", "o">>, <<"u">>, 1, 100),
  U(Meter, <<One0, Text(L)>>, <<M, Meter>>), U(Kg, <<One0, Text(<<"M">>)>>, <<>>),
  U(<<"g">>, <<Num(<<"0", ".", "0", "0", "1">>, 1, 1000), Text(<<"M">>)>>, <<>>),
  U(S, <<One0, Text(<<"T">>)>>, <<S, <<"s", "e", "c">>>>), U(K, <<One0, Text(<<"O">>)>>, <<>>) >>
Scales == <<
  U(<<"c", "e", "l">>, <<One0, Num(<<"2", "7", "3", ".", "5">>, 547, 2), Text(<<"O">>)>>, <<DegC, <<"c", "e", "l">>>>),
  U(<<"d", "e", "g", "F">>, <<Num(<<"5", "/", "9">>, 5, 9), Num(<<"2", "5", "5", ".", "2">>, 1276, 5), Text(<<"O">>)>>, <<>>),
  U(Rad, <<One0, Text(<<"A">>)>>, <<>>), U(<<"s", "r">>, <<One0, Text(<<"A">>), Text(OwnKind)>>, <<>>),
  U(<<"d", "K">>, <<One0, Text(<<"O">>)>>, <<<<"d", "K">>>>) >>
Recipes == <<
  U(Hour, <<Num(<<"6", "0">>, 60, 1), Text(<<"T">>), Text(Noprefix)>>, <<>>),
  U(<<"n", "e", "w">>, <<One0, Text(<<"M", "*", "L", "*", "T", "^", "-", "2">>),
                         Text(<<"k", "g", "*", "m", "/", "s", "^", "2">>)>>, <<Newton, <<"n", "e", "w">>>>),
  U(<<"P", "a">>, <<One0, Text(<<"M", "/", "L", "*", "T", "^", "-", "2">>), Text(<<"N", "/", "m", "^", "2">>)>>, <<>>) >>
Levels == <<
  U(Am, <<Num(<<"2">>, 2, 1), Text(L)>>, <<>>),
  U(<<"l", "t">>, <<Num(<<"3">>, 3, 1), Text(<<"L", "^", "3">>)>>, <<>>),
  U(<<"u", "n", "i">>, <<One0, Unity, Text(Noprefix)>>, <<>>), U(Pct, <<Num(<<"0", ".", "0", "1">>, 1, 100), Unity>>, <<Pct, <<"p", "c", "t">>>>),
  U(<<"b", "e", "l">>, <<Text(LogWord), Num(<<"1", "0">>, 10, 1), One0, Unity>>, <<DB, <<"b", "e", "l">>>>),
  U(Np, <<Text(LogWord), Num(<<"2", "0">>, 20, 1), One0, Unity, Text(Noprefix)>>, <<>>),
  U(BM, <<Text(LogWord), Num(<<"1", "0">>, 10, 1), Num(<<"0", ".", "1">>, 1, 10), Text(<<"M">>)>>, <<>>) >>
Extended(reg, lines) == IF reg = reg THEN ParseConf(reg, lines).reg ELSE reg
MCEmbedded ==
  LET catalog(reg) == IF reg = reg THEN reg ELSE NewRegistry
  IN  catalog(Extended(Extended(Extended(Extended(NewRegistry, Bases), Scales), Recipes), Levels))

-----------------------------------------------------------------------------
Symbols == {M, Meter, Km, Kilo \o Meter, Kilo \o M, Dam, Am, <<"µ", "m">>, Kg, <<"k">> \o Kg, <<"g">>, <<"s", "e", "c">>,
            <<"k">> \o Hour, Newton, <<"k">> \o Newton, <<"P", "a">>, DegC, <<"k">> \o DegC, DB, <<"d">> \o DB,
            <<"u", "n", "i">>, Pct, <<"l", "t">>, Rad, <<"s", "r">>, <<"d", "K">>, <<"x", "y">>}
Few == {Km, <<"s", "e", "c">>, Newton, <<"u", "n", "i">>, DB, <<"1">>, <<"x", "y">>}
Powers == {<<>>, <<"2">>, <<"^2">>, <<"^-", "^1">>, <<"^", "-", "2">>, <<"*", "*", "2">>, <<"^", "(", "1", "/", "2", ")">>,
           <<"^", "0", ".", "5">>, <<"0">>}
Powered == {s \o p : s \in Symbols, p \in Powers}
Spare == {Km, Newton, <<"s", "e", "c", "^2">>, DB, Pct}
Texts ==
  Powered \cup {a \o o \o b : a \in Powered, o \in {<<"*">>, <<"/">>, <<" ">>}, b \in Spare}
    \cup {<<"1", "/", "(">> \o a \o <<"·">> \o b \o <<")">> : a \in Powered, b \in Few}
    \cup {a \o <<"/">> \o b \o <<"/">> \o a : a \in Symbols, b \in Few}
    \cup {<<>>, <<"2">>, <<"(", "m">>, <<"m", "^">>, <<"m", "*">>, <<"-", "m">>, <<"m", "-">>}

Exponents == {Zero, One, <<2, 1>>, <<-1, 1>>, <<-2, 1>>, <<1, 2>>, <<-2, 3>>, <<12, 1>>}
DimsOf(x, y, z) == Without0((M :> x) @@ (Kg :> y) @@ (S :> z))
DimSamples ==
  [kind : {"dims"}, scale : {One, <<1000, 1>>, <<7, 2>>},
   dims : {DimsOf(x, y, z) : x \in Exponents, y \in Exponents, z \in {Zero, One, <<-2, 1>>, <<-1, 2>>}}]

Measures == {M, Km, Meter, Am, DegC, K, <<"d", "e", "g", "F">>, DB, Np, Pct, <<"u", "n", "i">>, BM, Kg, <<"g">>,
             <<"K", "/", "m", "*", "m">>, <<"N">>, <<"k", "N">>, <<"k", "g", "*", "m", "/", "s", "2">>}
Read == [m \in Measures |-> ParseAtomic(m)]
Conversions ==
  [kind : {"conversion"}, from : Range(Read), via : {Read[c] : c \in {Km, K, Kg, Pct, Np}}, to : Range(Read),
   number : {Zero, One, Whole(10), Whole(20), Whole(-40)}]

Broken == UnitLine(<<"x">>, <<Text(<<"y">>), Text(L)>>, <<>>)
Unreads == UnitLine(<<"z">>, <<One0, Text(<<"x", "y">>)>>, <<>>)
NewLines == {
  Broken, Unreads, PrefixLine(<<"b">>, <<"b">>, NoNumber),
  P(Kilo, <<"k">>, 1024, 1), P(<<"y", "o">>, <<"y">>, 7, 1),
  U(Km, <<Num(<<"7">>, 7, 1), Text(L)>>, <<>>),
  U(<<"f", "t">>, <<Num(<<"3">>, 3, 1), Text(L)>>, <<<<"f", "t">>, <<"f", "o", "o", "t">>>>),
  U(<<"f", "o", "o", "t">>, <<Num(<<"3">>, 3, 1), Text(L), Text(Noprefix)>>, <<<<"f", "t">>, <<"f", "o", "o", "t">>>>),
  U(<<"y", "d">>, <<Num(<<"9">>, 9, 1), Text(L)>>, <<<<"y", "a">>>>),
  U(<<"u", "s">>, <<One0, Text(<<"$">>)>>, <<>>), U(<<"e", "u">>, <<Num(<<"2">>, 2, 1), Text(<<"$">>)>>, <<>>),
  U(<<"t", "o">>, <<One0, Text(L)>>, <<>>),
  U(DegC, <<Num(<<"2">>, 2, 1), Text(<<"O">>)>>, <<>>),
  U(<<"f", "p">>, <<Num(<<"2">>, 2, 1), Text(<<"N", "*", "m">>), Text(<<"f", "t", "*", "N">>)>>, <<>>),
  U(<<"b", "e", "l">>, <<Text(LogWord), Num(<<"5">>, 5, 1), One0, Text(<<"M", "*", "L">>)>>, <<>>),
  U(<<"l", "e">>, <<Text(LogWord), Num(<<"5">>, 5, 1), Num(<<"3">>, 3, 1), Text(<<"M", "*", "L">>)>>, <<>>),
  U(<<"r", "e">>, <<Num(<<"5", "/", "4">>, 5, 4), Num(<<"2", "1", ".", "5">>, 43, 2), Text(<<"O">>)>>, <<<<"r", "e">>, <<"a", "u">>>>) }
Confs ==
  [kind : {"conf"}, lines : UNION {{<<a>>, <<a, b>>, <<a, b, a>>} : a \in NewLines, b \in NewLines}]

Ratios == {Frac(n, d) : n \in {1, 2, 3, 18, 20, 21}, d \in {1, 2, 9, 20, 25}}
Decimals == {[sign |-> s, digits |-> n, point |-> p, exponent |-> e] :
               s \in {"+", "-"}, n \in {0, 1, 5, 20, 21, 50}, p \in 0..2, e \in {-4, -1, 0, 1, 2}}
Exacts == {[kind |-> "exact", left |-> a, right |-> b, power |-> i,
            decimal |-> [sign |-> "+", digits |-> a[1] * 10, point |-> 1, exponent |-> i]] : a \in Ratios, b \in Ratios, i \in -4..3}
            \cup {[kind |-> "exact", left |-> One, right |-> One, power |-> 0, decimal |-> d] : d \in Decimals}

Written == {[unit |-> u, number |-> x, exact |-> TRUE] :
               u \in {Km, DegC, K, DB, BM, <<>>, Pct, <<"N">>}, x \in {Whole(20)}}
              \cup {[unit |-> u, number |-> Whole(-10), exact |-> FALSE] : u \in {M, DegC, DB, <<>>, Rad}}
              \cup {[unit |-> u, number |-> One, exact |-> TRUE] : u \in {DegC, Np, <<>>, <<"g">>}}
              \cup {[unit |-> <<>>, number |-> Whole(-1), exact |-> TRUE]}
Unary == {"square", "inverse", "once", "half", "sqrt", "sin", "exp", "log", "log10"}
OtherUnits(u) ==
  CASE u \in {DegC} -> {<<"d", "e", "g", "F">>} [] u = K -> {<<"k", "K">>} [] u = DB -> {Np} [] u = Np -> {DB}
    [] u = BM -> {BM} [] u \in {<<>>, Pct} -> {Pct, <<>>} [] u = <<"g">> -> {Kg} [] u = Rad -> {Pct}
    [] u \in {M, Km} -> {Am} [] OTHER -> {<<"k", "g", "*", "m", "/", "s", "2">>}
Operands == {[quantity |-> New(Embedded, Number(o.number), o.exact, o.unit),
              others   |-> {Parse(Embedded, u) : u \in OtherUnits(o.unit)}] : o \in Written}
SampleOf(op, a, b, u, v) == [kind |-> "operation", op |-> op, left |-> a.quantity, right |-> b.quantity, in |-> <<u, v>>]
Operations ==
  UNION {{SampleOf(op, a, b, u, v) : op \in {"add", "sub", "mul", "div"}, u \in a.others, v \in b.others} :
           a \in Operands, b \in Operands}
    \cup UNION {{SampleOf(op, a, a, u, u) : op \in Unary, u \in a.others} : a \in Operands}

-----------------------------------------------------------------------------
(* Programs. The words of units, and what they stand for.                  *)
Spelled == ("m" :> M) @@ ("am" :> Am) @@ ("s" :> S) @@ ("kg" :> Kg) @@ ("K" :> K) @@ ("degC" :> DegC) @@ ("dB" :> DB)
             @@ ("rad" :> Rad) @@ ("m/s" :> M \o <<"/">> \o S)
Alone(name) == <<[word |-> CHOOSE w \in DOMAIN Spelled : Spelled[w] = name, op |-> NoOp]>>
WordOf(unit, name, kind, dimension) ==
  [unit |-> WithName(unit, name), facts |-> [dimension |-> dimension, kind |-> kind], chain |-> Alone(name)]
BasicWord(name, letter) == WordOf(Base(name), name, "other", letter :> One)
MCWords ==
  ("m" :> BasicWord(M, L)) @@ ("s" :> BasicWord(S, <<"T">>)) @@ ("kg" :> BasicWord(Kg, <<"M">>))
    @@ ("K" :> BasicWord(K, <<"O">>)) @@ ("rad" :> BasicWord(Rad, <<"A">>))
    @@ ("am" :> WordOf(WithExactScale(Base(M), Whole(2)), Am, "other", L :> One))
    @@ ("degC" :> WordOf(WithOffset(Base(K), <<547, 2>>), DegC, "point", <<"O">> :> One))
    @@ ("dB" :> WordOf(WithLog(Dimensionless, [factor |-> Ten, reference |-> One]), DB, "other", NoDims))
    @@ ("m/s" :> [WordOf(DivUnits(Base(M), Base(S)), Spelled["m/s"], "other", (L :> One) @@ (<<"T">> :> Whole(-1)))
                    EXCEPT !.chain = <<[word |-> "m", op |-> NoOp], [word |-> "s", op |-> "/"]>>])
ChainIn(text) ==
  LET tokens == UnitChainTokens(text)
  IN  [i \in DOMAIN tokens |-> [word |-> CHOOSE w \in DOMAIN Spelled : Spelled[w] = tokens[i].text, op |-> tokens[i].op]]
ASSUME WordsAreRead ==
  \A w \in DOMAIN MCWords :
    MCWords[w] = [unit |-> Parse(Embedded, Spelled[w]), facts |-> Facts(Embedded, Spelled[w]), chain |-> ChainIn(Spelled[w])]

Lit(n, unit) == [e |-> "quantity", number |-> n, exact |-> TRUE, unit |-> unit]
Assign(n, x) == [s |-> "assign", name |-> n, value |-> x]
Operator(op, l, r) == IF op \in Comparisons THEN CallOf(op, <<l, r>>) ELSE Binary(op, l, r)
Two == Lit(Whole(2), NoWord)
Length == Lit(Whole(3), "m")
Celsius == Lit(Whole(20), "degC")
Kelvins == Lit(Whole(4), "K")
Literals == {Two, Length, Lit(Whole(5), "am"), Celsius, Kelvins}
Ops == {"add", "sub", "mul", "div", "pow", "op_<"}
X == Name("x")
Y == Name("y")

(* Two operations, one after the other, so that the numbers stay small.    *)
IsSmall(o, p, c) == p = "pow" \/ c = X => o \in {"add", "sub"}
Straight ==
  UNION {{<<Assign("x", Operator(o, a, b)), Assign("y", Operator(p, X, c))>> : a \in Literals, b \in Literals \ {Two}} :
           <<o, p, c>> \in {t \in {"add", "sub", "mul", "div"} \X Ops \X (Literals \cup {X, Name("foo")}) : IsSmall(t[1], t[2], t[3])}}

(* A function of one parameter with or without a unit, whose body uses     *)
(* what is bound around it, and its calls.                                 *)
FunctionOf1(unit, implicit, body) == Named("f", [FunctionOver(<<"p">>, <<unit>>, body) EXCEPT !.implicit = implicit])
Defined(f) == [s |-> "fn", f |-> f]
Called(unit, implicit, o, b, a, p, c) ==
  <<Assign("x", b), Defined(FunctionOf1(unit, implicit, Operator(o, Name("p"), X))),
    Assign("y", CallOf("f", <<a>>)), Assign("z", Operator(p, Y, c))>>
Calls ==
  {Called(unit, implicit, o, b, a, p, c) :
     unit \in {NoWord, "m", "degC", "foo"}, implicit \in BOOLEAN, o \in {"add", "mul"}, b \in {Length, Kelvins},
     a \in Literals \cup {Name("foo")}, p \in {"sub", "op_<"}, c \in {Length, Celsius}}

(* Builtins, conversions, conditions, loops and what is bound in passing.  *)
Let(n, x, body) == CallOf("let", <<Name(n), x, body>>)
Less2(a, b) == CallOf("op_<", <<a, b>>)
Guarded(cond, x, y) == [FunctionOf1("m", FALSE, y) EXCEPT !.body = <<[s |-> "guard", cond |-> cond, value |-> x]>> \o @]
Loop(cond, x) == [s |-> "while", cond |-> cond, body |-> <<Assign("x", x)>>]
Each(n, items, body) == [e |-> "for", var |-> n, iterable |-> items, body |-> body]
Various(a, b) ==
  {<<Assign("x", a), Assign("y", CallOf(fn, <<X>>)), Assign("z", Binary("add", Y, b))>> : fn \in UnaryNames \cup {"round", "uncertainty"}}
    \cup {<<Assign("x", Binary("convert", a, Name(u))), Assign("y", Operator(o, X, b))>> : u \in {"m", "degC", "foo"}, o \in {"add", "mul"}}
    \cup {<<Assign("x", CallOf("ternary", <<Less2(a, a), a, b>>)), Assign("y", Operator("mul", X, b))>>,
          <<Assign("x", CallOf("op_and", <<Less2(a, b), Less2(a, a)>>)), Assign("y", CallOf("op_not", <<X>>))>>,
          <<Assign("x", Each("i", CallOf("vector", <<a, b>>), Binary("mul", Name("i"), Length))), Assign("y", Binary("add", X, Length))>>,
          <<Assign("x", Each("i", Binary("range", Two, Lit(Whole(4), NoWord)), Binary("add", Name("i"), a))), [s |-> "expr", value |-> X]>>,
          <<Assign("x", Let("t", a, Binary("add", Name("t"), b)))>>,
          <<Assign("x", b), Defined(Guarded(Less2(Name("p"), X), Binary("mul", X, X), X)), Assign("y", CallOf("f", <<a>>)),
            Assign("z", Binary("add", Y, b))>>,
          <<Defined([FunctionOf1(NoWord, FALSE, Binary("mul", Name("p"), Two)) EXCEPT !.requires = <<Less2(Name("p"), a)>>]),
            Assign("y", CallOf("f", <<b>>)), Assign("z", Binary("add", Y, b))>>}
Looped == {<<Assign("x", a), Loop(Less2(X, b), Binary("add", X, b)), Assign("y", Binary("sub", X, Length))>> :
             a \in Literals \ {Celsius}, b \in Literals \ {Celsius}}
Extremes == {<<Assign("x", CallOf(fn, <<a, b>>)), Assign("y", Binary("add", X, b))>> :
               fn \in {"min", "max"}, a \in Literals \ {Celsius}, b \in Literals \ {Celsius}}
Mixed == Looped \cup Extremes \cup UNION {Various(a, b) : a \in Literals, b \in Literals}
Programs == [kind : {"program"}, program : Straight \cup Calls \cup Mixed]

(* Programs of which the check says too much: the test of a sign, a point  *)
(* with a sign, the greater of two kinds of temperature, a text converted, *)
(* a name bound where a function is called, a function defined anew.       *)
Doubtful == {
  <<Assign("x", Length), Assign("y", Less2(Lit(Zero, NoWord), X))>>,
  <<Assign("x", Binary("mul", Lit(Whole(-1), NoWord), Celsius))>>,
  <<Assign("x", CallOf("max", <<Celsius, Lit(Whole(400), "K")>>)), Assign("y", Binary("mul", X, Two))>>,
  <<Assign("x", Binary("convert", Name("foo"), Name("m"))), Assign("y", Less2(X, Kelvins))>>,
  <<Defined(FunctionOf1(NoWord, FALSE, Binary("add", Name("p"), Name("t")))),
    Assign("y", Let("t", Length, CallOf("f", <<Length>>)))>>,
  <<Defined(FunctionOf1(NoWord, FALSE, Name("p"))), Assign("x", CallOf("f", <<Length>>)),
    Defined(FunctionOf1(NoWord, FALSE, Binary("mul", Name("p"), Name("p")))),
    Assign("y", Binary("add", CallOf("f", <<Length>>), Binary("mul", Length, Length)))>> }
MCDoubtful == {[kind |-> "program", program |-> p] : p \in Doubtful}

-----------------------------------------------------------------------------
(* Sources: what binds a unit's name, and what has that unit in a literal. *)
Source(program) == [parses |-> TRUE, program |-> program]
Metres == Lit(Whole(3), "m")
Speed == Lit(Whole(6), "m/s")
Binding == {
  Assign("m", Two), Assign("m", Metres), Assign("s", Lit(Whole(5), NoWord)), Defined(Named("m", FunctionOver(<<"p">>, <<NoWord>>, Two))),
  Assign("x", Let("m", Two, Binary("mul", Name("m"), Two))), Assign("x", Let("m", Metres, Binary("mul", Name("m"), Metres))),
  Assign("x", Let("s", Two, Speed)),
  Assign("x", Each("m", CallOf("vector", <<Two, Two>>), Binary("mul", Name("m"), Metres))),
  Defined([FunctionOf1(NoWord, FALSE, Binary("mul", Name("m"), Two)) EXCEPT !.params = <<"m">>]),
  Defined([FunctionOf1(NoWord, FALSE, Binary("mul", Two, Metres)) EXCEPT !.params = <<"m">>]),
  Defined([FunctionOf1(NoWord, FALSE, Binary("mul", Name("s"), Name("p"))) EXCEPT !.body = <<Assign("s", Two)>> \o @]) }
Spelling == {
  Assign("y", Metres), Assign("y", Speed), Yields(Binary("mul", Name("x"), Metres)), Defined(FunctionOf1("m", FALSE, Binary("add", Name("p"), Metres))),
  Assign("y", CallOf("f", <<Two>>)), Assign("y", CallOf("f", <<Metres>>)), Assign("x", Metres),
  [s |-> "while", cond |-> Less2(X, Lit(Whole(9), "m")), body |-> <<Assign("x", Binary("add", X, Metres)), Assign("m", Two)>>],
  [s |-> "guard", cond |-> Less2(Speed, Speed), value |-> Metres] }
Sources ==
  [kind : {"source"}, source : {Source(<<a, b, c>>) : a \in Binding, b, c \in Spelling}
                                 \cup {Source(<<a, b>>) : a, b \in Binding \cup Spelling}]

(* A module, what it exports, and what is imported from it.                *)
Exports(symbol, name) == [s |-> "export", symbol |-> symbol, name |-> name]
Uses(specifier, symbols) == [s |-> "import", path |-> "mod", specifier |-> specifier, symbols |-> symbols]
As(name, alias) == [name |-> name, alias |-> alias]
OfModule == {
  Assign("a", Metres), Assign("a", Two), Assign("b", Binary("mul", Name("a"), Two)), Defined(FunctionOf1("m", FALSE, Name("p"))),
  Defined(FunctionOf1("s", FALSE, Binary("mul", Name("p"), Two))), Assign("f", Two), Exports("a", "a"), Exports("b", "q"), Exports("f", "a"),
  Exports("c", "c") }
Specifiers == {Uses("all", <<>>), Uses("module", <<>>), Uses("some", <<As("a", "t"), As("b", "a")>>),
               Uses("some", <<As("f", "a"), As("q", "q")>>)}
File(place, source) == [place |-> place, source |-> source]
OfModules == {File("inside", Source(<<a, b, c>>)) : a \in {Assign("a", Metres), Assign("a", Two)}, b, c \in OfModule}
Imports ==
  [kind : {"import"}, file : OfModules, use : Specifiers, order : {<<"a", "b", "f", "q">>, <<"q", "b", "a", "f">>}]

(* Packages: a module, an entry, and what is there when they are read      *)
(* again.                                                                  *)
Unread == [parses |-> FALSE, program |-> <<>>]
Modules == {<<Defined(FunctionOf1("m", FALSE, Name("p"))), Defined(FunctionOf1("s", FALSE, Name("p")))>>,
            <<Defined(FunctionOf1("m", FALSE, Name("p"))), Assign("f", Two)>>, <<Assign("a", Binary("add", Two, Metres))>>,
            <<Assign("m", Two), Assign("a", Metres)>>, <<Uses("all", <<>>), Assign("b", Binary("mul", Name("a"), Two))>>}
PackedFiles == {File("inside", Source(p)) : p \in Modules} \cup {File(place, Unread) : place \in {"inside", "missing", "directory"}}
                 \cup {File("outside", Source(<<>>))}
Manifests == {[named |-> TRUE, versioned |-> TRUE, entry |-> e, exports |-> x] :
                e \in {NoPath, "main"}, x \in {"one" :> "mod", ("one" :> "mod") @@ ("two" :> "main")}}
Misnamed == {[m EXCEPT !.named = n, !.versioned = ~ n] : m \in Manifests, n \in BOOLEAN}
Entry == File("inside", Source(<<Assign("a", Two)>>))
OnDisk(mod, main) == ("mod" :> mod) @@ ("main" :> main)
Packed(m, f, h, k, x) ==
  [kind |-> "package", manifest |-> m, files |-> OnDisk(f, Entry), again |-> OnDisk(h, k), execute |-> x, order |-> <<"a", "b">>]
Packages ==
  {Packed(m, f, h, k, x) : m \in Manifests, f, h \in PackedFiles, k \in {Entry, File("inside", Unread)}, x \in BOOLEAN}
    \cup {Packed(m, f, f, Entry, FALSE) : m \in Misnamed, f \in PackedFiles}

(* Functions f of one module called on what g of another gives.            *)
Making(name, params, units, body) == Defined(Named(name, FunctionOver(params, units, body)))
Bounded(s, limit) == [s EXCEPT !.f.requires = <<Less2(Name("p"), limit)>>]
P1 == Name("p")  Q1 == Name("q")  T1 == Name("t")
Outers == {
  <<Making("f", <<"p", "q">>, <<"m", NoWord>>, Binary("sub", P1, Q1))>>,
  <<Making("f", <<"q", "p">>, <<>>, Binary("div", P1, Q1))>>,
  <<Bounded(Making("f", <<"q", "p", "r">>, <<"s">>, Binary("mul", Binary("sub", P1, Name("r")), Q1)), Lit(Whole(5), "m"))>>,
  <<Assign("k", Metres), Making("f", <<"p">>, <<NoWord>>, Binary("add", P1, Name("k")))>>,
  <<Making("f", <<"p">>, <<NoWord>>, Binary("add", P1, T1))>>,
  <<Making("f", <<"p", "q">>, <<>>, P1), Assign("f", Two)>> }
Inners == {
  <<Making("g", <<"t">>, <<NoWord>>, Binary("mul", T1, Two))>>, <<Making("g", <<"t", "u">>, <<"m">>, Binary("sub", T1, Name("u")))>>,
  <<Assign("h", Two), Making("g", <<"u", "t">>, <<>>, Binary("div", T1, Name("h")))>>,
  <<Bounded(Making("g", <<"p">>, <<"m">>, P1), Two)>>, <<Assign("k", Two), Making("g", <<>>, <<>>, Name("k"))>> }
Compositions ==
  [kind : {"composition"}, outer : Outers, inner : Inners, bind : {"p", "q"},
   given : {[[n \in {"p", "q", "r", "t", "u"} |-> x] EXCEPT ![one] = y] :
               one \in {"p", "q", "r", "t", "u"}, x, y \in {Two, Metres, Lit(Whole(4), "s")}}]

(* Functions with decorators.                                              *)
Decorator(name, args) == [name |-> name, args |-> args]
Contract(name, cond) == Decorator(name, <<cond, [e |-> "str", w |-> "holds"]>>)
InRange(lo, hi) == Decorator("range", <<P1, lo, hi>>)
Decorators == {
  InRange(Two, Lit(Whole(5), NoWord)), InRange(Two, Lit(Whole(5), "m")), InRange(Lit(Whole(1), "am"), Lit(Whole(5), "m")),
  InRange(Kelvins, Celsius), InRange(Lit(Whole(10), "degC"), Celsius), Decorator("range", <<Two, Two, Two>>),
  Contract("requires", Less2(P1, Lit(Whole(3), "am"))), Contract("ensures", Less2(Name("result"), Lit(Whole(5), "m"))),
  Contract("ensures", Less2(P1, Name("result"))), Decorator("ensures", <<P1>>), Decorator("implicit_units", <<>>),
  Decorator("stable", <<>>), Decorator("experimental", <<>>), Decorator("precision", <<Two>>), Decorator("bogus", <<>>) }
Decorated1(param, unit, body) == Named("f", [FunctionOver(<<param>>, <<unit>>, Two) EXCEPT !.body = body])
DecoratedFns == {
  Decorated1("p", NoWord, <<Yields(P1)>>), Decorated1("p", "m", <<Yields(Binary("mul", P1, Two))>>),
  Decorated1("p", "m", <<Assign("p", Binary("mul", P1, Two)), Yields(P1)>>), Decorated1("p", "degC", <<Yields(Kelvins)>>),
  Decorated1("result", NoWord, <<Yields(Binary("mul", Name("result"), Two))>>) }
DecoratedSamples ==
  [kind : {"decorated"}, decorators : UNION {{<<d>>, <<d, e>>} : d \in Decorators, e \in Decorators}, f : DecoratedFns,
   arg : {Two, Metres, Lit(Whole(2), "am"), Celsius, Lit(Whole(4), NoWord)}]

MCSamples ==
  DimSamples \cup [kind : {"text"}, text : Texts] \cup Conversions \cup Confs \cup Programs \cup Sources \cup Imports
    \cup Compositions \cup DecoratedSamples \cup Operations \cup Exacts \cup Packages
=============================================================================
