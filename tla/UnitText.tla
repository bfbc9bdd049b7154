------------------------------ MODULE UnitText ------------------------------
(***************************************************************************)
(* The texts of units and of their catalogs. Unit expressions              *)
(* (physure-core/src/units/parser.rs): text, tokens and                    *)
(* the unit they stand for, against a registry or symbol by symbol. Every  *)
(* parse error is the one value Unreadable; the tokens are taken all at    *)
(* once, where the code takes them one by one.                             *)
(***************************************************************************)
EXTENDS Quantity

CONSTANT Standard       \* from dimension symbols to base units

Atomic == [atomic |-> TRUE]              \* no registry: symbols are their own dimensions
Unreadable == [unreadable |-> TRUE]

Digits == Range(DigitChars)
Layout == {" ", "(", ")", "*", "/", "^", ".", "-"}
IsUnitChar(c) == c \notin Digits \cup Layout

(* normalize_unicode                                                       *)
Plain(c) ==
  CASE c \in Range(Raised) -> DigitChars[CHOOSE i \in 1..10 : Raised[i] = c]
    [] c = "^-" -> "-"
    [] c = "·"  -> "*"
    [] OTHER -> c
Normalized(text) == [i \in DOMAIN text |-> Plain(text[i])]

RunOf(text, S) == CHOOSE n \in 0..Len(text) :
  /\ \A i \in 1..n : text[i] \in S
  /\ n = Len(text) \/ text[n + 1] \notin S
ReadDigits(digits) ==
  FoldLeft(LAMBDA n, c : 10 * n + ((CHOOSE i \in 1..10 : DigitChars[i] = c) - 1), 0, digits)
From(text, i) == SubSeq(text, i, Len(text))

Token(kind, value) == [kind |-> kind, value |-> value]

(* Lexer::number, after its sign: what it reads and how long it is.        *)
DigitsAfterPoint(text, whole) ==
  IF Len(text) > whole + 1 /\ text[whole + 1] = "." /\ text[whole + 2] \in Digits
  THEN RunOf(From(text, whole + 2), Digits) ELSE 0
LexNumber(text, sign) ==
  LET number(whole, after) ==
        [token  |-> Token("number", Frac(sign * ReadDigits(SubSeq(text, 1, whole) \o SubSeq(text, whole + 2, whole + 1 + after)),
                                         10^after)),
         length |-> whole + IF after > 0 THEN 1 + after ELSE 0]
      from(whole) == number(whole, DigitsAfterPoint(text, whole))
  IN  from(RunOf(text, Digits))

RECURSIVE Lexed(_)
Lexed(text) ==
  LET c       == Head(text)
      then(kind, n) == <<Token(kind, Zero)>> \o Lexed(From(text, n + 1))
      then1(r, n) == <<r.token>> \o Lexed(From(text, n + r.length))
      number(sign, n) == then1(LexNumber(From(text, n), sign), n)
      symbol  == RunOf(text, {x \in Range(text) : IsUnitChar(x) \/ x \in Digits})
  IN  CASE text = <<>> -> <<>>
        [] text # <<>> /\ c = " " -> Lexed(Tail(text))
        [] text # <<>> /\ c \in {"(", ")", "/", "^"} -> then(c, 1)
        [] text # <<>> /\ c = "*" ->
             IF Len(text) > 1 /\ text[2] = "*" THEN then("^", 2) ELSE then("*", 1)
        [] text # <<>> /\ (c \in Digits \/ (c = "-" /\ Len(text) > 1 /\ text[2] \in Digits)) ->
             IF c = "-" THEN number(-1, 2) ELSE number(1, 1)
        [] text # <<>> /\ IsUnitChar(c) ->
             <<Token("symbol", SubSeq(text, 1, symbol))>> \o Lexed(From(text, symbol + 1))
        [] OTHER -> <<Token("bad", Zero)>>

(* split_embedded_exponent: the first suffix that is a number, unless it   *)
(* is zero. A symbol token holds no sign.                                  *)
SplitEmbeddedExponent(symbol) ==
  LET ends == {i \in 2..Len(symbol) : \A j \in i..Len(symbol) : symbol[j] \in Digits}
      split(i, n) == IF n # 0 THEN [name |-> SubSeq(symbol, 1, i - 1), exponent |-> Whole(n)]
                     ELSE [name |-> symbol, exponent |-> One]
      splitAt(i) == split(i, ReadDigits(From(symbol, i)))
  IN  IF ends = {} THEN [name |-> symbol, exponent |-> One]
      ELSE splitAt(CHOOSE x \in ends : \A y \in ends : x <= y)

-----------------------------------------------------------------------------
(* The parser. Reading gives a unit and the tokens left, or Unreadable.    *)
Reading(u, rest) == [unit |-> u, rest |-> rest]
Kind(tokens) == IF tokens = <<>> THEN "eof" ELSE Head(tokens).kind

Checked(operands, result, rest) ==
  IF LosesLevel(operands, result) THEN Unreadable ELSE Reading(result, rest)
Power(base, e, rest) == Checked({base}, PowUnit(base, e), rest)

SymbolUnit(reg, name) ==
  LET known(u) == IF u = Nothing THEN Unreadable ELSE u
  IN  IF reg = Atomic THEN NewFromDimensions(name :> One) ELSE known(GetUnit(reg, name))

ParseSymbol(reg, symbol, rest) ==
  LET raised(u, split) ==
        CASE u = Unreadable -> Unreadable
          [] u # Unreadable /\ split.name = symbol -> Reading(u, rest)
          [] OTHER -> Power(u, split.exponent, rest)
      read(split) == raised(SymbolUnit(reg, split.name), split)
  IN  read(SplitEmbeddedExponent(symbol))

(* A number, (n) or (n/d); the denominators inside parentheses are lost.   *)
ParseExponent(tokens) ==
  LET is(i, kind) == Len(tokens) >= i /\ tokens[i].kind = kind
      numer(i) == tokens[i].value[1]
  IN  CASE is(1, "number") -> [exponent |-> tokens[1].value, rest |-> Tail(tokens)]
        [] is(1, "(") /\ is(2, "number") /\ is(3, ")") ->
             [exponent |-> Whole(numer(2)), rest |-> From(tokens, 4)]
        [] is(1, "(") /\ is(2, "number") /\ is(3, "/") /\ is(4, "number") /\ is(5, ")") /\ numer(4) # 0 ->
             [exponent |-> Frac(numer(2), numer(4)), rest |-> From(tokens, 6)]
        [] OTHER -> Unreadable

RaisedReading(read) ==
  LET raised(e) == IF e = Unreadable THEN Unreadable ELSE Power(read.unit, e.exponent, e.rest)
  IN  CASE read = Unreadable -> Unreadable
        [] read # Unreadable /\ Kind(read.rest) = "^" -> raised(ParseExponent(Tail(read.rest)))
        [] read # Unreadable /\ Kind(read.rest) = "number" -> raised(ParseExponent(read.rest))
        [] OTHER -> read

RECURSIVE ParseExpr(_, _)
FactorBase(reg, tokens) ==
  LET closed(inner) ==
        IF inner = Unreadable THEN Unreadable
        ELSE IF Kind(inner.rest) # ")" THEN Unreadable ELSE Reading(inner.unit, Tail(inner.rest))
  IN  CASE Kind(tokens) = "symbol" -> ParseSymbol(reg, Head(tokens).value, Tail(tokens))
        [] Kind(tokens) = "(" -> closed(ParseExpr(reg, Tail(tokens)))
        [] Kind(tokens) = "number" /\ Head(tokens).value = One -> Reading(Dimensionless, Tail(tokens))
        [] OTHER -> Unreadable
ParseFactor(reg, tokens) == RaisedReading(FactorBase(reg, tokens))

RECURSIVE MoreFactors(_, _)
MoreFactors(reg, left) ==
  LET kind == Kind(left.rest)
      product(right) ==
        IF right = Unreadable THEN Unreadable
        ELSE Checked({left.unit, right.unit},
                     IF kind = "/" THEN DivUnits(left.unit, right.unit) ELSE MulUnits(left.unit, right.unit),
                     right.rest)
  IN  CASE left = Unreadable -> Unreadable
        [] left # Unreadable /\ kind \in {"*", "/", "symbol", "("} ->
             MoreFactors(reg, product(ParseFactor(reg, IF kind \in {"*", "/"} THEN Tail(left.rest) ELSE left.rest)))
        [] OTHER -> left

ParseExpr(reg, tokens) ==
  IF tokens = <<>> THEN Reading(Dimensionless, <<>>) ELSE MoreFactors(reg, ParseFactor(reg, tokens))

(* parse_expression_impl                                                   *)
Parse(reg, text) ==
  LET whole(read) ==
        IF read = Unreadable THEN Unreadable
        ELSE IF read.rest # <<>> THEN Unreadable ELSE WithName(read.unit, text)
  IN  whole(ParseExpr(reg, Lexed(Normalized(text))))
ParseAtomic(text) == Parse(Atomic, text)
(* facts: what the registry says of a unit text.                           *)
Facts(reg, text) ==
  LET of(atomic, unit) ==
        CASE atomic = Unreadable -> Refused
          [] atomic # Unreadable /\ DimensionOf(reg, unit) = Refused -> Refused
          [] OTHER -> [dimension |-> DimensionOf(reg, unit), kind |-> IF IsPoint(reg, unit) THEN "point" ELSE "other"]
      from(atomic) == of(atomic, IF atomic = Unreadable THEN Dimensionless ELSE Simplify(reg, atomic))
  IN  from(ParseAtomic(text))

(* Quantities in a unit that is read: new, with_uncertainty, to.           *)
New(reg, mean, exact, text) ==
  LET of(u) == IF u = Unreadable THEN Refused ELSE Measured(mean, exact, u) IN of(Parse(reg, text))
To(reg, q, text) == LET to(u) == IF u = Unreadable THEN Refused ELSE ConvertTo(q, u) IN to(Parse(reg, text))

-----------------------------------------------------------------------------
(***************************************************************************)
(* Reading a physure.conf into a registry (physure-core/src/units/conf.rs):*)
(* prefixes and base units first, then every unit line in order. A line is *)
(* a record of its section; a unit line has its key, the names listed in   *)
(* brackets and its fields, each a word with the number it reads as.       *)
(***************************************************************************)
NoNumber == <<>>
Noprefix == <<"noprefix">>
OwnKind  == <<"own_kind">>
LogWord  == <<"Log">>

PrefixLine(name, symbol, factor) ==
  [section |-> "Prefixes", name |-> name, symbol |-> symbol, factor |-> factor]
UnitLine(key, fields, listed) ==
  [section |-> "Units", key |-> key, fields |-> fields, listed |-> listed]
Field(word, number) == [word |-> word, number |-> number]

(* The names of a line: its symbol is the first listed, or the key if the  *)
(* key is not listed.                                                      *)
AliasesOf(line) == IF Contains(line.listed, line.key) THEN line.listed ELSE <<line.key>> \o line.listed
NamesOf(line)   == IF Contains(line.listed, line.key) THEN line.listed ELSE line.listed \o <<line.key>>
SymbolOf(line)  == AliasesOf(line)[1]
HasFlag(line, flag) == \E i \in DOMAIN line.fields : line.fields[i].word = flag
ValueFields(line) == SelectSeq(line.fields, LAMBDA f : f.word \notin {Noprefix, OwnKind})

IsSingleIdent(word) == word # <<>> /\ \A i \in DOMAIN word : word[i] \notin Layout
PlainDecimal(f) == IF f.number = NoNumber \/ Contains(f.word, "/") THEN Zero ELSE f.number

-----------------------------------------------------------------------------
(* The first pass.                                                         *)
ReadPrefix(state, line) ==
  IF line.factor = NoNumber THEN [state EXCEPT !.problems = Append(@, line)]
  ELSE [state EXCEPT !.reg = AddPrefixName(AddPrefix(@, line.symbol, line.factor), line.name, line.symbol)]

(* declare_base_unit: the first line at scale 1 of a dimension symbol, and *)
(* those that are a kind of their own.                                     *)
DeclareBaseUnit(state, line) ==
  LET fields == line.fields
      d == fields[2].word
      symbol == SymbolOf(line)
      first == d \notin DOMAIN state.dimToBase
  IN  IF /\ Len(fields) >= 2 /\ PlainDecimal(fields[1]) = One
         /\ d # <<"1">> /\ IsSingleIdent(d)
         /\ first \/ HasFlag(line, OwnKind)
      THEN [state EXCEPT !.dimToBase = IF first THEN Put(@, d, symbol) ELSE @,
                         !.reg = [AddBaseUnit(@, symbol) EXCEPT !.baseDimension = Put(@, symbol, d)]]
      ELSE state

FirstPass(state, line) ==
  IF line.section = "Prefixes" THEN ReadPrefix(state, line) ELSE DeclareBaseUnit(state, line)

(* register_fallback_bases, for the catalog's standard dimensions.         *)
RegisterFallbackBases(state) ==
  LET bases == Range(Standard) \ DOMAIN state.reg.baseUnits
      known == state.dimToBase @@ Standard
      reg1  == [state.reg EXCEPT !.baseUnits = @ @@ [b \in bases |-> NewFromDimensions(b :> One)]]
      named == [b \in Range(known) |-> CHOOSE d \in DOMAIN known : known[d] = b]
  IN  [state EXCEPT !.dimToBase = known,
                    !.reg = [reg1 EXCEPT !.baseDimension = @ @@ named, !.dimensionBase = known]]

-----------------------------------------------------------------------------
(* The second pass.                                                        *)
(* normalize_dimension_symbols: a letter that nothing alphanumeric follows *)
(* and that is a dimension symbol becomes its base unit.                   *)
NormalizeDimensions(word, dimToBase) ==
  FlattenSeq([i \in DOMAIN word |->
    IF (i = Len(word) \/ word[i + 1] \in Layout) /\ <<word[i]>> \in DOMAIN dimToBase
    THEN dimToBase[<<word[i]>>] ELSE <<word[i]>>])

Problem(state, line) == [state EXCEPT !.problems = Append(@, line)]

RegisterAliases(reg, line) ==
  LET symbol  == SymbolOf(line)
      names   == Range(AliasesOf(line))
      flagged == [reg EXCEPT !.noPrefix = IF HasFlag(line, Noprefix) THEN @ \cup names ELSE @ \ names]
      keyed   == RegisterAlias(NoteAliases(flagged, symbol, NamesOf(line)), line.key, symbol)
  IN  FoldLeft(LAMBDA r, n : RegisterAlias(r, n, symbol), keyed,
              SelectSeq(AliasesOf(line), LAMBDA n : n # symbol))

WithUnit(state, added, line) == [state EXCEPT !.reg = RegisterAliases(added, line)]

LevelQuantity(state, word) ==
  IF word = <<"1">> THEN Dimensionless ELSE Parse(state.reg, NormalizeDimensions(word, state.dimToBase))
RegisterLevel(state, line, fields) ==
  LET level(quantity, log) ==
        IF quantity = Unreadable THEN Problem(state, line)
        ELSE WithUnit(state, AddLevel(state.reg, SymbolOf(line), quantity, log), line)
  IN  IF Len(fields) >= 4 /\ fields[2].number # NoNumber /\ fields[3].number # NoNumber
      THEN level(LevelQuantity(state, fields[4].word),
                 [factor |-> fields[2].number, reference |-> fields[3].number])
      ELSE Problem(state, line)

HasZeroPoint(fields) == Len(fields) > 2 /\ fields[2].number # NoNumber
OffsetOf(fields) == IF HasZeroPoint(fields) THEN fields[2].number ELSE Zero
DimIndex(fields) == IF HasZeroPoint(fields) THEN 3 ELSE 2
WordAt(fields, i) == IF i <= Len(fields) THEN fields[i].word ELSE <<>>
DimWord(fields) == IF Len(fields) >= DimIndex(fields) THEN WordAt(fields, DimIndex(fields)) ELSE <<"1">>

RegisterOnBase(reg, symbol, base, factor, offset) ==
  CASE offset # Zero -> AddAffineUnit(reg, symbol, base, factor, offset)
    [] offset = Zero /\ factor = One /\ symbol = base -> AddBaseUnit(reg, symbol)
    [] OTHER -> AddScaledUnit(reg, symbol, base, factor)

(* register_recipe_unit: the recipe if it reads, else the dimension.       *)
OrDimension(state, fields, read) ==
  IF read # Unreadable THEN read ELSE Parse(state.reg, NormalizeDimensions(DimWord(fields), state.dimToBase))
RecipeUnit(state, fields) ==
  LET recipe == WordAt(fields, DimIndex(fields) + 1)
  IN  OrDimension(state, fields, IF recipe = <<>> THEN Unreadable ELSE Parse(state.reg, recipe))
(* A variant with a bug: the factor before a recipe is not applied.        *)
RegisterUnscaled(state, line, fields) ==
  LET register(u) == IF u = Unreadable THEN Problem(state, line)
                     ELSE WithUnit(state, AddDerivedUnit(state.reg, SymbolOf(line), WithOffset(u, OffsetOf(fields))), line)
  IN  register(RecipeUnit(state, fields))
RegisterRecipeUnit(state, line, fields) ==
  LET factor == fields[1].number
      isRecipe == WordAt(fields, DimIndex(fields) + 1) # <<>> /\ factor = One /\ OffsetOf(fields) = Zero
      noted(u) == IF isRecipe THEN NoteRecipe(state.reg, SymbolOf(line), u.dims, NamesOf(line)) ELSE state.reg
      register(u) == WithUnit(state, AddDerivedUnit(noted(u), SymbolOf(line), u), line)
      read(parsed) == IF parsed = Unreadable THEN Problem(state, line)
                      ELSE register(WithOffset(Scaled(parsed, factor), OffsetOf(fields)))
  IN  read(RecipeUnit(state, fields))

RegisterMeasured(state, line, fields, factor, d, base) ==
  CASE d = <<"1">> -> WithUnit(state, AddDerivedUnit(state.reg, SymbolOf(line), Unit(NoDims, factor, TRUE)), line)
    [] d # <<"1">> /\ base # <<>> ->
         WithUnit(state, RegisterOnBase(state.reg, SymbolOf(line), base, factor, OffsetOf(fields)), line)
    [] OTHER -> RegisterRecipeUnit(state, line, fields)
RegisterUnit(state, line, fields, d) ==
  CASE fields = <<>> -> Problem(state, line)
    [] fields # <<>> /\ fields[1].word = LogWord -> RegisterLevel(state, line, fields)
    [] fields # <<>> /\ fields[1].word # LogWord /\ fields[1].number = NoNumber -> Problem(state, line)
    [] OTHER -> RegisterMeasured(state, line, fields, fields[1].number, d, At(state.dimToBase, d))
ParseUnitLine(state, line) == RegisterUnit(state, line, ValueFields(line), DimWord(ValueFields(line)))
RECURSIVE ParseUnitLines(_, _)
ParseUnitLines(state, lines) ==
  IF lines = <<>> THEN state ELSE ParseUnitLines(ParseUnitLine(state, Head(lines)), Tail(lines))

(* parse_conf, the lenient reading of the catalogs, and extend_registry.   *)
ParseConf(reg, lines) ==
  LET start  == [reg |-> reg, dimToBase |-> reg.dimensionBase, problems |-> <<>>]
      passed == RegisterFallbackBases(FoldLeft(FirstPass, start, lines))
      units  == SelectSeq(lines, LAMBDA l : l.section = "Units")
  IN  ParseUnitLines(passed, units)

ExtendRegistry(reg, lines) ==
  LET kept(read) == IF read.problems = <<>> THEN read ELSE [read EXCEPT !.reg = reg]
  IN  kept(ParseConf(reg, lines))
=============================================================================
