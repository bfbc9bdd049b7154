------------------------------ MODULE SymbolicText ------------------------------
(* The text of a symbolic expression: what a tree prints as                *)
(* (symbolic/display.rs) and what a text is read as (symbolic/parser.rs).  *)
(* A text is the sequence of its tokens: a number, a word or an operator.  *)
EXTENDS Calculus

NumberToken(q) == [kind |-> "number", value |-> q]
WordToken(w)   == [kind |-> "word", text |-> w]
OpToken(o)     == [kind |-> "op", text |-> o]
Op(o)          == <<OpToken(o)>>
Word(w)        == <<WordToken(w)>>

(***************************************************************************)
(* Printing.                                                               *)
(***************************************************************************)
FunctionNames == [Sin |-> "sin", Cos |-> "cos", Tan |-> "tan", Cot |-> "cot",
  Sec |-> "sec", Csc |-> "csc", Arcsin |-> "asin", Arccos |-> "acos",
  Arctan |-> "atan", Arccot |-> "acot", Arcsec |-> "asec", Arccsc |-> "acsc",
  Sinh |-> "sinh", Cosh |-> "cosh", Tanh |-> "tanh", Coth |-> "coth",
  Sech |-> "sech", Csch |-> "csch", Ln |-> "ln", Exp |-> "exp", Abs |-> "abs",
  Sqrt |-> "sqrt"]

(* Mutant: products bind as tightly as quotients.                          *)
PrecedenceFlat(e) ==
  CASE e.op = "Equation" -> 0
    [] e.op \in {"Add", "Sub"} -> 1
    [] e.op \in {"Mul", "Div"} -> 3
    [] e.op = "Pow" -> 4
    [] OTHER -> 5

Precedence(e) ==
  CASE e.op = "Equation" -> 0
    [] e.op \in {"Add", "Sub"} -> 1
    [] e.op = "Mul" -> 2
    [] e.op = "Div" -> 3
    [] e.op = "Pow" -> 4
    [] OTHER -> 5

Join(texts, separator) ==
  FlattenSeq([i \in DOMAIN texts |->
    IF i = 1 THEN texts[i] ELSE separator \o texts[i]])

(* "+ -" is written "- ".                                                  *)
MergeSigns(text) ==
  FoldLeft(LAMBDA acc, token :
             IF token = OpToken("-") /\ acc # << >> /\ acc[Len(acc)] = OpToken("+")
             THEN [acc EXCEPT ![Len(acc)] = token] ELSE Append(acc, token),
           << >>, text)

NumberText(q) == IF q[1] < 0 THEN Op("-") \o <<NumberToken(Negated(q))>>
                 ELSE <<NumberToken(q)>>
UnitText(u) == CASE u = Zero -> << >>
                 [] u = One -> Word("m")
                 [] OTHER -> Word("m") \o Op("^") \o NumberText(u)

RECURSIVE Text(_)
Text(e) ==
  LET within(f, parent) ==
        IF Precedence(f) < parent THEN Op("(") \o Text(f) \o Op(")") ELSE Text(f)
      pair(op, parent) ==
        within(e.args[1], parent) \o Op(op) \o within(e.args[2], parent)
  IN  CASE e.op = "Number" -> NumberText(e.value)
        [] e.op = "Symbol" -> Word(e.name)
        [] e.op = "Quantity" -> Word(e.name) \o UnitText(e.unit)
        [] e.op = "Add" ->
             MergeSigns(Join([i \in DOMAIN e.args |-> Text(e.args[i])], Op("+")))
        [] e.op = "Mul" ->
             Join([i \in DOMAIN e.args |-> within(e.args[i], 2)], Op("*"))
        [] e.op = "Sub" -> pair("-", 1)
        [] e.op = "Div" -> pair("/", 3)
        [] e.op = "Pow" -> pair("^", 4)
        [] e.op = "Equation" -> pair("=", 0)
        [] e.op = "Integral" ->
             Word("integral") \o Op("(") \o pair(",", 0) \o Op(")")
        [] OTHER -> Word(FunctionNames[e.op]) \o Op("(") \o Text(e.args[1])
                      \o Op(")")

(***************************************************************************)
(* Reading.  Each reader returns the tree and the rest of the tokens, or   *)
(* fails.                                                                  *)
(***************************************************************************)
Fail == [ok |-> FALSE, node |-> Refused, rest |-> << >>]
Read(node, rest) == IF IsRefused(node) THEN Fail
                    ELSE [ok |-> TRUE, node |-> node, rest |-> rest]

Begins(tokens, ops) == tokens # << >> /\ \E o \in ops : tokens[1] = OpToken(o)
BeginsWord(tokens)  == tokens # << >> /\ tokens[1].kind = "word"
BeginsName(tokens)  == BeginsWord(tokens) /\ tokens[1].text # "sqrt"

(* The functions by every name they have.                                  *)
Reading == [w \in {FunctionNames[f] : f \in DOMAIN FunctionNames} \cup
               {"log", "cosec", "arcsin", "arccos", "arctan", "arccot",
                "arcsec", "arccsc"} |->
  CASE w = "log" -> "Ln" [] w = "cosec" -> "Csc"
    [] w = "arcsin" -> "Arcsin" [] w = "arccos" -> "Arccos"
    [] w = "arctan" -> "Arctan" [] w = "arccot" -> "Arccot"
    [] w = "arcsec" -> "Arcsec" [] w = "arccsc" -> "Arccsc"
    [] OTHER -> CHOOSE f \in DOMAIN FunctionNames : FunctionNames[f] = w]

(* A name that ends in e, before a power, is a name and the constant e.    *)
EndingInE == [ae |-> "a", xe |-> "x"]

RECURSIVE ParseEquality(_), ParseSum(_), ParseProduct(_), ParsePower(_),
          ParseUnary(_), ParseAtom(_), ParseCallArguments(_, _),
          MoreSides(_), MoreTerms(_), MoreFactors(_), MorePowers(_)

(* left, then next after the operator, joined and carried on with.         *)
Joined(left, right, more(_), join(_, _)) ==
  IF right.ok THEN more(Read(join(left.node, right.node), right.rest)) ELSE Fail

MoreSides(left) ==
  IF left.ok /\ Begins(left.rest, {"=", "=="})
  THEN Joined(left, ParseSum(Tail(left.rest)), MoreSides, Equation)
  ELSE left
ParseEquality(tokens) == MoreSides(ParseSum(tokens))

AddPair(a, b) == Add(<<a, b>>)
MulPair(a, b) == Mul(<<a, b>>)

MoreTerms(left) ==
  CASE left.ok /\ Begins(left.rest, {"+"}) ->
         Joined(left, ParseProduct(Tail(left.rest)), MoreTerms, AddPair)
    [] left.ok /\ Begins(left.rest, {"-"}) ->
         Joined(left, ParseProduct(Tail(left.rest)), MoreTerms, Sub)
    [] OTHER -> left
ParseSum(tokens) == MoreTerms(ParseProduct(tokens))

(* A word or a parenthesis next to a factor multiplies it.                 *)
MoreFactors(left) ==
  CASE left.ok /\ Begins(left.rest, {"*"}) ->
         Joined(left, ParsePower(Tail(left.rest)), MoreFactors, MulPair)
    [] left.ok /\ Begins(left.rest, {"/"}) ->
         Joined(left, ParsePower(Tail(left.rest)), MoreFactors, Div)
    [] left.ok /\ (BeginsWord(left.rest) \/ Begins(left.rest, {"("})) ->
         Joined(left, ParsePower(left.rest), MoreFactors, MulPair)
    [] OTHER -> left
ParseProduct(tokens) == MoreFactors(ParsePower(tokens))

(* A number in an exponent takes a name after it along.                    *)
MorePowers(left) ==
  IF left.ok /\ Begins(left.rest, {"^", "**"})
  THEN LET right == ParsePower(Tail(left.rest))
           taken == ParsePower(right.rest)
       IN  IF right.ok /\ IsNumber(right.node) /\ BeginsName(right.rest)
           THEN Joined(left, IF taken.ok
                             THEN Read(MulPair(right.node, taken.node), taken.rest)
                             ELSE Fail, MorePowers, Pow)
           ELSE Joined(left, right, MorePowers, Pow)
  ELSE left
ParsePower(tokens) == MorePowers(ParseUnary(tokens))

ParseUnary(tokens) ==
  CASE Begins(tokens, {"-"}) ->
         LET operand == ParseUnary(Tail(tokens))
         IN  IF operand.ok THEN Read(MulPair(Num(-1), operand.node), operand.rest)
             ELSE Fail
    [] Begins(tokens, {"+"}) -> ParseUnary(Tail(tokens))
    [] OTHER -> ParseAtom(tokens)

(* The arguments up to the closing parenthesis.                            *)
ParseCallArguments(tokens, args) ==
  IF Begins(tokens, {")"}) /\ args = << >>
  THEN [ok |-> TRUE, args |-> args, rest |-> tokens]
  ELSE LET arg == ParseEquality(tokens)
           all == Append(args, arg.node)
       IN  CASE ~arg.ok -> [ok |-> FALSE, args |-> args, rest |-> tokens]
             [] arg.ok /\ Begins(arg.rest, {","}) ->
                  ParseCallArguments(Tail(arg.rest), all)
             [] OTHER -> [ok |-> TRUE, args |-> all, rest |-> arg.rest]

(* A derivative or an integral is carried out while it is read.            *)
Call(name, args) ==
  CASE name \in {"deriv", "diff"} /\ Len(args) = 2 ->
         DiffNode(args[1], args[2].name)
    [] name \in {"integral", "integrate"} /\ Len(args) = 2 ->
         IntegrateNode(args[1], args[2].name)
    [] name \in DOMAIN Reading /\ Len(args) = 1 ->
         Fn(Reading[name], args[1])
    [] OTHER -> Refused

ParseFuncCall(name, tokens) ==
  LET finish(call) ==
        CASE call.ok /\ (call.rest = << >> \/ Begins(call.rest, {")"})) ->
               Read(Call(name, call.args),
                    IF call.rest = << >> THEN << >> ELSE Tail(call.rest))
          [] OTHER -> Fail
  IN  finish(ParseCallArguments(tokens, << >>))

ParseIdentifier(name, rest) ==
  CASE Begins(rest, {"("}) -> ParseFuncCall(name, Tail(rest))
    [] Begins(rest, {"^", "**"}) /\ name \in DOMAIN EndingInE ->
         Read(Symbol(EndingInE[name]), Word("e") \o rest)
    [] OTHER -> Read(Symbol(name), rest)

ParseAtom(tokens) ==
  LET inner == ParseEquality(Tail(tokens))
  IN  CASE tokens = << >> -> Fail
        [] tokens # << >> /\ tokens[1].kind = "number" ->
             Read(Number(tokens[1].value), Tail(tokens))
        [] tokens # << >> /\ tokens[1].kind = "word" ->
             ParseIdentifier(tokens[1].text, Tail(tokens))
        [] Begins(tokens, {"("}) ->
             IF inner.ok /\ Begins(inner.rest, {")"})
             THEN Read(inner.node, Tail(inner.rest)) ELSE Fail
        [] OTHER -> Fail

(* Tokens after the expression are not looked at.                          *)
ParseStr(text) == LET read == ParseEquality(text)
                  IN  IF read.ok THEN Simplify(read.node) ELSE Refused
=============================================================================
