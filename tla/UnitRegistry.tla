---------------------------- MODULE UnitRegistry ----------------------------
(***************************************************************************)
(* The registry of units (physure-core/src/units/registry.rs): a record of *)
(* maps, and the operations that look a name up or add to it. Names are    *)
(* sequences of characters, so that a prefix can be split off.             *)
(***************************************************************************)
EXTENDS UnitAlgebra

Hops == 10              \* resolve_symbol gives up after so many aliases
Nothing == [none |-> TRUE]
Empty == [x \in {} |-> <<>>]

NewRegistry ==
  [baseUnits |-> Empty, derivedUnits |-> Empty, aliases |-> Empty,
   prefixes |-> Empty, prefixNames |-> Empty, symbolAliases |-> Empty,
   baseDimension |-> Empty, dimensionBase |-> Empty,
   recipes |-> {}, recipeAliases |-> Empty, noPrefix |-> {}]

Followed(aliases, name, hops) ==
  LET followed[p \in Seq(STRING) \X Nat] ==
        IF p[2] = 0 \/ p[1] \notin DOMAIN aliases THEN p[1] ELSE followed[<<aliases[p[1]], p[2] - 1>>]
  IN  followed[<<name, hops>>]
ResolveSymbol(reg, name) == Followed(reg.aliases, name, Hops)

Holds(reg, s)  == s \in DOMAIN reg.baseUnits \/ s \in DOMAIN reg.derivedUnits
InRegistry(reg, name) == Holds(reg, ResolveSymbol(reg, name))
(* Base units come before derived ones, what an alias stands for before    *)
(* the name itself.                                                        *)
Stored(reg, s) == IF s \in DOMAIN reg.baseUnits THEN reg.baseUnits[s] ELSE reg.derivedUnits[s]
UnitBySymbol(reg, name) ==
  LET found(resolved) ==
        CASE Holds(reg, resolved) -> Stored(reg, resolved)
          [] ~ Holds(reg, resolved) /\ Holds(reg, name) -> Stored(reg, name)
          [] OTHER -> Nothing
  IN  found(ResolveSymbol(reg, name))

Scaled(base, factor) ==
  IF base.exact THEN WithExactScale(base, Times(base.scale, factor))
  ELSE WithScale(base, Times(base.scale, factor))

(* split_prefix_of: by a symbol or a spelled-out name, the longest that    *)
(* leaves a unit which takes a prefix.                                     *)
MicroAsU(name) == IF name # <<>> /\ Head(name) = "µ" THEN <<"u">> \o Tail(name) ELSE name
Spellings(reg) ==
  {<<p, p>> : p \in DOMAIN reg.prefixes}
    \cup {<<long, reg.prefixNames[long]>> :
            long \in {x \in DOMAIN reg.prefixNames : reg.prefixNames[x] \in DOMAIN reg.prefixes}}
Rest(name, spelled) == SubSeq(name, Len(spelled) + 1, Len(name))
TakesPrefix(reg, rest) ==
  LET scalable(u) == u # Nothing /\ ~ IsLogarithmic(u)
  IN  rest \notin reg.noPrefix /\ scalable(UnitBySymbol(reg, rest))
Splits(reg, name) ==
  {sp \in Spellings(reg) : Len(sp[1]) < Len(name) /\ IsPrefix(sp[1], name) /\ TakesPrefix(reg, Rest(name, sp[1]))}
SplitPrefix(reg, written) ==
  LET split(name, sp) == [symbol |-> sp[2], rest |-> Rest(name, sp[1])]
      longest(name, fits) ==
        IF fits = {} THEN Nothing
        ELSE split(name, CHOOSE sp \in fits : \A o \in fits : Len(o[1]) <= Len(sp[1]))
      splitOf(name) == longest(name, Splits(reg, name))
  IN  splitOf(MicroAsU(written))

NamedAs(u, name) == IF u.name = NoName THEN WithName(u, name) ELSE u
GetUnit(reg, name) ==
  LET found(stored, split) ==
        CASE stored # Nothing -> NamedAs(stored, name)
          [] stored = Nothing /\ split # Nothing ->
               WithName(Scaled(UnitBySymbol(reg, split.rest), reg.prefixes[split.symbol]), name)
          [] OTHER -> Nothing
  IN  found(UnitBySymbol(reg, name), SplitPrefix(reg, name))

Names(reg) == DOMAIN reg.baseUnits \cup DOMAIN reg.derivedUnits \cup DOMAIN reg.aliases
Knows(reg, name) == GetUnit(reg, name) # Nothing
ResolvableNames(reg) ==
  Names(reg) \cup
  {n \in {p \o u : p \in DOMAIN reg.prefixes \cup DOMAIN reg.prefixNames, u \in Names(reg)} : Knows(reg, n)}

PrefixesWord == <<"prefixes">>
RedefinitionsOf(reg, base) ==
  LET differ(u, v) == u # Nothing /\ v # Nothing /\ ~ SameUnit(u, v)
  IN  {n \in Names(reg) : differ(GetUnit(base, n), GetUnit(reg, n))}
    \cup (IF reg.prefixes # base.prefixes \/ reg.prefixNames # base.prefixNames THEN {PrefixesWord} ELSE {})

-----------------------------------------------------------------------------
(* Additions.                                                              *)
Put(map, key, value) == (key :> value) @@ map
AppendedNew(known, names) == known \o SelectSeq(names, LAMBDA n : ~ Contains(known, n))

AddPrefix(reg, symbol, factor) == [reg EXCEPT !.prefixes = Put(@, symbol, factor)]
AddPrefixName(reg, name, symbol) == [reg EXCEPT !.prefixNames = Put(@, name, symbol)]
AddDerivedUnit(reg, name, u) == [reg EXCEPT !.derivedUnits = Put(@, name, WithName(u, name))]
AddLevel(reg, name, quantity, log) ==
  AddDerivedUnit(reg, name, WithLog(WithOffset(WithUnitScale(quantity), Zero), log))
AddBaseUnit(reg, name) == [reg EXCEPT !.baseUnits = Put(@, name, NewFromDimensions(name :> One))]
AddScaledUnit(reg, name, base, factor) == AddDerivedUnit(reg, name, Scaled(GetUnit(reg, base), factor))
AddAffineUnit(reg, name, base, factor, offset) ==
  AddDerivedUnit(reg, name, WithOffset(Scaled(GetUnit(reg, base), factor), offset))
RegisterAlias(reg, alias, symbol) == [reg EXCEPT !.aliases = Put(@, alias, symbol)]
At(map, key) == IF key \in DOMAIN map THEN map[key] ELSE <<>>
NoteAliases(reg, symbol, names) ==
  [reg EXCEPT !.symbolAliases = Put(@, symbol, AppendedNew(At(@, symbol), names))]
NoteRecipe(reg, symbol, expansion, names) ==
  [reg EXCEPT !.recipes = @ \cup {symbol},
              !.recipeAliases = Put(@, expansion, AppendedNew(At(@, expansion), names))]
-----------------------------------------------------------------------------
(***************************************************************************)
(* What the registry says about a unit expression, and how a number in one *)
(* unit becomes a number in another (physure-core/src/units/registry.rs).  *)
(* An atomic unit has the symbols of its text as dims. An unknown symbol,  *)
(* a level in a compound and unlike dimensions are all Refused.            *)
(***************************************************************************)

Refused == [refused |-> TRUE]

SumOfDims(dims, part) ==
  LET keys == UNION {DOMAIN part[s] : s \in DOMAIN dims}
  IN  Without0([k \in keys |->
        FoldSet(LAMBDA s, sum : Plus(sum, Times(Exponent(part[s], k), dims[s])), Zero, DOMAIN dims)])

Simplify(reg, atomic) ==
  LET number(r) == r \in DOMAIN reg.derivedUnits /\ IsPlainNumber(reg.derivedUnits[r])
      part(s, r) == CASE number(r) -> NoDims
                      [] ~ number(r) /\ r \in reg.recipes -> GetUnit(reg, r).dims
                      [] OTHER -> s :> One
  IN  NewFromDimensions(SumOfDims(atomic.dims, [s \in DOMAIN atomic.dims |-> part(s, ResolveSymbol(reg, s))]))

AllKnown(reg, atomic) == \A s \in DOMAIN atomic.dims : Knows(reg, s)

DimensionOf(reg, atomic) ==
  LET symbol(b) == IF b \in DOMAIN reg.baseDimension THEN reg.baseDimension[b] ELSE b
      part(base) == [d \in {symbol(b) : b \in DOMAIN base} |->
                       FoldSet(LAMBDA b, sum : IF symbol(b) = d THEN Plus(sum, base[b]) ELSE sum, Zero, DOMAIN base)]
  IN  IF AllKnown(reg, atomic)
      THEN SumOfDims(atomic.dims, [s \in DOMAIN atomic.dims |-> part(GetUnit(reg, s).dims)]) ELSE Refused

Single(atomic) == Cardinality(DOMAIN atomic.dims) = 1 /\ Range(atomic.dims) = {One}
OnlySymbol(atomic) == CHOOSE s \in DOMAIN atomic.dims : TRUE

IsPoint(reg, atomic) ==
  LET affine(u) == u # Nothing /\ IsAffine(u)
  IN  Single(atomic) /\ affine(GetUnit(reg, OnlySymbol(atomic)))
IsLinear(reg, atomic) ==
  LET linear(u) == u # Nothing => ~ IsAffine(u) /\ ~ IsLogarithmic(u)
  IN  \A s \in DOMAIN atomic.dims : linear(GetUnit(reg, s))

Shortest(names) ==
  names[CHOOSE i \in DOMAIN names :
          /\ \A j \in DOMAIN names : Len(names[i]) <= Len(names[j])
          /\ \A j \in 1..(i - 1) : Len(names[j]) > Len(names[i])]

(* alias_of_symbol: the unit's symbol is shown by its shortest name, any   *)
(* other name as written, a prefixed one by prefix and symbol.             *)
AliasOfSymbol(reg, name) ==
  LET namesOf(s) == At(reg.symbolAliases, ResolveSymbol(reg, s))
      own(names) == IF names = <<>> THEN NoName ELSE IF names[1] = name THEN Shortest(names) ELSE name
      under(split, names) == IF names = <<>> THEN NoName ELSE split.symbol \o names[1]
      prefixed(split) == IF split = Nothing THEN NoName ELSE under(split, namesOf(split.rest))
  IN  IF InRegistry(reg, name) THEN own(namesOf(name)) ELSE prefixed(SplitPrefix(reg, name))

AliasOf(reg, atomic) ==
  LET shown(u, alias, names) ==
        CASE Single(u) /\ alias # NoName -> alias
          [] ~ Single(u) /\ names # <<>> -> Shortest(names)
          [] OTHER -> SymbolicRepr(u)
      alias(u) == shown(u, AliasOfSymbol(reg, OnlySymbol(u)), At(reg.recipeAliases, u.dims))
  IN  alias(Simplify(reg, atomic))

(* expand: a single symbol is what the registry says it is, zero point and *)
(* level included; anything else is a product of powers.                   *)
Expand(reg, atomic) ==
  LET known(u) == IF u = Nothing THEN Refused ELSE u
      kept(operands, product) == IF LosesLevel(operands, product) THEN Refused ELSE product
      times(product, power) == kept({product, power}, MulUnits(product, power))
      further(product, u, e) ==
        IF product = Refused \/ u = Nothing THEN Refused ELSE times(product, PowUnit(u, e))
  IN  IF Single(atomic) THEN known(GetUnit(reg, OnlySymbol(atomic)))
      ELSE FoldLeft(LAMBDA product, s : further(product, GetUnit(reg, s), atomic.dims[s]),
                    Dimensionless, Sorted(atomic.dims))

FactorBetween(reg, from, to) ==
  LET between(f, t) ==
        IF f = Refused \/ t = Refused THEN Refused
        ELSE IF IsLogarithmic(f) \/ IsLogarithmic(t) \/ ~ SameDimensions(f, t) THEN Refused
        ELSE RatioTo(f, t)
  IN  between(Expand(reg, from), Expand(reg, to))

UnitOfDimension(reg, dimension) ==
  IF DOMAIN dimension \subseteq DOMAIN reg.dimensionBase
  THEN NewFromDimensions([b \in {reg.dimensionBase[d] : d \in DOMAIN dimension} |->
         dimension[CHOOSE d \in DOMAIN dimension : reg.dimensionBase[d] = b]])
  ELSE Refused

(* conversion: the plan, affine or through the ratio of a level.           *)
Stage(u) == [log |-> u.log, scale |-> IF IsLogarithmic(u) THEN One ELSE u.scale]
AffinePlan(scale, shift) == [plan |-> "affine", scale |-> scale, shift |-> shift]
(* A variant with a bug: any two levels are the same level.                *)
SameLevelPlan(f, t) == IF IsLogarithmic(f) /\ IsLogarithmic(t) THEN AffinePlan(One, Zero)
                       ELSE [plan |-> "level", from |-> Stage(f), to |-> Stage(t)]
LevelPlan(f, t) == [plan |-> "level", from |-> Stage(f), to |-> Stage(t)]
PlanBetween(f, t) ==
  LET affine(a) == AffinePlan(a.scale, a.shift)
  IN  CASE IsLogarithmic(f) \/ IsLogarithmic(t) ->
             IF f.log = t.log /\ f.scale = t.scale THEN AffinePlan(One, Zero) ELSE LevelPlan(f, t)
        [] OTHER -> IF IsAffine(f) \/ IsAffine(t) THEN affine(AffineTo(f, t)) ELSE AffinePlan(RatioTo(f, t), Zero)
Conversion(reg, from, to) ==
  LET between(f, t) == IF f = Refused \/ t = Refused THEN Refused
                       ELSE IF SameDimensions(f, t) THEN PlanBetween(f, t) ELSE Refused
  IN  between(Expand(reg, from), Expand(reg, to))
=============================================================================
