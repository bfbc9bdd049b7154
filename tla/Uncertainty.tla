----------------------------- MODULE Uncertainty -----------------------------
(***************************************************************************)
(* Uncertain values and where their uncertainty comes from                 *)
(* (physure-core/src/uncertainty): the models, how each pair of models is  *)
(* combined, and the ids of the measurements. A value has terms, by id: how*)
(* it depends on that source (sens) and the variance and third moment of   *)
(* the source. A Gaussian or unscented term is its coefficient with the    *)
(* variance one, the samples of a Monte Carlo value are the draws they are *)
(* made of (numbered below zero), and a sigma-point transform has the      *)
(* spread of its derivative. Beside the values the model keeps what they   *)
(* truly are: truth, by measurement.                                       *)
(***************************************************************************)
EXTENDS Rationals, FiniteSets, FiniteSetsExt, Functions

CONSTANTS MaxId,        \* u32::MAX, and the bound of the counter
          Modes,        \* the propagation modes
          Measurables,  \* what is measured: model, shape or number of samples, mean, moments
          DefaultShape, \* ShapeKind::DEFAULT
          Named,        \* the ids a caller chooses
          MaxValues, MaxRestarts, MaxNumber \* bounds: values made, processes, numbers of operands

ASSUME IdsAssumption == MaxId \in Nat /\ Named \subseteq 1..(MaxId - 1)

(* Moments are fractions; what does not vary is not skewed either, and only*)
(* the moments model knows of skewness.                                    *)
ASSUME MomentsAssumption ==
  \A m \in Measurables :
    /\ IsFraction(m.mean) /\ IsFraction(m.var) /\ IsFraction(m.third)
    /\ m.var[1] >= 0
    /\ m.var = Zero \/ m.model # "moments" => m.third = Zero

VARIABLES mode,         \* the propagation mode in force
          nextId,       \* NEXT_ID
          draws,        \* draws made so far
          values,       \* the values made
          sources,      \* the measurements: the id, or the draw, of each
          restarts, steps       \* bounded: processes, values made

vars == <<mode, nextId, draws, values, sources, restarts, steps>>

Unsupported == [unsupported |-> TRUE]
NoTerms == [i \in {} |-> 0]
Only(i, x) == [j \in {i} |-> x]
Term(sens, var, third) == [sens |-> sens, var |-> var, third |-> third]
Square(x) == Times(x, x)
Cube(x) == Times(x, Square(x))

SumOver(f) == FoldFunction(Plus, Zero, f)
Variance(terms) == SumOver([i \in DOMAIN terms |-> Times(Square(terms[i].sens), terms[i].var)])
Third(terms)    == SumOver([i \in DOMAIN terms |-> Times(Cube(terms[i].sens), terms[i].third)])
IsExact(v) == Variance(v.terms) = Zero

(* Merging: the sensitivities of a shared source add up before they are    *)
(* squared; a term that cancels is dropped. The variant with a bug keeps   *)
(* the terms of the left operand where both have one.                      *)
Live(terms) == Restrict(terms, {i \in DOMAIN terms : terms[i].sens # Zero})
SensOf(terms, i) == IF i \in DOMAIN terms THEN terms[i].sens ELSE Zero
MergedLeft(a, ja, b, jb) ==
  Live([i \in DOMAIN a \cup DOMAIN b |->
    IF i \in DOMAIN a THEN [a[i] EXCEPT !.sens = Times(ja, @)] ELSE [b[i] EXCEPT !.sens = Times(jb, @)]])
Merged(a, ja, b, jb) ==
  Live([i \in DOMAIN a \cup DOMAIN b |->
    [(IF i \in DOMAIN a THEN a[i] ELSE b[i]) EXCEPT
       !.sens = Plus(Times(ja, SensOf(a, i)), Times(jb, SensOf(b, i)))]])
ScaledTerms(terms, j) == Live([i \in DOMAIN terms |-> [terms[i] EXCEPT !.sens = Times(j, @)]])

-----------------------------------------------------------------------------
(* Ids. What an operation makes comes with the counter after it.           *)
After(id) == (id + 1) % (MaxId + 1)
(* A variant with a bug: the id itself may be given out again.             *)
ReservedUpTo(next, id) == IF id > next THEN id ELSE next
Reserved(next, id) ==
  LET above == IF id = MaxId THEN MaxId ELSE id + 1 IN IF above > next THEN above ELSE next
With(terms, next) == [terms |-> terms, next |-> next]

(* Lineage::measured and MomentLineage::measured: only the latter takes an *)
(* id for an exact value.                                                  *)
MeasuredLineage(next, var) ==
  IF var = Zero THEN With(NoTerms, next) ELSE With(Only(next, Term(One, var, Zero)), After(next))
MeasuredMoments(next, var, third) ==
  With(IF var = Zero /\ third = Zero THEN NoTerms ELSE Only(next, Term(One, var, third)), After(next))

Uncorrelated == mode = "uncorrelated"
CombineLineage(a, ja, b, jb, next) ==
  IF Uncorrelated
  THEN MeasuredLineage(next, Plus(Times(Square(ja), Variance(a)), Times(Square(jb), Variance(b))))
  ELSE With(Merged(a, ja, b, jb), next)
CombineMoments(a, ja, b, jb, next) ==
  IF Uncorrelated
  THEN MeasuredMoments(next, Plus(Times(Square(ja), Variance(a)), Times(Square(jb), Variance(b))),
                             Plus(Times(Cube(ja), Third(a)), Times(Cube(jb), Third(b))))
  ELSE With(Merged(a, ja, b, jb), next)
(* MomentsBackend::combine and first_order fold over both operands.        *)
FoldMoments(a, ja, b, jb, next) ==
  LET second(first) == CombineMoments(first.terms, One, b, jb, first.next)
  IN  second(CombineMoments(NoTerms, One, a, ja, next))

-----------------------------------------------------------------------------
(* Values, by model. A Custom value boxes another one, whose provenance    *)
(* nobody can see.                                                         *)
Value(model, boxed, shape, mean, terms) ==
  [model |-> model, boxed |-> boxed, shape |-> shape, mean |-> mean, terms |-> terms]
None == "none"
Is(v, models) == v.model \in models
Box(v) == IF v.model = "custom" THEN v.boxed ELSE v.model
Made(value, next, drawn) == [value |-> value, next |-> next, drawn |-> drawn]

(* An operation: the mean and the derivatives. Samples are divided without *)
(* looking at the mean.                                                    *)
Derivatives(op, ma, mb) ==
  CASE op = "add" -> [mean |-> Plus(ma, mb), ja |-> One, jb |-> One]
    [] op = "sub" -> [mean |-> Minus(ma, mb), ja |-> One, jb |-> Whole(-1)]
    [] op = "mul" -> [mean |-> Times(ma, mb), ja |-> mb, jb |-> ma]
    [] op = "div" -> [mean |-> Over(ma, mb), ja |-> Over(One, mb), jb |-> Negated(Over(ma, Square(mb)))]

(* UncertaintyValue::lineage: only two models show theirs; any other is an *)
(* independent measurement.                                                *)
LineageOf(v, next) ==
  IF Is(v, {"gaussian", "unscented"}) THEN With(v.terms, next) ELSE MeasuredLineage(next, Variance(v.terms))

PropagateGaussian(a, b, d, next) ==
  LET made(l) == Made(Value("gaussian", None, None, d.mean, l.terms), l.next, draws)
  IN  made(CombineLineage(a.terms, d.ja, b.terms, d.jb, next))
PropagateUnscented(a, b, d, next) ==
  LET made(l) == Made(Value("unscented", None, None, d.mean, l.terms), l.next, draws)
      with(other) == made(CombineLineage(a.terms, d.ja, other.terms, d.jb, other.next))
  IN  with(LineageOf(b, next))
PropagateMoments(a, b, d, next) ==
  LET made(l) == Made(Value("moments", None, a.shape, d.mean, l.terms), l.next, draws)
  IN  IF a.shape # b.shape THEN Unsupported ELSE made(FoldMoments(a.terms, d.ja, b.terms, d.jb, next))

(* mc_operand_samples: the samples of the other operand if they were drawn *)
(* with these, else new ones of its mean and spread.                       *)
SharesSamples(a, b) == ~ Uncorrelated /\ b.model = "monte_carlo" /\ a.shape = b.shape
PropagateSamples(a, b, d, next) ==
  LET made(other, drawn) ==
        Made(Value("monte_carlo", None, a.shape, d.mean, Merged(a.terms, d.ja, other, d.jb)), next, drawn)
  IN  CASE SharesSamples(a, b) -> made(b.terms, draws)
        [] ~ SharesSamples(a, b) /\ IsExact(b) -> made(NoTerms, draws)
        [] OTHER -> made(Only(-(draws + 1), Term(One, Variance(b.terms), Zero)), draws + 1)

(* The boxed operations: by quadrature, or, for moments, beside a source   *)
(* of its own.                                                             *)
Boxed(model, shape, d, l) == Made(Value("custom", model, shape, d.mean, l.terms), l.next, draws)
BoxedQuadrature(a, b, d, next) ==
  Boxed(Box(a), None, d, MeasuredLineage(next, Plus(Times(Square(d.ja), Variance(a.terms)),
                                                    Times(Square(d.jb), Variance(b.terms)))))
BoxedMoments(a, b, d, next) ==
  LET beside(other) == Boxed("moments", a.shape, d, FoldMoments(a.terms, d.ja, other.terms, d.jb, other.next))
  IN  beside(MeasuredMoments(next, Variance(b.terms), Zero))
PropagateBoxed(a, b, d, next) ==
  IF Box(a) = "moments" THEN BoxedMoments(a, b, d, next) ELSE BoxedQuadrature(a, b, d, next)

(* lifted_to_match: an exact left operand takes the model of the right.    *)
IsLifted(a, b) == IsExact(a) /\ Is(b, {"monte_carlo", "unscented"})
Lifted(a, b) == Value(b.model, None, b.shape, a.mean, NoTerms)

Dispatch(a, b, d, next) ==
  CASE Is(a, {"moments"}) /\ Is(b, {"moments"})   -> PropagateMoments(a, b, d, next)
    [] ~ Is(a, {"moments"}) /\ Is(b, {"moments"}) -> Unsupported
    [] Is(a, {"gaussian"}) /\ Is(b, {"gaussian"}) -> PropagateGaussian(a, b, d, next)
    [] Is(a, {"monte_carlo"}) /\ ~ Is(b, {"moments"}) -> PropagateSamples(a, b, d, next)
    [] Is(a, {"unscented"}) /\ ~ Is(b, {"moments"})   -> PropagateUnscented(a, b, d, next)
    [] OTHER -> CASE ~ IsLifted(a, b) -> PropagateBoxed(a, b, d, next)
                  [] IsLifted(a, b) /\ Is(b, {"monte_carlo"}) -> PropagateSamples(Lifted(a, b), b, d, next)
                  [] IsLifted(a, b) /\ Is(b, {"unscented"})   -> PropagateUnscented(Lifted(a, b), b, d, next)
Propagate(op, a, b, next) ==
  IF op = "div" /\ b.mean = Zero THEN Unsupported ELSE Dispatch(a, b, Derivatives(op, a.mean, b.mean), next)

(* pow and abs, of one operand: the mean and the derivative. The absolute  *)
(* value of a Gaussian keeps the sign of its terms, and so do sigma points,*)
(* which are only turned here, well away from zero.                        *)
Turned(m) == IF m[1] >= 0 THEN One ELSE Whole(-1)
Transformed(fn, m) ==
  CASE fn = "square"  -> [mean |-> Square(m), j |-> Times(Whole(2), m)]
    [] fn = "inverse" -> [mean |-> Over(One, m), j |-> Negated(Over(One, Square(m)))]
    [] fn = "abs"     -> [mean |-> <<AbsOf(m[1]), m[2]>>, j |-> Turned(m)]
IsSmall(v) ==
  LET small(x) == AbsOf(x[1]) <= MaxNumber /\ x[2] <= MaxNumber
  IN  small(v.mean) /\ \A id \in DOMAIN v.terms : \A x \in Range(v.terms[id]) : small(x)
KeepsSign(fn, v) == fn = "abs" /\ Box(v) \in {"gaussian", "unscented"}
CanTransform(fn, v) ==
  CASE Box(v) = "unscented" -> fn = "abs" /\ Less(Times(Whole(3), Variance(v.terms)), Square(v.mean))
    [] Box(v) = "monte_carlo" -> FALSE
    [] OTHER -> fn = "inverse" => v.mean # Zero
Applied(fn, v) ==
  LET of(t) == [v EXCEPT !.mean = t.mean, !.terms = ScaledTerms(@, IF KeepsSign(fn, v) THEN One ELSE t.j)]
  IN  of(Transformed(fn, v.mean))

-----------------------------------------------------------------------------
(* What is known of a value beside what it says. truth is what it depends  *)
(* on, by measurement; right, that its spread must be that of truth;       *)
(* linked, that its terms must be those of truth, so that what it shares   *)
(* with another value counts.                                              *)
Entry(value, truth, right, linked) == [value |-> value, truth |-> truth, right |-> right, linked |-> linked]
TrueTerms(truth) ==
  [p \in DOMAIN truth |-> Term(truth[p], sources[p].var, sources[p].third)]
MergedTruth(a, ja, b, jb) ==
  LET sens(t, p) == IF p \in DOMAIN t THEN t[p] ELSE Zero
      all == [p \in DOMAIN a \cup DOMAIN b |-> Plus(Times(ja, sens(a, p)), Times(jb, sens(b, p)))]
  IN  Restrict(all, {p \in DOMAIN all : all[p] # Zero})

(* The pairs whose provenance the models promise to keep.                  *)
Relates(a, b) ==
  /\ ~ Uncorrelated
  /\ \/ Is(a, {"gaussian"}) /\ Is(b, {"gaussian"})
     \/ Is(a, {"moments"}) /\ Is(b, {"moments"})
     \/ Is(a, {"unscented"}) /\ (Is(b, {"gaussian", "unscented"}) \/ IsExact(b))
     \/ Is(a, {"monte_carlo"}) /\ (SharesSamples(a, b) \/ IsExact(b))
     \/ Is(a, {"gaussian", "custom"}) /\ IsExact(a) /\ Is(b, {"monte_carlo", "unscented"})
     \/ Box(a) = "moments" /\ IsExact(b)

Combined(made, d, x, y) ==
  LET linked == Relates(x.value, y.value) /\ x.linked /\ y.linked
  IN  Entry(made, MergedTruth(x.truth, d.ja, y.truth, d.jb),
            linked \/ (x.right /\ y.right /\ DOMAIN x.truth \cap DOMAIN y.truth = {}), linked)

-----------------------------------------------------------------------------
Init ==
  /\ mode = "correlated" /\ nextId = 1 /\ draws = 0
  /\ values = <<>> /\ sources = <<>> /\ restarts = 0 /\ steps = 0

HasRoom == steps < MaxValues /\ nextId + 3 < MaxId
MakeValue(entry, next, drawn) ==
  /\ values' = Append(values, entry)
  /\ nextId' = next
  /\ draws' = drawn
  /\ steps' = steps + 1

SetMode(m) ==
  /\ HasRoom /\ m # mode
  /\ mode' = m
  /\ UNCHANGED <<nextId, draws, values, sources, restarts, steps>>

Source(id, m, named) == [id |-> id, model |-> m.model, var |-> m.var, third |-> m.third, named |-> named]
IsConstant(m) == m.var = Zero /\ m.third = Zero
Taken(m) == Value(m.model, None, m.shape, m.mean, NoTerms)
(* A measured value of a model, or an exact one.                           *)
Measure(m) ==
  LET terms == CASE m.model = "monte_carlo" -> With(IF IsConstant(m) THEN NoTerms ELSE Only(-(draws + 1), Term(One, m.var, Zero)), nextId)
                 [] m.model = "moments" -> MeasuredMoments(nextId, m.var, m.third)
                 [] OTHER -> MeasuredLineage(nextId, m.var)
      measured(l) ==
        /\ sources' = sources \o [i \in 1..Cardinality(DOMAIN l.terms) |-> Source(CHOOSE id \in DOMAIN l.terms : TRUE, m, FALSE)]
        /\ MakeValue(Entry([Taken(m) EXCEPT !.terms = l.terms],
                           [p \in (DOMAIN sources') \ DOMAIN sources |-> One], TRUE, TRUE),
                     l.next, IF m.model = "monte_carlo" /\ ~ IsConstant(m) THEN draws + 1 ELSE draws)
  IN  HasRoom /\ measured(terms) /\ UNCHANGED <<mode, restarts>>

(* measured_with_id: the caller names the measurement, before the counter  *)
(* gets there, and names it again for the same one only.                   *)
MeasureNamed(id, m) ==
  LET same == {p \in DOMAIN sources : sources[p].id = id}
      entry(p) == Entry([Taken(m) EXCEPT !.terms = Only(id, Term(One, m.var, m.third))], Only(p, One), TRUE, TRUE)
  IN  /\ HasRoom /\ ~ IsConstant(m) /\ m.model \in {"gaussian", "moments"}
      /\ \A p \in same : sources[p] = Source(id, m, TRUE)
      /\ id >= nextId \/ \E i \in DOMAIN values : values[i].linked /\ same \cap DOMAIN values[i].truth # {}
      /\ sources' = IF same = {} THEN Append(sources, Source(id, m, TRUE)) ELSE sources
      /\ MakeValue(entry(IF same = {} THEN Len(sources) + 1 ELSE CHOOSE p \in same : TRUE), Reserved(nextId, id), draws)
      /\ UNCHANGED <<mode, restarts>>

(* Samples are multiplied one by one: only by a constant is that their     *)
(* first order.                                                            *)
OfFirstOrder(op, a, b) ==
  Is(a, {"monte_carlo"}) \/ (IsExact(a) /\ Is(b, {"monte_carlo"})) =>
    (op = "mul" => IsExact(a) \/ IsExact(b)) /\ (op = "div" => IsExact(b))
Binary(op, i, j) ==
  LET x == values[i] y == values[j]
      done(made) ==
        /\ made # Unsupported
        /\ MakeValue(Combined(made.value, Derivatives(op, x.value.mean, y.value.mean), x, y), made.next, made.drawn)
  IN  /\ HasRoom /\ IsSmall(x.value) /\ IsSmall(y.value) /\ OfFirstOrder(op, x.value, y.value)
      /\ done(Propagate(op, x.value, y.value, nextId))
      /\ UNCHANGED <<mode, sources, restarts>>

Unary(fn, i) ==
  LET x == values[i]
      turned == KeepsSign(fn, x.value) /\ x.value.mean[1] < 0
      truth(t) == MergedTruth(x.truth, t.j, NoTerms, Zero)
  IN  /\ HasRoom /\ IsSmall(x.value) /\ CanTransform(fn, x.value)
      /\ MakeValue(Entry(Applied(fn, x.value), truth(Transformed(fn, x.value.mean)), x.right, x.linked /\ ~ turned),
                   nextId, draws)
      /\ UNCHANGED <<mode, sources, restarts>>

(* MomentsBackend::from_lineage                                            *)
Promote(i) ==
  /\ HasRoom /\ Is(values[i].value, {"gaussian"})
  /\ MakeValue([values[i] EXCEPT !.value = [@ EXCEPT !.model = "moments", !.shape = DefaultShape]], nextId, draws)
  /\ UNCHANGED <<mode, sources, restarts>>

(* A new process starts and takes in Gaussian values that another saved.   *)
Restart(kept) ==
  LET ids == UNION {DOMAIN values[i].value.terms : i \in kept}
      greatest == CHOOSE id \in ids : \A other \in ids : other <= id
  IN  /\ HasRoom /\ restarts < MaxRestarts
      /\ \A i \in kept : Is(values[i].value, {"gaussian"})
      /\ restarts' = restarts + 1
      /\ mode' = "correlated" /\ UNCHANGED <<draws, sources, steps>>
      /\ nextId' = IF ids = {} THEN 1 ELSE Reserved(1, greatest)
      /\ \E order \in [1..Cardinality(kept) -> kept] :
           /\ \A k, l \in DOMAIN order : k < l => order[k] < order[l]
           /\ values' = [k \in DOMAIN order |-> values[order[k]]]

Next ==
  \/ \E m \in Modes : SetMode(m)
  \/ \E m \in Measurables : Measure(m) \/ \E id \in Named : MeasureNamed(id, m)
  \/ \E i, j \in DOMAIN values : \E op \in {"add", "sub", "mul", "div"} : Binary(op, i, j)
  \/ \E i \in DOMAIN values : Promote(i) \/ \E fn \in {"square", "inverse", "abs"} : Unary(fn, i)
  \/ \E kept \in SUBSET DOMAIN values : Restart(kept)
Spec == Init /\ [][Next]_vars

-----------------------------------------------------------------------------
(* The spread a value reports is that of what it depends on: what two      *)
(* operands share is counted once and with its sign, wherever the models   *)
(* promise to keep it; without a promise, for operands that share nothing. *)
SpreadIsTrue ==
  \A i \in DOMAIN values :
    values[i].right =>
      /\ Variance(values[i].value.terms) = Variance(TrueTerms(values[i].truth))
      /\ Is(values[i].value, {"moments"}) => Third(values[i].value.terms) = Third(TrueTerms(values[i].truth))

(* A term of a value stands for one measurement, whichever process or      *)
(* caller gave it its id: no value depends on a measurement it is not made *)
(* of.                                                                     *)
TermsNameSources ==
  \A i \in DOMAIN values :
    values[i].linked =>
      LET ids == [p \in DOMAIN values[i].truth |-> sources[p].id]
      IN  /\ DOMAIN values[i].value.terms = Range(ids)
          /\ \A p, q \in DOMAIN ids : p # q => ids[p] # ids[q]
          /\ \A p \in DOMAIN ids : values[i].value.terms[ids[p]] = TrueTerms(values[i].truth)[p]

(* The counter and the ids the values hold do what SourceIds promises.     *)
HeldIds == {id \in UNION {DOMAIN values[i].value.terms : i \in DOMAIN values} : id > 0}
Abstract == INSTANCE SourceIds WITH LastId <- MaxId, held <- HeldIds
ImplementsSourceIds == Abstract!Spec
=============================================================================
