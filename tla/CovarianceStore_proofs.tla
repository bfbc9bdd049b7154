----------------------- MODULE CovarianceStore_proofs -----------------------
(***************************************************************************)
(* Nothing is left of what the covariance store forgot, and what it keeps  *)
(* is true, for any ids, matrices and configurations, any number of inputs *)
(* and any number of operations.                                           *)
(***************************************************************************)
EXTENDS CovarianceStore, FiniteSetTheorems, WellFoundedInduction, TLAPS

(***************************************************************************)
(* What was forgotten. The invariant adds to the property what the ledger  *)
(* and the known ids are.                                                  *)
(***************************************************************************)
(* A table of blocks that only mentions some ids, and a ledger of steps.   *)
BlocksWithin(b, ids) ==
  \A key \in DOMAIN b : key = <<key[1], key[2]>> /\ key[1] \in ids /\ key[2] \in ids
IsLedger(l, now) ==
  DOMAIN l \subseteq Ids /\ \A i \in DOMAIN l : l[i] \in Nat /\ l[i] <= now

Inv ==
  /\ step \in Nat
  /\ config \in Configs
  /\ Known \subseteq Ids
  /\ DOMAIN truth = Pairs(Known)
  /\ IsLedger(ledger, step)
  /\ BlocksWithin(blocks, Known)
  /\ config.enabled => \A i \in DOMAIN ledger : step - ledger[i] <= config.maxAge

-----------------------------------------------------------------------------
(* The known ids of a table over all pairs of some ids are those ids.      *)
LEMMA KnownOfTable ==
  ASSUME NEW ids, NEW t, DOMAIN t = Pairs(ids)
  PROVE  {pair[1] : pair \in DOMAIN t} = ids
<1>1. ASSUME NEW i \in ids PROVE \E pair \in DOMAIN t : pair[1] = i
  <2>1. <<i, i>> \in DOMAIN t
    BY DEF Pairs
  <2> QED BY <2>1
<1>2. ASSUME NEW pair \in DOMAIN t PROVE pair[1] \in ids
  BY DEF Pairs
<1> QED BY <1>1, <1>2

LEMMA DomainOfTruthWith ==
  ASSUME NEW id, NEW v, NEW c
  PROVE  DOMAIN TruthWith(id, v, c) = Pairs(Known \cup {id})
BY DEF TruthWith

(* What has not expired is remembered.                                     *)
LEMMA YoungIsRemembered ==
  ASSUME NEW l, NEW now \in Nat, config.maxAge \in Nat,
         \A i \in DOMAIN l : l[i] \in Nat,
         NEW i \in DOMAIN l, i \notin Expired(l, now)
  PROVE  now - l[i] <= config.maxAge
<1>1. CASE now > config.maxAge
  BY <1>1 DEF Expired
<1>2. CASE ~(now > config.maxAge)
  BY <1>2
<1> QED BY <1>1, <1>2

(* Inserting a block, or the covariances of out, mentions nothing else.     *)
LEMMA PutWithin ==
  ASSUME NEW b, NEW ids, NEW id \in ids, NEW v, BlocksWithin(b, ids)
  PROVE  BlocksWithin(With(b, <<id, id>>, v), ids)
BY DEF BlocksWithin, With

LEMMA InsertedWithin ==
  ASSUME NEW b, NEW ids, NEW out \in ids, NEW f, DOMAIN f \subseteq ids, BlocksWithin(b, ids)
  PROVE  BlocksWithin(Inserted(b, out, f), ids)
<1>1. DOMAIN Inserted(b, out, f) = {Key(out, k) : k \in DOMAIN f} \cup DOMAIN b
  BY DEF Inserted
<1>2. ASSUME NEW k \in DOMAIN f
      PROVE  LET key == Key(out, k) IN key = <<key[1], key[2]>> /\ key[1] \in ids /\ key[2] \in ids
  BY <1>2 DEF Key
<1> QED BY <1>1, <1>2 DEF BlocksWithin

(* The variables an input is related to are mentioned.                     *)
LEMMA ExternalWithin ==
  ASSUME NEW b, NEW ids, NEW out, NEW inputs, NEW js, BlocksWithin(b, ids)
  PROVE  DOMAIN CrossCovariances(b, out, inputs, js) \subseteq ids
<1>1. DOMAIN CrossCovariances(b, out, inputs, js) = External(b, out, inputs)
  BY DEF CrossCovariances
<1>2. ASSUME NEW k \in External(b, out, inputs) PROVE k \in ids
  <2>1. PICK i \in ToSet(inputs) : Key(i, k) \in DOMAIN b
    BY DEF External, Related
  <2>2. Key(i, k)[1] \in ids /\ Key(i, k)[2] \in ids
    BY <2>1 DEF BlocksWithin
  <2>3. Key(i, k)[1] = k \/ Key(i, k)[2] = k
    BY DEF Key
  <2> QED BY <2>2, <2>3
<1> QED BY <1>1, <1>2

-----------------------------------------------------------------------------
(* What is left after pruning: a ledger in which nothing is too old, and   *)
(* blocks of variables that are still known.                               *)
LEMMA PruneForgets ==
  ASSUME NEW b, NEW l, NEW now \in Nat, NEW ids \in SUBSET Ids, NEW t, NEW doubts,
         config \in Configs, DOMAIN t = Pairs(ids),
         IsLedger(l, now), BlocksWithin(b, ids),
         Prune(b, l, now, t, doubts)
  PROVE  /\ Known' \subseteq Ids
         /\ DOMAIN truth' = Pairs(Known')
         /\ IsLedger(ledger', now)
         /\ BlocksWithin(blocks', Known')
         /\ \A i \in DOMAIN ledger' : now - ledger'[i] <= config.maxAge
<1> DEFINE old  == Expired(l, now)
           kept == Remembered(ids, l, now)
           rest == Without(b, BlocksOf(old))
<1>1. config.maxAge \in Nat
  BY ConfigsAssumption
<1>2. {pair[1] : pair \in DOMAIN t} = ids
  BY KnownOfTable
<1>3. /\ blocks' = Without(rest, Weak(rest))
      /\ ledger' = Restrict(l, DOMAIN l \ old)
      /\ truth' = Restrict(t, Pairs(kept))
  BY <1>2 DEF Prune, Pruned
<1>4. DOMAIN truth' = Pairs(kept)
  BY <1>3 DEF Restrict
<1>5. {pair[1] : pair \in DOMAIN truth'} = kept
  BY <1>4, KnownOfTable
<1>6. Known' = kept
  BY <1>5 DEF Known
<1>7. \A i \in ids : i \notin old => i \in kept
  BY <1>1, YoungIsRemembered DEF Remembered, IsLedger
<1>8. BlocksWithin(blocks', kept)
  <2> SUFFICES ASSUME NEW key \in DOMAIN blocks'
               PROVE  key = <<key[1], key[2]>> /\ key[1] \in kept /\ key[2] \in kept
    BY DEF BlocksWithin
  <2>1. key \in DOMAIN b /\ key \notin BlocksOf(old)
    BY <1>3 DEF Without, Restrict
  <2>2. key = <<key[1], key[2]>> /\ key[1] \in ids /\ key[2] \in ids
    BY <2>1 DEF BlocksWithin
  <2>3. key \in Ids \X Ids
    BY <2>2
  <2>4. key[1] \notin old /\ key[2] \notin old
    BY <2>1, <2>3 DEF BlocksOf
  <2> QED BY <2>2, <2>4, <1>7
<1>9. \A i \in DOMAIN ledger' : i \in DOMAIN l /\ i \notin old /\ ledger'[i] = l[i]
  BY <1>3 DEF Restrict
<1>10. \A i \in DOMAIN ledger' : now - ledger'[i] <= config.maxAge
  BY <1>1, <1>9, YoungIsRemembered DEF IsLedger
<1>11. IsLedger(ledger', now)
  BY <1>9 DEF IsLedger
<1>12. kept \subseteq Ids
  BY DEF Remembered
<1> QED BY <1>4, <1>6, <1>8, <1>10, <1>11, <1>12

(* Registering a variable makes it known, and as young as can be.          *)
LEMMA RegisterKeeps == ASSUME Inv, NEW id \in Ids, NEW d, Register(id, d) PROVE Inv'
<1> DEFINE ids == Known \cup {id}
<1>1. Known' = ids
  <2>1. DOMAIN truth' = Pairs(ids)
    BY DomainOfTruthWith DEF Register
  <2>2. {pair[1] : pair \in DOMAIN truth'} = ids
    BY <2>1, KnownOfTable
  <2> QED BY <2>2 DEF Known
<1>6. DOMAIN truth' = Pairs(Known')
  BY <1>1, DomainOfTruthWith DEF Register
<1>2. BlocksWithin(blocks, ids)
  BY DEF Inv, BlocksWithin
<1>3. BlocksWithin(blocks', ids)
  BY <1>2, PutWithin DEF Register
<1>4. config.maxAge \in Nat
  BY ConfigsAssumption DEF Inv
<1>5. /\ DOMAIN ledger' = DOMAIN ledger \cup {id}
      /\ \A i \in DOMAIN ledger' : ledger'[i] = IF i = id THEN step ELSE ledger[i]
  BY DEF Register, With
<1> QED BY <1>1, <1>3, <1>4, <1>5, <1>6 DEF Inv, Register, IsLedger

(* A propagation makes its result known, as of the next step, and adds     *)
(* blocks of the result with known variables only.                         *)
LEMMA PropagateKeeps ==
  ASSUME Inv, NEW out \in Ids, NEW inputs, NEW js, Propagate(out, inputs, js) PROVE Inv'
<1> DEFINE ids == Known \cup {out}
           variance == OutputVariance(blocks, inputs, js)
           own == IF variance.found THEN With(blocks, <<out, out>>, variance.value) ELSE blocks
           b   == Inserted(own, out, CrossCovariances(own, out, inputs, js))
           l   == With(ledger, out, step + 1)
           positions == DOMAIN inputs
           v   == SumOver(positions \X positions, [p \in positions \X positions |->
                    Sandwich(js[p[1]], True(inputs[p[1]], inputs[p[2]]), js[p[2]])])
           c   == [k \in Known |-> SumOver(positions, [p \in positions |->
                    Times(js[p], True(inputs[p], k))])]
           t   == TruthWith(out, v, c)
           doubts == IF Loses(out, inputs) THEN doubtful \cup {out} ELSE doubtful
<1>1. BlocksWithin(blocks, ids)
  BY DEF Inv, BlocksWithin
<1>2. BlocksWithin(own, ids)
  BY <1>1, PutWithin
<1>3. BlocksWithin(b, ids)
  BY <1>2, ExternalWithin, InsertedWithin
<1>4. DOMAIN t = Pairs(ids)
  BY DomainOfTruthWith
<1>5. IsLedger(l, step + 1)
  <2>1. DOMAIN l = DOMAIN ledger \cup {out}
    BY DEF With
  <2>2. \A i \in DOMAIN l : l[i] = IF i = out THEN step + 1 ELSE ledger[i]
    BY DEF With
  <2> QED BY <2>1, <2>2 DEF Inv, IsLedger
<1>6. /\ step' = step + 1
      /\ config' = config
      /\ IF config.enabled THEN Prune(b, l, step + 1, t, doubts) ELSE Keep(b, l, t, doubts)
  BY DEF Propagate
<1>7. ids \in SUBSET Ids /\ step + 1 \in Nat /\ config \in Configs
  BY DEF Inv
<1> HIDE DEF b, l, t, ids, doubts
<1>8. CASE config.enabled
  <2>1. Prune(b, l, step + 1, t, doubts)
    BY <1>6, <1>8
  <2>2. /\ Known' \subseteq Ids
        /\ DOMAIN truth' = Pairs(Known')
        /\ IsLedger(ledger', step + 1)
        /\ BlocksWithin(blocks', Known')
        /\ \A i \in DOMAIN ledger' : (step + 1) - ledger'[i] <= config.maxAge
    BY <2>1, <1>3, <1>4, <1>5, <1>7, PruneForgets
  <2> QED BY <2>2, <1>6, <1>7 DEF Inv
<1>9. CASE ~config.enabled
  <2>1. blocks' = b /\ ledger' = l /\ truth' = t
    BY <1>6, <1>9 DEF Keep
  <2>2. {pair[1] : pair \in DOMAIN truth'} = ids
    BY <2>1, <1>4, KnownOfTable
  <2>3. Known' = ids
    BY <2>2 DEF Known
  <2> QED BY <2>1, <2>3, <1>3, <1>4, <1>5, <1>6, <1>7, <1>9 DEF Inv
<1> QED BY <1>8, <1>9

(* Pruning on demand forgets as a propagation does.                        *)
LEMMA PruneNowKeeps == ASSUME Inv, PruneNow PROVE Inv'
<1>1. Prune(blocks, ledger, step, truth, doubtful)
  BY DEF PruneNow
<1>2. /\ Known' \subseteq Ids
      /\ DOMAIN truth' = Pairs(Known')
      /\ IsLedger(ledger', step)
      /\ BlocksWithin(blocks', Known')
      /\ \A i \in DOMAIN ledger' : step - ledger'[i] <= config.maxAge
  BY <1>1, PruneForgets DEF Inv
<1> QED BY <1>2 DEF Inv, PruneNow

-----------------------------------------------------------------------------
LEMMA Establishes == Init => Inv
BY DEF Init, Inv, Known, Pairs, IsLedger, BlocksWithin

LEMMA StepsKeep == Inv /\ [Next]_vars => Inv'
<1> SUFFICES ASSUME Inv, [Next]_vars PROVE Inv'
  OBVIOUS
<1>1. CASE \E id \in Ids, d \in Variances : Register(id, d)
  BY <1>1, RegisterKeeps
<1>2. CASE \E out \in Ids, inputs \in Inputs, js \in Jacobians :
             Len(js) = Len(inputs) /\ Propagate(out, inputs, js)
  BY <1>2, PropagateKeeps
<1>3. CASE PruneNow
  BY <1>3, PruneNowKeeps
<1>4. CASE Reload
  <2>1. DOMAIN ledger' = {}
    BY <1>4 DEF Reload
  <2> QED BY <2>1, <1>4 DEF Reload, Inv, Known, IsLedger
<1>5. CASE LoadFails
  <2>1. DOMAIN blocks' = {} /\ DOMAIN truth' = {}
    BY <1>5 DEF LoadFails, Keep
  <2>2. Known' = {}
    BY <2>1 DEF Known
  <2> QED BY <2>1, <2>2, <1>5 DEF LoadFails, Keep, Inv, IsLedger, BlocksWithin, Pairs
<1>6. CASE UNCHANGED vars
  BY <1>6 DEF vars, Inv, Known, IsLedger, BlocksWithin
<1> QED BY <1>1, <1>2, <1>3, <1>4, <1>5, <1>6 DEF Next, Operation

(* Blocks mention known variables only, and while pruning is on the ledger *)
(* holds nothing older than max_age steps (store.rs, prune_by_age).        *)
THEOREM Forgets == Spec => []ForgottenIsGone
<1>1. Inv => ForgottenIsGone
  BY ConfigsAssumption DEF Inv, IsLedger, BlocksWithin, ForgottenIsGone, BlocksAreOfKnown, LedgerIsYoung
<1> QED BY <1>1, Establishes, StepsKeep, PTL DEF Spec

-----------------------------------------------------------------------------
(***************************************************************************)
(* Sums of matrices. SumOver folds in an order of its own; that it does    *)
(* not matter which, and what a sum is, follows by looking at a smallest   *)
(* set for which it would fail.                                            *)
(***************************************************************************)
(* Every nonempty set of naturals has a least element.                     *)
LEMMA LeastNatural ==
  ASSUME NEW T, T \subseteq Nat, T # {}
  PROVE  \E x \in T : \A y \in T : x <= y
<1>1. PICK x \in T : \A y \in T : ~ (<<y, x>> \in OpToRel(<, Nat))
  BY NatLessThanWellFounded, WFMin
<1>2. \A y \in T : ~(y < x)
  BY <1>1 DEF OpToRel
<1> QED
  BY <1>2

(* Two by two matrices of integers.                                        *)
LEMMA SumsAreMatrices ==
  ASSUME NEW a \in Matrices, NEW b \in Matrices
  PROVE  Plus(a, b) \in Matrices
BY DEF Plus, Matrices

LEMMA PlusCommutes ==
  ASSUME NEW a \in Matrices, NEW b \in Matrices
  PROVE  Plus(a, b) = Plus(b, a)
BY DEF Plus, Matrices

LEMMA PlusAssociates ==
  ASSUME NEW a \in Matrices, NEW b \in Matrices, NEW c \in Matrices
  PROVE  Plus(a, Plus(b, c)) = Plus(Plus(a, b), c)
<1>1. \A i, j \in 1 .. 2 : a[i][j] \in Int /\ b[i][j] \in Int /\ c[i][j] \in Int
  BY DEF Matrices
<1>2. \A i, j \in 1 .. 2 : a[i][j] + (b[i][j] + c[i][j]) = (a[i][j] + b[i][j]) + c[i][j]
  BY <1>1
<1> QED
  BY <1>2 DEF Plus

LEMMA ZeroIsNeutral ==
  ASSUME NEW a \in Matrices
  PROVE  Zero \in Matrices /\ Plus(Zero, a) = a /\ Plus(a, Zero) = a
BY DEF Plus, Matrices, Zero

LEMMA TransposedTwice ==
  ASSUME NEW a \in Matrices
  PROVE  Transpose(a) \in Matrices /\ Transpose(Transpose(a)) = a
BY DEF Transpose, Matrices

LEMMA ProductsAreMatrices ==
  ASSUME NEW a \in Matrices, NEW b \in Matrices
  PROVE  Times(a, b) \in Matrices
BY DEF Times, Along, Matrices

LEMMA TimesZero ==
  ASSUME NEW a \in Matrices
  PROVE  Times(a, Zero) = Zero /\ Times(Zero, a) = Zero
BY DEF Times, Along, Matrices, Zero

LEMMA SandwichesAreMatrices ==
  ASSUME NEW j \in Matrices, NEW s \in Matrices, NEW k \in Matrices
  PROVE  Sandwich(j, s, k) \in Matrices
BY ProductsAreMatrices, TransposedTwice DEF Sandwich

LEMMA NothingSandwiched ==
  ASSUME NEW j \in Matrices, NEW k \in Matrices
  PROVE  Sandwich(j, Zero, k) = Zero
BY TimesZero, TransposedTwice DEF Sandwich

-----------------------------------------------------------------------------
Some(s) == CHOOSE x \in s : TRUE
(* The function it has the sums of f over the subsets of S. There is one,  *)
(* and any two agree.                                                      *)
Sums(f, S, it) ==
  it = [s \in SUBSET S |-> IF s = {} THEN Zero ELSE Plus(f[Some(s)], it[s \ {Some(s)}])]
SumsOf(f, S) == CHOOSE it : Sums(f, S, it)

LEMMA SumIsOfSums ==
  ASSUME NEW f, NEW S
  PROVE  SumOver(S, f) = SumsOf(f, S)[S]
BY DEF SumOver, FoldFunctionOnSet, MapThenFoldSet, SumsOf, Sums, Some

(* Among some subsets of a finite set, one has none of the others below it. *)
LEMMA Smallest ==
  ASSUME NEW S, IsFiniteSet(S), NEW F, F \subseteq SUBSET S, F # {}
  PROVE  \E r \in F : \A s \in F : s \subseteq r => s = r
<1> DEFINE N == {Cardinality(r) : r \in F}
<1>1. \A r \in F : IsFiniteSet(r) /\ Cardinality(r) \in Nat
  BY FS_Subset, FS_CardinalityType
<1>2. PICK n \in N : \A m \in N : n <= m
  <2> HIDE DEF N
  <2>1. N \subseteq Nat /\ N # {}
    BY <1>1 DEF N
  <2> QED
    BY <2>1, LeastNatural
<1>3. PICK r \in F : Cardinality(r) = n
  BY <1>2
<1>4. ASSUME NEW s \in F, s \subseteq r PROVE s = r
  <2>1. Cardinality(r) <= Cardinality(s)
    BY <1>2, <1>3
  <2>2. s # r => Cardinality(s) < Cardinality(r)
    BY <1>1, <1>4, FS_Subset
  <2> QED
    BY <2>1, <2>2, <1>1
<1> QED
  BY <1>4

LEMMA SumsAgree ==
  ASSUME NEW f, NEW S, NEW T, NEW a, NEW b, Sums(f, S, a), Sums(f, T, b),
         NEW s, s \subseteq S, s \subseteq T, IsFiniteSet(s)
  PROVE  a[s] = b[s]
<1> DEFINE F == {r \in SUBSET s : a[r] # b[r]}
<1>1. SUFFICES ASSUME F # {} PROVE FALSE
  OBVIOUS
<1>2. PICK r \in F : \A u \in F : u \subseteq r => u = r
  <2> HIDE DEF F
  <2>1. F \subseteq SUBSET s
    BY DEF F
  <2> QED
    BY <1>1, <2>1, Smallest
<1> DEFINE x == Some(r)
<1>3. r # {}
  <2>1. a[{}] = Zero /\ b[{}] = Zero
    BY DEF Sums
  <2> QED
    BY <2>1
<1>4. x \in r
  BY <1>3 DEF Some
<1>5. a[r \ {x}] = b[r \ {x}]
  <2> HIDE DEF x
  <2> QED
    BY <1>2, <1>4
<1>6. a[r] = Plus(f[x], a[r \ {x}]) /\ b[r] = Plus(f[x], b[r \ {x}])
  <2>1. r \in SUBSET S /\ r \in SUBSET T
    OBVIOUS
  <2> QED
    BY <2>1, <1>3 DEF Sums
<1> QED
  BY <1>5, <1>6

LEMMA SumsExist ==
  ASSUME NEW f, NEW S, IsFiniteSet(S)
  PROVE  Sums(f, S, SumsOf(f, S))
<1> DEFINE F == {r \in SUBSET S : ~ \E it : Sums(f, r, it)}
<1>1. SUFFICES ASSUME F # {} PROVE FALSE
  BY DEF SumsOf
<1>2. PICK r \in F : \A u \in F : u \subseteq r => u = r
  <2> HIDE DEF F
  <2>1. F \subseteq SUBSET S
    BY DEF F
  <2> QED
    BY <1>1, <2>1, Smallest
<1>3. ASSUME NEW s, s \subseteq r, s # r
      PROVE  IsFiniteSet(s) /\ Sums(f, s, SumsOf(f, s))
  <2>1. \E it : Sums(f, s, it)
    BY <1>2, <1>3
  <2> QED
    BY <2>1, <1>3, FS_Subset DEF SumsOf
<1> DEFINE Rest(s) == s \ {Some(s)}
           it == [s \in SUBSET r |->
                    IF s = {} THEN Zero ELSE Plus(f[Some(s)], SumsOf(f, Rest(s))[Rest(s)])]
<1>4. ASSUME NEW s \in SUBSET r, s # {}
      PROVE  it[Rest(s)] = SumsOf(f, Rest(s))[Rest(s)]
  <2>1. Some(s) \in s
    BY <1>4 DEF Some
  <2>2. Rest(s) \subseteq r /\ Rest(s) # r /\ IsFiniteSet(Rest(s))
    <3>1. Rest(s) \subseteq r /\ Rest(s) # r
      BY <2>1
    <3> QED
      BY <3>1, <1>3
  <2>3. Sums(f, Rest(s), SumsOf(f, Rest(s)))
    BY <2>2, <1>3
  <2>4. CASE Rest(s) = {}
    BY <2>3, <2>4 DEF Sums
  <2>5. CASE Rest(s) # {}
    <3> DEFINE u == Rest(s)
    <3>1. Some(u) \in u
      BY <2>5 DEF Some
    <3>2. u \subseteq r /\ Rest(u) \subseteq r /\ Rest(u) # r /\ IsFiniteSet(Rest(u)) /\ Rest(u) \subseteq u
      <4>1. Rest(u) \subseteq u /\ u \subseteq r /\ Rest(u) # u
        BY <3>1, <2>2
      <4>2. Rest(u) \subseteq r /\ Rest(u) # r
        BY <4>1
      <4> QED
        BY <4>1, <4>2, <1>3
    <3>3. Sums(f, Rest(u), SumsOf(f, Rest(u)))
      BY <3>2, <1>3
    <3>4. SumsOf(f, u)[Rest(u)] = SumsOf(f, Rest(u))[Rest(u)]
      <4> HIDE DEF u
      <4> HIDE DEF Rest
      <4> QED
        BY <2>3, <3>2, <3>3, SumsAgree DEF u
    <3>5. SumsOf(f, u)[u] = Plus(f[Some(u)], SumsOf(f, u)[Rest(u)])
      <4> HIDE DEF u
      <4>1. Sums(f, u, SumsOf(f, u)) /\ u # {}
        BY <2>3, <2>5 DEF u
      <4> QED
        BY <4>1 DEF Sums
    <3>6. it[u] = Plus(f[Some(u)], SumsOf(f, Rest(u))[Rest(u)])
      <4> HIDE DEF u, Rest
      <4> QED
        BY <3>2, <2>5 DEF u
    <3> QED
      BY <3>4, <3>5, <3>6
  <2> QED
    BY <2>4, <2>5
<1>5. Sums(f, r, it)
  <2> HIDE DEF Rest
  <2>1. \A s \in SUBSET r : s # {} => it[s] = Plus(f[Some(s)], it[Rest(s)])
    <3> HIDE DEF it
    <3>1. \A s \in SUBSET r : s # {} => it[s] = Plus(f[Some(s)], SumsOf(f, Rest(s))[Rest(s)])
      BY DEF it
    <3> QED
      BY <3>1, <1>4
  <2>2. it[{}] = Zero /\ DOMAIN it = SUBSET r /\ it = [s \in DOMAIN it |-> it[s]]
    OBVIOUS
  <2> HIDE DEF it
  <2> QED
    BY <2>1, <2>2 DEF Sums, Rest
<1> QED
  BY <1>5

(* A sum is its chosen first term and the sum of the others.               *)
LEMMA SumByChoice ==
  ASSUME NEW f, NEW S, IsFiniteSet(S)
  PROVE  SumOver(S, f) = IF S = {} THEN Zero ELSE Plus(f[Some(S)], SumOver(S \ {Some(S)}, f))
<1>1. Sums(f, S, SumsOf(f, S))
  BY SumsExist
<1>2. CASE S = {}
  BY <1>1, <1>2, SumIsOfSums DEF Sums
<1>3. CASE S # {}
  <2> DEFINE u == S \ {Some(S)}
  <2>1. IsFiniteSet(u) /\ u \subseteq S
    BY FS_Subset
  <2>2. Sums(f, u, SumsOf(f, u))
    BY <2>1, SumsExist
  <2>3. SumsOf(f, S)[u] = SumsOf(f, u)[u]
    <3> HIDE DEF u
    <3> QED
      BY <1>1, <2>1, <2>2, SumsAgree
  <2>4. SumsOf(f, S)[S] = Plus(f[Some(S)], SumsOf(f, S)[u])
    BY <1>1, <1>3 DEF Sums
  <2> QED
    BY <1>3, <2>3, <2>4, SumIsOfSums
<1> QED
  BY <1>2, <1>3

(* A sum of matrices is a matrix.                                          *)
LEMMA SumIsMatrix ==
  ASSUME NEW f, NEW S, IsFiniteSet(S), \A x \in S : f[x] \in Matrices
  PROVE  SumOver(S, f) \in Matrices
<1> DEFINE F == {r \in SUBSET S : SumOver(r, f) \notin Matrices}
<1>1. SUFFICES ASSUME F # {} PROVE FALSE
  OBVIOUS
<1>2. PICK r \in F : \A u \in F : u \subseteq r => u = r
  <2> HIDE DEF F
  <2>1. F \subseteq SUBSET S
    BY DEF F
  <2> QED
    BY <1>1, <2>1, Smallest
<1>3. IsFiniteSet(r)
  BY FS_Subset
<1>4. r # {}
  BY <1>3, SumByChoice, Zero \in Matrices DEF Matrices, Zero
<1> DEFINE x == Some(r)
<1>5. x \in r
  BY <1>4 DEF Some
<1>6. SumOver(r, f) = Plus(f[x], SumOver(r \ {x}, f))
  BY <1>3, <1>4, SumByChoice
<1> HIDE DEF x
<1>7. SumOver(r \ {x}, f) \in Matrices
  BY <1>2, <1>5
<1> QED
  BY <1>5, <1>6, <1>7, SumsAreMatrices

(* Any term can be taken as the first.                                     *)
LEMMA SumBySplitting ==
  ASSUME NEW f, NEW S, IsFiniteSet(S), \A x \in S : f[x] \in Matrices, NEW y \in S
  PROVE  SumOver(S, f) = Plus(f[y], SumOver(S \ {y}, f))
<1> DEFINE F == {r \in SUBSET S : \E x \in r : SumOver(r, f) # Plus(f[x], SumOver(r \ {x}, f))}
<1>1. SUFFICES ASSUME F # {} PROVE FALSE
  OBVIOUS
<1>2. PICK r \in F : \A u \in F : u \subseteq r => u = r
  <2> HIDE DEF F
  <2>1. F \subseteq SUBSET S
    BY DEF F
  <2> QED
    BY <1>1, <2>1, Smallest
<1>3. PICK x \in r : SumOver(r, f) # Plus(f[x], SumOver(r \ {x}, f))
  OBVIOUS
<1> DEFINE z == Some(r)
<1>4. z \in r /\ SumOver(r, f) = Plus(f[z], SumOver(r \ {z}, f))
  <2>1. IsFiniteSet(r)
    BY FS_Subset
  <2> QED
    BY <1>3, <2>1, SumByChoice DEF Some
<1> HIDE DEF z
<1>5. x # z
  BY <1>3, <1>4
<1> DEFINE both == r \ {x, z}
<1>6. /\ (r \ {x}) \ {z} = both /\ (r \ {z}) \ {x} = both
      /\ x \in r \ {z} /\ z \in r \ {x}
  BY <1>4, <1>5
<1>7. /\ SumOver(r \ {z}, f) = Plus(f[x], SumOver(both, f))
      /\ SumOver(r \ {x}, f) = Plus(f[z], SumOver(both, f))
  <2>1. r \ {z} \notin F /\ r \ {x} \notin F
    BY <1>2, <1>3, <1>4
  <2>2. r \ {z} \in SUBSET S /\ r \ {x} \in SUBSET S
    OBVIOUS
  <2> QED
    BY <2>1, <2>2, <1>6
<1>8. SumOver(both, f) \in Matrices /\ f[x] \in Matrices /\ f[z] \in Matrices
  <2>1. both \subseteq S /\ IsFiniteSet(both)
    BY FS_Subset
  <2> HIDE DEF both
  <2> QED
    BY <1>4, <2>1, SumIsMatrix
<1> HIDE DEF both
<1>9. Plus(f[z], Plus(f[x], SumOver(both, f))) = Plus(f[x], Plus(f[z], SumOver(both, f)))
  BY <1>8, PlusAssociates, PlusCommutes
<1> QED
  BY <1>3, <1>4, <1>7, <1>9

(* Two sums are equal when the terms of one are terms of the other, each   *)
(* once, and the rest are zero.                                            *)
LEMMA SumByTerms ==
  ASSUME NEW S, NEW T, IsFiniteSet(S), IsFiniteSet(T), NEW f, NEW g, NEW h,
         \A x \in S : h[x] \in T /\ g[h[x]] = f[x],
         \A x, y \in S : h[x] = h[y] => x = y,
         \A t \in T : (\A x \in S : h[x] # t) => g[t] = Zero,
         \A t \in T : g[t] \in Matrices
  PROVE  SumOver(S, f) = SumOver(T, g)
<1> DEFINE Over(r) == {x \in S : h[x] \in r}
           F == {r \in SUBSET T : SumOver(Over(r), f) # SumOver(r, g)}
<1>1. SUFFICES ASSUME F # {} PROVE FALSE
  <2>1. Over(T) = S
    OBVIOUS
  <2> QED
    BY <2>1
<1>2. PICK r \in F : \A u \in F : u \subseteq r => u = r
  <2> HIDE DEF F
  <2>1. F \subseteq SUBSET T
    BY DEF F
  <2> QED
    BY <1>1, <2>1, Smallest
<1>3. \A u \in SUBSET T : IsFiniteSet(u) /\ IsFiniteSet(Over(u)) /\ \A x \in Over(u) : f[x] \in Matrices
  BY FS_Subset
<1>4. r # {}
  <2>1. Over({}) = {}
    OBVIOUS
  <2>2. SumOver({}, f) = Zero /\ SumOver({}, g) = Zero
    BY FS_EmptySet, SumByChoice
  <2> QED
    BY <2>1, <2>2
<1>5. PICK t \in r : TRUE
  BY <1>4
<1>6. SumOver(r, g) = Plus(g[t], SumOver(r \ {t}, g))
  BY <1>3, SumBySplitting
<1>7. SumOver(Over(r \ {t}), f) = SumOver(r \ {t}, g) /\ SumOver(r \ {t}, g) \in Matrices
  <2>1. r \ {t} \in SUBSET T /\ r \ {t} \notin F
    BY <1>2
  <2>2. IsFiniteSet(r \ {t})
    BY <1>3, <2>1
  <2> QED
    BY <2>1, <2>2, SumIsMatrix
<1>8. CASE \E x \in S : h[x] = t
  <2>1. PICK x \in S : h[x] = t
    BY <1>8
  <2>2. x \in Over(r) /\ Over(r) \ {x} = Over(r \ {t}) /\ f[x] = g[t]
    BY <2>1
  <2>3. SumOver(Over(r), f) = Plus(f[x], SumOver(Over(r) \ {x}, f))
    <3> HIDE DEF Over
    <3> QED
      BY <1>3, <2>2, SumBySplitting
  <2> QED
    BY <2>2, <2>3, <1>6, <1>7
<1>9. CASE \A x \in S : h[x] # t
  <2>1. Over(r) = Over(r \ {t}) /\ g[t] = Zero
    BY <1>9
  <2> QED
    BY <2>1, <1>6, <1>7, ZeroIsNeutral
<1> QED
  BY <1>8, <1>9

-----------------------------------------------------------------------------
(***************************************************************************)
(* What is kept is true. The invariant TellInv adds to the property that   *)
(* all blocks are matrices, without which a transposed block need not      *)
(* transpose back, and that only known variables are doubtful.             *)
(***************************************************************************)
(* What a table of blocks says of two variables.                           *)
Says(b, i, j) == IF Related(b, i, j) THEN Block(b, i, j) ELSE Zero
Tells(b, t, ids) == \A i, j \in ids : Says(b, i, j) = t[<<i, j>>]
OfMatrices(b) == \A key \in DOMAIN b : b[key] \in Matrices

(* The keys of a pair in both orders.                                      *)
LEMMA KeysOfPairs ==
  ASSUME NEW i \in Nat, NEW j \in Nat
  PROVE  /\ Key(i, j) = Key(j, i)
         /\ i <= j => Key(i, j) = <<i, j>>
         /\ j <= i => Key(i, j) = <<j, i>>
         /\ Key(i, j)[1] \in {i, j} /\ Key(i, j)[2] \in {i, j}
         /\ {Key(i, j)[1], Key(i, j)[2]} = {i, j}
BY DEF Key

LEMMA SaysMatrix ==
  ASSUME NEW b, OfMatrices(b), NEW i \in Nat, NEW j \in Nat
  PROVE  /\ Says(b, i, j) \in Matrices
         /\ i # j => Says(b, j, i) = Transpose(Says(b, i, j))
         /\ (Related(b, i, j) /\ b[Key(i, j)] = Zero) => Says(b, i, j) = Zero
<1>1. Zero \in Matrices /\ Transpose(Zero) = Zero
  BY DEF Matrices, Zero, Transpose
<1>2. CASE Related(b, i, j)
  <2>1. b[Key(i, j)] \in Matrices /\ Key(i, j) = Key(j, i) /\ Related(b, j, i)
    BY <1>2, KeysOfPairs DEF Related, OfMatrices
  <2>2. Says(b, i, j) = Block(b, i, j) /\ Says(b, j, i) = Block(b, j, i)
    BY <1>2, <2>1 DEF Says
  <2>3. CASE i <= j
    <3>1. Block(b, i, j) = b[Key(i, j)]
      BY <2>3 DEF Block
    <3>2. i # j => Block(b, j, i) = Transpose(b[Key(i, j)])
      BY <2>3, <2>1 DEF Block
    <3> QED
      BY <2>1, <2>2, <3>1, <3>2, <1>1, TransposedTwice
  <2>4. CASE ~(i <= j)
    <3>1. Block(b, i, j) = Transpose(b[Key(i, j)])
      BY <2>4 DEF Block
    <3>2. Block(b, j, i) = b[Key(i, j)]
      BY <2>4, <2>1 DEF Block
    <3> QED
      BY <2>1, <2>2, <3>1, <3>2, <1>1, TransposedTwice
  <2> QED
    BY <2>3, <2>4
<1>3. CASE ~Related(b, i, j)
  <2>1. ~Related(b, j, i)
    BY <1>3, KeysOfPairs DEF Related
  <2> QED
    BY <1>1, <1>3, <2>1 DEF Says
<1> QED
  BY <1>2, <1>3

(* Tables that have the same block for a pair say the same of it.          *)
LEMMA SameBlockSaysSame ==
  ASSUME NEW b, NEW d, NEW i, NEW j,
         Key(i, j) \in DOMAIN b <=> Key(i, j) \in DOMAIN d,
         Key(i, j) \in DOMAIN b => b[Key(i, j)] = d[Key(i, j)]
  PROVE  /\ Related(b, i, j) <=> Related(d, i, j)
         /\ Related(b, i, j) => Block(b, i, j) = Block(d, i, j)
         /\ Says(b, i, j) = Says(d, i, j)
BY DEF Says, Related, Block, Key

-----------------------------------------------------------------------------
(* Pruning leaves what is true true, of what is not doubtful afterwards.   *)
LEMMA PruneTells ==
  ASSUME NEW b, NEW l, NEW now \in Nat, NEW ids \in SUBSET Ids, NEW t, NEW doubts,
         config \in Configs, DOMAIN t = Pairs(ids),
         IsLedger(l, now), OfMatrices(b), OfMatrices(t),
         Tells(b, t, ids \ doubts),
         Prune(b, l, now, t, doubts)
  PROVE  /\ OfMatrices(blocks') /\ OfMatrices(truth')
         /\ doubtful' \subseteq Known'
         /\ Tells(blocks', truth', Known' \ doubtful')
<1> DEFINE old  == Expired(l, now)
           kept == Remembered(ids, l, now)
           rest == Without(b, BlocksOf(old))
           lost == {key \in Weak(rest) : rest[key] # Zero}
<1>1. config.maxAge \in Nat
  BY ConfigsAssumption
<1>2. {pair[1] : pair \in DOMAIN t} = ids
  BY KnownOfTable
<1>3. /\ blocks' = Without(rest, Weak(rest))
      /\ truth' = Restrict(t, Pairs(kept))
      /\ doubtful' = (doubts \cup UNION {{key[1], key[2]} : key \in lost}) \cap kept
  BY <1>2 DEF Prune, Pruned
<1>4. Known' = kept
  <2>1. DOMAIN truth' = Pairs(kept)
    BY <1>3 DEF Restrict
  <2>2. {pair[1] : pair \in DOMAIN truth'} = kept
    BY <2>1, KnownOfTable
  <2> QED
    BY <2>2 DEF Known
<1>5. kept \subseteq ids
  BY DEF Remembered
<1>6. \A i \in kept : i \notin old
  <2>1. ASSUME NEW i \in kept, i \in old PROVE FALSE
    <3>1. i \in DOMAIN l /\ l[i] \in Nat /\ now - l[i] <= config.maxAge
      BY <2>1 DEF Remembered, Expired, IsLedger
    <3> QED
      BY <1>1, <2>1, <3>1 DEF Expired
  <2> QED
    BY <2>1
<1>7. OfMatrices(blocks') /\ OfMatrices(truth')
  <2>1. \A key \in DOMAIN blocks' : key \in DOMAIN b /\ blocks'[key] = b[key]
    BY <1>3 DEF Without, Restrict
  <2>2. \A pair \in DOMAIN truth' : pair \in DOMAIN t /\ truth'[pair] = t[pair]
    BY <1>3, <1>5 DEF Restrict, Pairs
  <2> QED
    BY <2>1, <2>2 DEF OfMatrices
<1>8. ASSUME NEW i \in kept \ doubtful', NEW j \in kept \ doubtful'
      PROVE  Says(blocks', i, j) = truth'[<<i, j>>]
  <2>1. i \in Nat /\ j \in Nat /\ i \in ids \ doubts /\ j \in ids \ doubts
    BY <1>3, <1>5, IdsAssumption
  <2>2. truth'[<<i, j>>] = t[<<i, j>>]
    BY <1>3 DEF Restrict, Pairs
  <2>3. Says(b, i, j) = t[<<i, j>>]
    BY <2>1 DEF Tells
  <2> DEFINE key == Key(i, j)
  <2>4. key \in DOMAIN rest <=> key \in DOMAIN b
    <3>1. key[1] \notin old /\ key[2] \notin old
      BY <1>6, <2>1, KeysOfPairs
    <3>2. key \notin BlocksOf(old)
      BY <3>1 DEF BlocksOf
    <3> QED
      BY <3>2 DEF Without, Restrict
  <2>5. key \in DOMAIN rest => rest[key] = b[key]
    BY DEF Without, Restrict
  <2>6. key \notin lost
    <3>1. SUFFICES ASSUME key \in lost PROVE FALSE
      OBVIOUS
    <3>2. {key[1], key[2]} = {i, j}
      BY <2>1, KeysOfPairs
    <3>3. {key[1], key[2]} \subseteq doubts \cup UNION {{k[1], k[2]} : k \in lost}
      BY <3>1
    <3> HIDE DEF lost, key
    <3> QED
      BY <3>2, <3>3, <1>3
  <2>7. CASE key \in Weak(rest)
    <3>1. key \in DOMAIN rest /\ rest[key] = Zero
      BY <2>6, <2>7 DEF Weak
    <3>2. Says(b, i, j) = Zero
      <4>1. b[key] = Zero /\ key \in DOMAIN b
        BY <3>1, <2>4, <2>5
      <4> QED
        BY <2>1, <4>1, SaysMatrix DEF Related
    <3>3. key \notin DOMAIN blocks'
      BY <2>7, <1>3 DEF Without, Restrict
    <3> QED
      BY <2>2, <2>3, <3>2, <3>3 DEF Says, Related
  <2>8. CASE key \notin Weak(rest)
    <3>1. key \in DOMAIN blocks' <=> key \in DOMAIN b
      BY <2>4, <2>8, <1>3 DEF Without, Restrict
    <3>2. key \in DOMAIN blocks' => blocks'[key] = b[key]
      BY <2>5, <1>3 DEF Without, Restrict
    <3> QED
      BY <2>2, <2>3, <3>1, <3>2, SameBlockSaysSame
  <2> QED
    BY <2>7, <2>8
<1> QED
  BY <1>3, <1>4, <1>7, <1>8 DEF Tells

-----------------------------------------------------------------------------
TellInv ==
  /\ doubtful \subseteq Known
  /\ OfMatrices(blocks) /\ OfMatrices(truth)
  /\ Tells(blocks, truth, Known \ doubtful)

LEMMA TruthWithTells ==
  ASSUME NEW id, NEW v, NEW c
  PROVE  /\ TruthWith(id, v, c)[<<id, id>>] = v
         /\ \A k \in Known \ {id} : /\ TruthWith(id, v, c)[<<id, k>>] = c[k]
                                    /\ TruthWith(id, v, c)[<<k, id>>] = Transpose(c[k])
         /\ \A i, j \in Known \ {id} : TruthWith(id, v, c)[<<i, j>>] = truth[<<i, j>>]
<1>1. \A i, j \in Known \cup {id} : <<i, j>> \in Pairs(Known \cup {id})
  BY DEF Pairs
<1> QED
  BY <1>1 DEF TruthWith

LEMMA TruthWithMatrices ==
  ASSUME OfMatrices(truth), DOMAIN truth = Pairs(Known), NEW id, NEW v \in Matrices, NEW c,
         \A k \in Known : c[k] \in Matrices
  PROVE  OfMatrices(TruthWith(id, v, c))
<1> SUFFICES ASSUME NEW pair \in Pairs(Known \cup {id})
             PROVE  TruthWith(id, v, c)[pair] \in Matrices
  BY DomainOfTruthWith DEF OfMatrices
<1>1. PICK i \in Known \cup {id}, j \in Known \cup {id} : pair = <<i, j>>
  BY DEF Pairs
<1> DEFINE t == TruthWith(id, v, c)
<1>6. /\ t[<<id, id>>] = v
      /\ \A k \in Known \ {id} : t[<<id, k>>] = c[k] /\ t[<<k, id>>] = Transpose(c[k])
      /\ \A k, m \in Known \ {id} : t[<<k, m>>] = truth[<<k, m>>]
  BY TruthWithTells
<1> HIDE DEF t
<1>7. SUFFICES t[<<i, j>>] \in Matrices
  BY <1>1 DEF t
<1>2. CASE i = id /\ j = id
  BY <1>2, <1>6
<1>3. CASE i = id /\ j # id
  BY <1>3, <1>6
<1>4. CASE i # id /\ j = id
  <2>1. Transpose(c[i]) \in Matrices
    BY <1>4, TransposedTwice
  <2> QED
    BY <1>4, <1>6, <2>1
<1>5. CASE i # id /\ j # id
  <2>1. <<i, j>> \in DOMAIN truth
    BY <1>5 DEF Pairs
  <2> QED
    BY <1>5, <1>6, <2>1 DEF OfMatrices
<1> QED
  BY <1>2, <1>3, <1>4, <1>5

(* A variable that was not known has no block with any other.              *)
LEMMA UnknownHasNone ==
  ASSUME BlocksWithin(blocks, Known), Known \subseteq Ids, NEW i \in Ids, NEW j \in Ids,
         i \notin Known
  PROVE  Key(i, j) \notin DOMAIN blocks
<1>1. i \in Nat /\ j \in Nat
  BY IdsAssumption
<1> QED
  BY <1>1, KeysOfPairs DEF BlocksWithin

(* A new variable has its variance, and is related to no other.            *)
LEMMA RegisterTells ==
  ASSUME Inv, TellInv, NEW id \in Ids, NEW d \in Variances, Register(id, d)
  PROVE  TellInv'
<1> DEFINE c == [k \in Known |-> Zero]
           t == TruthWith(id, Diagonal(d), c)
<1>1. /\ blocks' = With(blocks, <<id, id>>, Diagonal(d))
      /\ truth' = TruthWith(id, Diagonal(d), c)
      /\ doubtful' = IF id \in Known THEN doubtful \cup {id} ELSE doubtful
  BY DEF Register
<1>8. /\ t[<<id, id>>] = Diagonal(d)
      /\ \A k \in Known \ {id} : t[<<id, k>>] = c[k] /\ t[<<k, id>>] = Transpose(c[k])
      /\ \A k, m \in Known \ {id} : t[<<k, m>>] = truth[<<k, m>>]
  <2> HIDE DEF c
  <2> QED
    BY TruthWithTells
<1>9. truth' = t
  BY <1>1
<1>2. Known' = Known \cup {id}
  <2>1. DOMAIN truth' = Pairs(Known \cup {id})
    BY <1>1, DomainOfTruthWith
  <2>2. {pair[1] : pair \in DOMAIN truth'} = Known \cup {id}
    BY <2>1, KnownOfTable
  <2> QED
    BY <2>2 DEF Known
<1>3. Zero \in Matrices /\ Diagonal(d) \in Matrices /\ Transpose(Zero) = Zero
  BY NumbersAssumption DEF Zero, Matrices, Diagonal, Transpose
<1>4. OfMatrices(truth')
  BY <1>1, <1>3, TruthWithMatrices DEF Inv, TellInv
<1>5. OfMatrices(blocks')
  BY <1>1, <1>3 DEF TellInv, OfMatrices, With
<1>6. ASSUME NEW i \in Known' \ doubtful', NEW j \in Known' \ doubtful'
      PROVE  Says(blocks', i, j) = truth'[<<i, j>>]
  <2>1. i \in Ids /\ j \in Ids /\ i \in Nat /\ j \in Nat /\ id \in Nat
    BY <1>2, IdsAssumption DEF Inv
  <2>2. ASSUME i # id \/ j # id
        PROVE  Says(blocks', i, j) = Says(blocks, i, j)
    <3>1. Key(i, j) # <<id, id>>
      <4>1. Key(i, j)[1] # id \/ Key(i, j)[2] # id
        BY <2>1, <2>2, KeysOfPairs
      <4> QED
        BY <4>1
    <3> QED
      BY <3>1, <1>1, SameBlockSaysSame DEF With
  <2>3. CASE i = id /\ j = id
    <3>1. Key(i, j) = <<id, id>>
      BY <2>1, <2>3, KeysOfPairs
    <3>2. Says(blocks', i, j) = Diagonal(d)
      BY <3>1, <1>1, <2>1, <2>3 DEF Says, Related, Block, With
    <3> QED
      BY <3>2, <1>1, <2>3, TruthWithTells
  <2>4. CASE i = id /\ j # id
    <3>1. id \notin Known /\ j \in Known
      BY <1>1, <1>2, <2>4
    <3>2. Says(blocks, i, j) = Zero
      BY <3>1, <2>1, <2>4, UnknownHasNone DEF Inv, Says, Related
    <3>3. truth'[<<i, j>>] = Zero
      <4> HIDE DEF t
      <4> QED
        BY <3>1, <1>3, <1>8, <1>9, <2>4
    <3> QED
      BY <2>2, <2>4, <3>2, <3>3
  <2>5. CASE i # id /\ j = id
    <3>1. id \notin Known /\ i \in Known
      BY <1>1, <1>2, <2>5
    <3>2. Says(blocks, i, j) = Zero
      BY <3>1, <2>1, <2>5, UnknownHasNone, KeysOfPairs DEF Inv, Says, Related
    <3>3. truth'[<<i, j>>] = Zero
      <4> HIDE DEF t
      <4> QED
        BY <3>1, <1>3, <1>8, <1>9, <2>5
    <3> QED
      BY <2>2, <2>5, <3>2, <3>3
  <2>6. CASE i # id /\ j # id
    <3>1. i \in Known \ doubtful /\ j \in Known \ doubtful
      BY <1>1, <1>2, <2>6
    <3>2. truth'[<<i, j>>] = truth[<<i, j>>]
      BY <3>1, <1>1, <2>6, TruthWithTells
    <3> QED
      BY <2>2, <2>6, <3>1, <3>2 DEF TellInv, Tells
  <2> QED
    BY <2>3, <2>4, <2>5, <2>6
<1>7. doubtful' \subseteq Known'
  BY <1>1, <1>2 DEF TellInv
<1> QED
  BY <1>4, <1>5, <1>6, <1>7 DEF TellInv, Tells

-----------------------------------------------------------------------------
(* A propagation has a Jacobian, which is a matrix, for every input.       *)
LEMMA PropagationArguments ==
  ASSUME NEW inputs \in Inputs, NEW js \in Jacobians, Len(js) = Len(inputs)
  PROVE  /\ IsFiniteSet(DOMAIN inputs) /\ IsFiniteSet((DOMAIN inputs) \X (DOMAIN inputs))
         /\ DOMAIN inputs \subseteq Nat /\ ToSet(inputs) \subseteq Ids
         /\ \A p \in DOMAIN inputs : js[p] \in Matrices
<1>1. PICK n \in 1 .. MaxInputs : inputs \in [1 .. n -> Ids]
  BY DEF Inputs
<1>2. n \in Nat /\ DOMAIN inputs = 1 .. n /\ Len(inputs) = n
  BY <1>1, IdsAssumption
<1>3. IsFiniteSet(1 .. n)
  BY <1>2, FS_Interval
<1>4. js \in Seq(Matrices)
  BY NumbersAssumption
<1> QED
  BY <1>1, <1>2, <1>3, <1>4, FS_Product DEF ToSet

(* The variance of the result: the blocks that are absent would add zero.  *)
LEMMA OutputVarianceIsTrue ==
  ASSUME Inv, TellInv, NEW inputs \in Inputs, NEW js \in Jacobians, Len(js) = Len(inputs),
         ToSet(inputs) \subseteq Known \ doubtful
  PROVE  LET positions == DOMAIN inputs
             v == SumOver(positions \X positions, [p \in positions \X positions |->
                    Sandwich(js[p[1]], True(inputs[p[1]], inputs[p[2]]), js[p[2]])])
         IN  v \in Matrices /\ OutputVariance(blocks, inputs, js).value = v
<1> DEFINE positions == DOMAIN inputs
           T == positions \X positions
           g == [p \in T |-> Sandwich(js[p[1]], True(inputs[p[1]], inputs[p[2]]), js[p[2]])]
           S == {p \in T : Related(blocks, inputs[p[1]], inputs[p[2]])}
           f == [p \in S |->
                  Sandwich(js[p[1]], Block(blocks, inputs[p[1]], inputs[p[2]]), js[p[2]])]
           h == [p \in S |-> p]
<1>1. OutputVariance(blocks, inputs, js).value = SumOver(S, f)
  BY DEF OutputVariance
<1>2. /\ IsFiniteSet(T) /\ IsFiniteSet(S)
      /\ \A p \in T : /\ js[p[1]] \in Matrices /\ js[p[2]] \in Matrices
                      /\ inputs[p[1]] \in ToSet(inputs) /\ inputs[p[2]] \in ToSet(inputs)
  <2>1. IsFiniteSet(T)
    BY PropagationArguments
  <2>2. IsFiniteSet(S)
    BY <2>1, FS_Subset
  <2>3. \A p \in T : p[1] \in positions /\ p[2] \in positions
    OBVIOUS
  <2> QED
    BY <2>1, <2>2, <2>3, PropagationArguments DEF ToSet
<1>3. ASSUME NEW p \in T
      PROVE  /\ True(inputs[p[1]], inputs[p[2]]) = Says(blocks, inputs[p[1]], inputs[p[2]])
             /\ True(inputs[p[1]], inputs[p[2]]) \in Matrices
  <2>1. inputs[p[1]] \in Known \ doubtful /\ inputs[p[2]] \in Known \ doubtful
    BY <1>2
  <2>2. True(inputs[p[1]], inputs[p[2]]) = truth[<<inputs[p[1]], inputs[p[2]]>>]
    BY <2>1 DEF True
  <2>3. <<inputs[p[1]], inputs[p[2]]>> \in DOMAIN truth
    BY <2>1 DEF Inv, Pairs
  <2> QED
    BY <2>1, <2>2, <2>3 DEF TellInv, Tells, OfMatrices
<1>4. \A p \in T : g[p] \in Matrices
  <2>1. \A p \in T : g[p] = Sandwich(js[p[1]], True(inputs[p[1]], inputs[p[2]]), js[p[2]])
    OBVIOUS
  <2> HIDE DEF g, T
  <2> QED
    BY <2>1, <1>2, <1>3, SandwichesAreMatrices
<1>5. \A p \in S : h[p] \in T /\ g[h[p]] = f[p]
  <2> SUFFICES ASSUME NEW p \in S PROVE g[p] = f[p]
    OBVIOUS
  <2>1. Says(blocks, inputs[p[1]], inputs[p[2]]) = Block(blocks, inputs[p[1]], inputs[p[2]])
    BY DEF Says
  <2> QED
    BY <2>1, <1>3
<1>6. \A p \in T : (\A x \in S : h[x] # p) => g[p] = Zero
  <2> SUFFICES ASSUME NEW p \in T, p \notin S PROVE g[p] = Zero
    OBVIOUS
  <2>1. True(inputs[p[1]], inputs[p[2]]) = Zero
    BY <1>3 DEF Says
  <2> QED
    BY <2>1, <1>2, NothingSandwiched
<1>7. \A x, y \in S : h[x] = h[y] => x = y
  OBVIOUS
<1> HIDE DEF S, T, f, g, h
<1>8. SumOver(S, f) = SumOver(T, g)
  <2>1. IsFiniteSet(S) /\ IsFiniteSet(T)
    BY <1>2
  <2> QED
    BY <2>1, <1>4, <1>5, <1>6, <1>7, SumByTerms
<1>9. SumOver(T, g) \in Matrices
  BY <1>2, <1>4, SumIsMatrix
<1> QED
  BY <1>1, <1>8, <1>9 DEF T, g

(* The covariance of the result with k, as computed and as it is.          *)
CrossSum(b, inputs, js, k) ==
  LET related == {i \in ToSet(inputs) : Related(b, i, k)}
  IN  SumOver(related, [i \in related |-> Times(js[First(inputs, i)], Block(b, i, k))])
TrueSum(inputs, js, k) ==
  SumOver(DOMAIN inputs, [p \in DOMAIN inputs |-> Times(js[p], True(inputs[p], k))])

(* What an input has with a variable is multiplied by the Jacobian of its  *)
(* only position; the inputs that have nothing with it would add zero.     *)
LEMMA CrossCovarianceIsTrue ==
  ASSUME Inv, TellInv, NEW inputs \in Inputs, NEW js \in Jacobians, Len(js) = Len(inputs),
         ToSet(inputs) \subseteq Known \ doubtful, IsInjective(inputs),
         NEW own, NEW k \in Known \ doubtful,
         \A i \in ToSet(inputs) : /\ Related(own, i, k) <=> Related(blocks, i, k)
                                  /\ Related(own, i, k) => Block(own, i, k) = Block(blocks, i, k)
  PROVE  /\ TrueSum(inputs, js, k) \in Matrices
         /\ CrossSum(own, inputs, js, k) = TrueSum(inputs, js, k)
<1> DEFINE T == DOMAIN inputs
           g == [p \in T |-> Times(js[p], True(inputs[p], k))]
           S == {i \in ToSet(inputs) : Related(own, i, k)}
           f == [i \in S |-> Times(js[First(inputs, i)], Block(own, i, k))]
           h == [i \in S |-> First(inputs, i)]
<1>1. /\ IsFiniteSet(T) /\ IsFiniteSet(S) /\ T \subseteq Nat
      /\ \A p \in T : js[p] \in Matrices /\ inputs[p] \in ToSet(inputs)
  <2>1. IsFiniteSet(S)
    BY PropagationArguments, IdsAssumption, FS_Subset
  <2> QED
    BY <2>1, PropagationArguments DEF ToSet
<1>2. ASSUME NEW p \in T
      PROVE  /\ True(inputs[p], k) = Says(blocks, inputs[p], k)
             /\ True(inputs[p], k) \in Matrices
  <2>1. inputs[p] \in Known \ doubtful
    BY <1>1
  <2>2. True(inputs[p], k) = truth[<<inputs[p], k>>]
    BY <2>1 DEF True
  <2>3. <<inputs[p], k>> \in DOMAIN truth
    BY <2>1 DEF Inv, Pairs
  <2> QED
    BY <2>1, <2>2, <2>3 DEF TellInv, Tells, OfMatrices
<1>3. \A p \in T : g[p] \in Matrices
  <2>1. \A p \in T : g[p] = Times(js[p], True(inputs[p], k))
    OBVIOUS
  <2> HIDE DEF g, T
  <2> QED
    BY <2>1, <1>1, <1>2, ProductsAreMatrices
<1>4. ASSUME NEW p \in T PROVE First(inputs, inputs[p]) = p
  <2>1. \A q \in T : inputs[q] = inputs[p] => q = p
    BY DEF IsInjective
  <2>2. \A q \in 1 .. (p - 1) : inputs[q] # inputs[p]
    <3> SUFFICES ASSUME NEW q \in 1 .. (p - 1), inputs[q] = inputs[p] PROVE FALSE
      OBVIOUS
    <3>1. PICK n \in 1 .. MaxInputs : inputs \in [1 .. n -> Ids]
      BY DEF Inputs
    <3>2. q \in T /\ q # p
      BY <3>1, IdsAssumption
    <3> QED
      BY <2>1, <3>2
  <2>3. \A q \in T : (inputs[q] = inputs[p] /\ \A r \in 1 .. (q - 1) : inputs[r] # inputs[p]) <=> q = p
    BY <2>1, <2>2
  <2> HIDE DEF T
  <2>4. (CHOOSE q \in T : inputs[q] = inputs[p] /\ \A r \in 1 .. (q - 1) : inputs[r] # inputs[p]) = p
    BY <2>3
  <2> QED
    BY <2>4 DEF First, T
<1>5. ASSUME NEW i \in ToSet(inputs) PROVE First(inputs, i) \in T /\ inputs[First(inputs, i)] = i
  <2>1. PICK p \in T : inputs[p] = i
    BY DEF ToSet
  <2> QED
    BY <2>1, <1>4
<1>6. \A i \in S : h[i] \in T /\ g[h[i]] = f[i]
  <2> SUFFICES ASSUME NEW i \in S PROVE h[i] \in T /\ g[h[i]] = f[i]
    OBVIOUS
  <2>1. First(inputs, i) \in T /\ inputs[First(inputs, i)] = i
    BY <1>5
  <2>2. True(i, k) = Block(own, i, k)
    <3>1. Says(blocks, i, k) = Block(own, i, k)
      BY DEF Says
    <3> QED
      BY <2>1, <1>2, <3>1
  <2>3. g[First(inputs, i)] = Times(js[First(inputs, i)], True(i, k))
    BY <2>1
  <2> QED
    BY <2>1, <2>2, <2>3
<1>7. \A p \in T : (\A i \in S : h[i] # p) => g[p] = Zero
  <2> SUFFICES ASSUME NEW p \in T, \A i \in S : h[i] # p PROVE g[p] = Zero
    OBVIOUS
  <2>1. inputs[p] \in ToSet(inputs) /\ inputs[p] \notin S
    <3>1. inputs[p] \in S => h[inputs[p]] = p
      BY <1>4
    <3> QED
      BY <3>1, <1>1
  <2>2. ~Related(blocks, inputs[p], k)
    BY <2>1
  <2>3. True(inputs[p], k) = Zero
    BY <1>2, <2>2 DEF Says
  <2> QED
    BY <2>3, <1>1, TimesZero
<1>8. \A x, y \in S : h[x] = h[y] => x = y
  <2>1. \A x \in S : inputs[h[x]] = x
    BY <1>5
  <2> QED
    BY <2>1
<1> HIDE DEF S, T, f, g, h
<1>9. SumOver(S, f) = SumOver(T, g)
  <2>1. IsFiniteSet(S) /\ IsFiniteSet(T)
    BY <1>1
  <2> QED
    BY <2>1, <1>3, <1>6, <1>7, <1>8, SumByTerms
<1>10. SumOver(T, g) \in Matrices
  BY <1>1, <1>3, SumIsMatrix
<1> QED
  BY <1>9, <1>10 DEF S, T, f, g, CrossSum, TrueSum

-----------------------------------------------------------------------------
(* Whatever the arguments of a propagation are, it computes matrices.      *)
LEMMA FirstIsPosition ==
  ASSUME NEW inputs \in Inputs, NEW i \in ToSet(inputs)
  PROVE  First(inputs, i) \in DOMAIN inputs
<1> DEFINE T == {p \in DOMAIN inputs : inputs[p] = i}
<1>1. PICK n \in 1 .. MaxInputs : inputs \in [1 .. n -> Ids]
  BY DEF Inputs
<1>2. T \subseteq Nat /\ T # {}
  BY <1>1 DEF ToSet
<1>3. PICK p \in T : \A q \in T : p <= q
  <2> HIDE DEF T
  <2> QED
    BY <1>2, LeastNatural
<1>4. \A q \in 1 .. (p - 1) : inputs[q] # i
  <2> SUFFICES ASSUME NEW q \in 1 .. (p - 1), inputs[q] = i PROVE FALSE
    OBVIOUS
  <2>1. q \in T /\ q < p /\ p \in Nat
    BY <1>1, <1>2, IdsAssumption
  <2> QED
    BY <2>1, <1>3
<1> QED
  BY <1>3, <1>4 DEF First

LEMMA BlocksAreMatrices ==
  ASSUME NEW b, OfMatrices(b), NEW i \in Ids, NEW j \in Ids, Related(b, i, j)
  PROVE  Block(b, i, j) \in Matrices
BY SaysMatrix, IdsAssumption DEF Says

LEMMA TruthsAreMatrices ==
  ASSUME OfMatrices(truth), DOMAIN truth = Pairs(Known), NEW i, NEW j
  PROVE  True(i, j) \in Matrices
<1>1. Zero \in Matrices
  BY DEF Zero, Matrices
<1>2. {i, j} \subseteq Known => <<i, j>> \in DOMAIN truth
  BY DEF Pairs
<1> QED
  BY <1>1, <1>2 DEF True, OfMatrices

LEMMA PropagatedMatrices ==
  ASSUME Inv, TellInv, NEW inputs \in Inputs, NEW js \in Jacobians, Len(js) = Len(inputs),
         NEW out \in Ids, NEW b, OfMatrices(b)
  PROVE  LET positions == DOMAIN inputs
         IN  /\ OutputVariance(b, inputs, js).value \in Matrices
             /\ \A k \in External(b, out, inputs) :
                  CrossCovariances(b, out, inputs, js)[k] \in Matrices
             /\ SumOver(positions \X positions, [p \in positions \X positions |->
                  Sandwich(js[p[1]], True(inputs[p[1]], inputs[p[2]]), js[p[2]])]) \in Matrices
             /\ \A k : SumOver(positions, [p \in positions |-> Times(js[p], True(inputs[p], k))])
                         \in Matrices
<1> DEFINE positions == DOMAIN inputs
           T == positions \X positions
<1>1. /\ IsFiniteSet(positions) /\ IsFiniteSet(T)
      /\ \A p \in positions : js[p] \in Matrices /\ inputs[p] \in Ids
  BY PropagationArguments DEF ToSet
<1>2. \A p \in T : p[1] \in positions /\ p[2] \in positions
  OBVIOUS
<1>3. \A i, j : True(i, j) \in Matrices
  BY TruthsAreMatrices DEF Inv, TellInv
<1>4. OutputVariance(b, inputs, js).value \in Matrices
  <2> DEFINE S == {p \in T : Related(b, inputs[p[1]], inputs[p[2]])}
             f == [p \in S |-> Sandwich(js[p[1]], Block(b, inputs[p[1]], inputs[p[2]]), js[p[2]])]
  <2>1. OutputVariance(b, inputs, js).value = SumOver(S, f)
    BY DEF OutputVariance
  <2>2. ASSUME NEW p \in S PROVE f[p] \in Matrices
    <3>1. f[p] = Sandwich(js[p[1]], Block(b, inputs[p[1]], inputs[p[2]]), js[p[2]])
      OBVIOUS
    <3>2. Block(b, inputs[p[1]], inputs[p[2]]) \in Matrices
      BY <1>1, <1>2, BlocksAreMatrices
    <3>3. js[p[1]] \in Matrices /\ js[p[2]] \in Matrices
      BY <1>1, <1>2
    <3> HIDE DEF f, S
    <3> QED
      BY <3>1, <3>2, <3>3, SandwichesAreMatrices
  <2>3. IsFiniteSet(S)
    BY <1>1, FS_Subset
  <2> HIDE DEF f, S
  <2> QED
    BY <2>1, <2>2, <2>3, SumIsMatrix
<1>5. ASSUME NEW k \in External(b, out, inputs)
      PROVE  CrossCovariances(b, out, inputs, js)[k] \in Matrices
  <2> DEFINE S == {i \in ToSet(inputs) : Related(b, i, k)}
             f == [i \in S |-> Times(js[First(inputs, i)], Block(b, i, k))]
  <2>1. CrossCovariances(b, out, inputs, js)[k] = SumOver(S, f)
    BY DEF CrossCovariances
  <2>2. ASSUME NEW i \in S PROVE f[i] \in Matrices
    <3>1. f[i] = Times(js[First(inputs, i)], Block(b, i, k))
      OBVIOUS
    <3>2. Block(b, i, k) \in Matrices
      BY PropagationArguments, BlocksAreMatrices DEF External
    <3>3. js[First(inputs, i)] \in Matrices
      BY <1>1, FirstIsPosition
    <3> HIDE DEF f, S
    <3> QED
      BY <3>1, <3>2, <3>3, ProductsAreMatrices
  <2>3. IsFiniteSet(S)
    BY PropagationArguments, IdsAssumption, FS_Subset
  <2> HIDE DEF f, S
  <2> QED
    BY <2>1, <2>2, <2>3, SumIsMatrix
<1>6. SumOver(T, [p \in T |-> Sandwich(js[p[1]], True(inputs[p[1]], inputs[p[2]]), js[p[2]])])
        \in Matrices
  <2> DEFINE f == [p \in T |-> Sandwich(js[p[1]], True(inputs[p[1]], inputs[p[2]]), js[p[2]])]
  <2>1. \A p \in T : f[p] = Sandwich(js[p[1]], True(inputs[p[1]], inputs[p[2]]), js[p[2]])
    OBVIOUS
  <2> HIDE DEF f, T
  <2>2. \A p \in T : f[p] \in Matrices
    BY <2>1, <1>1, <1>2, <1>3, SandwichesAreMatrices
  <2>3. SumOver(T, f) \in Matrices
    BY <1>1, <2>2, SumIsMatrix
  <2> QED
    BY <2>3 DEF f
<1>7. ASSUME NEW k
      PROVE  SumOver(positions, [p \in positions |-> Times(js[p], True(inputs[p], k))]) \in Matrices
  <2> DEFINE f == [p \in positions |-> Times(js[p], True(inputs[p], k))]
  <2>1. \A p \in positions : f[p] = Times(js[p], True(inputs[p], k))
    OBVIOUS
  <2> HIDE DEF f, positions
  <2>2. \A p \in positions : f[p] \in Matrices
    BY <2>1, <1>1, <1>3, ProductsAreMatrices
  <2>3. SumOver(positions, f) \in Matrices
    BY <1>1, <2>2, SumIsMatrix
  <2> QED
    BY <2>3 DEF f
<1> HIDE DEF T
<1> QED
  BY <1>4, <1>5, <1>6, <1>7 DEF T

-----------------------------------------------------------------------------
(* The covariances of out are read back as they were inserted, in either   *)
(* order; all other blocks stay.                                           *)
LEMMA InsertedSays ==
  ASSUME NEW b, NEW out \in Nat, NEW f, \A m \in DOMAIN f : m \in Nat /\ m # out,
         NEW k \in DOMAIN f, f[k] \in Matrices
  PROVE  /\ Says(Inserted(b, out, f), out, k) = f[k]
         /\ Says(Inserted(b, out, f), k, out) = Transpose(f[k])
<1> DEFINE key == Key(out, k)
           d == Inserted(b, out, f)
<1>1. key \in DOMAIN d /\ d[key] = IF key[1] = out THEN f[key[2]] ELSE Transpose(f[key[1]])
  BY DEF Inserted
<1>2. k \in Nat /\ k # out /\ key = Key(k, out)
  BY KeysOfPairs
<1>3. CASE out <= k
  <2>1. key = <<out, k>> /\ d[key] = f[k]
    BY <1>1, <1>3, KeysOfPairs
  <2>2. Block(d, out, k) = f[k] /\ Block(d, k, out) = Transpose(f[k])
    BY <2>1, <1>2, <1>3 DEF Block
  <2> QED
    BY <2>2, <1>1, <1>2 DEF Says, Related
<1>4. CASE ~(out <= k)
  <2>1. key = <<k, out>> /\ d[key] = Transpose(f[k])
    BY <1>1, <1>2, <1>4, KeysOfPairs
  <2>2. Block(d, out, k) = f[k] /\ Block(d, k, out) = Transpose(f[k])
    BY <2>1, <1>2, <1>4, TransposedTwice DEF Block
  <2> QED
    BY <2>2, <1>1, <1>2 DEF Says, Related
<1> QED
  BY <1>3, <1>4

LEMMA InsertedLeaves ==
  ASSUME NEW b, NEW out \in Nat, NEW f, \A m \in DOMAIN f : m \in Nat /\ m # out,
         NEW i \in Nat, NEW j \in Nat, (i # out /\ j # out) \/ i = j
                                         \/ (i = out /\ j \notin DOMAIN f)
                                         \/ (j = out /\ i \notin DOMAIN f)
  PROVE  Says(Inserted(b, out, f), i, j) = Says(b, i, j)
<1> DEFINE keys == {Key(out, m) : m \in DOMAIN f}
<1>1. Key(i, j) \notin keys
  <2> SUFFICES ASSUME NEW m \in DOMAIN f, Key(i, j) = Key(out, m) PROVE FALSE
    OBVIOUS
  <2>1. {i, j} = {out, m} /\ m # out
    BY KeysOfPairs
  <2> QED
    BY <2>1
<1>2. DOMAIN Inserted(b, out, f) = DOMAIN b \cup keys
  BY DEF Inserted
<1>3. Key(i, j) \in DOMAIN b => Inserted(b, out, f)[Key(i, j)] = b[Key(i, j)]
  BY <1>1 DEF Inserted
<1> QED
  BY <1>1, <1>2, <1>3, SameBlockSaysSame

LEMMA InsertedMatrices ==
  ASSUME NEW b, NEW out \in Nat, NEW f, \A m \in DOMAIN f : m \in Nat /\ f[m] \in Matrices,
         OfMatrices(b)
  PROVE  OfMatrices(Inserted(b, out, f))
<1> DEFINE keys == {Key(out, m) : m \in DOMAIN f}
           d == Inserted(b, out, f)
<1> SUFFICES ASSUME NEW key \in DOMAIN d PROVE d[key] \in Matrices
  BY DEF OfMatrices
<1>1. CASE key \in keys
  <2>1. PICK m \in DOMAIN f : key = Key(out, m)
    BY <1>1
  <2>2. d[key] = IF key[1] = out THEN f[key[2]] ELSE Transpose(f[key[1]])
    BY <1>1 DEF Inserted
  <2>3. key = <<out, m>> \/ (key = <<m, out>> /\ out # m)
    BY <2>1 DEF Key
  <2> QED
    BY <2>2, <2>3, TransposedTwice
<1>2. CASE key \notin keys
  BY <1>2 DEF Inserted, OfMatrices
<1> QED
  BY <1>1, <1>2

-----------------------------------------------------------------------------
(* The result of a propagation has its variance, and its covariance with   *)
(* every variable the store has the numbers of, unless its inputs are such *)
(* that the store is known to lose them.                                   *)
LEMMA PropagateTells ==
  ASSUME Inv, TellInv, NEW out \in Ids, NEW inputs \in Inputs, NEW js \in Jacobians,
         Len(js) = Len(inputs), Propagate(out, inputs, js)
  PROVE  TellInv'
<1> DEFINE ids == Known \cup {out}
           variance == OutputVariance(blocks, inputs, js)
           own == IF variance.found THEN With(blocks, <<out, out>>, variance.value) ELSE blocks
           cc  == CrossCovariances(own, out, inputs, js)
           b   == Inserted(own, out, cc)
           l   == With(ledger, out, step + 1)
           positions == DOMAIN inputs
           v   == SumOver(positions \X positions, [p \in positions \X positions |->
                    Sandwich(js[p[1]], True(inputs[p[1]], inputs[p[2]]), js[p[2]])])
           c   == [k \in Known |-> SumOver(positions, [p \in positions |->
                    Times(js[p], True(inputs[p], k))])]
           t   == TruthWith(out, v, c)
           doubts == IF Loses(out, inputs) THEN doubtful \cup {out} ELSE doubtful
<1>1. /\ step' = step + 1
      /\ config' = config
      /\ IF config.enabled THEN Prune(b, l, step + 1, t, doubts) ELSE Keep(b, l, t, doubts)
  BY DEF Propagate
<1>2. /\ ids \in SUBSET Ids /\ step + 1 \in Nat /\ config \in Configs /\ out \in Nat
      /\ \A i \in ids : i \in Nat
  BY IdsAssumption DEF Inv
<1>3. DOMAIN t = Pairs(ids)
  BY DomainOfTruthWith
<1>4. IsLedger(l, step + 1)
  <2>1. DOMAIN l = DOMAIN ledger \cup {out}
    BY DEF With
  <2>2. \A i \in DOMAIN l : l[i] = IF i = out THEN step + 1 ELSE ledger[i]
    BY DEF With
  <2> QED BY <2>1, <2>2 DEF Inv, IsLedger
<1>5. /\ OfMatrices(own)
      /\ own = blocks \/ own = With(blocks, <<out, out>>, variance.value)
  <2>1. variance.value \in Matrices
    BY PropagatedMatrices DEF TellInv
  <2> HIDE DEF variance
  <2> QED
    BY <2>1 DEF TellInv, OfMatrices, With
<1>6. /\ DOMAIN cc = External(own, out, inputs)
      /\ \A k \in DOMAIN cc : k \in Ids /\ k \in Nat /\ k # out /\ cc[k] \in Matrices
  <2>1. DOMAIN cc = External(own, out, inputs)
    BY DEF CrossCovariances
  <2>2. \A k \in External(own, out, inputs) : cc[k] \in Matrices
    <3> HIDE DEF own
    <3> QED
      BY <1>5, PropagatedMatrices
  <2> QED
    BY <2>1, <2>2, IdsAssumption DEF External
<1>7. v \in Matrices /\ \A k \in Known : c[k] \in Matrices
  <2>1. v \in Matrices
    BY <1>5, PropagatedMatrices
  <2>2. ASSUME NEW k \in Known PROVE c[k] \in Matrices
    <3>1. c[k] = SumOver(positions, [p \in positions |-> Times(js[p], True(inputs[p], k))])
      OBVIOUS
    <3>2. SumOver(positions, [p \in positions |-> Times(js[p], True(inputs[p], k))]) \in Matrices
      BY <1>5, PropagatedMatrices
    <3> HIDE DEF c
    <3> QED
      BY <3>1, <3>2
  <2> HIDE DEF v, c
  <2> QED
    BY <2>1, <2>2
<1>8. OfMatrices(b) /\ OfMatrices(t)
  <2> HIDE DEF own, cc, v, c
  <2>1. OfMatrices(b)
    BY <1>2, <1>5, <1>6, InsertedMatrices
  <2>2. OfMatrices(t)
    BY <1>7, TruthWithMatrices DEF Inv, TellInv
  <2> QED
    BY <2>1, <2>2
(* The table before the covariances are inserted.                          *)
<1>9. ASSUME NEW i \in ids, NEW j \in ids, i # out \/ j # out
      PROVE  /\ Related(own, i, j) <=> Related(blocks, i, j)
             /\ Related(own, i, j) => Block(own, i, j) = Block(blocks, i, j)
             /\ Says(own, i, j) = Says(blocks, i, j)
  <2>1. Key(i, j) # <<out, out>>
    <3>1. Key(i, j)[1] # out \/ Key(i, j)[2] # out
      BY <1>2, <1>9, KeysOfPairs
    <3> QED
      BY <3>1
  <2> HIDE DEF variance, own
  <2> QED
    BY <1>5, <2>1, SameBlockSaysSame DEF With
<1>10. /\ t[<<out, out>>] = v
       /\ \A k \in Known \ {out} : t[<<out, k>>] = c[k] /\ t[<<k, out>>] = Transpose(c[k])
       /\ \A k, m \in Known \ {out} : t[<<k, m>>] = truth[<<k, m>>]
  <2> HIDE DEF v, c
  <2> QED
    BY TruthWithTells
<1>11. ASSUME out \notin doubts
       PROVE  /\ IsInjective(inputs) /\ ToSet(inputs) \subseteq Known \ doubtful
              /\ out \in Known => out \in ToSet(inputs)
              /\ out \notin doubtful
  BY <1>11 DEF Loses
<1>12. ASSUME NEW i \in Known \ doubts, NEW j \in Known \ doubts, i # out, j # out
       PROVE  Says(b, i, j) = t[<<i, j>>]
  <2>1. i \in Known \ doubtful /\ j \in Known \ doubtful /\ i \in ids /\ j \in ids
    OBVIOUS
  <2> HIDE DEF own, cc, t, v, c, doubts, ids
  <2>2. Says(b, i, j) = Says(own, i, j)
    BY <1>2, <1>6, <2>1, <1>12, InsertedLeaves
  <2>3. Says(own, i, j) = Says(blocks, i, j)
    BY <1>9, <1>12, <2>1
  <2>4. Says(blocks, i, j) = truth[<<i, j>>]
    BY <2>1 DEF TellInv, Tells
  <2> QED
    BY <1>10, <1>12, <2>2, <2>3, <2>4
<1>13. ASSUME out \notin doubts
       PROVE  Says(b, out, out) = t[<<out, out>>]
  <2>1. variance.value = v
    BY <1>11, <1>13, OutputVarianceIsTrue
  <2>2. Says(b, out, out) = Says(own, out, out)
    <3> HIDE DEF own, cc
    <3> QED
      BY <1>2, <1>6, InsertedLeaves
  <2>3. Key(out, out) = <<out, out>>
    BY <1>2, KeysOfPairs
  <2>4. CASE variance.found
    <3> HIDE DEF variance, v
    <3>1. own = With(blocks, <<out, out>>, variance.value)
      BY <2>4
    <3>2. Says(own, out, out) = variance.value
      <4> HIDE DEF own
      <4> QED
        BY <3>1, <2>3, <1>2 DEF Says, Related, Block, With
    <3> HIDE DEF own, b, t
    <3> QED
      BY <1>10, <2>1, <2>2, <3>2
  <2>5. CASE ~variance.found
    <3> DEFINE S == {p \in positions \X positions : Related(blocks, inputs[p[1]], inputs[p[2]])}
    <3>1. own = blocks
      BY <2>5
    <3>2. S = {}
      BY <2>5 DEF OutputVariance
    <3>3. variance.value = Zero
      <4>1. variance.value = SumOver(S, [p \in S |->
              Sandwich(js[p[1]], Block(blocks, inputs[p[1]], inputs[p[2]]), js[p[2]])])
        BY DEF OutputVariance
      <4> HIDE DEF variance, S
      <4> QED
        BY <3>2, <4>1, FS_EmptySet, SumByChoice
    <3>4. ~Related(blocks, out, out)
      <4> SUFFICES ASSUME Related(blocks, out, out) PROVE FALSE
        OBVIOUS
      <4>1. out \in Known
        BY <1>2, UnknownHasNone DEF Inv, Related
      <4>2. PICK p \in positions : inputs[p] = out
        BY <4>1, <1>11, <1>13 DEF ToSet
      <4>3. <<p, p>> \in S
        BY <4>2
      <4> QED
        BY <4>3, <3>2
    <3>5. Says(own, out, out) = Zero
      BY <3>1, <3>4 DEF Says
    <3> HIDE DEF own, b, t, v, variance
    <3> QED
      BY <1>10, <2>1, <2>2, <3>3, <3>5
  <2> QED
    BY <2>4, <2>5
<1>14. ASSUME out \notin doubts, NEW k \in Known \ doubts, k # out
       PROVE  Says(b, out, k) = c[k] /\ Says(b, k, out) = Transpose(c[k])
  <2>1. k \in Known \ doubtful /\ k \in ids /\ out \in ids /\ k \in Ids
    BY <1>2
  <2>2. \A i \in ToSet(inputs) : /\ i \in ids
                                 /\ Related(own, i, k) <=> Related(blocks, i, k)
                                 /\ Related(own, i, k) => Block(own, i, k) = Block(blocks, i, k)
    <3> HIDE DEF own
    <3> QED
      BY <1>9, <1>11, <1>14, <2>1
  <2> DEFINE S == {i \in ToSet(inputs) : Related(own, i, k)}
             f == [i \in S |-> Times(js[First(inputs, i)], Block(own, i, k))]
  <2>3. SumOver(S, f) = c[k]
    <3>1. CrossSum(own, inputs, js, k) = TrueSum(inputs, js, k)
      <4> HIDE DEF own, ids, doubts
      <4>1. ToSet(inputs) \subseteq Known \ doubtful /\ IsInjective(inputs)
        BY <1>11, <1>14
      <4>2. \A i \in ToSet(inputs) :
              /\ Related(own, i, k) <=> Related(blocks, i, k)
              /\ Related(own, i, k) => Block(own, i, k) = Block(blocks, i, k)
        BY <2>2
      <4>3. k \in Known \ doubtful
        BY <2>1
      <4> QED
        BY <4>1, <4>2, <4>3, CrossCovarianceIsTrue
    <3>2. CrossSum(own, inputs, js, k) = SumOver(S, f)
      <4> HIDE DEF own
      <4> QED
        BY DEF CrossSum
    <3>3. TrueSum(inputs, js, k) = c[k]
      BY <2>1 DEF TrueSum
    <3> HIDE DEF S, f
    <3> QED
      BY <3>1, <3>2, <3>3
  <2>4. CASE k \in DOMAIN cc
    <3>1. cc[k] = SumOver(S, f)
      <4> HIDE DEF own
      <4> QED
        BY <2>4 DEF CrossCovariances
    <3> HIDE DEF own, cc, c, S, f
    <3>2. Says(b, out, k) = cc[k] /\ Says(b, k, out) = Transpose(cc[k])
      BY <1>2, <1>6, <2>4, InsertedSays
    <3> HIDE DEF b
    <3> QED
      BY <2>3, <3>1, <3>2
  <2>5. CASE k \notin DOMAIN cc
    <3>1. S = {}
      <4> HIDE DEF own
      <4> QED
        BY <1>6, <2>1, <1>14, <2>5 DEF External
    <3>2. c[k] = Zero /\ Transpose(Zero) = Zero
      <4> HIDE DEF S, f, c
      <4>1. SumOver(S, f) = Zero
        BY <3>1, FS_EmptySet, SumByChoice
      <4> QED
        BY <4>1, <2>3 DEF Zero, Transpose
    <3>3. ~Related(own, out, k) /\ ~Related(own, k, out)
      <4>1. Related(own, out, k) => Related(blocks, out, k)
        <5> HIDE DEF own
        <5> QED
          BY <1>9, <1>14, <2>1
      <4>2. Related(blocks, out, k) => out \in Known
        BY <2>1, UnknownHasNone DEF Inv, Related
      <4>3. Related(own, out, k) => out \in S
        BY <4>1, <4>2, <1>11, <1>14
      <4>4. Related(own, k, out) <=> Related(own, out, k)
        <5> HIDE DEF own
        <5> QED
          BY <1>2, <2>1, KeysOfPairs DEF Related
      <4> QED
        BY <4>3, <4>4, <3>1
    <3> HIDE DEF own, cc, c, S, f
    <3>4. Says(own, out, k) = Zero /\ Says(own, k, out) = Zero
      BY <3>3 DEF Says
    <3>5. Says(b, out, k) = Says(own, out, k) /\ Says(b, k, out) = Says(own, k, out)
      BY <1>2, <1>6, <2>1, <2>5, InsertedLeaves
    <3> HIDE DEF b
    <3> QED
      BY <3>2, <3>4, <3>5
  <2> QED
    BY <2>4, <2>5
<1>15. Tells(b, t, ids \ doubts)
  <2> HIDE DEF b, t, v, c
  <2> SUFFICES ASSUME NEW i \in ids \ doubts, NEW j \in ids \ doubts
               PROVE  Says(b, i, j) = t[<<i, j>>]
    BY DEF Tells
  <2> HIDE DEF doubts
  <2>1. CASE i = out /\ j = out
    BY <2>1, <1>13
  <2>2. CASE i = out /\ j # out
    BY <2>2, <1>10, <1>14
  <2>3. CASE i # out /\ j = out
    BY <2>3, <1>10, <1>14
  <2>4. CASE i # out /\ j # out
    BY <2>4, <1>12
  <2> QED
    BY <2>1, <2>2, <2>3, <2>4
<1>16. doubts \subseteq ids
  BY DEF TellInv
<1> HIDE DEF b, l, t, ids, doubts
<1>17. CASE config.enabled
  <2>1. Prune(b, l, step + 1, t, doubts)
    BY <1>1, <1>17
  <2> QED
    BY <2>1, <1>2, <1>3, <1>4, <1>8, <1>15, PruneTells DEF TellInv
<1>18. CASE ~config.enabled
  <2>1. blocks' = b /\ truth' = t /\ doubtful' = doubts
    BY <1>1, <1>18 DEF Keep
  <2>2. {pair[1] : pair \in DOMAIN truth'} = ids
    BY <2>1, <1>3, KnownOfTable
  <2>3. Known' = ids
    BY <2>2 DEF Known
  <2> QED
    BY <2>1, <2>3, <1>8, <1>15, <1>16 DEF TellInv
<1> QED
  BY <1>17, <1>18

LEMMA StepsTell == Inv /\ TellInv /\ [Next]_vars => TellInv'
<1> SUFFICES ASSUME Inv, TellInv, [Next]_vars PROVE TellInv'
  OBVIOUS
<1>1. CASE \E id \in Ids, d \in Variances : Register(id, d)
  BY <1>1, RegisterTells
<1>2. CASE \E out \in Ids, inputs \in Inputs, js \in Jacobians :
             Len(js) = Len(inputs) /\ Propagate(out, inputs, js)
  BY <1>2, PropagateTells
<1>3. CASE PruneNow
  <2>1. Prune(blocks, ledger, step, truth, doubtful)
    BY <1>3 DEF PruneNow
  <2> QED
    BY <2>1, PruneTells DEF Inv, TellInv
<1>4. CASE Reload
  BY <1>4 DEF Reload, TellInv, Known
<1>5. CASE LoadFails
  <2>1. blocks' = <<>> /\ truth' = <<>> /\ doubtful' = {}
    BY <1>5 DEF LoadFails, Keep
  <2>2. Known' = {}
    BY <2>1 DEF Known
  <2> QED
    BY <2>1, <2>2 DEF TellInv, OfMatrices, Tells
<1>6. CASE UNCHANGED vars
  BY <1>6 DEF vars, TellInv, Known
<1> QED
  BY <1>1, <1>2, <1>3, <1>4, <1>5, <1>6 DEF Next, Operation

(* What the store says of variables whose numbers it does not lose is      *)
(* their covariance (store.rs, propagate and what it calls): absent blocks *)
(* are zero, the other half of the table is the transpose, and pruning     *)
(* changes no answer but those it makes doubtful.                          *)
THEOREM WhatIsKeptIsTrue == Spec => []BlocksAreTrue
<1>1. Init => TellInv
  BY DEF Init, TellInv, Known, OfMatrices, Tells
<1>2. Inv /\ TellInv => BlocksAreTrue
  BY DEF TellInv, Tells, BlocksAreTrue, Said, Says
<1> QED
  BY <1>1, <1>2, Establishes, StepsKeep, StepsTell, PTL DEF Spec

=============================================================================
