--------------------------- MODULE CovarianceStore ---------------------------
(***************************************************************************)
(* The covariance store of uncertain arrays (physure-core/src/covariance): *)
(* a block of covariances for every pair of related variables, kept under  *)
(* the smaller id first; when each variable was last registered or         *)
(* computed; and the pruning of what is old or hardly correlated. Every    *)
(* variable is an array of two elements, every matrix two by two, so that  *)
(* a block and its transpose differ. A block that is absent says zero.     *)
(*                                                                         *)
(* Two variables are not in the code: truth, the covariance of every pair  *)
(* by the definition of covariance, and doubtful, the variables whose      *)
(* numbers the store is known to lose (README, known divergences).         *)
(***************************************************************************)
EXTENDS Integers, FiniteSets, Sequences, Functions, SequencesExt

CONSTANTS Ids,          \* the ids that callers may use
          Variances,    \* the diagonals that may be registered
          Jacobians,    \* the Jacobians that may be propagated
          Configs,      \* the configurations of pruning
          MaxInputs,    \* a bound: how many inputs a propagation has
          MaxOperations, \* a bound: how many operations are explored
          MaxDoubtful    \* a bound: from which states they go on

ASSUME IdsAssumption == Ids \subseteq Nat /\ IsFiniteSet(Ids) /\ MaxInputs \in Nat
(* A matrix is the pair of its rows.                                      *)
Matrices == (Int \X Int) \X (Int \X Int)

ASSUME NumbersAssumption ==
  /\ Variances \subseteq Int \X Int
  /\ Jacobians \subseteq Seq(Matrices)
ASSUME ConfigsAssumption ==
  \A c \in Configs : c.enabled \in BOOLEAN /\ c.maxAge \in Nat /\ c.weak \in Nat

VARIABLES blocks,      \* blocks, from a pair of ids to its covariance
          ledger,      \* access_ledger, from an id to the step it is of
          step,        \* current_step
          config,
          truth,       \* from every pair of known ids to its covariance
          doubtful,    \* known ids
          operations

vars == <<blocks, ledger, step, config, truth, doubtful, operations>>

-----------------------------------------------------------------------------
(* Matrices of two rows and two columns.                                   *)
Zero         == <<<<0, 0>>, <<0, 0>>>>
Plus(a, b)   == <<<<a[1][1] + b[1][1], a[1][2] + b[1][2]>>, <<a[2][1] + b[2][1], a[2][2] + b[2][2]>>>>
Along(r, b)  == <<r[1] * b[1][1] + r[2] * b[2][1], r[1] * b[1][2] + r[2] * b[2][2]>>
Times(a, b)  == <<Along(a[1], b), Along(a[2], b)>>
Transpose(a) == <<<<a[1][1], a[2][1]>>, <<a[1][2], a[2][2]>>>>
Diagonal(d)  == <<<<d[1], 0>>, <<0, d[2]>>>>
Sandwich(j, s, k) == Times(Times(j, s), Transpose(k))
SumOver(S, f) == FoldFunctionOnSet(Plus, Zero, f, S)
(* The square of the norm of a matrix.                                     *)
Square(a) == a[1][1] * a[1][1] + a[1][2] * a[1][2] + a[2][1] * a[2][1] + a[2][2] * a[2][2]

-----------------------------------------------------------------------------
Key(i, j) == IF i <= j THEN <<i, j>> ELSE <<j, i>>
Related(b, i, j) == Key(i, j) \in DOMAIN b

(* A variant with a bug: the transpose is forgotten.                       *)
BlockAsKept(b, i, j) == b[Key(i, j)]

(* get_block_internal, of a pair that has a block.                         *)
Block(b, i, j) == IF i <= j THEN b[Key(i, j)] ELSE Transpose(b[Key(i, j)])

(* insert, of one key.                                                     *)
With(f, x, v) == [y \in DOMAIN f \cup {x} |-> IF y = x THEN v ELSE f[y]]

(* commit_cross_covs: f[k] is kept as the covariance of out and k.         *)
Inserted(b, out, f) ==
  LET keys == {Key(out, k) : k \in DOMAIN f}
  IN  [key \in DOMAIN b \cup keys |->
         IF key \notin keys THEN b[key]
         ELSE IF key[1] = out THEN f[key[2]] ELSE Transpose(f[key[1]])]

-----------------------------------------------------------------------------
(* compute_output_variance: the sum over all pairs of inputs, absent blocks *)
(* left out; no variance at all when every block is absent.                *)
OutputVariance(b, inputs, js) ==
  LET pairs == {p \in (DOMAIN inputs) \X (DOMAIN inputs) : Related(b, inputs[p[1]], inputs[p[2]])}
  IN  [found |-> pairs # {},
       value |-> SumOver(pairs, [p \in pairs |->
                   Sandwich(js[p[1]], Block(b, inputs[p[1]], inputs[p[2]]), js[p[2]])])]

(* try_add_cross_cov_term, of every block that has an input on one side:   *)
(* the Jacobian is that of the input's first position.                     *)
First(inputs, i) == CHOOSE p \in DOMAIN inputs :
                      inputs[p] = i /\ \A q \in 1..(p - 1) : inputs[q] # i

External(b, out, inputs) ==
  {k \in Ids \ {out} : \E i \in ToSet(inputs) : Related(b, i, k)}

CrossCovariances(b, out, inputs, js) ==
  [k \in External(b, out, inputs) |->
     LET related == {i \in ToSet(inputs) : Related(b, i, k)}
     IN  SumOver(related, [i \in related |-> Times(js[First(inputs, i)], Block(b, i, k))])]

-----------------------------------------------------------------------------
(* prune_by_age: the subtraction saturates.                                *)
Expired(l, now) ==
  {i \in DOMAIN l : l[i] < IF now > config.maxAge THEN now - config.maxAge ELSE 0}

(* A variant with a bug: only the variances of what is old go.             *)
OwnBlocks(ids) == {<<i, i>> : i \in ids}

BlocksOf(ids) == {key \in Ids \X Ids : key[1] \in ids \/ key[2] \in ids}

Without(b, keys) == Restrict(b, DOMAIN b \ keys)

(* prune_weak_correlations: the norm of a covariance relative to the norms *)
(* of the two variances (one, where a variance is absent) is below the     *)
(* threshold, 1 / config.weak, or the covariance is zero.                  *)
NormSquare(b, i) == IF <<i, i>> \in DOMAIN b THEN Square(b[<<i, i>>]) ELSE 1
Weak(b) ==
  {key \in DOMAIN b :
     /\ key[1] # key[2]
     /\ \/ b[key] = Zero
        \/ /\ config.weak > 0
           /\ config.weak * config.weak * Square(b[key]) * config.weak * config.weak * Square(b[key])
                < NormSquare(b, key[1]) * NormSquare(b, key[2])}

(* What prune leaves, given what it starts from.                           *)
Pruned(b, l, now) ==
  LET old  == Expired(l, now)
      kept == Without(b, BlocksOf(old))
  IN  [blocks |-> Without(kept, Weak(kept)), ledger |-> Restrict(l, DOMAIN l \ old),
       old    |-> old,                       weak   |-> {key \in Weak(kept) : kept[key] # Zero}]

-----------------------------------------------------------------------------
Known == {pair[1] : pair \in DOMAIN truth}
True(i, j) == IF {i, j} \subseteq Known THEN truth[<<i, j>>] ELSE Zero
Pairs(ids) == ids \X ids

(* The covariances after id takes the variance v, and c[k] with every k.    *)
TruthWith(id, v, c) ==
  [pair \in Pairs(Known \cup {id}) |->
     CASE pair = <<id, id>> -> v
       [] pair[1] = id /\ pair[2] # id -> c[pair[2]]
       [] pair[1] # id /\ pair[2] = id -> Transpose(c[pair[1]])
       [] OTHER -> truth[pair]]

(* What is older than max_age steps is no longer known.                    *)
Remembered(ids, l, now) == {i \in ids : i \in DOMAIN l => now - l[i] <= config.maxAge}

-----------------------------------------------------------------------------
(* register_variable and register_diagonal: the variance is replaced, the  *)
(* covariances the id may have with others stay.                           *)
Register(id, d) ==
  /\ blocks' = With(blocks, <<id, id>>, Diagonal(d))
  /\ ledger' = With(ledger, id, step)
  /\ truth' = TruthWith(id, Diagonal(d), [k \in Known |-> Zero])
  /\ doubtful' = IF id \in Known THEN doubtful \cup {id} ELSE doubtful
  /\ UNCHANGED <<step, config>>

(* prune, of b and l at the step now, when the known ids with covariances  *)
(* t are those of which some are doubtful.                                 *)
Prune(b, l, now, t, doubts) ==
  LET p    == Pruned(b, l, now)
      kept == Remembered({pair[1] : pair \in DOMAIN t}, l, now)
  IN  /\ blocks' = p.blocks
      /\ ledger' = p.ledger
      /\ truth' = Restrict(t, Pairs(kept))
      /\ doubtful' = (doubts \cup UNION {{key[1], key[2]} : key \in p.weak}) \cap kept

Keep(b, l, t, doubts) ==
  /\ blocks' = b
  /\ ledger' = l
  /\ truth' = t
  /\ doubtful' = doubts

(* Whether the store is known to lose what it should compute of out: an    *)
(* input is doubtful, or forgotten, or given twice; or out is in use.      *)
Loses(out, inputs) ==
  \/ ~IsInjective(inputs)
  \/ ~(ToSet(inputs) \subseteq Known \ doubtful)
  \/ out \in Known \ ToSet(inputs)

(* propagate: the variance first, then the covariances with every variable *)
(* that an input is related to, then the pruning.                          *)
Propagate(out, inputs, js) ==
  LET variance  == OutputVariance(blocks, inputs, js)
      own       == IF variance.found THEN With(blocks, <<out, out>>, variance.value) ELSE blocks
      b         == Inserted(own, out, CrossCovariances(own, out, inputs, js))
      l         == With(ledger, out, step + 1)
      positions == DOMAIN inputs
      t         == TruthWith(out,
                     SumOver(positions \X positions, [p \in positions \X positions |->
                       Sandwich(js[p[1]], True(inputs[p[1]], inputs[p[2]]), js[p[2]])]),
                     [k \in Known |-> SumOver(positions, [p \in positions |->
                       Times(js[p], True(inputs[p], k))])])
      doubts    == IF Loses(out, inputs) THEN doubtful \cup {out} ELSE doubtful
  IN  /\ step' = step + 1
      /\ IF config.enabled THEN Prune(b, l, step + 1, t, doubts) ELSE Keep(b, l, t, doubts)
      /\ UNCHANGED config

PruneNow ==
  /\ Prune(blocks, ledger, step, truth, doubtful)
  /\ UNCHANGED <<step, config>>

(* to_arrow_bytes, and from_arrow_bytes into a new store: the blocks only. *)
Reload ==
  /\ ledger' = <<>>
  /\ step' = 0
  /\ UNCHANGED <<blocks, config, truth, doubtful>>

(* from_arrow_bytes fails at a batch, after the store is cleared.          *)
LoadFails ==
  /\ Keep(<<>>, ledger, <<>>, {})
  /\ UNCHANGED <<step, config>>

-----------------------------------------------------------------------------
Inputs == UNION {[1..n -> Ids] : n \in 1..MaxInputs}

Init ==
  /\ blocks = <<>> /\ ledger = <<>> /\ step = 0
  /\ config \in Configs
  /\ truth = <<>> /\ doubtful = {}
  /\ operations = 0

Operation ==
  \/ \E id \in Ids, d \in Variances : Register(id, d)
  \/ \E out \in Ids, inputs \in Inputs, js \in Jacobians :
       Len(js) = Len(inputs) /\ Propagate(out, inputs, js)
  \/ PruneNow
  \/ Reload
  \/ LoadFails

Next ==
  /\ operations < MaxOperations
  /\ Cardinality(doubtful) <= MaxDoubtful
  /\ operations' = operations + 1
  /\ Operation

Spec == Init /\ [][Next]_vars

-----------------------------------------------------------------------------
(* What the store says of two variables whose numbers it does not lose is  *)
(* their covariance, also after blocks were transposed, replaced and       *)
(* pruned; an absent block means zero (store.rs:57, 104, 118).             *)
Said(i, j) == IF Related(blocks, i, j) THEN Block(blocks, i, j) ELSE Zero
BlocksAreTrue == \A i, j \in Known \ doubtful : Said(i, j) = truth[<<i, j>>]

(* Nothing is left of a variable that was forgotten, and while pruning is  *)
(* on, nothing in the ledger is older than max_age steps (store.rs:128).   *)
BlocksAreOfKnown == \A key \in DOMAIN blocks : key[1] \in Known /\ key[2] \in Known
LedgerIsYoung ==
  \A i \in DOMAIN ledger : ledger[i] <= step /\ (config.enabled => step - ledger[i] <= config.maxAge)
ForgottenIsGone == BlocksAreOfKnown /\ LedgerIsYoung
=============================================================================
