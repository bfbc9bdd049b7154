--------------------------- MODULE IncrementalEval --------------------------
(***************************************************************************)
(* What one top-level PHS statement does to an interpreter, cut down to    *)
(* what dependency tracking can tell apart: which names a statement binds, *)
(* which names its evaluation looks up, and whether it fails. Then the     *)
(* pure half of physure-lsp/src/incremental.rs: which statements of a new  *)
(* document text have to run again, given the last text that parsed, and   *)
(* which diagnostics survive.                                              *)
(*                                                                         *)
(* An expression is one of                                                 *)
(*    <<"lit", k>>   a literal                                             *)
(*    <<"ref", n>>   the name n on its own                                 *)
(*    <<"plus", n>>  n + 1: any operator that insists on a number          *)
(*    <<"call", f>>  f(): a call, the callee being a name                  *)
(* and a statement is [kind, name, expr] with kind                         *)
(*    "assign"  name = expr            "fn"      fn name() = expr          *)
(*    "while"   while name < k { name = name + 1 }    (expr = <<"lit",k>>) *)
(*    "import"  use name from module   "use"     use name from calc        *)
(*    "expr"    a bare expression      "panic"   evaluation that panics    *)
(* Numbers carry no units here: units never decide which names are read.   *)
(***************************************************************************)
EXTENDS Naturals, Sequences, SequencesExt

CONSTANTS
  Names,          \* the identifiers a document may mention
  ModuleExports,  \* name -> expression, what the .phs module on disk exports
  MaxCallDepth,   \* Limits.max_call_depth: nested user-function calls allowed
  NoDiagnostic    \* the None of Option<Diagnostic>

Expr == ({"lit"} \X Nat) \cup ({"ref", "plus", "call"} \X Names)

ASSUME InterpreterAssumption ==
  /\ MaxCallDepth \in Nat
  /\ DOMAIN ModuleExports \subseteq Names
  /\ \A n \in DOMAIN ModuleExports : ModuleExports[n] \in Expr

Statement ==
  [kind : {"assign", "fn", "while", "import", "use", "expr", "panic"},
   name : Names, expr : Expr]

-----------------------------------------------------------------------------
(* Values.  A free name is not an error: it evaluates to its own text.     *)

Num(k)  == <<"num", k>>
Text(n) == <<"text", n>>
Fn(e)   == <<"fn", e>>
Err     == <<"error">>

IsA(tag, env, n) == n \in DOMAIN env /\ env[n][1] = tag

Bind(env, n, v) == [m \in DOMAIN env \cup {n} |-> IF m = n THEN v ELSE env[m]]

Unbind(env, names) == [m \in DOMAIN env \ names |-> env[m]]

(* What an expression without a call is worth.                             *)
Simple(x, env) ==
  CASE x[1] = "lit"  -> Num(x[2])
    [] x[1] = "ref"  -> IF x[2] \in DOMAIN env THEN env[x[2]] ELSE Text(x[2])
    [] x[1] = "plus" -> IF IsA("num", env, x[2]) THEN Num(env[x[2]][2] + 1) ELSE Err

(* The value of e in env. A function body is evaluated in the environment  *)
(* of its caller, so the names it reads resolve at call time.              *)
Eval(e, env, unlocked) ==
  LET at[d \in 0 .. MaxCallDepth] ==
        [x \in Expr |->
           IF x[1] # "call" THEN Simple(x, env)
           ELSE IF x[2] \in unlocked THEN <<"builtin", x[2]>>
           ELSE IF IsA("fn", env, x[2]) /\ d < MaxCallDepth THEN at[d + 1][env[x[2]][2]]
           ELSE Err]
  IN at[0][e]

-----------------------------------------------------------------------------
(* A variant with a bug: an assignment commits what its expression gave,   *)
(* an error too.                                                           *)
RunStatementCommittingErrors(s, in) ==
  LET bound == Eval(s.expr, in.env, in.unlocked)
  IN [ok       |-> bound # Err,
      env      |-> IF s.kind = "assign" THEN Bind(in.env, s.name, bound) ELSE in.env,
      unlocked |-> in.unlocked]

(* run_statement: the interpreter after s, and whether s succeeded. A      *)
(* failing statement leaves the environment as it was, because it ran on a *)
(* clone that is only committed on success.                                *)
RunStatement(s, in) ==
  LET bound == CASE s.kind = "assign" -> Eval(s.expr, in.env, in.unlocked)
                 [] s.kind = "fn"     -> Fn(s.expr)
                 [] s.kind = "import" -> IF s.name \in DOMAIN ModuleExports
                                         THEN Eval(ModuleExports[s.name], in.env, in.unlocked)
                                         ELSE Err
                 [] s.kind = "while"  -> IF /\ IsA("num", in.env, s.name)
                                            /\ in.env[s.name][2] < s.expr[2]
                                         THEN Num(s.expr[2])
                                         ELSE IF s.name \in DOMAIN in.env
                                              THEN in.env[s.name] ELSE <<"unbound">>
                 [] OTHER             -> Eval(s.expr, in.env, in.unlocked)
  IN [ok       |-> bound # Err,
      env      |-> IF bound \in {Err, <<"unbound">>} \/ s.kind \in {"use", "expr", "panic"}
                   THEN in.env ELSE Bind(in.env, s.name, bound),
      unlocked |-> IF s.kind = "use" THEN in.unlocked \cup {s.name} ELSE in.unlocked]

(* PhsInterpreter::default(): nothing bound, nothing unlocked.             *)
NewInterpreter == [env |-> <<>>, unlocked |-> {}]

(* Every statement in order on a new interpreter, each failure recorded    *)
(* and stepped over: what a language server without caching would do.      *)
FullRun(stmts) ==
  FoldLeft(LAMBDA acc, s :
             LET out == RunStatement(s, acc)
             IN [env |-> out.env, unlocked |-> out.unlocked, oks |-> Append(acc.oks, out.ok)],
           [env |-> NewInterpreter.env, unlocked |-> NewInterpreter.unlocked, oks |-> <<>>],
           stmts)

-----------------------------------------------------------------------------
(* The static analysis of a statement: no execution.                       *)

ExprReads(e) == IF e[1] = "lit" THEN {} ELSE {e[2]}

Writes(s) == IF s.kind \in {"expr", "panic"} THEN {} ELSE {s.name}

Reads(s) ==
  CASE s.kind \in {"assign", "fn", "expr"} -> ExprReads(s.expr)
    [] s.kind = "while"                    -> {s.name}
    [] OTHER                               -> {}

AllWrites(stmts) == UNION {Writes(stmts[i]) : i \in DOMAIN stmts}

-----------------------------------------------------------------------------
(* diff_bounds: longest common prefix, then longest common suffix that     *)
(* does not overlap it.                                                    *)
CommonPrefix(old, new, p) ==
  /\ p <= Len(old) /\ p <= Len(new)
  /\ \A i \in 1 .. p : old[i] = new[i]

CommonSuffix(old, new, p, q) ==
  /\ p + q <= Len(old) /\ p + q <= Len(new)
  /\ \A i \in 1 .. q : old[Len(old) + 1 - i] = new[Len(new) + 1 - i]

PrefixLen(old, new) ==
  CHOOSE p \in 0 .. Len(old) :
    /\ CommonPrefix(old, new, p)
    /\ \A r \in 0 .. Len(old) : CommonPrefix(old, new, r) => r <= p

SuffixLen(old, new) ==
  LET p == PrefixLen(old, new)
  IN CHOOSE q \in 0 .. Len(old) :
       /\ CommonSuffix(old, new, p, q)
       /\ \A r \in 0 .. Len(old) : CommonSuffix(old, new, p, r) => r <= q

(* A variant with a bug: the span starts one statement too early.          *)
ChangedFromPrefix(stmts, old, new) ==
  (IF PrefixLen(old, new) = 0 THEN 1 ELSE PrefixLen(old, new)) .. Len(stmts) - SuffixLen(old, new)

(* The changed span of one side of the diff.                               *)
Changed(stmts, old, new) ==
  PrefixLen(old, new) + 1 .. Len(stmts) - SuffixLen(old, new)

(* A variant with a bug: what the old side wrote is not looked at.         *)
TouchedByNewSide(old, new) == UNION {Writes(new[i]) : i \in Changed(new, old, new)}

(* Every name written by the changed span, deleted and added writes alike. *)
TouchedNames(old, new) ==
  (UNION {Writes(old[i]) : i \in Changed(old, old, new)})
    \cup (UNION {Writes(new[i]) : i \in Changed(new, old, new)})

(* Variants with a bug: everything from the change on, and only the direct *)
(* readers of touched names.                                               *)
RerunToTheEnd(seen, s, i, changed, touched) == \E c \in changed : c <= i

RerunDirectReaders(seen, s, i, changed, touched) ==
  i \in changed \/ Reads(s) \cap touched # {}

(* A statement runs again when it is in the changed span, reads a touched  *)
(* name, reads a name whose last writer so far runs again, or writes such  *)
(* a name.                                                                 *)
RunsAgain(seen, s, i, changed, touched) ==
  \/ i \in changed
  \/ Reads(s) \cap touched # {}
  \/ \E n \in (Reads(s) \cup Writes(s)) \cap DOMAIN seen.lastWriter : seen.lastWriter[n] \in seen.dirty

(* One turn of the forward loop of compute_dirty.                          *)
Visited(seen, s, i, changed, touched) ==
  [dirty      |-> seen.dirty \cup {k \in {i} : RunsAgain(seen, s, k, changed, touched)},
   lastWriter |-> [n \in DOMAIN seen.lastWriter \cup Writes(s) |->
                     IF n \in Writes(s) THEN i ELSE seen.lastWriter[n]]]

NothingSeen == [dirty |-> {}, lastWriter |-> <<>>]

(* ... and the whole loop, once over the new text.                         *)
Sweep(old, new, touched) ==
  LET changed == Changed(new, old, new)
      upTo[i \in 0 .. Len(new)] ==
        IF i = 0 THEN NothingSeen ELSE Visited(upTo[i - 1], new[i], i, changed, touched)
  IN upTo[Len(new)]

(* ... and the last writer of every touched name, since the name has been  *)
(* removed from the environment.                                           *)
Dirty(old, new) ==
  LET touched == TouchedNames(old, new)
      sweep   == Sweep(old, new, touched)
  IN sweep.dirty \cup {sweep.lastWriter[n] : n \in touched \cap DOMAIN sweep.lastWriter}

(* Variants with a bug: old positions taken for new ones, and the old list *)
(* carried over whole.                                                     *)
OldIndexUnshifted(old, new, i) == i
CarriedWhole(old, new, dirty, diagnostics) == diagnostics

(* carried_diagnostics: a clean statement keeps the diagnostic it had at   *)
(* its old index; dirty slots are filled in by the run.                    *)
OldIndex(old, new, i) ==
  IF i <= PrefixLen(old, new) THEN i ELSE (i + Len(old)) - Len(new)

CarriedDiagnostics(old, new, dirty, diagnostics) ==
  [i \in 1 .. Len(new) |->
     IF i \in dirty \/ OldIndex(old, new, i) \notin DOMAIN diagnostics
     THEN NoDiagnostic
     ELSE diagnostics[OldIndex(old, new, i)]]

=============================================================================
