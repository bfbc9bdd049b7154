------------------------------ MODULE Pipeline ------------------------------
(***************************************************************************)
(* Loaded modules and the calls that hosts make into them                  *)
(* (physure-script/src/module.rs, pipeline.rs): invoking a function by     *)
(* name, composing two functions, and running a pipeline of steps that     *)
(* hand their results on by alias.                                         *)
(*                                                                         *)
(* A module is a record: functions maps the names its introspection lists  *)
(* to their parameters in order, rebound holds the names a later top-level *)
(* statement gave another value, failing those whose body fails. A result  *)
(* is the term of the calls it came from, so that two results are equal    *)
(* exactly when they were computed from the same literals by the same      *)
(* calls.                                                                  *)
(***************************************************************************)
EXTENDS Naturals, Sequences, SequencesExt, FiniteSetsExt

CONSTANT Ceiling   \* max_pipeline_steps

ASSUME CeilingAssumption == Ceiling \in Nat

-----------------------------------------------------------------------------
(* Outcomes: Ok(value), or an error named for the check that made it.      *)
Ok(value)   == [ok |-> TRUE, value |-> value]
Err(reason) == [ok |-> FALSE, reason |-> reason]

Literal(v)   == [kind |-> "literal", of |-> v]
Reference(a) == [kind |-> "reference", of |-> a]

(* PhsModule::invoke. Names that introspection does not list cannot be     *)
(* called, whatever the environment binds them to.                         *)
Invoke(module, fn, args) ==
  CASE fn \notin DOMAIN module.functions           -> Err("not exported")
    [] fn \in module.rebound                       -> Err("rebound")
    [] Len(args) # Len(module.functions[fn])       -> Err("arity")
    [] fn \in module.failing                       -> Err("evaluation")
    [] OTHER                                       -> Ok(<<fn>> \o args)

-----------------------------------------------------------------------------
(* compose_with: outer's parameter named bind is fed by inner.             *)
BindIndex(outer, fn, bind) == SelectInSeq(outer.functions[fn], LAMBDA p : p = bind)

Composable(outer, inner, f, g, bind) ==
  /\ f \in DOMAIN outer.functions
  /\ g \in DOMAIN inner.functions
  /\ BindIndex(outer, f, bind) # 0

(* A variant with a bug: the inner result always goes first.               *)
SplicedFirst(args, n, v) == <<v>> \o args

Spliced(args, n, v) == InsertAt(args, n, v)

(* ComposedFunction::call: first outer's arguments without the bound one,  *)
(* then inner's.                                                           *)
CallComposed(outer, inner, f, g, bind, args) ==
  LET partial == Len(outer.functions[f]) - 1
      total   == partial + Len(inner.functions[g])
      given   == Invoke(inner, g, SubSeq(args, partial + 1, total))
  IN  CASE Len(args) # total -> Err("arity")
        [] Len(args) = total /\ ~given.ok -> given
        [] OTHER -> Invoke(outer, f, Spliced(SubSeq(args, 1, partial),
                                             BindIndex(outer, f, bind), given.value))

-----------------------------------------------------------------------------
(* A step is [module, fn, inputs, output]; inputs maps parameters to       *)
(* literals and references, scope maps the aliases of earlier steps to     *)
(* their results.                                                          *)
Resolves(arg, scope) == arg.kind = "literal" \/ arg.of \in DOMAIN scope

Argument(arg, scope) == IF arg.kind = "literal" THEN <<arg.of>> ELSE scope[arg.of]

(* Parameters are looked at in order; the first one at fault is reported.  *)
Faults(params, inputs, scope) ==
  {i \in DOMAIN params : params[i] \notin DOMAIN inputs \/ ~Resolves(inputs[params[i]], scope)}

ArgumentsOf(params, inputs, scope) ==
  LET faults == Faults(params, inputs, scope)
  IN  IF faults = {}
      THEN Ok([i \in DOMAIN params |-> Argument(inputs[params[i]], scope)])
      ELSE Err(IF params[Min(faults)] \in DOMAIN inputs THEN "unresolved" ELSE "missing")

(* What the body of the loop makes of one step.                            *)
StepOutcome(modules, step, scope) ==
  IF step.module \notin DOMAIN modules THEN Err("module")
  ELSE LET module == modules[step.module]
       IN  IF step.fn \notin DOMAIN module.functions THEN Err("function")
           ELSE LET params == module.functions[step.fn]
                    args   == ArgumentsOf(params, step.inputs, scope)
                IN  CASE ~(DOMAIN step.inputs \subseteq ToSet(params)) -> Err("unexpected")
                      [] DOMAIN step.inputs \subseteq ToSet(params) /\ ~args.ok -> args
                      [] OTHER -> Invoke(module, step.fn, args.value)

(* One turn of the loop, which the first error ends.                       *)
AfterStep(modules, run, step) ==
  LET out == StepOutcome(modules, step, run.value)
  IN  CASE ~run.ok             -> run
        [] run.ok /\ ~out.ok   -> out
        [] OTHER               -> Ok((step.output :> out.value) @@ run.value)

(* What there is after each number of steps.                               *)
Runs(modules, steps) ==
  LET run[n \in 0 .. Len(steps)] ==
        IF n = 0 THEN Ok(<<>>) ELSE AfterStep(modules, run[n - 1], steps[n])
  IN  run

(* PhsPipeline::execute: the ceiling first, then step after step; the      *)
(* first error is the answer and no partial scope is returned.             *)
Execute(modules, steps) ==
  IF Len(steps) > Ceiling THEN Err("too many steps") ELSE Runs(modules, steps)[Len(steps)]
=============================================================================
