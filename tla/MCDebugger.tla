----------------------------- MODULE MCDebugger -----------------------------
(* A debugging session for TLC: a program and a function, each with one    *)
(* line that runs any number of times, and a choice of breakpoints, among  *)
(* them some whose condition may call the function.                        *)
EXTENDS Debugger

CONSTANTS f, main

MCFunctions == {f}
MCLines == [fn \in {f, main} |-> IF fn = main THEN {1} ELSE {2}]

Line(n)        == [kind |-> "line", line |-> n]
Conditional(n) == [kind |-> "conditional", line |-> n]
Entry(fn)      == [kind |-> "function", fn |-> fn]

MCBreakpoints ==
  {<<>>, <<Line(1)>>, <<Line(2)>>, <<Entry(f)>>, <<Conditional(1)>>,
   <<Conditional(1), Entry(f)>>, <<Conditional(2), Line(1)>>}
=============================================================================
