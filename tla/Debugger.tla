------------------------------ MODULE Debugger ------------------------------
(***************************************************************************)
(* The debugger of a PHS interpreter: the checkpoint before every          *)
(* statement, breakpoints, and the steps the user asks for                 *)
(* (physure-script/src/interpreter/statements.rs, expressions.rs).         *)
(*                                                                         *)
(* stack is the native stack of the one thread that runs the program, as   *)
(* far as the debugger can tell its records apart:                         *)
(*   call        a function whose statements are evaluated, or the program *)
(*   span        an {expression} in a string, run as a statement on line 0 *)
(*   checkpoint  debug_checkpoint: the condition of a breakpoint may call  *)
(*               functions, so that checkpoints nest                       *)
(* call_stack is the list of StackFrames that the interpreter keeps beside *)
(* it for the user.                                                        *)
(*                                                                         *)
(* What the program does is arbitrary: its statements come in any order,   *)
(* their expressions call any functions, and anything may fail.            *)
(***************************************************************************)
EXTENDS Naturals, Sequences

CONSTANTS
  Functions,     \* names of functions
  Main,          \* the program's top level
  Lines,         \* function or Main -> the lines of its statements
  Breakpoints,   \* the lists of breakpoints a session may start with
  MaxCallDepth,  \* Limits.max_call_depth
  MaxSpans       \* bound: spans under evaluation at one time

ASSUME DebuggerAssumption ==
  /\ Main \notin Functions
  /\ \A fn \in Functions \cup {Main} : Lines[fn] \subseteq Nat
  /\ \A list \in Breakpoints : Len(list) \in Nat
  /\ MaxCallDepth \in Nat
  /\ MaxSpans \in Nat

VARIABLES
  stack,        \* calls, spans and checkpoints, innermost last
  call_stack,   \* StackFrames: names of functions, innermost last
  step_mode,    \* the pending step
  breakpoints,  \* sequence of breakpoints
  failing,      \* an error is on its way up
  asked         \* what the user asked for last, and from where (for the properties)

vars == <<stack, call_stack, step_mode, breakpoints, failing, asked>>

-----------------------------------------------------------------------------
Top      == stack[Len(stack)]
Below    == SubSeq(stack, 1, Len(stack) - 1)
InTop(k) == stack # <<>> /\ Top.kind = k

(* The name and the depth of the innermost StackFrame.                     *)
Depth     == Len(call_stack)
Innermost == IF call_stack = <<>> THEN Main ELSE call_stack[Depth]

(* frame is the place of its StackFrame in call_stack, if it has one.      *)
Activation(fn, phase) == [kind |-> "call", fn |-> fn, phase |-> phase, frame |-> 0]
Span == [kind |-> "span", fn |-> Innermost, phase |-> "checking", frame |-> 0]

(* What debug_checkpoint takes out of the locks before it evaluates any    *)
(* condition, and the breakpoint it is at.                                 *)
Checkpoint(line) ==
  [kind |-> "checkpoint", fn |-> Innermost, line |-> line, frame |-> 0,
   depth |-> Depth, pending |-> step_mode, next |-> 1]

InPhase(phase) == (InTop("call") \/ InTop("span")) /\ Top.phase = phase

IsAtBreakpoint == InTop("checkpoint") /\ Top.next <= Len(breakpoints)
At == breakpoints[Top.next]

(* An expression is being evaluated: it may call functions.                *)
IsEvaluating ==
  \/ InPhase("requires") \/ InPhase("body") \/ InPhase("ensures")
  \/ IsAtBreakpoint /\ At.kind = "conditional" /\ At.line = Top.line

Count(Is(_)) == Len(SelectSeq(stack, Is))
CallDepth == Count(LAMBDA r : r.kind = "call" /\ r.fn # Main)
Spans     == Count(LAMBDA r : r.kind = "span")

NoStep == [mode |-> "none"]

(* Variants with a bug: of the two comparisons of depths.                  *)
StepDueInSibling(pending, depth) ==
  \/ pending.mode = "into"
  \/ pending.mode \in {"over", "out"} /\ depth <= pending.depth
StepDueInCaller(pending, depth) ==
  \/ pending.mode = "into"
  \/ pending.mode \in {"over", "out"} /\ depth < pending.depth

StepDue(pending, depth) ==
  \/ pending.mode = "into"
  \/ pending.mode = "over" /\ depth <= pending.depth
  \/ pending.mode = "out" /\ depth < pending.depth

Actions == {"continue", "into", "over", "out"}

StepMode(action, depth) ==
  CASE action = "continue" -> NoStep
    [] action = "into"     -> [mode |-> "into"]
    [] OTHER               -> [mode |-> action, depth |-> depth]

(* Calls and programs whose own statements run: they come one inside the   *)
(* other, and the user sees the innermost. Its caller is the one before.   *)
IsRunning(i) == stack[i].kind = "call" /\ (stack[i].fn = Main \/ stack[i].frame # 0)
Running == {i \in DOMAIN stack : IsRunning(i)}
Last(S) == IF S = {} THEN 0 ELSE CHOOSE i \in S : \A j \in S : j <= i
Current == Last(Running)
Caller  == Last(Running \ {Current})

(* The user asks from the innermost call, or from its caller for a step    *)
(* out of it. Once that call has ended the step is due: it goes on from    *)
(* the call that the next checkpoint is in.                                *)
Ask(action) ==
  [action |-> action, from |-> IF action = "out" THEN Caller ELSE Current, due |-> "there"]
AskedIn(height) == IF height < asked.from THEN [asked EXCEPT !.due = "next"] ELSE asked
AskedAtNext ==
  IF asked.due = "next" THEN [asked EXCEPT !.from = Current, !.due = "now"] ELSE asked

-----------------------------------------------------------------------------
(* Calls and statements.                                                   *)

Set(record) == stack' = Append(Below, record)

(* call_function_node_at: the depth limit comes first, then @requires,     *)
(* while the call has no StackFrame yet.                                   *)
Call(fn) ==
  /\ ~failing
  /\ IsEvaluating
  /\ CallDepth < MaxCallDepth
  /\ stack' = Append(stack, Activation(fn, "requires"))
  /\ UNCHANGED <<call_stack, step_mode, breakpoints, failing, asked>>

(* A variant with a bug: the guard is dropped at once.                     *)
PushFrameAndPop ==
  /\ ~failing
  /\ InPhase("requires")
  /\ Set([Top EXCEPT !.phase = "entered"])
  /\ UNCHANGED <<call_stack, step_mode, breakpoints, failing, asked>>

PushFrame ==
  /\ ~failing
  /\ InPhase("requires")
  /\ Set([Top EXCEPT !.phase = "entered", !.frame = Depth + 1])
  /\ call_stack' = Append(call_stack, Top.fn)
  /\ UNCHANGED <<step_mode, breakpoints, failing, asked>>

(* The next statement of a program or function, or of a while in it.       *)
BeginStatement(line) ==
  /\ ~failing
  /\ InPhase("entered") \/ InPhase("body")
  /\ Top.kind = "call"
  /\ line \in Lines[Top.fn]
  /\ stack' = Append(Append(Below, [Top EXCEPT !.phase = "checking"]), Checkpoint(line))
  /\ asked' = AskedAtNext
  /\ UNCHANGED <<call_stack, step_mode, breakpoints, failing>>

(* evaluate_span: a statement on line 0 of no function.                    *)
BeginSpan ==
  /\ ~failing
  /\ IsEvaluating
  /\ Spans < MaxSpans
  /\ stack' = Append(Append(stack, Span), Checkpoint(0))
  /\ asked' = AskedAtNext
  /\ UNCHANGED <<call_stack, step_mode, breakpoints, failing>>

EndBody ==
  /\ ~failing
  /\ InPhase("body")
  /\ Top.kind = "call"
  /\ Top.fn # Main
  /\ Set([Top EXCEPT !.phase = "ensures"])
  /\ UNCHANGED <<call_stack, step_mode, breakpoints, failing, asked>>

(* CallStackGuard pops the frame however the call ends.                    *)
Leave ==
  /\ stack' = Below
  /\ call_stack' = IF Top.frame = 0 THEN call_stack
                   ELSE SubSeq(call_stack, 1, Depth - 1)
  /\ asked' = AskedIn(Len(stack) - 1)

Return ==
  /\ ~failing
  /\ \/ InPhase("ensures")
     \/ InPhase("body") /\ Top.kind = "span"
  /\ Leave
  /\ UNCHANGED <<step_mode, breakpoints, failing>>

-----------------------------------------------------------------------------
(* Errors.                                                                 *)

Raise ==
  /\ ~failing
  /\ IsEvaluating \/ InPhase("entered")
  /\ failing' = TRUE
  /\ UNCHANGED <<stack, call_stack, step_mode, breakpoints, asked>>

(* Variants with a bug: only a call that returns pops its frame, and an    *)
(* error outlives its program.                                             *)
UnwindKeepsFrame ==
  /\ failing
  /\ failing' = (Top.kind # "span" /\ Len(stack) > 1)
  /\ stack' = Below
  /\ asked' = AskedIn(Len(stack) - 1)
  /\ UNCHANGED <<call_stack, step_mode, breakpoints>>
UnwindPastProgram ==
  /\ failing
  /\ failing' = (Top.kind # "span")
  /\ Leave
  /\ UNCHANGED <<step_mode, breakpoints>>

(* ? in every caller, up to the program or to the string of a span, which  *)
(* then keeps the span's text.                                             *)
Unwind ==
  /\ failing
  /\ failing' = (Top.kind # "span" /\ Len(stack) > 1)
  /\ Leave
  /\ UNCHANGED <<step_mode, breakpoints>>

-----------------------------------------------------------------------------
(* debug_checkpoint.                                                       *)

(* Whether a condition holds is up to the program.                         *)
IsHit ==
  /\ IsAtBreakpoint
  /\ IF At.kind = "function" THEN At.fn = Top.fn ELSE At.line = Top.line

IsMiss == IsAtBreakpoint /\ (At.kind = "conditional" \/ ~IsHit)

NextBreakpoint ==
  /\ ~failing
  /\ IsMiss
  /\ Set([Top EXCEPT !.next = @ + 1])
  /\ UNCHANGED <<call_stack, step_mode, breakpoints, failing, asked>>

IsWithoutHit == InTop("checkpoint") /\ Top.next > Len(breakpoints)

Fires ==
  \/ IsHit
  \/ IsWithoutHit /\ (StepDue(Top.pending, Top.depth) \/ breakpoints = <<>>)

(* Back to the statement, which runs now.                                  *)
Proceed ==
  stack' = Append(SubSeq(stack, 1, Len(stack) - 2),
                  [stack[Len(stack) - 1] EXCEPT !.phase = "body"])

Pause(action) ==
  /\ ~failing
  /\ Fires
  /\ Proceed
  /\ step_mode' = StepMode(action, Top.depth)
  /\ asked' = Ask(action)
  /\ UNCHANGED <<call_stack, breakpoints, failing>>

Pass ==
  /\ ~failing
  /\ IsWithoutHit
  /\ ~Fires
  /\ Proceed
  /\ UNCHANGED <<call_stack, step_mode, breakpoints, failing, asked>>

-----------------------------------------------------------------------------
(* A program, or one more of a long-lived interpreter.                     *)
Start ==
  /\ stack = <<>>
  /\ stack' = <<Activation(Main, "entered")>>
  /\ UNCHANGED <<call_stack, step_mode, breakpoints, failing, asked>>

Finish ==
  /\ ~failing
  /\ InPhase("entered") \/ InPhase("body")
  /\ Top.fn = Main /\ Top.kind = "call"
  /\ Leave
  /\ UNCHANGED <<step_mode, breakpoints, failing>>

Init ==
  /\ stack = <<>>
  /\ call_stack = <<>>
  /\ step_mode = NoStep
  /\ breakpoints \in Breakpoints
  /\ failing = FALSE
  /\ asked = [action |-> "continue", from |-> 0, due |-> "there"]

Next ==
  \/ Start \/ Finish
  \/ \E fn \in Functions : Call(fn)
  \/ PushFrame \/ EndBody \/ Return
  \/ \E line \in UNION {Lines[fn] : fn \in Functions \cup {Main}} : BeginStatement(line)
  \/ BeginSpan
  \/ Raise \/ Unwind
  \/ NextBreakpoint \/ Pass
  \/ \E action \in Actions : Pause(action)

Spec == Init /\ [][Next]_vars

-----------------------------------------------------------------------------
(* What the debugger promises its user.                                    *)
StepModes == {NoStep, [mode |-> "into"]} \cup [mode : {"over", "out"}, depth : Nat]

Records ==
  [kind : {"call"}, fn : Functions \cup {Main},
   phase : {"requires", "entered", "checking", "body", "ensures"}, frame : Nat]
  \cup [kind : {"span"}, fn : Functions \cup {Main}, phase : {"checking", "body"}, frame : {0}]
  \cup [kind : {"checkpoint"}, fn : Functions \cup {Main}, line : Nat, frame : {0},
        depth : Nat, pending : StepModes, next : Nat]

(* Every variable has its type, and an error is under way only while       *)
(* something runs.                                                         *)
TypeOK ==
  /\ stack \in Seq(Records)
  /\ call_stack \in Seq(Functions)
  /\ step_mode \in StepModes
  /\ breakpoints \in Breakpoints
  /\ failing \in BOOLEAN /\ (failing => stack # <<>>)
  /\ asked \in [action : Actions, from : Nat, due : {"there", "next", "now"}]

(* The parts of the next property.                                         *)
FramesAreOfCalls ==
  \A i \in DOMAIN stack : stack[i].frame # 0 <=>
    stack[i].kind = "call" /\ stack[i].fn # Main /\ stack[i].phase # "requires"
FramesAreNamed ==
  \A i \in DOMAIN stack : stack[i].frame # 0 =>
    stack[i].frame \in DOMAIN call_stack /\ call_stack[stack[i].frame] = stack[i].fn
FramesAreInOrder ==
  \A i, j \in DOMAIN stack :
    i < j /\ stack[i].frame # 0 /\ stack[j].frame # 0 => stack[i].frame < stack[j].frame
FramesAreOwned ==
  \A d \in DOMAIN call_stack : \E i \in DOMAIN stack : stack[i].frame = d

(* call_stack is what runs: every call that is past its @requires has its  *)
(* StackFrame, in the order of the calls, and no frame is left of a call   *)
(* that has ended, whether it returned, failed inside a breakpoint's       *)
(* condition or was given up on by a template string.                      *)
(* (call_function_node_at, CallStackGuard.)                                *)
FramesAreActiveCalls ==
  FramesAreOfCalls /\ FramesAreNamed /\ FramesAreInOrder /\ FramesAreOwned

(* When a checkpoint is back from its conditions, the depth and the name   *)
(* it took before them are still those of the innermost frame, which the   *)
(* hook is then shown. (debug_checkpoint takes call_stack's lock twice.)   *)
SnapshotIsCurrent ==
  InTop("checkpoint") => Top.depth = Depth /\ Top.fn = Innermost

(* The user's last request is for a stop at this checkpoint: a step into   *)
(* is for the next one, a step over for one outside the calls made since,  *)
(* a step out for one in the caller or outside the calls it made since.    *)
IsDue ==
  \/ asked.action = "into"
  \/ asked.action \in {"over", "out"} /\ \A i \in Running : i <= asked.from

(* Or for one that is reached once the call it was asked from has ended:   *)
(* then also one of the condition that the checkpoint which is due         *)
(* evaluates first.                                                        *)
IsAsked ==
  \/ IsDue
  \/ asked.action \in {"over", "out"} /\ asked.due # "there"

(* No pause answered while the conditions of this checkpoint were          *)
(* evaluated has replaced the step it took before them.                    *)
IsUndisturbed == Top.pending = step_mode

(* With breakpoints set, the program pauses away from them only where the  *)
(* last step ends; and a step that has come to its end is not missed,      *)
(* whatever calls, errors and nested pauses came before.                   *)
(* (debug_checkpoint's step_due.)                                          *)
StepsStopInTime ==
  IsWithoutHit /\ IsUndisturbed =>
    /\ breakpoints # <<>> /\ Fires => IsAsked
    /\ IsDue => Fires
=============================================================================
