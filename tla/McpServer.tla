------------------------------ MODULE McpServer ------------------------------
(***************************************************************************)
(* phs mcp (physure-cli/src/mcp.rs) and the process it runs for a program: *)
(* phs eval (eval.rs) or phs check (check.rs), with the evaluation of      *)
(* physure-script/src/report.rs under the limits of limits.rs.             *)
(*                                                                         *)
(* Three nets hold a program that does not stop: the evaluation looks at   *)
(* its deadline between statements and calls, the main thread of phs eval  *)
(* stops waiting Grace after it, and phs mcp kills the process KillGrace   *)
(* after it. Time is counted from where each of them starts counting, up   *)
(* to the point after which nothing depends on it.                         *)
(***************************************************************************)
EXTENDS Naturals, Sequences, SequencesExt, FiniteSets

CONSTANTS
  Lines,      \* sequences of messages a client may send, see Outcome
  NoId,       \* the id of a notification, and of a reply to what has none
  Timeout,    \* the deadline of an evaluation
  Grace,      \* WATCHDOG_GRACE
  KillGrace,  \* KILL_GRACE
  OutputCap   \* max_output_bytes

ASSUME TimeAssumption ==
  /\ Timeout \in Nat /\ Grace \in Nat /\ KillGrace \in Nat
  /\ Grace < KillGrace
  /\ OutputCap \in Nat

VARIABLES
  prompt,   \* whether the machine keeps up: time passes only while all wait
  lines,    \* what the client sends
  at,       \* the next line to read
  outbox,   \* the replies written
  server,   \* what the one thread of phs mcp is doing
  child     \* the process it runs

vars == <<prompt, lines, at, outbox, server, child>>

(***************************************************************************)
(* A message is [form, id, ...], where form is "garbage" (not JSON),       *)
(* "scalar" (not an object), "answer", "methodless" or "request". A request *)
(* names its method; tools/call also its tool; the tools evaluate and      *)
(* check their program. The other tools, resources and methods differ for  *)
(* a client only by success, which is in succeeds.                         *)
(*                                                                         *)
(* A program is [parses, flagged, statements]: flagged are the lines on    *)
(* which the checker finds an error, and a statement is [kind, size].      *)
(***************************************************************************)
Reading  == [pc |-> "read"]
NoChild  == [pc |-> "none"]
NoReport == [what |-> "none"]

Reply(id, body) == [id |-> id, body |-> body]
RpcError(code)  == [kind |-> "rpc error", code |-> code]
ToolError(why)  == [kind |-> "result", is_error |-> TRUE, content |-> [what |-> why]]
ToolResult(content) == [kind |-> "result", is_error |-> FALSE, content |-> content]
Plain           == [kind |-> "result", is_error |-> FALSE, content |-> [what |-> "text"]]

RunsChild(message) ==
  /\ message.form = "request"
  /\ message.method = "tools/call"
  /\ message.tool \in {"evaluate", "check"}
  /\ message.succeeds   \* the program is given, and not too long

(* Lines are one of the forms, and the programs of those that run one are  *)
(* lists of statements.                                                    *)
ASSUME LinesAssumption ==
  \A ls \in Lines :
    /\ Len(ls) \in Nat
    /\ \A i \in 1 .. Len(ls) :
         /\ ls[i].form \in {"garbage", "scalar", "answer", "methodless", "request"}
         /\ RunsChild(ls[i]) =>
              /\ ls[i].program.parses \in BOOLEAN
              /\ Len(ls[i].program.statements) \in Nat
              /\ \A n \in 1 .. Len(ls[i].program.statements) :
                   ls[i].program.statements[n].size \in Nat

(* dispatch and call_tool, for what needs no child.                        *)
Outcome(message) ==
  CASE message.method = "tools/call" /\ message.tool = "unknown" -> RpcError("invalid params")
    [] message.method = "tools/call" /\ message.tool # "unknown" ->
         IF message.succeeds THEN Plain ELSE ToolError("argument")
    [] message.method = "resources/read" /\ ~message.succeeds -> RpcError("not found")
    [] message.method = "unknown" -> RpcError("method not found")
    [] OTHER -> Plain

(* A variant with a bug: notifications are answered, too.                  *)
RepliesToAll(message) ==
  CASE message.form = "garbage"   -> <<Reply(NoId, RpcError("parse error"))>>
    [] message.form = "scalar"    -> <<Reply(NoId, RpcError("invalid request"))>>
    [] message.form = "answer"    -> <<>>
    [] message.form = "methodless" -> <<Reply(message.id, RpcError("invalid request"))>>
    [] message.form = "request"   -> <<Reply(message.id, Outcome(message))>>

(* handle_line: the replies to a line that needs no child.                 *)
Replies(message) ==
  CASE message.form = "garbage"   -> <<Reply(NoId, RpcError("parse error"))>>
    [] message.form = "scalar"    -> <<Reply(NoId, RpcError("invalid request"))>>
    [] message.form = "answer"    -> <<>>
    [] message.form = "methodless" -> <<Reply(message.id, RpcError("invalid request"))>>
    [] message.form = "request"   ->
         IF message.id = NoId THEN <<>> ELSE <<Reply(message.id, Outcome(message))>>

-----------------------------------------------------------------------------
(* The thread of phs mcp.                                                  *)
HandleLine ==
  /\ server = Reading
  /\ at <= Len(lines)
  /\ ~RunsChild(lines[at])
  /\ at' = at + 1
  /\ outbox' = outbox \o Replies(lines[at])
  /\ UNCHANGED <<prompt, lines, server, child>>

(* The process is new, and what an evaluation keeps is at its start.       *)
Spawned(message) ==
  [pc |-> "starting", tool |-> message.tool, program |-> message.program, age |-> 0,
   time |-> 0, thread |-> "none", next |-> 1, bytes |-> 0, results |-> <<>>, findings |-> {},
   code |-> 0, report |-> NoReport]

(* run_child, up to the loop that waits. A notification runs its tool too. *)
Spawn ==
  /\ server = Reading
  /\ at <= Len(lines)
  /\ RunsChild(lines[at])
  /\ at' = at + 1
  /\ server' = [pc |-> "poll", id |-> lines[at].id]
  /\ child' = Spawned(lines[at])
  /\ UNCHANGED <<prompt, lines, outbox>>

Answered(body) ==
  /\ outbox' = IF server.id = NoId THEN outbox ELSE Append(outbox, Reply(server.id, body))
  /\ server' = Reading
  /\ child' = NoChild

(* child_json, and what tool_check makes of the exit code.                 *)
Rendered ==
  CASE child.pc = "crashed" -> ToolError("ended abnormally")
    [] child.pc = "exited" /\ child.tool = "check" ->
         ToolResult([what |-> "findings", ok |-> child.code = 0])
    [] OTHER -> ToolResult(child.report)

(* try_wait finds the process ended.                                       *)
Reap ==
  /\ server.pc = "poll"
  /\ child.pc \in {"exited", "crashed"}
  /\ Answered(Rendered)
  /\ UNCHANGED <<prompt, lines, at>>

(* try_wait finds it running; what follows looks at the clock only.        *)
FindRunning ==
  /\ server.pc = "poll"
  /\ child.pc \notin {"exited", "crashed"}
  /\ server' = [server EXCEPT !.pc = "deadline"]
  /\ UNCHANGED <<prompt, lines, at, outbox, child>>

Limit == Timeout + KillGrace

(* A variant with a bug: the process gets no time beyond its deadline.     *)
TightLimit == Timeout

KillAfter == Limit

KillLate ==
  /\ server.pc = "deadline"
  /\ child.age >= KillAfter
  /\ Answered(ToolError("stopped"))
  /\ UNCHANGED <<prompt, lines, at>>

Sleep ==
  /\ server.pc = "deadline"
  /\ child.age < KillAfter
  /\ server' = [server EXCEPT !.pc = "poll"]
  /\ UNCHANGED <<prompt, lines, at, outbox, child>>

-----------------------------------------------------------------------------
(* phs check: reads the program and prints its findings.                   *)
RunCheck ==
  /\ child.pc = "starting"
  /\ child.tool = "check"
  /\ child' = [child EXCEPT !.pc = "exited",
                            !.code = IF ~child.program.parses THEN 2
                                     ELSE IF child.program.flagged # {} THEN 1 ELSE 0]
  /\ UNCHANGED <<prompt, lines, at, outbox, server>>

(* phs eval: evaluate_text starts the thread that evaluates. The static    *)
(* checker has run before the first statement.                             *)
Finding(line, code) == [line |-> line, code |-> code]

Report(results, findings) ==
  [what |-> "report", ok |-> findings = {}, results |-> results, findings |-> findings]

StartEval ==
  /\ child.pc = "starting"
  /\ child.tool = "evaluate"
  /\ child' = [child EXCEPT !.pc = "waiting", !.thread = "runs",
                            !.findings = IF child.program.parses
                                         THEN {Finding(l, "static") : l \in child.program.flagged}
                                         ELSE {Finding(0, "syntax")}]
  /\ UNCHANGED <<prompt, lines, at, outbox, server>>

Evaluating == child.pc = "waiting" /\ child.thread = "runs"
Statements == IF child.program.parses THEN child.program.statements ELSE <<>>
AtStatement(kinds) ==
  /\ Evaluating
  /\ child.next <= Len(Statements)
  /\ Statements[child.next].kind \in kinds

PastDeadline == child.time >= Timeout

(* record_failure, and the output limit: an error that ends the run.       *)
EndsRun(code) ==
  child' = [child EXCEPT !.findings = @ \cup {Finding(child.next, code)},
                         !.thread = "done"]

(* A runtime error on a line the checker has flagged is not said twice.    *)
Failing(code) ==
  IF code = "runtime" /\ child.next \in child.program.flagged
  THEN child' = [child EXCEPT !.next = @ + 1]
  ELSE child' = [child EXCEPT !.next = @ + 1, !.findings = @ \cup {Finding(child.next, code)}]

StatementFails ==
  /\ AtStatement({"runtime", "forbidden"})
  /\ ~PastDeadline
  /\ Failing(Statements[child.next].kind)
  /\ UNCHANGED <<prompt, lines, at, outbox, server>>

(* A variant with a bug: a value past the cap is dropped without a word.   *)
AddedOrDropped ==
  child' = IF child.bytes + Statements[child.next].size > OutputCap
           THEN [child EXCEPT !.next = @ + 1]
           ELSE [child EXCEPT !.bytes = @ + Statements[child.next].size,
                              !.results = Append(@, child.next), !.next = @ + 1]

(* Collected::add.                                                         *)
Added ==
  IF child.bytes + Statements[child.next].size > OutputCap
  THEN EndsRun("limit")
  ELSE child' = [child EXCEPT !.bytes = @ + Statements[child.next].size,
                              !.results = Append(@, child.next), !.next = @ + 1]

StatementYields ==
  /\ AtStatement({"value"})
  /\ ~PastDeadline
  /\ Added
  /\ UNCHANGED <<prompt, lines, at, outbox, server>>

StatementIsSilent ==
  /\ AtStatement({"silent"})
  /\ ~PastDeadline
  /\ child' = [child EXCEPT !.next = @ + 1]
  /\ UNCHANGED <<prompt, lines, at, outbox, server>>

(* check_budget: the deadline is over, or the call depth or the stack.     *)
HitsLimit ==
  /\ \/ AtStatement({"deep"})
     \/ /\ AtStatement({"value", "silent", "runtime", "forbidden", "loops"})
        /\ PastDeadline
  /\ EndsRun("limit")
  /\ UNCHANGED <<prompt, lines, at, outbox, server>>

EndProgram ==
  /\ Evaluating
  /\ child.next > Len(Statements)
  /\ child' = [child EXCEPT !.thread = "done"]
  /\ UNCHANGED <<prompt, lines, at, outbox, server>>

(* A panic ends the thread without a report; the channel is closed.        *)
Panics ==
  /\ AtStatement({"panics"})
  /\ child' = [child EXCEPT !.thread = "panicked"]
  /\ UNCHANGED <<prompt, lines, at, outbox, server>>

(* What no handler survives: an allocation that fails, the end of a stack. *)
Aborts ==
  /\ AtStatement({"aborts"})
  /\ child' = [child EXCEPT !.pc = "crashed"]
  /\ UNCHANGED <<prompt, lines, at, outbox, server>>

(* with_watchdog's main thread: the report, printed.                       *)
PrintReport ==
  /\ child.pc = "waiting"
  /\ child.thread = "done"
  /\ child' = [child EXCEPT !.pc = "exited", !.report = Report(child.results, child.findings)]
  /\ UNCHANGED <<prompt, lines, at, outbox, server>>

WatchdogAt == Timeout + Grace
WatchdogReport == Report(<<>>, {Finding(0, "limit")})

(* recv_timeout fails: the time is over, or the thread is gone.            *)
WatchdogAnswers ==
  /\ child.pc = "waiting"
  /\ \/ child.thread = "panicked"
     \/ child.thread = "runs" /\ child.time >= WatchdogAt
  /\ child' = [child EXCEPT !.pc = "exited", !.report = WatchdogReport]
  /\ UNCHANGED <<prompt, lines, at, outbox, server>>

-----------------------------------------------------------------------------
(* Whether a step is due that needs no more time to pass.                  *)
Due ==
  \/ child.pc \in {"starting", "exited", "crashed"}
  \/ child.pc = "waiting" /\ \/ child.thread # "runs"
                             \/ child.time >= WatchdogAt
  \/ server.pc = "deadline"

(* A variant with a bug: nobody counts how long the process has run.       *)
AgeStands(c) == c

Aged(c) == [c EXCEPT !.age = IF @ < Limit THEN @ + 1 ELSE @]
Timed(c) ==
  IF c.pc = "waiting"
  THEN [c EXCEPT !.time = IF @ < WatchdogAt THEN @ + 1 ELSE @]
  ELSE c

Tick ==
  /\ child # NoChild
  /\ prompt => ~Due
  /\ child' = Timed(Aged(child))
  /\ UNCHANGED <<prompt, lines, at, outbox, server>>

-----------------------------------------------------------------------------
Init ==
  /\ prompt \in BOOLEAN
  /\ lines \in Lines
  /\ at = 1
  /\ outbox = <<>>
  /\ server = Reading
  /\ child = NoChild

Serve == HandleLine \/ Spawn \/ Reap \/ FindRunning \/ KillLate \/ Sleep

Process ==
  \/ RunCheck \/ StartEval \/ PrintReport \/ WatchdogAnswers
  \/ StatementFails \/ StatementYields \/ StatementIsSilent \/ HitsLimit
  \/ EndProgram \/ Panics \/ Aborts

Next == Serve \/ Process \/ Tick

(* The server's thread is scheduled, and while it polls time passes. Of    *)
(* the process it runs nothing is assumed, unless the machine keeps up.    *)
Fairness == WF_vars(Serve) /\ SF_vars(Tick) /\ WF_vars(prompt /\ Process)

Spec == Init /\ [][Next]_vars /\ Fairness

-----------------------------------------------------------------------------
(* What a client of phs mcp may rely on, whatever the programs it sends do. *)

(* Every variable has its type.                                            *)
TypeOK ==
  /\ prompt \in BOOLEAN
  /\ lines \in Lines
  /\ at \in 1 .. Len(lines) + 1
  /\ \A i \in DOMAIN outbox : DOMAIN outbox[i] = {"id", "body"}
  /\ server.pc \in {"read", "poll", "deadline"}
  /\ child.pc \in {"none", "starting", "waiting", "exited", "crashed"}
  /\ child # NoChild => child.age \in 0 .. Limit
  /\ child.pc = "waiting" => /\ child.time \in 0 .. WatchdogAt
                             /\ child.next \in 1 .. Len(Statements) + 1
                             /\ child.bytes \in 0 .. OutputCap

Owes(message) ==
  \/ message.form \in {"garbage", "scalar", "methodless"}
  \/ message.form = "request" /\ message.id # NoId

AnswerId(message) == IF message.form \in {"garbage", "scalar"} THEN NoId ELSE message.id

WithAnswer(ids, message) == IF Owes(message) THEN Append(ids, AnswerId(message)) ELSE ids

(* The ids of the answers that are owed for the first lines.               *)
Owed(ls) ==
  LET ids[n \in 0 .. Len(ls)] ==
        IF n = 0 THEN <<>> ELSE WithAnswer(ids[n - 1], ls[n])
  IN  ids

Handled == IF server = Reading THEN at - 1 ELSE at - 2

(* The replies are those of the lines read so far, in their order: one for *)
(* each request, however its program ended, and none for a notification or *)
(* an answer (serve and handle_line).                                      *)
AnsweredInOrder == [i \in DOMAIN outbox |-> outbox[i].id] = Owed(lines)[Handled]

(* If the machine keeps up, a program that does not stop is reported by    *)
(* the watchdog of phs eval, with a report, and never by the kill of phs   *)
(* mcp, without one: KILL_GRACE is long enough for WATCHDOG_GRACE.         *)
WatchdogComesFirst ==
  (prompt /\ server.pc = "deadline" /\ child.tool = "evaluate") => child.age < KillAfter

WithValue(among, n, statement) == IF statement.kind = "value" THEN Append(among, n) ELSE among

(* The statements with a value among the first ones, in order.             *)
Yields(statements) ==
  LET among[n \in 0 .. Len(statements)] ==
        IF n = 0 THEN <<>> ELSE WithValue(among[n - 1], n, statements[n])
  IN  among

Yielding(p) == Yields(p.statements)[Len(p.statements)]
RunsThrough(p) ==
  /\ p.parses
  /\ p.flagged = {}
  /\ \A i \in 1 .. Len(p.statements) : p.statements[i].kind \in {"value", "silent"}

(* A report is ok only for a program that ran to its end without an error, *)
(* and then has every value; whatever happened, it has the values in order *)
(* from the first one on, and when some are missing a limit that says so,  *)
(* at a line before the first missing one (report.rs).                     *)
ReportTellsTheRun ==
  (child.pc = "exited" /\ child.tool = "evaluate") =>
     LET p == child.program
         r == child.report
     IN  /\ r.ok => RunsThrough(p) /\ r.results = Yielding(p)
         /\ p.parses =>
              /\ IsPrefix(r.results, Yielding(p))
              /\ r.results # Yielding(p) =>
                   \E f \in r.findings :
                     /\ f.code = "limit"
                     /\ f.line <= Yielding(p)[Len(r.results) + 1]

(* Every line is handled in the end, also when a program hangs, panics or  *)
(* takes its process down, and the server reads on.                        *)
EveryLineIsHandled == <>(at = Len(lines) + 1 /\ server = Reading)
=============================================================================
