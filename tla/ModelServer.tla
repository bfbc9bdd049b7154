----------------------------- MODULE ModelServer -----------------------------
(***************************************************************************)
(* phs serve (physure-cli/src/server.rs): an HTTP server whose fixed pool  *)
(* of workers takes requests off the queue of tiny_http and answers them   *)
(* from modules loaded once at the start.                                  *)
(*                                                                         *)
(* The queue holds the requests that tiny_http has read the head of, and   *)
(* the tokens that make recv() fail: Failure, which its accept thread      *)
(* leaves when it stops, and Wake, which server.unblock() leaves. A worker *)
(* reads a body from its client's connection, for as long as that takes.   *)
(***************************************************************************)
EXTENDS Pipeline

CONSTANTS
  Workers,    \* the threads of the pool
  Requests,   \* the requests that clients send
  RequestOf,  \* request -> what it may be: a set of records, see below
  Targets,    \* what the command line may point at, see Sources
  Tokens,     \* values --token may have: NoToken, BlankToken or another
  NoToken, BlankToken,
  Unsupported,  \* a JSON value that is no PHS value
  Failure, Wake

ASSUME ServerAssumption == {Failure, Wake} \cap Requests = {}

(* The steps of a pipeline are a list, see below.                          *)
ASSUME StepsAssumption ==
  \A r \in Requests : \A q \in RequestOf[r] :
    q.method = "POST" /\ q.route = "pipeline" /\ q.body.kind = "steps" => Len(q.body.steps) \in Nat

VARIABLES
  stage,    \* "starting", "refused", "serving", "returned" or "panicked"
  token,    \* config.auth_token
  modules,  \* the modules loaded at the start
  accepting,  \* whether tiny_http takes connections
  client,   \* request -> "idle", "sending", "sent" or "aborted"
  request,  \* request -> what its client made it
  queue,    \* tiny_http's queue
  worker,   \* worker -> what it is doing
  reply     \* request -> the answer sent, or NoReply

vars == <<stage, token, modules, accepting, client, request, queue, worker, reply>>

(***************************************************************************)
(* A request is a record [method, route, auth, ...]. auth tells whether a  *)
(* header carries the token. A request for a function names module and fn. *)
(* A body is [kind, ...]: "args" with a sequence of literals, "named" with *)
(* a function from parameters to literals, "steps" with a pipeline, or     *)
(* "other", which is not what the route expects. fate tells what else may  *)
(* become of it: "endless" when the client never ends the body, "panic"    *)
(* when the call it ends in panics, "plain" otherwise.                     *)
(***************************************************************************)
NoReply == [status |-> 0]

HasBody(q) == q.method = "POST" /\ q.route \in {"pipeline", "function"}

Idle == [pc |-> "recv"]

(* A variant with a bug: requests are taken while nobody handles one.      *)
ReceivingAlone(w) ==
  /\ stage = "serving" /\ worker[w].pc = "recv" /\ queue # <<>>
  /\ \A v \in Workers : worker[v].pc \notin {"body", "steps"}

Receiving(w) == stage = "serving" /\ worker[w].pc = "recv" /\ queue # <<>>

-----------------------------------------------------------------------------
(* Replies. error_reply never carries the CORS header, cors_reply does     *)
(* when a token is configured.                                             *)
ErrorReply(status) == [status |-> status, content |-> TRUE, cors |-> FALSE]
Answer(value)  == [status |-> 200, content |-> TRUE, cors |-> token # NoToken, result |-> value]
Refusal        == [status |-> 400, content |-> TRUE, cors |-> token # NoToken]
Preflight      == [status |-> 200, content |-> FALSE, cors |-> token # NoToken]
UnreadableBody == [status |-> 400, content |-> FALSE, cors |-> FALSE]
DroppedRequest == [status |-> 500, content |-> FALSE, cors |-> FALSE]

CheckAuth(q) == token = NoToken \/ (token # BlankToken /\ q.auth)

(* What handle_request answers before it reads a body; NoReply when the    *)
(* body has to be read first.                                              *)
EarlyReply(q) ==
  CASE q.method = "OPTIONS"                               -> Preflight
    [] q.method # "OPTIONS" /\ ~CheckAuth(q)              -> ErrorReply(401)
    [] CheckAuth(q) /\ q.method = "GET" /\ q.route = "health"  -> Answer(DOMAIN modules)
    [] CheckAuth(q) /\ q.method = "GET" /\ q.route = "catalog" ->
         Answer([name \in DOMAIN modules |-> modules[name].functions])
    [] CheckAuth(q) /\ HasBody(q) /\ q.route = "pipeline" -> NoReply
    [] CheckAuth(q) /\ HasBody(q) /\ q.route = "function" ->
         IF /\ q.module \in DOMAIN modules
            /\ q.fn \in DOMAIN modules[q.module].functions
         THEN NoReply ELSE ErrorReply(404)
    [] OTHER                                              -> ErrorReply(404)

(* call_arguments: positional values as they come, named ones in the order *)
(* of the parameters.                                                      *)
Values(literals) ==
  IF \E i \in DOMAIN literals : literals[i] = Unsupported
  THEN Err("value") ELSE Ok([i \in DOMAIN literals |-> <<literals[i]>>])

CallArguments(body, params) ==
  CASE body.kind = "args" -> Values(body.values)
    [] body.kind = "named" /\ DOMAIN body.values = ToSet(params) ->
         Values([i \in DOMAIN params |-> body.values[params[i]]])
    [] OTHER -> Err("parameters")

FunctionReply(q) ==
  LET module == modules[q.module]
      args   == CallArguments(q.body, module.functions[q.fn])
      out    == Invoke(module, q.fn, args.value)
  IN  CASE ~args.ok           -> ErrorReply(400)
        [] args.ok /\ ~out.ok -> Refusal
        [] OTHER              -> Answer(out.value)

(* The checks of pipeline_reply that come before any step is executed.     *)
WellFormed(body) ==
  /\ body.kind = "steps"
  /\ Len(body.steps) <= Ceiling
  /\ \A i \in DOMAIN body.steps : Literal(Unsupported) \notin Range(body.steps[i].inputs)

-----------------------------------------------------------------------------
(* from_path. A target is [kind, name, ...]: a file has a name and, when   *)
(* that is phs.toml, tells whether the manifest validates; files maps the   *)
(* module names it leads to (the manifest's exports, the stem of the file, *)
(* the stems in the directory) to [phs, readable, source], where source is *)
(* what parsing and running the text gives: Ok(module) or Err(_).          *)
ReadAll(files) ==
  IF \A name \in DOMAIN files : files[name].readable
  THEN Ok([name \in DOMAIN files |-> files[name].source])
  ELSE Err("read")

SourcesOfFile(target) ==
  IF \/ target.name = "phs.toml" /\ target.valid
     \/ target.name = "module.phs"
  THEN ReadAll(target.files)
  ELSE Err("manifest or format")

SourcesOfDirectory(target) ==
  ReadAll(Restrict(target.files, {name \in DOMAIN target.files : target.files[name].phs}))

Sources(target) ==
  CASE target.kind = "file"      -> SourcesOfFile(target)
    [] target.kind = "directory" -> SourcesOfDirectory(target)
    [] OTHER                     -> Err("does not exist")

Loadable(target) ==
  LET found == Sources(target)
  IN  /\ found.ok
      /\ found.value # <<>>
      /\ \A name \in DOMAIN found.value : found.value[name].ok

Loaded(target) ==
  [name \in DOMAIN Sources(target).value |-> Sources(target).value[name].value]

ValidToken(t) == t # BlankToken

(* run_serve up to the start of the pool.                                  *)
Start ==
  /\ stage = "starting"
  /\ \E t \in Tokens, target \in Targets :
       /\ token' = t
       /\ IF ValidToken(t) /\ Loadable(target)
          THEN stage' = "serving" /\ modules' = Loaded(target)
          ELSE stage' = "refused" /\ UNCHANGED modules
  /\ UNCHANGED <<accepting, client, request, queue, worker, reply>>

-----------------------------------------------------------------------------
(* The clients and tiny_http's accept thread. Connections that are open    *)
(* already go on bringing requests after the accept thread has stopped.    *)
Send(r) ==
  /\ stage = "serving"
  /\ client[r] = "idle"
  /\ \E q \in RequestOf[r] :
       /\ request' = [request EXCEPT ![r] = q]
       /\ client' = [client EXCEPT ![r] = IF HasBody(q) THEN "sending" ELSE "sent"]
  /\ queue' = Append(queue, r)
  /\ UNCHANGED <<stage, token, modules, accepting, worker, reply>>

FinishBody(r) ==
  /\ client[r] = "sending"
  /\ request[r].fate # "endless"
  /\ client' = [client EXCEPT ![r] = "sent"]
  /\ UNCHANGED <<stage, token, modules, accepting, request, queue, worker, reply>>

AbortBody(r) ==
  /\ client[r] = "sending"
  /\ request[r].fate # "endless"
  /\ client' = [client EXCEPT ![r] = "aborted"]
  /\ UNCHANGED <<stage, token, modules, accepting, request, queue, worker, reply>>

StopAccepting ==
  /\ stage = "serving"
  /\ accepting
  /\ accepting' = FALSE
  /\ queue' = Append(queue, Failure)
  /\ UNCHANGED <<stage, token, modules, client, request, worker, reply>>

-----------------------------------------------------------------------------
(* The workers.                                                            *)
Respond(w, answer) ==
  /\ reply' = [reply EXCEPT ![worker[w].request] = answer]
  /\ worker' = [worker EXCEPT ![w] = Idle]

(* recv() yields a request, and what needs no body is answered.            *)
Take(w) ==
  /\ Receiving(w)
  /\ Head(queue) \in Requests
  /\ LET r     == Head(queue)
         early == EarlyReply(request[r])
     IN  IF early = NoReply
         THEN worker' = [worker EXCEPT ![w] = [pc |-> "body", request |-> r]] /\ UNCHANGED reply
         ELSE reply' = [reply EXCEPT ![r] = early] /\ UNCHANGED worker
  /\ queue' = Tail(queue)
  /\ UNCHANGED <<stage, token, modules, accepting, client, request>>

(* A variant with a bug: the worker leaves without waking a sibling.       *)
ExitQuietly(w) ==
  /\ Receiving(w)
  /\ Head(queue) \notin Requests
  /\ worker' = [worker EXCEPT ![w] = [pc |-> "gone"]]
  /\ queue' = Tail(queue)
  /\ UNCHANGED <<stage, token, modules, accepting, client, request, reply>>

(* A variant with a bug: the wake-up takes the place of what was waiting.  *)
ExitDraining(w) ==
  /\ Receiving(w)
  /\ Head(queue) \notin Requests
  /\ worker' = [worker EXCEPT ![w] = [pc |-> "gone"]]
  /\ queue' = <<Wake>>
  /\ UNCHANGED <<stage, token, modules, accepting, client, request, reply>>

(* recv() fails: the worker wakes a sibling and ends.                      *)
Exit(w) ==
  /\ Receiving(w)
  /\ Head(queue) \notin Requests
  /\ worker' = [worker EXCEPT ![w] = [pc |-> "gone"]]
  /\ queue' = Append(Tail(queue), Wake)
  /\ UNCHANGED <<stage, token, modules, accepting, client, request, reply>>

AtBody(w) == worker[w].pc = "body" /\ client[worker[w].request] # "sending"

(* The body could not be read.                                             *)
ReadFails(w) ==
  /\ AtBody(w)
  /\ client[worker[w].request] = "aborted"
  /\ Respond(w, IF request[worker[w].request].route = "pipeline"
                THEN UnreadableBody ELSE ErrorReply(400))
  /\ UNCHANGED <<stage, token, modules, accepting, client, request, queue>>

CallFunction(w) ==
  /\ AtBody(w)
  /\ LET r == worker[w].request
     IN  /\ client[r] = "sent"
         /\ request[r].route = "function"
         /\ request[r].fate # "panic"
         /\ Respond(w, FunctionReply(request[r]))
  /\ UNCHANGED <<stage, token, modules, accepting, client, request, queue>>

Executing(r, done, scope) == [pc |-> "steps", request |-> r, done |-> done, scope |-> scope]

(* The pipeline's body is parsed; a well-formed one starts executing.      *)
BeginPipeline(w) ==
  /\ AtBody(w)
  /\ LET r == worker[w].request
     IN  /\ client[r] = "sent"
         /\ request[r].route = "pipeline"
         /\ request[r].fate # "panic"
         /\ IF WellFormed(request[r].body)
            THEN worker' = [worker EXCEPT ![w] = Executing(r, 0, <<>>)] /\ UNCHANGED reply
            ELSE Respond(w, ErrorReply(400))
  /\ UNCHANGED <<stage, token, modules, accepting, client, request, queue>>

(* A variant with a bug: the first result under an alias stays.            *)
BoundOnce(scope, alias, value) == scope @@ (alias :> value)

Bound(scope, alias, value) == (alias :> value) @@ scope

(* One turn of execute_pipeline_steps.                                     *)
ExecuteStep(w) ==
  /\ worker[w].pc = "steps"
  /\ LET r     == worker[w].request
         steps == request[r].body.steps
         done  == worker[w].done
         scope == worker[w].scope
     IN  IF done = Len(steps)
         THEN Respond(w, Answer(scope))
         ELSE LET step == steps[done + 1]
                  out  == StepOutcome(modules, step, scope)
              IN  IF ~out.ok THEN Respond(w, Refusal)
                  ELSE /\ worker' = [worker EXCEPT ![w] =
                            Executing(r, done + 1, Bound(scope, step.output, out.value))]
                       /\ UNCHANGED reply
  /\ UNCHANGED <<stage, token, modules, accepting, client, request, queue>>

(* The handler panics: the thread is lost, and tiny_http answers for the   *)
(* request that was dropped.                                               *)
Panic(w) ==
  /\ AtBody(w)
  /\ LET r == worker[w].request
     IN  /\ client[r] = "sent"
         /\ request[r].fate = "panic"
         /\ reply' = [reply EXCEPT ![r] = DroppedRequest]
  /\ worker' = [worker EXCEPT ![w] = [pc |-> "died"]]
  /\ UNCHANGED <<stage, token, modules, accepting, client, request, queue>>

Ended(w) == worker[w].pc \in {"gone", "died"}

(* The scope of run() ends when every thread of the pool has, and passes a *)
(* panic on.                                                               *)
Return ==
  /\ stage = "serving"
  /\ \A w \in Workers : Ended(w)
  /\ stage' = IF \E w \in Workers : worker[w].pc = "died" THEN "panicked" ELSE "returned"
  /\ UNCHANGED <<token, modules, accepting, client, request, queue, worker, reply>>

-----------------------------------------------------------------------------
Init ==
  /\ stage = "starting"
  /\ token = NoToken
  /\ modules = <<>>
  /\ accepting = TRUE
  /\ client = [r \in Requests |-> "idle"]
  /\ request = [r \in Requests |-> <<>>]
  /\ queue = <<>>
  /\ worker = [w \in Workers |-> Idle]
  /\ reply = [r \in Requests |-> NoReply]

Work(w) ==
  \/ Take(w) \/ Exit(w) \/ ReadFails(w) \/ CallFunction(w)
  \/ BeginPipeline(w) \/ ExecuteStep(w) \/ Panic(w)

Next ==
  \/ Start \/ StopAccepting \/ Return
  \/ \E r \in Requests : Send(r) \/ FinishBody(r) \/ AbortBody(r)
  \/ \E w \in Workers : Work(w)

(* Threads are scheduled; a client that is not slow ends its body one way  *)
(* or the other. Nothing makes clients send or the accept thread stop.     *)
Fairness ==
  /\ WF_vars(Start) /\ WF_vars(Return)
  /\ \A w \in Workers : WF_vars(Work(w))
  /\ \A r \in Requests : WF_vars(FinishBody(r) \/ AbortBody(r))

Spec == Init /\ [][Next]_vars /\ Fairness

-----------------------------------------------------------------------------
(* What makes phs serve correct: where requests and wake-ups are at any    *)
(* time, what a pipeline is answered, and what happens in the end.         *)

(* Every variable has its type.                                            *)
TypeOK ==
  /\ stage \in {"starting", "refused", "serving", "returned", "panicked"}
  /\ token \in Tokens \cup {NoToken}
  /\ accepting \in BOOLEAN
  /\ client \in [Requests -> {"idle", "sending", "sent", "aborted"}]
  /\ queue \in Seq(Requests \cup {Failure, Wake})
  /\ DOMAIN worker = Workers /\ DOMAIN reply = Requests /\ DOMAIN request = Requests
  /\ \A w \in Workers :
       /\ worker[w].pc \in {"recv", "body", "steps", "gone", "died"}
       /\ worker[w].pc \in {"body", "steps"} => worker[w].request \in Requests

Places(r)   == {i \in DOMAIN queue : queue[i] = r}
Handlers(r) == {w \in Workers : worker[w].pc \in {"body", "steps"} /\ worker[w].request = r}

(* The workers share the queue and none of them owns a request: whatever   *)
(* they do and however they end, a request that was sent waits in the      *)
(* queue once, or is in the hands of one worker, or has its answer, and    *)
(* never two of these (recv, handle_request and serve_requests).           *)
NoRequestIsLost ==
  \A r \in Requests :
    Cardinality(Places(r)) + Cardinality(Handlers(r))
      + (IF reply[r] # NoReply THEN 1 ELSE 0)
    = IF client[r] = "idle" THEN 0 ELSE 1

(* A pipeline that was read and did not panic is answered as               *)
(* PhsPipeline::execute would answer it, although the server executes it   *)
(* itself, step by step and next to other requests: the results under      *)
(* their aliases, or a refusal and no partial results.                     *)
PipelinesAreExecuted ==
  \A r \in Requests :
    LET q == request[r]
    IN  (/\ reply[r] # NoReply /\ client[r] = "sent"
         /\ HasBody(q) /\ q.route = "pipeline" /\ CheckAuth(q) /\ q.fate # "panic") =>
          LET run == Execute(modules, q.body.steps)
          IN  IF WellFormed(q.body) /\ run.ok
              THEN reply[r] = Answer(run.value)
              ELSE reply[r].status = 400 /\ "result" \notin DOMAIN reply[r]

Endless(r) == client[r] = "sending" /\ request[r].fate = "endless"

(* Every request sent before the accept thread stops, and whose client     *)
(* ends its body, is answered, as long as slow clients and panics leave    *)
(* one worker of the pool ("legitimate traffic keeps flowing").            *)
EveryoneIsAnswered ==
  \A r \in Requests :
    (accepting /\ client[r] # "idle" /\ ~Endless(r)) ~> (reply[r] # NoReply)

StuckOnBody(w) == worker[w].pc = "body" /\ Endless(worker[w].request)

(* Once the accept thread has stopped, one failing recv() is enough for    *)
(* the whole pool to end, except for workers that a slow client holds.     *)
PoolEnds == ~accepting ~> (\A w \in Workers : Ended(w) \/ StuckOnBody(w))
=============================================================================
