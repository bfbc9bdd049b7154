-------------------------------- MODULE MCMcp --------------------------------
(* Two lines for TLC: any message, then any program to evaluate or check.   *)
EXTENDS McpServer

Program(parses, flagged, statements) ==
  [parses |-> parses, flagged |-> flagged, statements |-> statements]
S(kind, size) == [kind |-> kind, size |-> size]

Ends == {"value", "silent", "runtime", "forbidden", "deep", "loops", "hangs", "panics", "aborts"}
Programs ==
  {Program(TRUE, {}, <<S("value", 1), S(k, 1), S("value", 1)>>) : k \in Ends}
    \cup {Program(TRUE, {}, <<S("value", 2), S("value", 2)>>),
          Program(TRUE, {1}, <<S("runtime", 0), S("value", 1)>>),
          Program(FALSE, {}, <<>>)}

Message(form, id) == [form |-> form, id |-> id]
Request(id, method, tool, succeeds) ==
  [method |-> method, tool |-> tool, succeeds |-> succeeds] @@ Message("request", id)
Run(id, tool, p) == [program |-> p] @@ Request(id, "tools/call", tool, TRUE)

First ==
  {Message(form, 1) : form \in {"garbage", "scalar", "answer", "methodless"}}
    \cup {Request(1, "unknown", "none", FALSE), Request(1, "ping", "none", TRUE),
          Request(NoId, "unknown", "none", FALSE),
          Request(1, "resources/read", "none", FALSE),
          Request(1, "tools/call", "unknown", FALSE),
          Request(1, "tools/call", "convert", TRUE),
          Request(1, "tools/call", "evaluate", FALSE)}

MCLines ==
  {<<m, Run(2, "evaluate", p)>> : m \in First, p \in {Program(TRUE, {}, <<S("value", 1)>>)}}
    \cup {<<Run(1, t, p), Request(2, "ping", "none", TRUE)>> : t \in {"evaluate", "check"}, p \in Programs}
    \cup {<<Run(NoId, "evaluate", p), Request(2, "ping", "none", TRUE)>> : p \in Programs}
=============================================================================
