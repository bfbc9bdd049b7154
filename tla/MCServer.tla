------------------------------ MODULE MCServer ------------------------------
(* A server for TLC with two modules: geom's area has one parameter, hydr's *)
(* thrust has two, is fed by area in a pipeline, and hydr has a function    *)
(* whose body fails and one whose name was bound again.                     *)
EXTENDS ModelServer

CONSTANTS r1, r2, one, two

Geom == [functions |-> [area |-> <<"d">>], rebound |-> {}, failing |-> {}]
Hydr == [functions |-> [thrust |-> <<"P", "A">>, broken |-> <<>>, gone |-> <<>>],
         rebound |-> {"gone"}, failing |-> {"broken"}]

Phs(source)   == [phs |-> TRUE, readable |-> TRUE, source |-> source]
Both          == [geom |-> Phs(Ok(Geom)), hydr |-> Phs(Ok(Hydr))]
Readme        == [phs |-> FALSE, readable |-> TRUE, source |-> Err("parse")]
File(n, v, f) == [kind |-> "file", name |-> n, valid |-> v, files |-> f]
Directory(f)  == [kind |-> "directory", files |-> f]

MCTargets ==
  {Directory(Both @@ [readme |-> Readme]), Directory([readme |-> Readme]),
   File("phs.toml", FALSE, Both), File("notes.txt", TRUE, Both),
   File("phs.toml", TRUE, [geom |-> Phs(Ok(Geom)), hydr |-> Phs(Err("parse"))]),
   File("module.phs", TRUE, [geom |-> [Phs(Ok(Geom)) EXCEPT !.readable = FALSE]]),
   [kind |-> "missing"]}

Area(v, as)      == [module |-> "geom", fn |-> "area", inputs |-> [d |-> v], output |-> as]
Thrust(p, a, as) == [module |-> "hydr", fn |-> "thrust", inputs |-> [P |-> p, A |-> a], output |-> as]
Broken           == [module |-> "hydr", fn |-> "broken", inputs |-> <<>>, output |-> "x"]

Post(route, body) ==
  [method |-> "POST", route |-> route, auth |-> TRUE, fate |-> "plain", body |-> body]
Pipe(steps) == Post("pipeline", [kind |-> "steps", steps |-> steps])
Call(m, f, body) == [module |-> m, fn |-> f] @@ Post("function", body)
Get(route, auth) == [method |-> "GET", route |-> route, auth |-> auth]

Pipelines ==
  {Pipe(<<Area(Literal(one), "x"), Area(Literal(two), "x"),
          Thrust(Literal(one), Reference("x"), "x")>>),
   Pipe(<<Area(Literal(one), "x"), Thrust(Literal(one), Reference("y"), "y")>>),
   Pipe(<<Area(Literal(one), "x"), Broken>>),
   Pipe(<<Area(Literal(one), "x"), Area(Literal(Unsupported), "y")>>),
   Post("pipeline", [kind |-> "other"])}
Calls ==
  {Call("hydr", "thrust", [kind |-> "args", values |-> <<one, two>>]),
   Call("hydr", "thrust", [kind |-> "named", values |-> [A |-> two, P |-> one]]),
   Call("hydr", "thrust", [kind |-> "named", values |-> [A |-> two]]),
   Call("hydr", "gone", [kind |-> "args", values |-> <<>>]),
   Call("geom", "volume", [kind |-> "other"])}
Simple ==
  {Get("health", TRUE), Get("catalog", FALSE), [Get("other", TRUE) EXCEPT !.method = "OPTIONS"],
   Get("other", TRUE)}

Fatal ==
  {[Pipe(<<>>) EXCEPT !.fate = "endless"],
   [Call("geom", "area", [kind |-> "other"]) EXCEPT !.fate = "panic"]}

MCRequestOf ==
  [r \in {r1, r2} |-> IF r = r1 THEN Pipelines \cup Fatal ELSE Calls \cup Simple]

MCTokens == {NoToken, BlankToken, "secret"}
=============================================================================
