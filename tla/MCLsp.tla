------------------------------- MODULE MCLsp --------------------------------
(***************************************************************************)
(* Instances of LspBackend for TLC: statement pools, the texts made from   *)
(* them, and one universe of texts for each question.                      *)
(***************************************************************************)
EXTENDS LspBackend

Assign(n, e) == [kind |-> "assign", name |-> n, expr |-> e]
FnDef(n, e)  == [kind |-> "fn", name |-> n, expr |-> e]
While(n, k)  == [kind |-> "while", name |-> n, expr |-> <<"lit", k>>]
Import(n)    == [kind |-> "import", name |-> n, expr |-> <<"lit", 0>>]
Use(n)       == [kind |-> "use", name |-> n, expr |-> <<"lit", 0>>]
Show(e)      == [kind |-> "expr", name |-> "x", expr |-> e]
Panics       == [kind |-> "panic", name |-> "x", expr |-> <<"lit", 0>>]

Lit(k)  == <<"lit", k>>
Ref(n)  == <<"ref", n>>
Plus(n) == <<"plus", n>>
Call(f) == <<"call", f>>

TextsOf(pool, length) == UNION {[1 .. n -> pool] : n \in 0 .. length}

(* x, y, z and f; m is what the module on disk exports.                    *)
MCNames == {"x", "y", "z", "f", "m"}
MCExports == [n \in {"m"} |-> Lit(7)]
ReadingExports == [n \in {"m"} |-> Ref("x")]

(* Tidy documents, for two of them at once and for liveness: a chain of    *)
(* readers whose head or end is edited, a definition that goes or moves,   *)
(* an import, a failure, a panic, no syntax.                               *)
TidyTexts ==
  {<<Assign("x", Lit(1)), Assign("y", Plus("x")), Assign("z", Plus("y"))>>,
   <<Assign("x", Lit(2)), Assign("y", Plus("x")), Assign("z", Plus("y"))>>,
   <<Assign("x", Lit(2)), Import("m")>>, <<Show(Call("f")), Import("m")>>,
   <<FnDef("f", Ref("y")), Assign("z", Call("f"))>>, <<Assign("x", Lit(1)), Panics>>, Unparsable}

(* Any documents: rebinding, self-reads, loops, unlocked domains, imports  *)
(* that read the document, forward references and calls that recurse.      *)
AnyPool ==
  {Assign("x", Lit(1)), Assign("x", Plus("x")), Assign("y", Ref("x")), Import("m"), Import("z"),
   While("x", 3), Use("f"), FnDef("f", Plus("x")), FnDef("f", Call("f")), Show(Call("f")), Panics}
AnyTexts == TextsOf(AnyPool, 2) \cup {Unparsable}

=============================================================================
