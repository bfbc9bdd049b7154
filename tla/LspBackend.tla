----------------------------- MODULE LspBackend -----------------------------
(***************************************************************************)
(* The language server of physure-lsp: the documents the client has open,  *)
(* the DocState kept per document from one edit to the next, and what was  *)
(* last published for each document.                                       *)
(*                                                                         *)
(* A handler runs from its notification to its publish_diagnostics without *)
(* waiting for anything, so handlers do not interleave: the client's       *)
(* notifications are accepted only while analysing = None. Inside a handler the  *)
(* loop of apply_change takes one step per dirty statement, because a      *)
(* statement can panic half-way and the state must be right then too.      *)
(*                                                                         *)
(* Each statement of a text stands on a line of its own; a diagnostic      *)
(* names its line and the statement that failed. What the dimension        *)
(* checker adds is a function of the text alone and is left out.           *)
(***************************************************************************)
EXTENDS IncrementalEval

CONSTANTS
  URIs,        \* documents the client may open
  Texts,       \* the contents it may give them: statement sequences, Unparsable
  Unparsable,  \* a buffer that parse_phs_with_lines rejects
  None         \* no document

ASSUME LspAssumption ==
  /\ Texts \subseteq Seq(Statement) \cup {Unparsable}
  /\ Unparsable \notin Seq(Statement)
  /\ None \notin URIs
  /\ NoDiagnostic \notin {"failed"} \X Statement
  /\ NoDiagnostic \notin [line : Nat, message : {"failed"} \X Statement]

VARIABLES
  documents,  \* Backend.documents: uri -> text, for the open documents
  docStates,  \* Backend.doc_states: uri -> DocState
  published,  \* client side: uri -> the diagnostics last published for it
  analysing,  \* the document whose on_change is running
  work        \* the DocState that apply_change is working on, and what is left to run

vars == <<documents, docStates, published, analysing, work>>

-----------------------------------------------------------------------------
(* Diagnostics.                                                            *)

ExecutionError(i, s) == [line |-> i, message |-> <<"failed", s>>]
SyntaxError          == [line |-> 0, message |-> <<"syntax">>]
InternalError        == [line |-> 0, message |-> <<"internal">>]

(* Option<Diagnostic> per statement to the list that is published.         *)
Flatten(slots) ==
  FoldLeft(LAMBDA kept, d : IF d = NoDiagnostic THEN kept ELSE Append(kept, d), <<>>, slots)

-----------------------------------------------------------------------------
(* DocState::empty(), and what prev.unwrap_or_else(DocState::empty) gives. *)
EmptyState ==
  [statements |-> <<>>, env |-> NewInterpreter.env,
   unlocked |-> NewInterpreter.unlocked, diagnostics |-> <<>>]

Previous(uri) == IF uri \in DOMAIN docStates THEN docStates[uri] ELSE EmptyState

(* No handler is running.                                                  *)
NoWork ==
  [statements |-> <<>>, todo |-> {}, env |-> <<>>, unlocked |-> {}, diagnostics |-> <<>>]

(* apply_change, early return: a text that does not parse keeps the last   *)
(* state that did, so that the next edit is diffed against that one.       *)
ReportSyntaxError(uri, text) ==
  /\ text = Unparsable
  /\ docStates' = Bind(docStates, uri, Previous(uri))
  /\ published' = [published EXCEPT ![uri] = <<SyntaxError>>]
  /\ UNCHANGED <<analysing, work>>

(* on_change takes the state out of the map before anything can panic;     *)
(* apply_change diffs, carries diagnostics over and drops touched names.   *)
BeginAnalysis(uri, text) ==
  LET prev  == Previous(uri)
      old   == prev.statements
      dirty == Dirty(old, text)
  IN /\ text # Unparsable
     /\ docStates' = Unbind(docStates, {uri})
     /\ analysing' = uri
     /\ work' = [statements  |-> text,
                 todo        |-> dirty,
                 env         |-> Unbind(prev.env, TouchedNames(old, text)),
                 unlocked    |-> prev.unlocked,
                 diagnostics |-> CarriedDiagnostics(old, text, dirty, prev.diagnostics)]
     /\ UNCHANGED published

OnChange(uri, text) == ReportSyntaxError(uri, text) \/ BeginAnalysis(uri, text)

(* The statement the run loop comes to next.                               *)
IsNext(i) == i \in work.todo /\ \A k \in work.todo : i <= k

(* A variant with a bug: the loop leaves at the first error.               *)
RunUntilFirstError ==
  /\ analysing # None
  /\ \E i \in work.todo :
       LET s == work.statements[i]
           out == RunStatement(s, work)
       IN /\ IsNext(i)
          /\ s.kind # "panic"
          /\ work' = [work EXCEPT
                        !.todo = IF out.ok THEN @ \ {i} ELSE {},
                        !.env = out.env,
                        !.unlocked = out.unlocked,
                        !.diagnostics[i] = IF out.ok THEN NoDiagnostic ELSE ExecutionError(i, s)]
  /\ UNCHANGED <<documents, docStates, published, analysing>>

(* One turn of the run loop, in statement order.                           *)
RunDirtyStatement ==
  /\ analysing # None
  /\ \E i \in work.todo :
       LET s == work.statements[i]
           out == RunStatement(s, work)
       IN /\ IsNext(i)
          /\ s.kind # "panic"
          /\ work' = [work EXCEPT
                        !.todo = @ \ {i},
                        !.env = out.env,
                        !.unlocked = out.unlocked,
                        !.diagnostics[i] = IF out.ok THEN NoDiagnostic ELSE ExecutionError(i, s)]
  /\ UNCHANGED <<documents, docStates, published, analysing>>

(* A variant with a bug: the unwind is caught and nothing is said.         *)
PanicUnreported ==
  /\ analysing # None
  /\ \E i \in work.todo : IsNext(i) /\ work.statements[i].kind = "panic"
  /\ analysing' = None
  /\ work' = NoWork
  /\ UNCHANGED <<documents, docStates, published>>

(* catch_unwind: the closure's state is dropped with the unwind, nothing   *)
(* is put back into doc_states, one diagnostic says so.                    *)
Panic ==
  /\ analysing # None
  /\ \E i \in work.todo : IsNext(i) /\ work.statements[i].kind = "panic"
  /\ published' = [published EXCEPT ![analysing] = <<InternalError>>]
  /\ analysing' = None
  /\ work' = NoWork
  /\ UNCHANGED <<documents, docStates>>

Finish ==
  /\ analysing # None
  /\ work.todo = {}
  /\ docStates' = Bind(docStates, analysing,
                       [statements |-> work.statements, env |-> work.env,
                        unlocked |-> work.unlocked, diagnostics |-> work.diagnostics])
  /\ published' = [published EXCEPT ![analysing] = Flatten(work.diagnostics)]
  /\ analysing' = None
  /\ work' = NoWork
  /\ UNCHANGED documents

-----------------------------------------------------------------------------
(* The client's notifications.                                             *)

DidOpen(uri, text) ==
  /\ analysing = None
  /\ uri \notin DOMAIN documents
  /\ documents' = Bind(documents, uri, text)
  /\ OnChange(uri, text)

DidChange(uri, text) ==
  /\ analysing = None
  /\ uri \in DOMAIN documents
  /\ documents' = Bind(documents, uri, text)
  /\ OnChange(uri, text)

DidSave(uri) ==
  /\ analysing = None
  /\ uri \in DOMAIN documents
  /\ OnChange(uri, documents[uri])
  /\ UNCHANGED documents

(* A variant with a bug: the cached state outlives the document.           *)
DidCloseKeepingState(uri) ==
  /\ analysing = None
  /\ uri \in DOMAIN documents
  /\ documents' = Unbind(documents, {uri})
  /\ published' = [published EXCEPT ![uri] = <<>>]
  /\ UNCHANGED <<docStates, analysing, work>>

DidClose(uri) ==
  /\ analysing = None
  /\ uri \in DOMAIN documents
  /\ documents' = Unbind(documents, {uri})
  /\ docStates' = Unbind(docStates, {uri})
  /\ published' = [published EXCEPT ![uri] = <<>>]
  /\ UNCHANGED <<analysing, work>>

-----------------------------------------------------------------------------
Init ==
  /\ documents = <<>>
  /\ docStates = <<>>
  /\ published = [u \in URIs |-> <<>>]
  /\ analysing = None
  /\ work = NoWork

Notification ==
  \E uri \in URIs :
    \/ \E text \in Texts : DidOpen(uri, text) \/ DidChange(uri, text)
    \/ DidSave(uri)
    \/ DidClose(uri)

Handler == RunDirtyStatement \/ Panic \/ Finish

Next == Notification \/ Handler

Spec == Init /\ [][Next]_vars

(* A handler that has started runs to its end: run_statement is bounded by *)
(* the loop and call-depth limits. The client need not do anything more.   *)
FairSpec == Spec /\ WF_vars(Handler)

-----------------------------------------------------------------------------
(***************************************************************************)
(* What is asked of the server. The yardstick is a full run: every         *)
(* statement of the document's text, in order, on a new interpreter.       *)
(***************************************************************************)

(* The type of every variable, of the cached state and of a running job.   *)

Values ==
  ({"num"} \X Nat) \cup ({"text"} \X Names) \cup ({"fn"} \X Expr)
    \cup ({"builtin"} \X Names)

Messages == ({"failed"} \X Statement) \cup {<<"syntax">>, <<"internal">>}
Diagnostics == [line : Nat, message : Messages]

IsInterpreter(x) ==
  /\ DOMAIN x.env \subseteq Names
  /\ \A n \in DOMAIN x.env : x.env[n] \in Values
  /\ x.unlocked \subseteq Names
  /\ x.statements \in Seq(Statement)
  /\ x.diagnostics \in Seq(Diagnostics \cup {NoDiagnostic})

TypeOK ==
  /\ DOMAIN documents \subseteq URIs
  /\ \A u \in DOMAIN documents : documents[u] \in Texts
  /\ DOMAIN docStates \subseteq URIs
  /\ \A u \in DOMAIN docStates : IsInterpreter(docStates[u])
  /\ \A u \in URIs : published[u] \in Seq(Diagnostics)
  /\ analysing \in URIs \cup {None}
  /\ IsInterpreter(work)
  /\ work.todo \subseteq DOMAIN work.statements

-----------------------------------------------------------------------------
(* Properties of every document.                                           *)

(* What holds an interpreter and the statement list it has run.            *)
Live == {docStates[u] : u \in DOMAIN docStates} \cup {work}

(* There is one diagnostic slot per statement, in the state that is kept   *)
(* and in the one being worked on: carried_diagnostics indexes the old     *)
(* list with positions of the new one and relies on it.                    *)
DiagnosticsAligned ==
  \A x \in Live : DOMAIN x.diagnostics = DOMAIN x.statements

(* Nothing is bound that no statement of the document writes: a deleted or *)
(* renamed definition does not live on in the persisted environment.       *)
NoOrphanBinding ==
  \A x \in Live : DOMAIN x.env \subseteq AllWrites(x.statements)

(* A diagnostic kept for a statement was reported by that very statement,  *)
(* wherever edits have moved it since: carried_diagnostics maps the new    *)
(* index to the old one.                                                   *)
DiagnosticsBelong ==
  \A x \in Live : \A i \in DOMAIN x.diagnostics :
    x.diagnostics[i] # NoDiagnostic =>
      x.diagnostics[i].message = <<"failed", x.statements[i]>>

(* Analysing again the text a cached state was made from, on a save or     *)
(* after any number of unparsable texts, runs no statement and leaves the  *)
(* environment and the diagnostics alone.                                  *)
KeepsSameText ==
  \A u \in DOMAIN docStates :
    /\ analysing = None
    /\ analysing' = u
    /\ work'.statements = docStates[u].statements
    => /\ work'.todo = {}
       /\ work'.env = docStates[u].env
       /\ work'.diagnostics = docStates[u].diagnostics

SameTextRerunsNothing == [][KeepsSameText]_vars

(* Between two notifications, a document that parses and did not panic has *)
(* a cached state, made from its present text, and what is published is    *)
(* what that state says; a closed document has nothing.                    *)
StateFollowsDocument ==
  analysing = None =>
    /\ DOMAIN docStates \subseteq DOMAIN documents
    /\ \A u \in URIs \ DOMAIN documents : published[u] = <<>>
    /\ \A u \in DOMAIN documents :
         documents[u] # Unparsable /\ published[u] # <<InternalError>> =>
           /\ u \in DOMAIN docStates
           /\ docStates[u].statements = documents[u]
           /\ published[u] = Flatten(docStates[u].diagnostics)

-----------------------------------------------------------------------------
(* Agreement with the full run.                                            *)

(* The environment kept for a document is the one a full run of its text   *)
(* ends with.                                                              *)
EnvAsFullRun ==
  \A u \in DOMAIN docStates : docStates[u].env = FullRun(docStates[u].statements).env

(* What is published for a text, were it analysed on its own.              *)
Failures(text) ==
  LET oks == FullRun(text).oks
  IN Flatten([i \in DOMAIN text |-> IF oks[i] THEN NoDiagnostic ELSE <<"failed", text[i]>>])

Report(text) ==
  IF text = Unparsable THEN <<<<"syntax">>>>
  ELSE IF \E i \in DOMAIN text : text[i].kind = "panic" THEN <<<<"internal">>>>
  ELSE Failures(text)

PublishedMessages == [u \in URIs |-> [i \in DOMAIN published[u] |-> published[u][i].message]]

(* The errors shown for a document are those of a full run of its text, in *)
(* the order of its statements.                                            *)
ReportsAsFullRun ==
  analysing = None =>
    \A u \in DOMAIN documents : PublishedMessages[u] = Report(documents[u])

(* The cache is invisible: the environment kept for a document and the     *)
(* errors shown for it are those of a single run of its present text,      *)
(* whatever edits came before (apply_change against evaluate).             *)
AgreesWithFullRun == EnvAsFullRun /\ ReportsAsFullRun

(* The server as a document service: what it answers depends on the text   *)
(* alone and every notification is answered, whatever was cached before,   *)
(* whichever analyses panicked and whichever texts did not parse.          *)
Service == INSTANCE DocumentService WITH
  reports <- PublishedMessages,
  pending <- analysing

ImplementsDocumentService == Service!Spec

-----------------------------------------------------------------------------
(* The documents for which the cache is exact: each name has one writer,   *)
(* which stands above every reader and succeeds, and nothing is unlocked   *)
(* or imported under an expression that reads the document.                *)
Tidy(text) ==
  /\ \A i, j \in DOMAIN text : i # j => Writes(text[i]) \cap Writes(text[j]) = {}
  /\ \A i, j \in DOMAIN text : Reads(text[i]) \cap Writes(text[j]) # {} => j < i
  /\ \A i \in DOMAIN text :
       /\ text[i].kind # "use"
       /\ Writes(text[i]) # {} => FullRun(text).oks[i]
       /\ text[i].kind = "import" => ModuleExports[text[i].name][1] = "lit"

(* Which statements have to run again, by reachability: those of the       *)
(* changed span, those that read a touched name, and the readers of what   *)
(* such a statement writes.                                                *)
Dependents(old, new) ==
  LET roots == Changed(new, old, new)
                 \cup {i \in DOMAIN new : Reads(new[i]) \cap TouchedNames(old, new) # {}}
      upTo[k \in 0 .. Len(new)] ==
        IF k = 0 THEN roots
        ELSE upTo[k - 1] \cup {i \in DOMAIN new : \E j \in upTo[k - 1] :
                                 Reads(new[i]) \cap Writes(new[j]) # {}}
  IN upTo[Len(new)]

(* An edit of a tidy document runs exactly the statements that depend on   *)
(* it: the single forward sweep misses none and runs none in vain.         *)
RerunsExactlyDependents ==
  [][\A u \in DOMAIN docStates :
       analysing = None /\ analysing' = u =>
         work'.todo = Dependents(docStates[u].statements, work'.statements)]_vars

=============================================================================
