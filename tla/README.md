# A verification project for Physure

Physure computes with quantities that carry units and uncertainties. It has a Rust core
(`physure-core`), a small language with an interpreter, compiler and symbolic layer on top
(`physure-script`, the language is called PHS), a command line with an HTTP server, a debugger
and an MCP server (`physure-cli`), a language server (`physure-lsp`) and bindings for Python,
Java and WebAssembly.

This directory holds TLA+ models of the parts of it that keep state or rewrite expressions and can
get it wrong, the TLC configurations that check them, and proofs for TLAPS.

    cd tla
    tlc -workers 2 -config LspTidy.cfg MCLsp      # one run; PROJECT.json lists them all
    tlapm LspBackend_proofs.tla                   # the proofs of one module

## Inventory

| Part | State it keeps | Operations | What is hard | Correct when |
| --- | --- | --- | --- | --- |
| Language server (`physure-lsp/src/main.rs`) | open documents, one `DocState` per document, what the client was last told | did_open, did_change, did_save, did_close | a panic in the middle of an analysis, texts that do not parse, sequences of edits | what it says depends on the present text alone; every notification is answered |
| Incremental evaluation (`physure-lsp/src/incremental.rs`) | statements, interpreter and diagnostics of the last text that parsed | diff, dirty analysis, invalidation, rerun, carrying diagnostics over | stale values, stale diagnostics, positions that move | environment and errors are those of running every statement |
| Interpreter (`physure-script/src/interpreter`) | environment, unlocked builtins, installed plugin functions, call stack, breakpoints, step mode | one per statement kind, function calls | dynamic scoping, partial failure, clones that share state | a failing statement changes nothing; names resolve in the caller's scope |
| Debugger (`physure-script/src/debug.rs`, `interpreter/statements.rs:101-193`, `physure-cli/src/debug.rs`) | breakpoints, pending step, call stack | checkpoint, step in, over, out, continue | conditions that call functions re-enter the checkpoint | a step stops where it promises; the stack matches the active calls |
| Native plugins (`physure-script/src/plugin.rs`) | loaded libraries, installed functions | use, reload, call | a library replaced while functions from it are installed or running | an installed function belongs to a library that is still loaded |
| MCP server, watchdogs and limits (`mcp.rs`, `eval.rs`, `report.rs`, `limits.rs`) | the lines read, the process of a program, deadlines, the report | read a line, run a program, time out, kill, reply | late answers, panics and aborts, half-finished runs | one reply per request, in order; a report says when it is not complete |
| HTTP server (`physure-cli/src/server.rs`) | modules, request queue, worker pool | requests, shutdown | waking every blocked worker, slow clients, panics | no request lost or answered twice; the pool ends when the server does |
| Pipelines (`pipeline.rs`, `server.rs:200-253`) | results by alias | add step, execute | two copies of the loop; references to steps that have not run | both copies give one answer |
| Units (`physure-core/src/units`) | registry of names, prefixes, aliases, facts | parse, print, expand, simplify, convert, extend from a text | several ways to take the same text; exact scales at the limit of their width | every way gives one unit; conversions keep what a number stands for |
| Quantities (`quantity.rs`) | a number in a unit | arithmetic, functions, display | points, intervals and levels each have their own path | the result does not depend on the units the operands are written in |
| Uncertain values, lineage (`uncertainty/`, `lineage.rs`) | terms by source id, the id counter, the mode | measure, name, combine, transform, save and load | whether operands share a source, in every pair of models; ids across processes | spreads are true; a term names one measurement |
| Covariance store (`covariance/`) | blocks by pair of variables, access ledger | register, propagate, prune, save, load | transposed blocks, a variable registered again, pruning by age | blocks agree with the current values |
| Symbolic layer (`physure-script/src/symbolic`, `compiler.rs`) | expression trees | simplify, factor, differentiate, integrate, solve, transform, print, compile | rewriting rules that hold only almost everywhere | an answer is true of the expression asked about |
| Self-upgrade (`physure-cli/src/upgrade.rs`) | the installed files, a scratch directory | look up releases, download, unpack, replace | crashes and failures between two renames, two upgrades at once | a whole binary is left; "up to date" is true |
| Evaluation of PHS (`interpreter`, `builtins/core.rs`) | environment, functions, exports | expressions, calls, contracts, loops, conversions | units, temperatures and ranges each have rules of their own | it agrees with the check of dimensions |
| Check of dimensions (`check.rs`) | what it knows of names, functions, calls | one per expression and statement | it states the interpreter's rules a second time | an error means that the run stops there; a type is that of the value |
| Modules and packages (`parser/shadowing.rs`, `decorators.rs`, `resolver.rs`, `module.rs`, `physure-cli/src/package.rs`) | bindings, exports, signatures, a bundle | parse, import, invoke, compose, validate, pack, load | the same source is taken apart in four ways | it means one thing to who runs, imports, packs and calls it |
| Scoped settings (`settings.rs`, `mode.rs`, `units/scope.rs`) | thread-local overrides over process-wide values | scoped, drop, read | nesting, worker threads | the innermost scope of the calling code is in force |
| Grammar, code generators, bindings, Python layer | syntax trees, text | translation | text | outside what is modelled here |

How they interact: the language server owns one interpreter per document and runs statements on
it; the interpreter asks the module resolver for `.phs` modules and the plugin state for native
functions; clones of an interpreter share plugin state, unlocked builtins and debugger state
through `Arc<Mutex>`; a parallel `for` runs its body on rayon threads, which share the
interpreter and not the caller's thread-local settings; the HTTP server runs functions of modules
it loaded once; the MCP server runs `phs eval` and `phs check` as processes under limits and
watchdogs; every numeric operation ends in the core's quantity, lineage and covariance code, which
looks units up in the registry.

`PROJECT.json` lists every component with its status, and under `hazards` each place where the
code can go wrong in a way a test would hardly reach.

## Modules

| Module | Models |
| --- | --- |
| `IncrementalEval` | what one top-level statement does to an interpreter, and on top of it the diff, the dirty analysis, the invalidated names, the carried diagnostics: pure operators |
| `LspBackend` | the server: one action per notification and one per step of a running analysis; its properties, and the refinement mapping to `DocumentService` |
| `DocumentService` | the abstract specification: a report is a function of the text, each notification is answered |
| `PluginReload` | native plugins: use, reload and call by threads that share an interpreter's maps, files that change; what is asked of them |
| `Debugger` | checkpoints, breakpoints and steps over a stack of calls |
| `Pipeline` | modules and what hosts do with them: invoke, compose, execute a pipeline; pure operators |
| `ModelServer` | `phs serve`: queue, workers, routes, pipelines step by step, clients, shutdown |
| `McpServer` | `phs mcp` and the process it runs for a program, with a clock |
| `SelfUpgrade` | `phs upgrade`, file by file, with several upgrades, failures and crashes |
| `Rationals` | exact fractions |
| `UnitAlgebra`, `UnitRegistry`, `UnitText`, `Quantity` | exact scales and units, the registry, unit texts and their parser, catalog texts, quantities |
| `PhsEvaluator` | the values of programs: expressions, calls with units and contracts, statements |
| `DimensionCheck` | the static check of dimensions of a program |
| `PhsModules` | what the parser refuses, decorators, imports and exports, modules a host calls, packages |
| `SourceIds` | the abstract specification of the ids of measurements |
| `Uncertainty` | uncertain values in every model and mode, beside what they truly depend on |
| `CovarianceStore` | the covariance store, beside the true covariances |
| `Symbolic`, `Calculus`, `SymbolicText`, `SymbolicSolvers` | expressions and what is done with them |
| `UnitProperties`, `UnitTextProperties`, `ScriptCorrectness` | the properties of units and quantities, of texts, programs and modules, and of symbolic operations |
| `MC...` | constants and bounds for TLC |
| `Numeric_proofs` | the theorems about fractions, uncertain values, exact scales and conversions |
| `..._proofs` | the theorems about the module they are named after |

### Statements (`IncrementalEval`)

Dependency tracking can tell statements apart by the names they bind, the names they look up and
whether they fail, so that is what a statement consists of: `[kind, name, expr]`. The expressions
are a literal, a bare name, an operator applied to a name, and a call. A free name is not an error
in PHS, it evaluates to its own text (`eval_identifier`), so a bare reference never fails while
`n + 1` fails on anything that is not a number. The names of the model are not unit symbols. A function
body is evaluated in its caller's environment and may recurse up to `MaxCallDepth` (1000 in the
code, 3 in the runs). `RunStatement` is `run_statement`: it works on a clone of the
environment and commits only on success. `use name from calc` unlocks a builtin and binds nothing;
an import from a `.phs` module evaluates the exported expression in the importer's environment,
and `ModuleExports` stands for the module on disk.
`Writes` and `Reads` are the static analysis of `analyze_one`, including what it does not see: an
import reads nothing, a `while` reads and writes its variable.

### Diff and dirty analysis (`IncrementalEval`)

`PrefixLen` and `SuffixLen` are `diff_bounds`; `TouchedNames` is the union over both sides of the
changed span. `compute_dirty` is one loop in file order with a map from names to their last
writer: `Sweep` folds its body, `Visited`, over the new text, `RunsAgain` is the condition under which the body
marks a statement, and `Dirty` adds the last writer of each touched name. That one pass is enough to find everything that has to run again is a theorem (`SweepIsLeast`). `normalize_lines` is the identity here because statements of the model
carry no lines.

### The language server (`LspBackend`)

`documents` and `docStates` are the two maps of `Backend`, as functions on the open documents.
`published` is what the client was last sent. The handlers are `async` but wait for nothing before
`publish_diagnostics`, and tower-lsp polls them from one task, so one runs to its end before the
next begins; `analysing` names the document of the running one and `work` is the `DocState` inside `apply_change`.
`BeginAnalysis` is everything up to the run loop. `RunDirtyStatement` is one turn of the
loop. It is a step of its own because the next turn can panic: `Panic` drops the state, which was
taken out of the map beforehand, and publishes one diagnostic. `Finish` puts the state back and
publishes. `ReportSyntaxError` is the early return for a text that does not parse.

Each statement of a model text stands on a line of its own. Diagnostics carry their line and the
statement they speak of, which stands for the message text.

### Plugins (`PluginReload`)

A library is its plugin's stem and the modification time it was recorded under; `bytes` is the
write that was actually copied. `loaded` is `PluginState.loaded`, which keeps libraries open, and
`installed` is `dynamic_externals`, whose closures are raw pointers into them. Opening a library is two steps,
reading the file's time and copying it (`load_plugin_file`), since the file can change in between.
`use` (`resolve_use`, `ensure_stem_loaded`, `install_dynamic_externals`) is
`BeginUse`, `LoadForUse` or `UseFails`, `Install`; `reload_native_ext` is `BeginReload`, then `ReloadStat`,
`ReloadLoad` and `ReloadFails` per stem in the arbitrary order of the hash map, and `EndReload`; `call_by_name` is
`Call` and `Return`. Clones of an interpreter are threads here. They share both maps; the lock of
`PluginState` is held by the thread that is inside a use or a reload, that of
`dynamic_externals` through a reload and within single steps otherwise. The bindings clone an
interpreter (`physure-python/src/lib.rs:1362`) and run it without the Python lock; none of them
reloads in one clone while another evaluates, but the library lets its users do so.

Every write to a file gets a time of its own: a file system with coarse times can hide a
rebuild, and the repository's tests set the time by hand. A copy that catches a half-written file is
a `Broken` build. The twenty retries of copying and opening are one attempt.

### The debugger (`Debugger`)

With a hook attached everything runs on one thread (`for` and `parallel_map` fall back to plain
loops), so the model is a stack machine. `stack` is the native stack: calls (`call_function_node_at`),
`{expression}` spans of strings, which run as statements on line 0 (`evaluate_span`), and checkpoints
(`debug_checkpoint`), which are on it because a condition may call functions and so reach further
checkpoints. `call_stack` and `step_mode` are the interpreter's; a checkpoint keeps the snapshot
(`depth`, `fn`, `pending`) that the code takes before it evaluates conditions. `Call` is the part
of a call before its frame, with the depth limit, the binding of parameters and `@requires`;
`PushFrame` creates the `CallStackGuard`, and `Leave` drops it. An error is `Raise`, then `Unwind` up to the program or
to a span, which keeps it to itself. A program's statements, what they call, and whether a condition
holds are arbitrary, and so is what fails. `asked` is no state of the code: it records the last request and from which
call it was made. The values `print` evaluates in the hook come from another interpreter and are left out.

### The HTTP server and pipelines (`ModelServer`, `Pipeline`)

A module is what `from_source` leaves: the functions its introspection lists with their parameters, the names bound
again by later statements, and those whose bodies fail. A result is the term of the calls it came from, so two
results are equal exactly when the same calls computed them from the same literals. `Pipeline` has `invoke`,
`compose_with`, `ComposedFunction::call` and `PhsPipeline::execute` as operators on such modules.

`ModelServer` is `run_serve`: `Start` loads the modules, a client's `Send` puts a request into the queue of tiny_http,
`Work(w)` is what the worker does next (receive, route, authenticate, read a body, run one step of a pipeline, reply, or
end), `FinishBody` and `AbortBody` are the client's. `StopAccepting` makes the accept thread leave its `Failure` token,
and each worker that ends leaves the `Wake` that `server.unblock()` leaves. A request has a `fate`: it may be slow, never end its body, or
make its handler panic, which ends that worker.

### The MCP server and its programs (`McpServer`)

`Serve` is the loop of `phs mcp`, one line after another; `Process` is the child, `phs eval` or `phs check`, with the
evaluation, its report, the watchdog thread, panics and aborts; `Tick` is the clock, in which
everything that is timed is counted from where the code starts counting, up to the point after which nothing depends on it. `prompt` says that the
machine keeps up: no tick passes while the child has something to do. What is true only then says so.

### Self-upgrade (`SelfUpgrade`)

Files are missing, cut short, or the binary built from a tip of `main`. An upgrade is a program counter through looking up releases or
`compare`, downloading, unpacking, building, and `replace_binary` for each binary: stage as `.new`, make way, rename aside to `.old`,
rename into place, or undo. Any file operation may fail and the process may die before any step (`MaxFaults` bounds how often). `main` moves and releases are published meanwhile.
`history` is no state of the code: it notes whether two upgrades overlapped, whether one was started from a name other than the installed one, and whether a leftover was met.

### Units and quantities (`Rationals` to `Quantity`)

A text is a sequence of characters, since printing and parsing are what these properties are about. Doubles are the fractions they round, the scale of a fractional power is
`Unknown` unless it is one, and the hash that identifies dimensions is taken not to collide. `UnitText` follows the parser token by token and reads a catalog section by
section, every error path included; `Quantity` takes each operation through its plain, point and level branches.

### Programs, their check and their modules (`PhsEvaluator`, `DimensionCheck`, `PhsModules`)

`IncrementalEval` knows which names a statement binds; `PhsEvaluator` knows the values. An expression is a record, a value is a quantity of `Quantity`, a number, a truth, a text, a range, a vector or a function, and every error is `Refused`.
Calls bind parameters with their units, run `@requires`, the body and `@ensures`, convert what is returned, and see the names of their caller. `DimensionCheck` passes the checker along in one record `c`: what it knows of names, the functions,
the memo of calls, the findings. Both are translated from their own file, and share the catalog `Words` only.

A source of `PhsModules` is whether its grammar holds and its statements. What runs a statement and a call is a parameter of that module (`Run`, `Call`), as the run the check is compared with is one of `UnitTextProperties` (`Interpret`); the configurations set them to `RunStatement`, `CallFunction` and `RunProgram` of `PhsEvaluator`. `Walk` is the check for words that are bound above a literal, `CheckDecorator` and `Decorate` take a list of decorators, `Resolve` and `ResolveUse` are the resolver and the import,
`FromSource`, `Invoke`, `ComposeWith` and `CallComposed` are what a host does with a module, and `Validate`, `Pack` and `LoadBundle` are `phs pack`, which reads its files twice: they may differ. The iteration order of a hash map is the sample's `order`.

### Uncertain values (`Uncertainty`, `SourceIds`)

A value is its model (Gaussian, moments, unscented, Monte Carlo or a custom model that boxes one of these), its mean and its terms by source. Samples are terms too: one per draw, with negative ids.
`Propagate` is the dispatch over pairs of models with the lifting of exact operands; the arithmetic is exact and of first order.
Beside each value the model keeps what it truly depends on (`truth`), whether its spread must be the true one (`right`) and whether the models promise to keep its provenance (`linked`).
`Restart` is a new process that loads values another one saved. `SourceIds` says what one counter promises: an id that is given out is held by no value.

### The covariance store (`CovarianceStore`)

Variables are arrays of two elements, and a block is a two-by-two matrix, so that a block and its transpose differ. `Register`, `Propagate`, the two prunings, `Save` and `Load` are the operations. `truth` follows
the definition of covariance; `doubtful` are the variables whose numbers the code is known to lose (below).

### Expressions (`Symbolic` to `SymbolicSolvers`)

A number is an exact fraction where the code has a float, and a power that is no fraction stays a power. The rules of `simplify`, `factor`, `diff`, `integrate`, `solve` and the rest are followed in the order the code tries them. `ScriptCorrectness`
gives expressions a meaning that shares nothing with that code: the value, slope and half the curvature at a point.

## Properties

| Property | Says | Theorem |
| --- | --- | --- |
| `AgreesWithFullRun` | for tidy documents: the cached environment and the errors shown are those of a full run | `CacheIsInvisible` |
| `RerunsExactlyDependents` | for tidy documents: an edit runs what depends on it, computed by reachability, and no more | `RerunsAreExact` |
| `ImplementsDocumentService` | the server refines `DocumentService`, with its fairness | `ServesDocuments`, without the fairness |
| `NoOrphanBinding` | nothing is bound that no statement of the text writes | `NoOrphans` |
| `DiagnosticsBelong` | a kept diagnostic was reported by the statement at its place, wherever edits moved it | `DiagnosticsStayWithStatements` |
| `StateFollowsDocument` | between notifications the cached state was made from the present text, and what is published follows from it | `StateIsOfDocument` |
| `MtimeTellsBytes` | a library recorded under its file's present time is that file | `TimesTellFilesApart` |
| `InstalledAreOpen` | while no use is half-way, installed functions point into open libraries | `InstalledPointIntoOpenLibraries` |
| `PollingCatchesUp` | repeated reloads catch up with the files once these stop changing | |
| `FramesAreActiveCalls` | `call_stack` is the calls that are past their `@requires`, in order | `CallStackIsWhatRuns` |
| `SnapshotIsCurrent` | the depth and name a checkpoint took are right when it decides and pauses | `SnapshotsStayCurrent` |
| `StepsStopInTime` | steps over and out end at the first checkpoint outside the call they were asked from, or once it ended, and nowhere before | `StepsStopWhereAsked` |
| `NoRequestIsLost` | a request that was sent waits once, or is in one worker's hands, or has its one answer | `NothingIsLost` |
| `PipelinesAreExecuted` | a pipeline is answered as `PhsPipeline::execute` would | `PipelinesRunAsTheLibraryRunsThem` |
| `EveryoneIsAnswered`, `PoolEnds` | requests are answered, and one failing `recv` ends the pool, as far as slow clients allow | |
| `AnsweredInOrder` | replies are those owed for the lines read so far, in order | `RepliesComeInOrder` |
| `WatchdogComesFirst` | on a machine that keeps up the inner watchdog reports before the outer kill | `KillsComeAfterTheWatchdog` |
| `ReportTellsTheRun` | a report is `ok` only for a complete run, has the first values in order, and says where a limit cut it | `ReportsTellHowItWent` |
| `EveryLineIsHandled` | every line is handled, however programs end | |
| `TextsMeanTheirUnits` | what is printed is read back; reading at once, expanding, simplifying and the alias give one unit | |
| `ConversionsAgree` | conversions keep what a number stands for, directly and over a third unit; scales are exact | `ConversionsHold` |
| `OperationsAgree` | results do not depend on the units of the operands; sums and products are undone | |
| `ExtensionsAreWhole` | a catalog text is refused if and only if one of its lines cannot be read; otherwise the names of a line, prefixed too, have the dimension, factor, zero point and level it gives, and what came to mean something else is reported | |
| `CheckIsTrue` | an error of the check of dimensions stops the run at its statement, and a type it infers is that of the value | |
| `ErrorsAreCertain` | the first half for any program, as `check.rs:10` says it; false (below) | |
| `ModulesAreTrue` | a source has one reading; an import binds what its module has; a bundle lists what its sources give; a composed call is the nested call; a decorated function gives what its contracts let pass | |
| `SpreadIsTrue` | a spread is that of what the value depends on | `SpreadsAreTrue` |
| `TermsNameSources` | terms stand for one measurement each, those the value is made of | `TermsNameTheirSources` |
| `ImplementsSourceIds` | the arithmetic does with ids only what `SourceIds` allows | `ArithmeticKeepsIds` |
| `BlocksAreTrue` | between variables whose numbers the store does not lose (none is `doubtful`) a block is their covariance, and no block means that it is zero | `WhatIsKeptIsTrue` |
| `ForgottenIsGone` | nothing is left of a forgotten variable, and the ledger holds nothing too old | `Forgets` |
| `RewritingKeepsMeaning`, `CalculusIsTrue`, `SolutionsSolve`, `OperatorsAreTrue`, `TextsAndCodeAgree` | what the symbolic operations answer is true of the expression asked about, at points on both sides of zero where no root is split (below) | |
| `ABinaryIsKept` | a whole `phs` is at its name or at `.old`, and an upgrade that ended left what it reports | `ABinaryIsAlwaysThere` |
| `EndedUpgradesLeaveABinary` | the same when two upgrades to one build ran at once and none failed | `TwoUpgradesLeaveABinary` |
| `UpToDateIsTrue` | `phs` says it is up to date only when it is | `UpToDateOnlyWhenCurrent` |

Some hold only under a condition, which is part of the property or of the run. Documents for which the cache is exact are called `Tidy`:
each name has one writer, which stands above every reader and succeeds; nothing is unlocked; an
import does not read the document. `InstalledAreOpen` needs plugins and scripts of a certain kind: every build
exports the same functions (`KeepsExports`), and scripts use all of them under their own names (`UsesEverything`); two plugins may export the same name. `StepsStopInTime` speaks of calls on the native stack, where the code compares depths, and
of checkpoints whose pending step no pause inside their own conditions replaced. `ExtensionsAreWhole` asks for the meaning of lines whose names nothing stands before (`StandsAlone`) and whose zero point is not lost (`LosesZeroPoint`). The first two of `ScriptCorrectness` leave out the points at which the expression splits a root (`SplitsARoot`, `HasSplitRoot`). `ABinaryIsKept` speaks of upgrades that run one after another and are started from the installed `phs`.
`CheckIsTrue` asks nothing of a program in which a variable ends as 0, 1 or -1 of some unit (`HasNoSigns`), and the programs of `Units` define no function anew and bind no name where a body that reads it is called; `ModulesAreTrue` speaks of words, imports and contracts
whose names are not bound a second time, each condition being part of its conjunct.
Why each condition is needed is under "Known divergences".

## Runs

| Configuration | Question | Universe | Distinct states |
| --- | --- | --- | --- |
| `LspTidy` | is the cache exact for tidy documents, and the server a document service that answers, whatever is edited, panics or fails to parse? | two documents, 7 tidy texts: a chain of readers edited at its head, an import, a function, a panic, no syntax | 2,457 |
| `LspAny` | what holds of every document? | all texts of up to 2 statements out of a pool of 11 | 19,045 |
| `Plugin` | do functions stay in open libraries, does the time tell the file, do reloads catch up? | two plugins with constant exports, one name in common, used by wildcard, two threads, 3 writes | 25,988 |
| `DebuggerSteps` | is the call stack right, do steps end where they should? | one function, calls three deep, one span at a time, conditions that call, one or two of the three kinds | 336,479 |
| `Server` | is every request answered once, and does the pool end? | two workers, two requests of any kind, pipelines of up to 3 steps that fail or use an alias twice | 62,324 |
| `Mcp` | is every line answered in order, and do the nets hold? | two lines, then any program; timeout 2, grace 1, kill grace 2, output cap 3 | 8,469 |
| `Units` | do units, texts, catalogs, quantities, programs and modules mean the same in every way? | one sample per state | 40,123 |
| `Checker` | is an error of the check of dimensions certain? It is not | programs that violate it | |
| `Uncertain` | are spreads true, do terms name their measurements, are ids new? | up to four values in all models and both modes, one restart, one id the caller names, ids up to 12 | 724,331 |
| `Covariance` | do blocks agree with the true covariances? | three variables, one or two inputs, five operations, one doubtful variable | 213,269 |
| `Script` | is what the symbolic operations answer true? | one sample per state, points 2, 0, 3/5 and -2 | 2,560 |
| `Upgrade` | is a binary kept? | two upgraders, two starts, one fault, one move of `main` | 4,383,303 |

Three statements are enough for a chain writer, reader, reader of the reader. That the cache is exact for
every tidy document, of any length, and for any number of documents is proved (`CacheIsInvisible`, `RerunsAreExact`, `ServesDocuments`), so the texts of `LspTidy` are few: one for each thing
that can happen to a statement (it is edited, inserted, deleted, moved to another line, fails, panics, imports), and two documents, so that one can be answered while the other changes. Every text can follow every other, so sequences of edits of any length are
covered. In `LspAny` the state also holds the values left by earlier texts, which is why its texts are shorter.
`MaxCallDepth` is 3, so that the recursive `f` of the pool reaches the limit.
Nothing else of the server is bounded.

For plugins, three writes give one of two plugins a first build, a broken
one and a good one after it, or both plugins a build and one a rebuild; two threads are enough for one to
call, use or reload while the other is in the middle. For the debugger a program, a caller, a callee and a call of that are what
step out and over can confuse, and a condition on a line of the function makes checkpoints nest to the limit; `MaxSpans` is the number
of spans under evaluation.

Two workers are the least number for which waking one another matters; the two requests may be of any kind and come at any time, so one can be slow, panic or run a
pipeline while the other is answered. The MCP limits are the smallest with `WATCHDOG_GRACE < KILL_GRACE`, and an output cap of 3 is between the shortest and the longest program.
Four values are enough to share a source between two operands and then combine the result with a third value; `MaxNumber` keeps the
numbers of operands small, since a variance is a square of a product. Five operations on three variables give registrations, a result, a result of the result, and a pruning or
a save in between. `MaxFaults`, `MaxStarts` and `MaxMoves` let one upgrade die or fail between another's steps and a third version appear.

In `Units`, `Checker` and `Script` a state is one question and the properties are about its answer: their samples are all short unit texts, dims, conversions and operand pairs over a
small catalog, catalog texts of one to three lines, programs of two or three statements over its words, sources, imports, packages, compositions and decorated functions, and all short expressions under every operation. `Covariance`, `Mcp`, `Script`, `Server`, `Uncertain` and `Upgrade` are not checked for deadlock, since
there the bounds, the end of the lines, the answer or the end of the pool stop everything.

`Checker` is expected to fail: `ErrorsAreCertain` is what the comment of `check.rs:10` promises.

## Fairness

The language server's `FairSpec` adds weak fairness of `Handler`: a handler that has started goes on. It is a plain
loop over the statements, each bounded by the loop and call-depth limits, and on a panic
`catch_unwind` returns. The client is not assumed to do anything. `LspTidy` uses
this. A statement that overruns the thread's stack would abort the process; the language server's
interpreter has a call-depth limit and no stack limit, and this is not represented.

For plugins `FairSpec` adds weak fairness of `Continue(t)` for each thread: a thread inside a use or a
reload waits for nothing but the file system, and a plugin's function is assumed to return, which the code
relies on too. Beginning an operation, which may wait for a lock, is not assumed; `PollingCatchesUp` assumes in its
premise that reloads keep being started.

`ModelServer` assumes that threads are scheduled (`Start`, `Return`, `Work(w)` for each worker) and that a client that is not `endless` ends its body, whole or cut
off. Nothing makes clients send or the accept thread stop. `McpServer` assumes that the server's thread is scheduled (`Serve`), that time passes while it polls (`Tick`, strongly,
since polling is enabled again and again but not all the time), and of the program's process nothing, unless the machine is `prompt`.

## Proofs

The theorems hold for all values of the constants, under the named assumptions that the modules state and TLC evaluates: `InterpreterAssumption`,
`LspAssumption` (texts are sequences of statements or `Unparsable`, which is no sequence, and `None` is no document), `PluginAssumption`, `DebuggerAssumption`, `ServerAssumption`
(the queue's tokens are no requests), `CeilingAssumption`, `StepsAssumption`, `TimeAssumption` (`Grace < KillGrace`, as in the code), `LinesAssumption`, `RunFromAssumption`
(upgrades are started from the installed name or from `.old`), `IdsAssumption`, `MomentsAssumption`
(moments are reduced fractions, no variance is negative, what does not vary has no third moment, and only the moments model has one: `ShapeKind` computes both from two deviations),
`NumbersAssumption`, `ConfigsAssumption`, `ExactAssumption` and `SamplesAssumption`
(scales are positive; a level has a factor, a positive reference and no scale or zero point of its own; among units of one dimension there are levels or zero points, not both). Where a theorem has a hypothesis, it is named below.

### The language server (`LspBackend_proofs`)

* `CachesAreSound`: the inductive invariant `CacheInv`. It says of every cached state, and of the
  one being worked on, that it has a slot per statement, that its environment is bound to written
  names only, that each diagnostic kept is about its own statement, that the work's
  pending statements are statements of it, and that documents are texts. `DiagnosticsAligned`, `NoOrphanBinding` and
  `DiagnosticsBelong` follow from it. None of the three is inductive alone: carrying diagnostics over needs alignment to find the old
  slot, and the steps of the run loop need the pending set to stay within the statements.
* `StateIsOfDocument`: its strengthening `FollowInv` speaks of the time
  between the notification and the end of the handler too: the text at work is the text of the document being analysed.
* `NothingRunsInVain`: analysing the same text again runs nothing and changes nothing, from `SameTextIsClean`.
* `SweepIsLeast`, for any two texts: the dirty set that the loop of `compute_dirty` has at its end is closed under the four reasons to run again, judged by the true last writers in the text
  (`IsLastWriter`) and not by the map the loop keeps, and is contained in every closed set. The loop is a recursive function, followed by the invariant `HasSeen`: after `i` turns the map has the last writers among the first
  `i` statements, a statement is marked if and only if it has a reason, and a reason of statement `i` rests on statements above it only (`SweepHasSeen`). A smallest marked statement outside some closed set would therefore have a reason inside it.
* `CacheIsInvisible`, `RerunsAreExact` and `ServesDocuments`, with the hypothesis `TidyTexts`: every text of `Texts` but `Unparsable` is `Tidy`. The argument:
  1. What the model defines by recursion over the length of a text (the full run, the list of what is shown, the value of an expression,
     the dependents) satisfies its recursion (`FullRunIsARun`, `FlattenIsARun`, `EvalIsRecursive`, `DependentsSpread`). Such a function exists because otherwise there were
     a least length without one; the library's induction theorems are not needed.
  2. A statement does the same in two environments that agree on what it reads (`EvalAgrees`, `StatementAgrees`), so that a statement of a tidy
     text does in any environment that has its readings what it does in the full run (`RunsAsInFullRun`).
  3. What the sweep marks are the dependents (`DirtyAreDependents`), for which `SweepIsLeast` says that the loop stops nowhere short of them and goes nowhere beyond.
     A statement that is not marked stood in the old text and reads nothing that changed, so what was kept for it is what a full run of
     the new text gives (`CleanStatementsCarry`).
  4. `ServesInv` is inductive: in every cached state, and in the work outside its pending statements, values and diagnostics are as in the full run, and every
     document that is not being analysed has its answer. The property alone says nothing of the middle of an analysis, when stale values are removed and not yet made again.

### Plugins (`PluginReload_proofs`)

* `TimesTellFilesApart`: `TimesInv` orders the times: recorded ≤ copied ≤ the file's, and
  a time read for a pending copy is at most the file's.
* `InstalledPointIntoOpenLibraries`, from `KeepsExports` and `UsesEverything`: `PluginInv` says
  that `PluginState` has one owner, that loaded libraries are builds of their plugins, and that an
  installed function is an export of its plugin and open unless a use of that plugin is between
  loading and installing. The property alone is not inductive, since it says nothing of that moment. Two plugins may share names: whichever of them is reloaded takes the name over.
* `AloneRunsInOpenLibraries`: with a single thread a running function is in an open library, from the same invariant.

### The debugger (`Debugger_proofs`)

* `TypeCorrect`, `CallStackIsWhatRuns`, `SnapshotsStayCurrent`, for every program, list of breakpoints
  and depth. The inductive invariant is `Sound`, a statement
  about the first `n` records and `d` frames, so that a step which pushes or pops several records is a
  chain of lemmas (`Grow`, `DropFrame`, `Rephase`, ...). It adds to `FramesAreActiveCalls` that a checkpoint stands on
  a statement, to which it returns, and that the frames a checkpoint counted belong to records below it and all others to
  records above. Without the nesting nothing says that a frame has gone when a checkpoint decides.
* `StepsStopWhereAsked`: what decides where a step ends is a comparison of depths, while the property speaks of calls. `StepInv` relates the two: the call the step was asked from stands on the stack
  just above the depth the step still stops at; or it has ended, and no call that has begun since is too deep, but for one that is yet to run a statement; or the step goes on from a later call that is not too deep.

### The servers (`ModelServer_proofs`, `McpServer_proofs`)

* `RequestsHaveOnePlace`: `PlaceInv`, and from it `NothingIsLost`. It says that no request is twice in the queue, with two workers, or in two
  places, and what each state of a client implies about the place. The counts of the property are cardinalities of sets with at most one element, which is what is proved of them.
* `PipelinesRunAsTheLibraryRunsThem`: `RunInv`. `Execute` is a function on the number of steps, as is the worker's loop; the invariant says that a worker in the middle of a pipeline
  has the results that `Execute` has after as many steps, and a failed step failed in both.
* `RepliesComeInOrder`, `KillsComeAfterTheWatchdog`, `ReportsTellHowItWent`: `ServerInv` (what the position in the input says of the process), `OutboxInv`, `TimeInv` (while the machine keeps up
  the process is no older than its own watchdog lets it, whose clock was started with it) and `ReportInv` (the results so far are those of the statements run, in order; without a finding these
  ran through; and an evaluation that is done is at the end of its program or has hit a limit where it stands).

### Self-upgrade (`SelfUpgrade_proofs`)

* `ABinaryIsAlwaysThere`: `KeptInv` gives for each point of the program what is at `phs`, `phs.old` and `phs.new`, as long as upgrades run one at a time from the installed
  `phs` (`history` says so) and no previous one was left where it was moved, by a rename back that failed or a directory that could not be made (`unrestored`). The property alone says nothing of `.new`, which the next step renames into place.
* `UpToDateOnlyWhenCurrent`: `KnownInv` says that releases are listed in the order of their versions, none newer than `main`, that every whole file is of such a tip, and that an upgrade
  that found nothing to do has ended. Without the order the first release of the core need not be the newest.
* `TwoUpgradesLeaveABinary`: `PairInv`, for two starts and no failure. A file that is cut short has a writer; `phs` is missing only while some upgrade is at its copy or its swap; and an upgrade
  writes to, or is to rename, a `phs.new` that is there, unless the other has put it in place, in which case the other is through (`LastOne`) and `phs` is whole or this one still writes it. It was
  checked with three processes before it was proved. That only two are active is used where one swaps: a third could be the one that writes. Three starts can break the property (below), and its premise leaves them out.

### Uncertain values and covariances (`Numeric_proofs`, `CovarianceStore_proofs`)

* `ArithmeticKeepsIds`: every step of `Uncertainty` is a step of `SourceIds` or leaves ids alone. `IdInv` says that values are a sequence of entries whose terms are by draws (negative)
  or by ids below the counter. Each way to combine two values takes at most three ids and has terms by its operands' ids or those (`PropagationMakes`,
  one lemma per model). Without the bound on the room the counter might wrap: this is the one place where the theorem is about fewer than 2^32 measurements.
* `FreshIdsAreNew`: `SourceIds` alone keeps the ids held below the counter, hence so does the arithmetic.
* `SpreadsAreTrue` and `TermsNameTheirSources`, from one invariant, `TruthInv`, which was checked on the bounds of `Uncertain` before it was proved. The argument:
  1. Reduced fractions are what they mean (`FracReduces`, from Euclid's algorithm: `GcdIsEuclidean`; `FractionsAreUnique`), so that `Plus` and `Times` associate, commute and distribute
     although each reduces its result. A variance is then a sum of fractions that does not depend on the order (`SumsExist`, as below), and zero only when it has no terms (`TotalIsPositive`).
  2. Merging the terms of two operands, and merging their truths, give what spreads alike: by what is only in one, only in the other, and in both (`MergedSpreads`, `TrueMerged`). If the terms are
     those of the truth, so are the merged ones (`MergedNames`); if the operands share nothing, the variances add up (`Joins`).
  3. For each pair of models, what the dispatch makes of the operands is one of these (`DispatchTells`, `DispatchGives`).
  4. `TruthInv` says of a right value that it spreads like its truth, and of a linked one that its terms are those of its truth. Neither is inductive. An operation on two values that are right and share no
     measurement must not find an id in both, so the invariant relates every two values: those that share an id share a measurement, ids of linked ones name one measurement each, and whoever is right and has the id of a
     measurement that a linked value depends on depends on it too (`Tied`). That a new id or draw is nobody's is `IdInv` again, and a caller's id is given to one measurement (`NamedOnce`).
     A Gaussian value moreover has no skew, without which its promotion to moments would make one.
* `WhatIsKeptIsTrue`: the covariance of two results is a sum over pairs of inputs, which the code and the definition take in different orders. That a sum over a finite set exists and does
  not depend on the order (`SumsExist`, `SumByChoice`, `SumBySplitting`, `SumByTerms`) is proved from a smallest set for which it fails. The invariant `TellInv` adds to the property
  that all blocks are matrices, without which a transposed block need not transpose back, and that only known variables are doubtful.
* `Forgets`: its invariant says that `truth` is about all pairs of known ids, that every block is between two of them and that no entry of the ledger is of the future or older than the configuration allows.

### Scales and conversions (`Numeric_proofs`)

* `ConversionsHold` is about one sample after another, for every catalog, every width and every exponent. Its two halves:
  1. `ExactScales`. Cancelling crosswise leaves a product in lowest terms (`MulSmallIsTimes`), so that the quick path of a small product and the slow one of a big product give the same
     fraction, and whether that is held as one, small or big depends on its size alone (`HeldFields`). A power of a reduced fraction is reduced (`CoprimePowers`; the recursion of the power
     has a solution, `PowersOfRuns`), and a decimal is read the quick way only if its reduced fraction fits (`ReducedIsSmaller`).
  2. `ConversionsAreKept`. Dividing is multiplying by a reciprocal (`OverByReciprocal`), so that the affine plan, which divides the scale and the shift apart, gives what subtracting the target's
     zero point and dividing gives (`PlainPlans`). A level comes back from its ratio because powers of ten grow (`TenToGrows`), and a plan that leaves the number alone is right when both units have one logarithm
     (`LevelPlans`). The way round needs that the number in between stands for the same (`NumberOfMeaning`).
  That units have these kinds is `SamplesAssumption`; without it a level with a zero point would lose one of them.

### What stays with TLC

* Unit texts, catalog texts, programs, modules and the symbolic layer (`TextsMeanTheirUnits`, `ExtensionsAreWhole`, `CheckIsTrue`, `ModulesAreTrue` and the properties of `ScriptCorrectness`): parsing, evaluating, printing and rewriting are recursive over data, as `RECURSIVE` operators, for which the proof system has no backend.
* `OperationsAgree`: its numbers leave the fractions (logarithms, roots), and it speaks of every branch of every operation.
* Liveness: `PollingCatchesUp`, `EveryoneIsAnswered`, `PoolEnds`, `EveryLineIsHandled`, and the fairness of `ImplementsDocumentService`.

## Known divergences

What the code does otherwise than its comments or documents say, or than a reader would expect. The models follow the code; the properties
exempt exactly these cases.

Language server. Documents that are not tidy can show something else than a full run:

* adding `x = x + 1` below `x = 1` removes `x` before it runs, and an error is reported that a full run does not have;
* a deleted `use` leaves what it unlocked callable;
* a carried diagnostic keeps the line of the earlier text;
* after `x = 1` is deleted, the rerun of `y = x + 1` fails and the old `y` stays, so its reader reports nothing;
* with `fn f() = y; x = 1; y = x; z = f()`, an edit of `x` does not mark `f`, whose writer of `y` is below it, nor `z`;
* a statement between two writes of `x` that reruns alone reads the later one;
* an import is not rerun when a name changes that the imported expression reads, or when the module's file changes.

Plugins:

* a function used under an alias is not replaced by a reload or by a later use of a rebuilt file, which close its library; so does
  a second `use` of other symbols of a rebuilt plugin;
* one clone of an interpreter may reload, and close, the library whose function runs in another: that a running function's library is open is false of the code, and true for a single thread;
* a reload gives every call name that the reloaded plugin exports that plugin's function (`plugin.rs:308`), whichever plugin the name is of: if scripts use `b` of `q` as `a`, a reload of `p` binds `a` to its own `a`,
  although the comment says that "functions a plugin exports but that were never `use`d are not injected" (`plugin.rs:288`).

Debugger: a pause inside a breakpoint's condition that is answered Continue restores the outer snapshot, and the program pauses once more (`statements.rs:127`).

MCP server and HTTP server: when an evaluation panics, the report of `phs eval` says that the watchdog stopped it (`eval.rs:80-101`). A parallel `for` under a custom catalog reads the embedded one (`expressions.rs:447`).

Self-upgrade:

* "Never leaves `installed` missing" (`upgrade.rs:181`) fails for a process that dies between the two renames; `phs.old` is whole then;
* "If anything fails before the final rename, the original is renamed back" (`upgrade.rs:186-188`) fails for `create_dir_all` (`upgrade.rs:193-195`), whose error is returned when the original is aside: `ParentFails`;
* an upgrade started from `phs.old` removes it in `make_way_for`;
* upgrades at the same time share `.new` and `.old`: one that fails, or three at once, can leave `phs` missing or made of another's file;
* a scratch directory left by an earlier process with the same id is used again, and a half-extracted file in it may be installed;
* an `lsp` that is only at `.old` is skipped.

Units:

* `unit_text` (`rational.rs:72`) promises text that reads back, which fails for symbols with digits; an exponent in parentheses such as `m^(0.5)` loses its denominator in `take_integer`;
* "a later definition wins" (`conf.rs:535`) fails for aliases and base names; a zero point written as a whole number makes its unit a base unit of a dimension named like the number (`x = 1.0, 273, O`: `declare_base_unit` takes the second field for the dimension, and `is_single_ident`, `conf.rs:291`, accepts digits), where the comment of `parse_unit_line` (`conf.rs:353`) says that the line is an affine unit, and the zero point of a ratio (a line whose dimension is `1`) is dropped; aliases can be cyclic over three names.
* the square root of a negative Celsius point is refused, its power 0.5 is not.

Check of dimensions. It reports errors in programs that run (`Checker`), and types others wrongly:

* `-1 * 20 degC` is an error of the check and mirrors the temperature in the run (`check.rs:527`, `quantity.rs:698`); a zero of no unit is not compared with a length by the check (`check.rs:725`), and is by the run;
* a function that is defined anew is still typed by the memo of the old one, and a function defined in a body replaces one of the program's; what a function returned for an earlier caller is taken for later ones;
* a function named like a builtin of the core is typed as the user's, while a call in a source takes the builtin (`invoke` takes the user's);
* a parameter with a unit that is given something other than a quantity is bound as it is; parts that are never evaluated, such as the body of an empty loop, have their errors reported too.

Modules and packages:

* the check for words bound above a literal does not walk contracts and does not know the names of imports or of earlier calls of `eval_str`; a name bound after a function or a loop whose body spells it as a unit leaves it the unit;
* an imported symbol is evaluated in the importer's environment, and a wildcard import binds in the order of a hash map, which shows when symbols read one another;
* of a name that is both assigned and a function, an import by name takes the symbol, a wildcard the function, and `from_source` the later one; imports in `from_source` are resolved in the working directory;
* `@ensures` sees a parameter as the body left it;
* `pack` reads every file again after it has checked them, the entry without parsing it, and does not write the bundle in one step.

Uncertain values and covariances:

* `reserve_id` (`lineage.rs`) promises ids above the one reserved, which fails for `u32::MAX`; a value loaded after the process has minted its id shares that id with another measurement;
* scaling keeps a shape that the comment of `scale_value` says it drops; sigma points of a decreasing function keep the sign of the terms, so a value and its inverse seem positively correlated;
* in the covariance store a repeated input counts with its first Jacobian only, registering a variable again keeps its old covariances, computing into an id in use leaves stale blocks, pruning by age forgets variables that were only used
  as inputs, and loading clears the store before it reads the file. These variables are `doubtful`, and so are those of a block that was pruned as weak.

Symbolic layer: a product raises the factors of a base one by one and adds their exponents (`ast.rs:385-387`), so that `a*(x^2)^(1/2)` becomes `a*x`, which has the wrong sign for a negative `x`, and `a*(-3*x)^(1/2)` asks for the root of -3; printing drops parentheses that some nested powers and quotients need; `integrate` drops a symbolic factor next to a pair it recognises, multiplies by the slope of a linear base
once more in the arctangent form, and integrates `1^x` to 1; `x/0` simplifies to `x`; `y/x = 0` is solved by `x = y`; a power solved for its base gives one branch; the transform of a product of two powers of `t` does not end, and the inverse of `(s+1)/s` is refused;
substituting a name replaces it inside the names of functions.

## Not modelled, and the plan

Left out of the language server: completion and hover, which change nothing; the dimension checker's
diagnostics in a document, a function of its text (the check itself is `DimensionCheck`); wildcard imports, whose writes the static analysis does not
see (the comment at `incremental.rs:111-126` accepts that); statements that write several names;
local names of functions; a module file that changes on disk. Of the uncertainty code, nonlinear sigma points, samples beyond first order and dual numbers. Of PHS itself, its grammar, equations and derivatives as values, templates of text, domains and named arguments. Scoped settings,
the code generators, the bindings and the Python layer are not modelled; `PROJECT.json` says why for each.

Where the models are coarser than the code, in ways no run reaches:

* The covariance store drops entries of a block up to `1e-12` on the way in and out (`store.rs:39-63`, `store.rs:189`); its model has whole numbers.
* An exponent with a zero denominator, `m^(1/0)`, makes the parser panic (`parser.rs:343`); in the model it does not read. Nothing prints one.
* A unit passes for a plain number if its scale is 1 up to `1e-9` (`rational.rs:305`); in the model if it is 1.
* Irrational exponents under a unit word (`binary_ops.rs:223`) and floats that happen to round to a whole number, such as `exp(40)` (`ast.rs:236`), are not folded by the models, which compute with fractions.

Next:

1. The arithmetic of quantities, with the same laws of fractions, for `OperationsAgree`.
2. `ScopedSettings`: guards, nesting, unwinding and worker threads.
