---------------------------- MODULE PluginReload ----------------------------
(***************************************************************************)
(* Native plugins of a PHS interpreter (physure-script/src/plugin.rs):     *)
(* libraries opened on demand by a use statement, opened again when their  *)
(* file has changed, and the functions of theirs that scripts can call.    *)
(*                                                                         *)
(* Clones of an interpreter share one PluginState and one dynamic_externals*)
(* map, each behind its mutex, and run on threads of their own. A use      *)
(* takes the two locks one after the other, a reload holds both, a call    *)
(* holds neither while the function runs. plugin_state is held by the one  *)
(* thread that is inside a use or a reload.                                *)
(*                                                                         *)
(* A file is what was last written to it. Every write gets a modification  *)
(* time of its own, the value of clock; a library is named by its stem and *)
(* the modification time it was recorded under.                            *)
(***************************************************************************)
EXTENDS Naturals, Sequences

CONSTANTS
  Stems,       \* plugin names: files under ext/
  Builds,      \* stem -> the sets of function names a build of it may export
  Broken,      \* a build that load_plugin_file rejects
  Specifiers,  \* what use statements ask for: Wildcard, or sequences of symbols
  Wildcard,    \* use * from stem
  Threads,     \* clones of the interpreter
  MaxWrites    \* bound on the number of writes to plugin files

ASSUME PluginAssumption ==
  /\ MaxWrites \in Nat
  /\ \A s \in Stems : Broken \notin Builds[s]

VARIABLES
  disk,       \* stem -> [mtime, exports], the files that exist
  clock,      \* the latest modification time given
  loaded,     \* PluginState.loaded: stem -> [mtime, bytes, exports]
  installed,  \* dynamic_externals: name -> function
  op          \* thread -> what it is doing

vars == <<disk, clock, loaded, installed, op>>

-----------------------------------------------------------------------------
Idle == [pc |-> "idle"]

Overlay(f, g) == [x \in DOMAIN f \cup DOMAIN g |-> IF x \in DOMAIN g THEN g[x] ELSE f[x]]

(* The closure that load_plugin_file makes of one exported function: a raw *)
(* pointer into the library.                                               *)
Function(stem, mtime, name) == [stem |-> stem, mtime |-> mtime, name |-> name]

(* LoadedPlugin keeps its library open; inserting another one under the    *)
(* same path closes it.                                                    *)
IsOpen(f) == f.stem \in DOMAIN loaded /\ loaded[f.stem].mtime = f.mtime

(* The locks: PluginState, and dynamic_externals for longer than a step.   *)
PluginStateFree == \A t \in Threads : op[t].pc \in {"idle", "calling"}
ExternalsFree   == \A t \in Threads : op[t].pc \notin {"reload", "reloading"}

(* A variant with a bug: the time is read after the file was copied.       *)
LibraryStampedLate(stem, mtime) ==
  [mtime |-> disk[stem].mtime, bytes |-> mtime, exports |-> disk[stem].exports]

(* load_plugin_file: the file as it is now, under the modification time    *)
(* that was read a moment ago. bytes says which write it is.               *)
Library(stem, mtime) ==
  [mtime |-> mtime, bytes |-> disk[stem].mtime, exports |-> disk[stem].exports]

CanLoad(stem) == stem \in DOMAIN disk /\ disk[stem].exports # Broken

IsUnchanged(stem) == stem \in DOMAIN loaded /\ loaded[stem].mtime = disk[stem].mtime

-----------------------------------------------------------------------------
(* use ... from stem.                                                      *)

(* Which call names install_dynamic_externals binds, to which exports. It  *)
(* goes through the symbols in order and gives up at one that is missing.  *)
Requested(specifier, exports) ==
  IF specifier = Wildcard
  THEN [n \in exports |-> n]
  ELSE LET found == {i \in DOMAIN specifier :
                       \A j \in 1 .. i : specifier[j].name \in exports}
       IN [n \in {specifier[i].target : i \in found} |->
             LET last == CHOOSE i \in found :
                           /\ specifier[i].target = n
                           /\ \A j \in found : specifier[j].target = n => j <= i
             IN specifier[last].name]

(* ensure_stem_loaded: a file that has not changed is not opened again.    *)
BeginUse(t, stem, specifier) ==
  /\ op[t] = Idle
  /\ PluginStateFree
  /\ stem \in DOMAIN disk
  /\ op' = [op EXCEPT ![t] =
              IF IsUnchanged(stem)
              THEN [pc |-> "install", stem |-> stem, mtime |-> loaded[stem].mtime,
                    exports |-> loaded[stem].exports, specifier |-> specifier]
              ELSE [pc |-> "load", stem |-> stem, mtime |-> disk[stem].mtime,
                    specifier |-> specifier]]
  /\ UNCHANGED <<disk, clock, loaded, installed>>

LoadForUse(t) ==
  LET stem == op[t].stem
  IN /\ op[t].pc = "load"
     /\ CanLoad(stem)
     /\ loaded' = Overlay(loaded, [s \in {stem} |-> Library(stem, op[t].mtime)])
     /\ op' = [op EXCEPT ![t] = [pc |-> "install", stem |-> stem, mtime |-> @.mtime,
                                 exports |-> disk[stem].exports, specifier |-> @.specifier]]
     /\ UNCHANGED <<disk, clock, installed>>

(* An error of load_plugin_file ends the use; what was loaded stays.       *)
UseFails(t) ==
  /\ op[t].pc = "load"
  /\ ~CanLoad(op[t].stem)
  /\ op' = [op EXCEPT ![t] = Idle]
  /\ UNCHANGED <<disk, clock, loaded, installed>>

Install(t) ==
  LET names == Requested(op[t].specifier, op[t].exports)
  IN /\ op[t].pc = "install"
     /\ installed' = Overlay(installed,
                       [n \in DOMAIN names |-> Function(op[t].stem, op[t].mtime, names[n])])
     /\ op' = [op EXCEPT ![t] = Idle]
     /\ UNCHANGED <<disk, clock, loaded>>

-----------------------------------------------------------------------------
(* reload_native_ext: the stems loaded so far, in the order of a hash map. *)

(* A variant with a bug: one file is looked at.                            *)
BeginReloadOfOne(t) ==
  /\ op[t] = Idle
  /\ PluginStateFree
  /\ op' = [op EXCEPT ![t] = [pc |-> "reload",
                              todo |-> {s \in DOMAIN loaded : \A r \in DOMAIN loaded : r = s}]]
  /\ UNCHANGED <<disk, clock, loaded, installed>>

BeginReload(t) ==
  /\ op[t] = Idle
  /\ PluginStateFree
  /\ op' = [op EXCEPT ![t] = [pc |-> "reload", todo |-> DOMAIN loaded]]
  /\ UNCHANGED <<disk, clock, loaded, installed>>

ReloadStat(t) ==
  /\ op[t].pc = "reload"
  /\ \E s \in op[t].todo :
       op' = [op EXCEPT ![t] =
                IF s \notin DOMAIN disk \/ IsUnchanged(s)
                THEN [pc |-> "reload", todo |-> @.todo \ {s}]
                ELSE [pc |-> "reloading", stem |-> s, mtime |-> disk[s].mtime,
                      todo |-> @.todo \ {s}]]
  /\ UNCHANGED <<disk, clock, loaded, installed>>

(* A variant with a bug: the new functions are not installed.              *)
NotRefreshed(stem, library) == installed

(* Every exported name that is a call name already gets the new function.  *)
Refreshed(stem, library) ==
  [n \in DOMAIN installed |->
     IF n \in library.exports THEN Function(stem, library.mtime, n) ELSE installed[n]]

ReloadLoad(t) ==
  LET stem == op[t].stem
      library == Library(stem, op[t].mtime)
  IN /\ op[t].pc = "reloading"
     /\ CanLoad(stem)
     /\ installed' = Refreshed(stem, library)
     /\ loaded' = Overlay(loaded, [s \in {stem} |-> library])
     /\ op' = [op EXCEPT ![t] = [pc |-> "reload", todo |-> @.todo]]
     /\ UNCHANGED <<disk, clock>>

(* A warning; the old library stays.                                       *)
ReloadFails(t) ==
  /\ op[t].pc = "reloading"
  /\ ~CanLoad(op[t].stem)
  /\ op' = [op EXCEPT ![t] = [pc |-> "reload", todo |-> @.todo]]
  /\ UNCHANGED <<disk, clock, loaded, installed>>

EndReload(t) ==
  /\ op[t].pc = "reload"
  /\ op[t].todo = {}
  /\ op' = [op EXCEPT ![t] = Idle]
  /\ UNCHANGED <<disk, clock, loaded, installed>>

-----------------------------------------------------------------------------
(* call_by_name: the closure is cloned under the lock and called after.    *)
Call(t, n) ==
  /\ op[t] = Idle
  /\ ExternalsFree
  /\ n \in DOMAIN installed
  /\ op' = [op EXCEPT ![t] = [pc |-> "calling", function |-> installed[n]]]
  /\ UNCHANGED <<disk, clock, loaded, installed>>

Return(t) ==
  /\ op[t].pc = "calling"
  /\ op' = [op EXCEPT ![t] = Idle]
  /\ UNCHANGED <<disk, clock, loaded, installed>>

-----------------------------------------------------------------------------
(* The plugin's author rebuilds or deletes a file at any moment.           *)
WriteFile(stem, exports) ==
  /\ clock < MaxWrites
  /\ clock' = clock + 1
  /\ disk' = Overlay(disk, [s \in {stem} |-> [mtime |-> clock + 1, exports |-> exports]])
  /\ UNCHANGED <<loaded, installed, op>>

DeleteFile(stem) ==
  /\ stem \in DOMAIN disk
  /\ disk' = [s \in DOMAIN disk \ {stem} |-> disk[s]]
  /\ UNCHANGED <<clock, loaded, installed, op>>

-----------------------------------------------------------------------------
Init ==
  /\ disk = <<>>
  /\ clock = 0
  /\ loaded = <<>>
  /\ installed = <<>>
  /\ op = [t \in Threads |-> Idle]

(* What a thread does on its own, once it has begun.                       *)
Continue(t) ==
  \/ LoadForUse(t) \/ UseFails(t) \/ Install(t)
  \/ ReloadStat(t) \/ ReloadLoad(t) \/ ReloadFails(t) \/ EndReload(t)
  \/ Return(t)

Begin(t) ==
  \/ \E stem \in Stems, specifier \in Specifiers : BeginUse(t, stem, specifier)
  \/ BeginReload(t)
  \/ \E n \in DOMAIN installed : Call(t, n)

Author ==
  \E stem \in Stems :
    \/ \E exports \in Builds[stem] \cup {Broken} : WriteFile(stem, exports)
    \/ DeleteFile(stem)

Next == Author \/ \E t \in Threads : Begin(t) \/ Continue(t)

Spec == Init /\ [][Next]_vars

(* A thread that has begun goes on; a plugin function returns.             *)
FairSpec == Spec /\ \A t \in Threads : WF_vars(Continue(t))

-----------------------------------------------------------------------------
(***************************************************************************)
(* What is asked of plugin loading and reloading.                          *)
(***************************************************************************)
Names == UNION UNION {Builds[s] : s \in Stems}

CallNames ==
  Names \cup UNION {{specifier[i].target : i \in DOMAIN specifier} :
                      specifier \in Specifiers \ {Wildcard}}

(* What a plugin's author and the scripts may do for installed functions   *)
(* to stay in open libraries.                                              *)
KeepsExports   == \A s \in Stems : \A e, f \in Builds[s] : e = f
UsesEverything == Specifiers \subseteq {Wildcard}

Functions == [stem : Stems, mtime : 1 .. MaxWrites, name : Names]

(* The type of every variable.                                             *)
TypeOK ==
  /\ clock \in 0 .. MaxWrites
  /\ DOMAIN disk \subseteq Stems
  /\ \A s \in DOMAIN disk : /\ disk[s].mtime \in 1 .. clock
                            /\ disk[s].exports \in Builds[s] \cup {Broken}
  /\ DOMAIN loaded \subseteq Stems
  /\ \A s \in DOMAIN loaded : /\ loaded[s].mtime \in 1 .. clock
                              /\ loaded[s].bytes \in 1 .. clock
                              /\ loaded[s].exports \in Builds[s]
  /\ DOMAIN installed \subseteq CallNames
  /\ \A n \in DOMAIN installed : installed[n] \in Functions
  /\ \A t \in Threads :
       op[t].pc \in {"idle", "load", "install", "reload", "reloading", "calling"}

-----------------------------------------------------------------------------
(* A library recorded under the modification time its file has now is that *)
(* very file, whatever was written between reading the time and copying    *)
(* the file: the check by time in ensure_stem_loaded and                   *)
(* reload_loaded_into never takes an old library for the present file.     *)
MtimeTellsBytes ==
  \A s \in DOMAIN loaded \cap DOMAIN disk :
    loaded[s].mtime = disk[s].mtime => loaded[s].bytes = disk[s].mtime

(* While no use is half-way, an installed function points into a library   *)
(* that is open: the comment of reload_loaded_into drops the old library   *)
(* because externals no longer points into it.                             *)
InstalledAreOpen ==
  PluginStateFree => \A n \in DOMAIN installed : IsOpen(installed[n])

(* A function that is running is in a library that is open, from its call  *)
(* to its return.                                                          *)
RunningAreOpen ==
  \A t \in Threads : op[t].pc = "calling" => IsOpen(op[t].function)

-----------------------------------------------------------------------------
(* The loaded libraries are the files there are.                           *)
IsCurrent ==
  \A s \in DOMAIN loaded : CanLoad(s) => loaded[s].bytes = disk[s].mtime

(* If reload_native_ext is called again and again, as its comment advises, *)
(* the libraries catch up with the files once those stop changing.         *)
PollingCatchesUp ==
  ([]<><<\E t \in Threads : BeginReload(t)>>_vars) => <>[]IsCurrent
=============================================================================
