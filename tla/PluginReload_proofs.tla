------------------------ MODULE PluginReload_proofs ------------------------
(***************************************************************************)
(* What holds of plugin loading for every set of plugins, builds, scripts  *)
(* and threads.                                                            *)
(***************************************************************************)
EXTENDS PluginReload, TLAPS

-----------------------------------------------------------------------------
(* Times only grow: a library was copied no earlier than its time was      *)
(* read, and no later than the file was last written.                      *)

DiskTimes ==
  /\ clock \in Nat
  /\ \A s \in DOMAIN disk : disk[s].mtime \in Nat /\ disk[s].mtime <= clock

LoadedTimes ==
  \A s \in DOMAIN loaded :
    /\ loaded[s].mtime \in Nat /\ loaded[s].bytes \in Nat
    /\ loaded[s].mtime <= loaded[s].bytes
    /\ loaded[s].bytes <= clock
    /\ s \in DOMAIN disk => loaded[s].bytes <= disk[s].mtime

ReadTimes ==
  /\ DOMAIN op = Threads
  /\ \A t \in Threads : op[t].pc \in {"load", "reloading"} =>
       /\ op[t].mtime \in Nat
       /\ op[t].mtime <= clock
       /\ op[t].stem \in DOMAIN disk => op[t].mtime <= disk[op[t].stem].mtime

TimesInv == DiskTimes /\ LoadedTimes /\ ReadTimes

(* Writing a file gives it a time later than any other.                    *)
LEMMA WriteKeepsTimes ==
  ASSUME TimesInv, NEW stem \in Stems, NEW exports, WriteFile(stem, exports)
  PROVE  TimesInv'
<1>1. clock' = clock + 1 /\ loaded' = loaded /\ op' = op
  BY DEF WriteFile
<1>2. DOMAIN disk' = DOMAIN disk \cup {stem}
  BY DEF WriteFile, Overlay
<1>3. disk'[stem].mtime = clock + 1
  BY DEF WriteFile, Overlay
<1>4. \A s \in DOMAIN disk \ {stem} : disk'[s] = disk[s]
  BY DEF WriteFile, Overlay
<1>5. DiskTimes'
  BY <1>1, <1>2, <1>3, <1>4 DEF TimesInv, DiskTimes
<1>6. LoadedTimes'
  BY <1>1, <1>2, <1>3, <1>4 DEF TimesInv, DiskTimes, LoadedTimes
<1>7. ReadTimes'
  BY <1>1, <1>2, <1>3, <1>4 DEF TimesInv, DiskTimes, ReadTimes
<1> QED
  BY <1>5, <1>6, <1>7 DEF TimesInv

(* A library recorded under a time read before its file was copied.        *)
LEMMA LibraryKeepsTimes ==
  ASSUME TimesInv, NEW t \in Threads, op[t].pc \in {"load", "reloading"},
         op[t].stem \in DOMAIN disk,
         loaded' = Overlay(loaded, [s \in {op[t].stem} |-> Library(op[t].stem, op[t].mtime)]),
         disk' = disk, clock' = clock
  PROVE  LoadedTimes'
<1> DEFINE stem == op[t].stem
<1>1. /\ DOMAIN loaded' = DOMAIN loaded \cup {stem}
      /\ loaded'[stem] = Library(stem, op[t].mtime)
      /\ \A s \in DOMAIN loaded \ {stem} : loaded'[s] = loaded[s]
  BY DEF Overlay
<1>2. /\ loaded'[stem].mtime = op[t].mtime
      /\ loaded'[stem].bytes = disk[stem].mtime
  BY <1>1 DEF Library
<1>3. ASSUME NEW s \in DOMAIN loaded'
      PROVE  /\ loaded'[s].mtime \in Nat /\ loaded'[s].bytes \in Nat
             /\ loaded'[s].mtime <= loaded'[s].bytes
             /\ loaded'[s].bytes <= clock
             /\ s \in DOMAIN disk => loaded'[s].bytes <= disk[s].mtime
  <2>1. CASE s = stem
    BY <1>2, <2>1 DEF TimesInv, DiskTimes, ReadTimes
  <2>2. CASE s # stem
    BY <1>1, <2>2 DEF TimesInv, LoadedTimes
  <2> QED
    BY <2>1, <2>2
<1> QED
  BY <1>3 DEF LoadedTimes

(* No step of a thread or of the author breaks the order of the times.     *)
LEMMA TimesStep == TimesInv /\ [Next]_vars => TimesInv'
<1> SUFFICES ASSUME TimesInv, [Next]_vars PROVE TimesInv'
  OBVIOUS
<1>1. CASE Author
  <2>1. ASSUME NEW stem \in Stems, NEW exports, WriteFile(stem, exports) PROVE TimesInv'
    BY <2>1, WriteKeepsTimes
  <2>2. ASSUME NEW stem \in Stems, DeleteFile(stem) PROVE TimesInv'
    <3>1. /\ DOMAIN disk' = DOMAIN disk \ {stem}
          /\ \A s \in DOMAIN disk \ {stem} : disk'[s] = disk[s]
          /\ clock' = clock /\ loaded' = loaded /\ op' = op
      BY <2>2 DEF DeleteFile
    <3> QED
      BY <3>1 DEF TimesInv, DiskTimes, LoadedTimes, ReadTimes
  <2> QED
    BY <1>1, <2>1, <2>2 DEF Author
<1>2. ASSUME NEW t \in Threads, Begin(t) PROVE TimesInv'
  <2>1. disk' = disk /\ clock' = clock /\ loaded' = loaded
    BY <1>2 DEF Begin, BeginUse, BeginReload, Call
  <2>2. DiskTimes' /\ LoadedTimes'
    BY <2>1 DEF TimesInv, DiskTimes, LoadedTimes
  <2>3. ReadTimes'
    <3>1. ASSUME NEW stem \in Stems, NEW specifier, BeginUse(t, stem, specifier) PROVE ReadTimes'
      <4>1. CASE IsUnchanged(stem)
        BY <2>1, <3>1, <4>1 DEF BeginUse, TimesInv, ReadTimes
      <4>2. CASE ~IsUnchanged(stem)
        BY <2>1, <3>1, <4>2 DEF BeginUse, TimesInv, ReadTimes, DiskTimes
      <4> QED
        BY <4>1, <4>2
    <3>2. CASE BeginReload(t)
      BY <2>1, <3>2 DEF BeginReload, TimesInv, ReadTimes
    <3>3. ASSUME NEW n, Call(t, n) PROVE ReadTimes'
      BY <2>1, <3>3 DEF Call, TimesInv, ReadTimes
    <3> QED
      BY <1>2, <3>1, <3>2, <3>3 DEF Begin
  <2> QED
    BY <2>2, <2>3 DEF TimesInv
<1>3. ASSUME NEW t \in Threads, Continue(t) PROVE TimesInv'
  <2>1. disk' = disk /\ clock' = clock
    BY <1>3 DEF Continue, LoadForUse, UseFails, Install, ReloadStat, ReloadLoad, ReloadFails,
                EndReload, Return
  <2>2. DiskTimes'
    BY <2>1 DEF TimesInv, DiskTimes
  <2>3. CASE LoadForUse(t)
    <3>1. LoadedTimes'
      BY <2>1, <2>3, LibraryKeepsTimes DEF LoadForUse, CanLoad
    <3>2. ReadTimes'
      BY <2>1, <2>3 DEF LoadForUse, TimesInv, ReadTimes
    <3> QED
      BY <2>2, <3>1, <3>2 DEF TimesInv
  <2>4. CASE ReloadLoad(t)
    <3>1. LoadedTimes'
      BY <2>1, <2>4, LibraryKeepsTimes DEF ReloadLoad, CanLoad
    <3>2. ReadTimes'
      BY <2>1, <2>4 DEF ReloadLoad, TimesInv, ReadTimes
    <3> QED
      BY <2>2, <3>1, <3>2 DEF TimesInv
  <2>5. CASE ReloadStat(t)
    <3>1. loaded' = loaded
      BY <2>5 DEF ReloadStat
    <3>2. ReadTimes'
      BY <2>1, <2>5 DEF ReloadStat, TimesInv, ReadTimes, DiskTimes
    <3> QED
      BY <2>1, <2>2, <3>1, <3>2 DEF TimesInv, LoadedTimes
  <2>6. CASE UseFails(t) \/ Install(t) \/ ReloadFails(t) \/ EndReload(t) \/ Return(t)
    <3>1. loaded' = loaded
      BY <2>6 DEF UseFails, Install, ReloadFails, EndReload, Return
    <3>2. ReadTimes'
      BY <2>1, <2>6
      DEF UseFails, Install, ReloadFails, EndReload, Return, TimesInv, ReadTimes, Idle
    <3> QED
      BY <2>1, <2>2, <3>1, <3>2 DEF TimesInv, LoadedTimes
  <2> QED
    BY <1>3, <2>3, <2>4, <2>5, <2>6 DEF Continue
<1>4. CASE UNCHANGED vars
  BY <1>4 DEF vars, TimesInv, DiskTimes, LoadedTimes, ReadTimes
<1> QED
  BY <1>1, <1>2, <1>3, <1>4 DEF Next

(* A library recorded under the time its file has now is that very file:   *)
(* ensure_stem_loaded and reload_loaded_into may go by the time alone.     *)
THEOREM TimesTellFilesApart == Spec => []MtimeTellsBytes
<1>1. Init => TimesInv
  BY DEF Init, TimesInv, DiskTimes, LoadedTimes, ReadTimes, Idle
<1>2. TimesInv => MtimeTellsBytes
  BY DEF TimesInv, DiskTimes, LoadedTimes, MtimeTellsBytes
<1> QED
  BY <1>1, <1>2, TimesStep, PTL DEF Spec

-----------------------------------------------------------------------------
(* Which library an installed function points into. Every build of a       *)
(* plugin exports the same names (KeepsExports), and scripts use all of    *)
(* them under their own names (UsesEverything): then whoever replaces a    *)
(* library also replaces every function that points into it, the use in    *)
(* two steps between which it holds PluginState.                           *)

HoldsPluginState(t) == op[t].pc \notin {"idle", "calling"}

(* PluginState has one owner.                                              *)
LockInv ==
  /\ DOMAIN op = Threads
  /\ \A t, u \in Threads : HoldsPluginState(t) /\ HoldsPluginState(u) => t = u

(* Libraries are builds of their plugin, and a use is about to install     *)
(* what is loaded.                                                         *)
BuildsInv ==
  /\ \A s \in DOMAIN disk : s \in Stems /\ disk[s].exports \in Builds[s] \cup {Broken}
  /\ \A s \in DOMAIN loaded : s \in Stems /\ loaded[s].exports \in Builds[s]
  /\ \A t \in Threads : op[t].pc \in {"load", "install"} => op[t].specifier \in Specifiers
  /\ \A t \in Threads : op[t].pc = "install" =>
       /\ op[t].stem \in DOMAIN loaded
       /\ op[t].mtime = loaded[op[t].stem].mtime
       /\ op[t].exports = loaded[op[t].stem].exports

IsInstalling(stem) == \E t \in Threads : op[t].pc = "install" /\ op[t].stem = stem

(* An installed function is an export of its plugin, and open unless the   *)
(* plugin was just loaded again for a use that has not installed it yet.   *)
PointersInv ==
  \A n \in DOMAIN installed :
    /\ installed[n].stem \in DOMAIN loaded
    /\ n \in loaded[installed[n].stem].exports
    /\ IsOpen(installed[n]) \/ IsInstalling(installed[n].stem)

PluginInv == LockInv /\ BuildsInv /\ PointersInv

(* A step that leaves libraries and installed functions alone and takes no *)
(* thread out of an installation.                                          *)
LEMMA QuietStep ==
  ASSUME PointersInv, loaded' = loaded, installed' = installed,
         \A t \in Threads : op[t].pc = "install" => op'[t] = op[t]
  PROVE  PointersInv'
BY DEF PointersInv, IsOpen, IsInstalling

(* The author touches neither libraries nor installed functions.           *)
LEMMA AuthorStep == ASSUME PluginInv, Author PROVE PluginInv'
<1>1. loaded' = loaded /\ installed' = installed /\ op' = op
  BY DEF Author, WriteFile, DeleteFile
<1>2. LockInv'
  BY <1>1 DEF PluginInv, LockInv, HoldsPluginState
<1>3. \A s \in DOMAIN disk' : s \in Stems /\ disk'[s].exports \in Builds[s] \cup {Broken}
  <2>1. ASSUME NEW stem \in Stems, NEW exports \in Builds[stem] \cup {Broken},
               WriteFile(stem, exports)
        PROVE  \A s \in DOMAIN disk' : s \in Stems /\ disk'[s].exports \in Builds[s] \cup {Broken}
    BY <2>1 DEF WriteFile, Overlay, PluginInv, BuildsInv
  <2>2. ASSUME NEW stem \in Stems, DeleteFile(stem)
        PROVE  \A s \in DOMAIN disk' : s \in Stems /\ disk'[s].exports \in Builds[s] \cup {Broken}
    BY <2>2 DEF DeleteFile, PluginInv, BuildsInv
  <2> QED
    BY <2>1, <2>2 DEF Author
<1>4. BuildsInv'
  BY <1>1, <1>3 DEF PluginInv, BuildsInv
<1>5. PointersInv'
  BY <1>1, QuietStep DEF PluginInv
<1> QED
  BY <1>2, <1>4, <1>5 DEF PluginInv

(* Beginning anything changes nothing but what the thread is doing.        *)
LEMMA BeginStep == ASSUME PluginInv, NEW t \in Threads, Begin(t) PROVE PluginInv'
<1>1. /\ disk' = disk /\ loaded' = loaded /\ installed' = installed
      /\ op[t] = Idle
      /\ DOMAIN op' = DOMAIN op
      /\ \A u \in Threads \ {t} : op'[u] = op[u]
  BY DEF Begin, BeginUse, BeginReload, Call, PluginInv, LockInv
<1>2. op[t].pc = "idle"
  BY <1>1 DEF Idle
<1>3. PointersInv'
  BY <1>1, <1>2, QuietStep DEF PluginInv
<1>4. ASSUME NEW stem \in Stems, NEW specifier \in Specifiers, BeginUse(t, stem, specifier)
      PROVE  LockInv' /\ BuildsInv'
  <2>1. \A u \in Threads \ {t} : ~HoldsPluginState(u)'
    BY <1>1, <1>4 DEF BeginUse, PluginStateFree, HoldsPluginState
  <2>2. LockInv'
    BY <1>1, <2>1 DEF PluginInv, LockInv
  <2>3. CASE IsUnchanged(stem)
    <3>1. op'[t] = [pc |-> "install", stem |-> stem, mtime |-> loaded[stem].mtime,
                    exports |-> loaded[stem].exports, specifier |-> specifier]
      BY <1>4, <2>3 DEF BeginUse, PluginInv, LockInv
    <3> QED
      BY <1>1, <2>2, <2>3, <3>1 DEF PluginInv, BuildsInv, IsUnchanged
  <2>4. CASE ~IsUnchanged(stem)
    <3>1. op'[t] = [pc |-> "load", stem |-> stem, mtime |-> disk[stem].mtime,
                    specifier |-> specifier]
      BY <1>4, <2>4 DEF BeginUse, PluginInv, LockInv
    <3> QED
      BY <1>1, <2>2, <3>1 DEF PluginInv, BuildsInv
  <2> QED
    BY <2>3, <2>4
<1>5. CASE BeginReload(t)
  <2>1. op'[t].pc = "reload"
    BY <1>5 DEF BeginReload, PluginInv, LockInv
  <2>2. \A u \in Threads \ {t} : ~HoldsPluginState(u)'
    BY <1>1, <1>5 DEF BeginReload, PluginStateFree, HoldsPluginState
  <2>3. LockInv'
    BY <1>1, <2>2 DEF PluginInv, LockInv
  <2>4. BuildsInv'
    BY <1>1, <2>1 DEF PluginInv, BuildsInv
  <2> QED
    BY <1>3, <2>3, <2>4 DEF PluginInv
<1>6. ASSUME NEW n, Call(t, n) PROVE LockInv' /\ BuildsInv'
  <2>1. op'[t].pc = "calling"
    BY <1>6 DEF Call, PluginInv, LockInv
  <2> QED
    BY <1>1, <2>1 DEF PluginInv, LockInv, HoldsPluginState, BuildsInv
<1> QED
  BY <1>3, <1>4, <1>5, <1>6 DEF Begin, PluginInv

(* Of a thread that goes on: the owner of PluginState stays the owner, or  *)
(* there is none.                                                          *)
LEMMA ContinueKeepsLock ==
  ASSUME PluginInv, NEW t \in Threads, Continue(t)
  PROVE  /\ LockInv'
         /\ disk' = disk
         /\ \A u \in Threads \ {t} : op'[u] = op[u]
         /\ HoldsPluginState(t) => \A u \in Threads \ {t} : ~HoldsPluginState(u)
<1>1. /\ disk' = disk
      /\ DOMAIN op' = DOMAIN op
      /\ \A u \in Threads \ {t} : op'[u] = op[u]
  BY DEF Continue, LoadForUse, UseFails, Install, ReloadStat, ReloadLoad, ReloadFails,
         EndReload, Return, PluginInv, LockInv
<1>2. HoldsPluginState(t)' => HoldsPluginState(t)
  BY DEF Continue, LoadForUse, UseFails, Install, ReloadStat, ReloadLoad, ReloadFails,
         EndReload, Return, PluginInv, LockInv, HoldsPluginState, Idle
<1> QED
  BY <1>1, <1>2 DEF PluginInv, LockInv, HoldsPluginState

(* A use loads a library and keeps the lock until its functions are        *)
(* installed.                                                              *)
LEMMA LoadForUseStep ==
  ASSUME KeepsExports, PluginInv, NEW t \in Threads, LoadForUse(t)
  PROVE  BuildsInv' /\ PointersInv'
<1> DEFINE stem == op[t].stem
<1>1. /\ stem \in DOMAIN disk /\ disk[stem].exports # Broken
      /\ loaded' = Overlay(loaded, [s \in {stem} |-> Library(stem, op[t].mtime)])
      /\ installed' = installed
      /\ op[t].pc = "load"
  BY DEF LoadForUse, CanLoad
<1>2. op'[t] = [pc |-> "install", stem |-> stem, mtime |-> op[t].mtime,
                exports |-> disk[stem].exports, specifier |-> op[t].specifier]
  BY DEF LoadForUse, PluginInv, LockInv
<1>3. /\ DOMAIN loaded' = DOMAIN loaded \cup {stem}
      /\ loaded'[stem] = Library(stem, op[t].mtime)
      /\ \A s \in DOMAIN loaded \ {stem} : loaded'[s] = loaded[s]
  BY <1>1 DEF Overlay
<1>4. /\ loaded'[stem].mtime = op[t].mtime
      /\ loaded'[stem].exports = disk[stem].exports
  BY <1>3 DEF Library
<1>5. stem \in Stems /\ disk[stem].exports \in Builds[stem]
  BY <1>1 DEF PluginInv, BuildsInv
<1>6. /\ disk' = disk
      /\ \A u \in Threads \ {t} : op'[u] = op[u] /\ ~HoldsPluginState(u)
  BY <1>1, ContinueKeepsLock DEF Continue, HoldsPluginState
<1>7. BuildsInv'
  <2>1. \A s \in DOMAIN loaded' : s \in Stems /\ loaded'[s].exports \in Builds[s]
    BY <1>3, <1>4, <1>5 DEF PluginInv, BuildsInv
  <2>2. op[t].specifier \in Specifiers
    BY <1>1 DEF PluginInv, BuildsInv
  <2> QED
    BY <1>2, <1>3, <1>4, <1>6, <2>1, <2>2 DEF PluginInv, BuildsInv, HoldsPluginState
<1>8. ASSUME NEW n \in DOMAIN installed
      PROVE  /\ installed[n].stem \in DOMAIN loaded'
             /\ n \in loaded'[installed[n].stem].exports
             /\ IsOpen(installed[n])' \/ IsInstalling(installed[n].stem)'
  <2>1. /\ installed[n].stem \in DOMAIN loaded
        /\ n \in loaded[installed[n].stem].exports
        /\ IsOpen(installed[n]) \/ IsInstalling(installed[n].stem)
    BY DEF PluginInv, PointersInv
  <2>2. CASE installed[n].stem = stem
    <3>1. loaded[stem].exports = loaded'[stem].exports
      BY <1>4, <1>5, <2>1, <2>2 DEF PluginInv, BuildsInv, KeepsExports
    <3>2. op'[t].pc = "install" /\ op'[t].stem = stem
      BY <1>2
    <3> QED
      BY <1>1, <1>3, <2>1, <2>2, <3>1, <3>2 DEF IsInstalling
  <2>3. CASE installed[n].stem # stem
    <3>1. ~IsInstalling(installed[n].stem)
      BY <1>1, <1>6 DEF IsInstalling, HoldsPluginState
    <3> QED
      BY <1>1, <1>3, <2>1, <2>3, <3>1 DEF IsOpen
  <2> QED
    BY <2>2, <2>3
<1> QED
  BY <1>1, <1>7, <1>8 DEF PointersInv, IsOpen, IsInstalling

(* Installing replaces every function of the plugin, and no other library  *)
(* can be waiting for its own installation.                                *)
LEMMA InstallStep ==
  ASSUME UsesEverything, PluginInv, NEW t \in Threads, Install(t)
  PROVE  BuildsInv' /\ PointersInv'
<1> DEFINE stem == op[t].stem
<1> DEFINE names == Requested(op[t].specifier, op[t].exports)
<1>1. /\ op[t].pc = "install"
      /\ installed' = Overlay(installed,
                        [n \in DOMAIN names |-> Function(stem, op[t].mtime, names[n])])
      /\ loaded' = loaded
  BY DEF Install
<1>2. op'[t].pc = "idle"
  BY DEF Install, PluginInv, LockInv, Idle
<1>3. /\ disk' = disk
      /\ \A u \in Threads \ {t} : op'[u] = op[u] /\ ~HoldsPluginState(u)
  BY <1>1, ContinueKeepsLock DEF Continue, HoldsPluginState
<1>4. /\ stem \in DOMAIN loaded
      /\ op[t].mtime = loaded[stem].mtime
      /\ op[t].exports = loaded[stem].exports
      /\ op[t].specifier = Wildcard
  BY <1>1 DEF PluginInv, BuildsInv, UsesEverything
<1>5. names = [n \in loaded[stem].exports |-> n]
  BY <1>4 DEF Requested
<1>6. /\ DOMAIN installed' = DOMAIN installed \cup loaded[stem].exports
      /\ \A n \in loaded[stem].exports :
           installed'[n] = Function(stem, loaded[stem].mtime, n)
      /\ \A n \in DOMAIN installed \ loaded[stem].exports : installed'[n] = installed[n]
  <2> HIDE DEF names, stem
  <2>1. DOMAIN names = loaded[stem].exports /\ \A n \in loaded[stem].exports : names[n] = n
    BY <1>5
  <2> QED
    BY <1>1, <1>4, <2>1 DEF Overlay, stem
<1>7. BuildsInv'
  BY <1>1, <1>2, <1>3 DEF PluginInv, BuildsInv
<1>8. ASSUME NEW n \in DOMAIN installed'
      PROVE  /\ installed'[n].stem \in DOMAIN loaded
             /\ n \in loaded[installed'[n].stem].exports
             /\ loaded[installed'[n].stem].mtime = installed'[n].mtime
  <2>1. CASE n \in loaded[stem].exports
    <3> HIDE DEF stem, names
    <3>1. installed'[n] = Function(stem, loaded[stem].mtime, n)
      BY <1>6, <2>1
    <3>2. installed'[n].stem = stem /\ installed'[n].mtime = loaded[stem].mtime
      BY <3>1 DEF Function
    <3> QED
      BY <1>4, <2>1, <3>2
  <2>2. CASE n \notin loaded[stem].exports
    <3>1. n \in DOMAIN installed /\ installed'[n] = installed[n]
      BY <1>6, <2>2
    <3>2. /\ installed[n].stem \in DOMAIN loaded
          /\ n \in loaded[installed[n].stem].exports
          /\ IsOpen(installed[n]) \/ IsInstalling(installed[n].stem)
      BY <3>1 DEF PluginInv, PointersInv
    <3>3. ~IsInstalling(installed[n].stem)
      BY <1>3, <2>2, <3>2 DEF IsInstalling, HoldsPluginState
    <3> QED
      BY <3>1, <3>2, <3>3 DEF IsOpen
  <2> QED
    BY <2>1, <2>2
<1> QED
  BY <1>1, <1>7, <1>8 DEF PointersInv, IsOpen

(* A reload replaces every function that points into the library it        *)
(* closes, and another plugin's of the same name by its own.               *)
LEMMA ReloadLoadStep ==
  ASSUME KeepsExports, PluginInv, NEW t \in Threads, ReloadLoad(t)
  PROVE  BuildsInv' /\ PointersInv'
<1> DEFINE stem == op[t].stem
<1> DEFINE library == Library(stem, op[t].mtime)
<1>1. /\ stem \in DOMAIN disk /\ disk[stem].exports # Broken
      /\ installed' = Refreshed(stem, library)
      /\ loaded' = Overlay(loaded, [s \in {stem} |-> library])
      /\ op[t].pc = "reloading"
  BY DEF ReloadLoad, CanLoad
<1>2. op'[t].pc = "reload"
  BY DEF ReloadLoad, PluginInv, LockInv
<1>3. /\ DOMAIN loaded' = DOMAIN loaded \cup {stem}
      /\ loaded'[stem] = library
      /\ \A s \in DOMAIN loaded \ {stem} : loaded'[s] = loaded[s]
  BY <1>1 DEF Overlay
<1>4. /\ library.mtime = op[t].mtime
      /\ library.exports = disk[stem].exports
  BY DEF Library
<1>5. stem \in Stems /\ library.exports \in Builds[stem]
  BY <1>1, <1>4 DEF PluginInv, BuildsInv
<1>6. /\ disk' = disk
      /\ \A u \in Threads \ {t} : op'[u] = op[u] /\ ~HoldsPluginState(u)
  BY <1>1, ContinueKeepsLock DEF Continue, HoldsPluginState
<1>7. /\ DOMAIN installed' = DOMAIN installed
      /\ \A n \in DOMAIN installed \cap library.exports :
           installed'[n] = Function(stem, library.mtime, n)
      /\ \A n \in DOMAIN installed \ library.exports : installed'[n] = installed[n]
  BY <1>1 DEF Refreshed
<1>8. BuildsInv'
  <2>1. \A s \in DOMAIN loaded' : s \in Stems /\ loaded'[s].exports \in Builds[s]
    BY <1>3, <1>5 DEF PluginInv, BuildsInv
  <2> QED
    BY <1>2, <1>6, <2>1 DEF PluginInv, BuildsInv, HoldsPluginState
<1>9. ASSUME NEW n \in DOMAIN installed'
      PROVE  /\ installed'[n].stem \in DOMAIN loaded'
             /\ n \in loaded'[installed'[n].stem].exports
             /\ loaded'[installed'[n].stem].mtime = installed'[n].mtime
  <2> HIDE DEF library
  <2>1. CASE n \in library.exports
    BY <1>3, <1>7, <2>1 DEF Function
  <2>2. CASE n \notin library.exports
    <3>1. n \in DOMAIN installed /\ installed'[n] = installed[n]
      BY <1>7, <2>2
    <3>2. /\ installed[n].stem \in DOMAIN loaded
          /\ n \in loaded[installed[n].stem].exports
          /\ IsOpen(installed[n]) \/ IsInstalling(installed[n].stem)
      BY <3>1 DEF PluginInv, PointersInv
    <3>3. installed[n].stem # stem
      BY <1>5, <2>2, <3>2 DEF PluginInv, BuildsInv, KeepsExports
    <3>4. ~IsInstalling(installed[n].stem)
      BY <1>1, <1>6 DEF IsInstalling, HoldsPluginState
    <3> QED
      BY <1>3, <3>1, <3>2, <3>3, <3>4 DEF IsOpen
  <2> QED
    BY <2>1, <2>2
<1> QED
  BY <1>8, <1>9 DEF PointersInv, IsOpen

LEMMA ContinueStep ==
  ASSUME KeepsExports, UsesEverything, PluginInv, NEW t \in Threads, Continue(t)
  PROVE  PluginInv'
<1>1. /\ LockInv'
      /\ disk' = disk
      /\ \A u \in Threads \ {t} : op'[u] = op[u]
  BY ContinueKeepsLock
<1>2. CASE UseFails(t) \/ ReloadStat(t) \/ ReloadFails(t) \/ EndReload(t) \/ Return(t)
  <2>1. loaded' = loaded /\ installed' = installed /\ op[t].pc # "install"
    BY <1>2 DEF UseFails, ReloadStat, ReloadFails, EndReload, Return
  <2>2. op'[t].pc \notin {"load", "install"}
    BY <1>2 DEF UseFails, ReloadStat, ReloadFails, EndReload, Return, Idle, PluginInv, LockInv
  <2>3. BuildsInv'
    BY <1>1, <2>1, <2>2 DEF PluginInv, BuildsInv
  <2>4. PointersInv'
    BY <1>1, <2>1, QuietStep DEF PluginInv
  <2> QED
    BY <1>1, <2>3, <2>4 DEF PluginInv
<1> QED
  BY <1>1, <1>2, LoadForUseStep, InstallStep, ReloadLoadStep DEF Continue, PluginInv

LEMMA PluginStep ==
  ASSUME KeepsExports, UsesEverything
  PROVE  PluginInv /\ [Next]_vars => PluginInv'
<1> SUFFICES ASSUME PluginInv, [Next]_vars PROVE PluginInv'
  OBVIOUS
<1>1. CASE UNCHANGED vars
  BY <1>1 DEF vars, PluginInv, LockInv, HoldsPluginState, BuildsInv, PointersInv, IsOpen,
              IsInstalling
<1> QED
  BY <1>1, AuthorStep, BeginStep, ContinueStep DEF Next

LEMMA PluginInit == Init => PluginInv
BY DEF Init, PluginInv, LockInv, HoldsPluginState, BuildsInv, PointersInv, Idle

(* While no use is half-way, no installed function points into a closed    *)
(* library, as the comment of reload_loaded_into claims: when builds keep  *)
(* their exports and scripts use all of them under their own names.        *)
THEOREM InstalledPointIntoOpenLibraries ==
  ASSUME KeepsExports, UsesEverything
  PROVE  Spec => []InstalledAreOpen
<1>1. PluginInv => InstalledAreOpen
  BY DEF PluginInv, PointersInv, IsInstalling, InstalledAreOpen, PluginStateFree
<1> QED
  BY <1>1, PluginInit, PluginStep, PTL DEF Spec

(* With a single interpreter a function that runs is in an open library:   *)
(* it was open when it was called, and nothing replaces a library before   *)
(* it returns. It takes a second thread to call while a use is half-way or *)
(* to reload meanwhile.                                                    *)
THEOREM AloneRunsInOpenLibraries ==
  ASSUME KeepsExports, UsesEverything, \A t, u \in Threads : t = u
  PROVE  Spec => []RunningAreOpen
<1>1. Init => RunningAreOpen
  BY DEF Init, Idle, RunningAreOpen
<1>2. ASSUME PluginInv, RunningAreOpen, [Next]_vars PROVE RunningAreOpen'
  <2>1. CASE Author \/ UNCHANGED vars
    <3>1. loaded' = loaded /\ op' = op
      BY <2>1 DEF Author, WriteFile, DeleteFile, vars
    <3> QED
      BY <1>2, <3>1 DEF RunningAreOpen, IsOpen
  <2>2. ASSUME NEW t \in Threads, NEW n, Call(t, n) PROVE RunningAreOpen'
    <3>1. /\ op'[t] = [pc |-> "calling", function |-> installed[n]]
          /\ loaded' = loaded
          /\ n \in DOMAIN installed
          /\ op[t].pc = "idle"
      BY <1>2, <2>2 DEF Call, PluginInv, LockInv, Idle
    <3>2. IsOpen(installed[n])
      BY <1>2, <3>1 DEF PluginInv, PointersInv, IsInstalling
    <3> QED
      BY <3>1, <3>2 DEF RunningAreOpen, IsOpen
  <2>3. ASSUME NEW t \in Threads, Continue(t) \/ BeginReload(t) PROVE RunningAreOpen'
    <3>1. op'[t].pc # "calling"
      BY <1>2, <2>3 DEF Continue, LoadForUse, UseFails, Install, ReloadStat, ReloadLoad,
         ReloadFails, EndReload, Return, BeginReload, Idle, PluginInv, LockInv
    <3> QED
      BY <3>1 DEF RunningAreOpen
  <2>4. ASSUME NEW t \in Threads, NEW stem, NEW specifier, BeginUse(t, stem, specifier)
        PROVE  RunningAreOpen'
    <3>1. op'[t].pc # "calling"
      BY <1>2, <2>4 DEF BeginUse, PluginInv, LockInv
    <3> QED
      BY <3>1 DEF RunningAreOpen
  <2> QED
    BY <1>2, <2>1, <2>2, <2>3, <2>4 DEF Next, Begin
<1> QED
  BY <1>1, <1>2, PluginInit, PluginStep, PTL DEF Spec

=============================================================================
