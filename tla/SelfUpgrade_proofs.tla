--------------------------- MODULE SelfUpgrade_proofs ---------------------------
(***************************************************************************)
(* What phs upgrade keeps to for any number of upgrades, failures, crashes *)
(* and releases.                                                           *)
(***************************************************************************)
EXTENDS SelfUpgrade, WellFoundedInduction, TLAPS

-----------------------------------------------------------------------------
(* The inductive invariant of an upgrade that runs alone. What is at the   *)
(* installed path and beside it, by the position of the upgrade: its       *)
(* record r, the files f, its scratch directory s and the history h.       *)
Fields == {"pc", "mode", "from", "bin", "had", "running", "target", "assets", "fd", "outcome"}

Untouched  == {"check", "compare", "scratch", "fetch", "look", "way", "clear", "aside"}
MovedAside == {"open", "write", "swap", "undo", "restore"}
Replacing  == {"discard", "lsp"}
After      == {"cleanup", "ended"}

Got(r, s) == s[<<IF r.mode = "stable" THEN "extracted" ELSE "bin", "phs">>]

SoundPhs(r, f, s) ==
  /\ r.pc \in Untouched  => f[<<"phs", "exe">>] = Whole(r.running)
  /\ r.pc \in MovedAside => f[<<"phs", "old">>] = Whole(r.running)
  /\ r.pc \in {"way", "clear", "aside"} \cup MovedAside => r.had
  /\ r.pc \in {"look", "way", "clear", "aside", "open", "write"} /\ Got(r, s).there
       => Got(r, s) = Whole(r.target)
  /\ r.pc = "write" => Got(r, s).there
  /\ r.pc = "swap" => f[<<"phs", "new">>] = Whole(r.target)
  /\ r.pc \in Replacing => f[<<"phs", "exe">>] = Whole(r.target)
  /\ r.pc = "lsp" => r.outcome = "updated"

SoundLsp(r, f) ==
  /\ r.pc \in {"fetch", "look", "way", "clear", "aside", "discard"} \cup MovedAside
  /\ f[<<"phs", "exe">>] = Whole(r.target)
  /\ r.outcome = "updated"

SoundAfter(r, f, h) ==
  /\ r.outcome = "updated" => f[<<"phs", "exe">>] = Whole(r.target)
  /\ r.outcome = "failed"  => f[<<"phs", "exe">>] = Whole(r.running) \/ "unrestored" \in h
  /\ f[<<"phs", "exe">>].whole \/ f[<<"phs", "old">>].whole

Sound(r, f, s, h) ==
  /\ DOMAIN r = Fields
  /\ r.pc \in Untouched \cup MovedAside \cup Replacing \cup After
  /\ r.mode \in {"stable", "nightly"} /\ r.from = "exe" /\ r.bin \in Binaries
  /\ r.pc = "write" => r.fd = <<r.bin, "new">>
  /\ r.pc \notin After /\ r.bin = "phs" => SoundPhs(r, f, s)
  /\ r.pc \notin After /\ r.bin = "lsp" => SoundLsp(r, f)
  /\ r.pc \in After => SoundAfter(r, f, h)

Clean == history \cap {"overlap", "astray", "leftovers"} = {}

IsFile(x) == x = Missing \/ x = Partial \/ x = Whole(x.tip)
Shape ==
  /\ DOMAIN files = Paths /\ \A path \in Paths : IsFile(files[path])
  /\ DOMAIN scratch = Upgraders
  /\ \A u \in Upgraders : DOMAIN scratch[u] = Downloads /\ \A d \in Downloads : IsFile(scratch[u][d])
  /\ upgrade = [v \in Upgraders |-> upgrade[v]]

KeptInv ==
  Clean =>
    /\ Shape
    /\ \A u, v \in Upgraders : u # v => upgrade[u] = Idle \/ upgrade[v] = Idle
    /\ \A u \in Upgraders :
         upgrade[u] = Idle \/ Sound(upgrade[u], files, scratch[u], history)
    /\ Phs("exe").whole \/ Phs("old").whole

LEMMA WholeIsWhole ==
  /\ \A tip : Whole(tip).whole = TRUE /\ Whole(tip).there = TRUE
  /\ Missing.whole = FALSE /\ Missing.there = FALSE
  /\ Partial.whole = FALSE /\ Partial.there = TRUE
BY DEF Whole, Missing, Partial

LEMMA FilesAreFiles ==
  /\ IsFile(Missing) /\ IsFile(Partial) /\ \A tip : IsFile(Whole(tip))
  /\ \A x : IsFile(x) /\ x.whole => x = Whole(x.tip)
<1>1. \A tip : Whole(tip).tip = tip
  BY DEF Whole
<1>2. \A x : IsFile(x) /\ x.whole => x = Whole(x.tip)
  BY WholeIsWhole DEF IsFile
<1> QED
  BY <1>1, <1>2 DEF IsFile

LEMMA KeptAtFirst == Init => KeptInv
<1> SUFFICES ASSUME Init PROVE KeptInv
  OBVIOUS
<1>1. files[<<"phs", "exe">>] = Whole(FirstTip) /\ DOMAIN files = Paths
  BY DEF Init, Paths, Binaries
<1>2. \A path \in Paths : IsFile(files[path])
  BY FilesAreFiles DEF Init
<1>3. \A u \in Upgraders : upgrade[u] = Idle /\ scratch[u] = NothingIn
  BY DEF Init
<1>4. upgrade = [v \in Upgraders |-> upgrade[v]] /\ DOMAIN scratch = Upgraders
  BY DEF Init
<1>5. DOMAIN NothingIn = Downloads /\ \A d \in Downloads : IsFile(NothingIn[d])
  BY FilesAreFiles DEF NothingIn
<1> QED
  BY <1>1, <1>2, <1>3, <1>4, <1>5, WholeIsWhole DEF KeptInv, Shape, Phs

(* Whatever the position of an upgrade that runs alone, a whole phs is     *)
(* there.                                                                  *)
LEMMA SoundIsWhole ==
  ASSUME NEW r, NEW f, NEW s, NEW h, Sound(r, f, s, h)
  PROVE  f[<<"phs", "exe">>].whole \/ f[<<"phs", "old">>].whole
<1>1. CASE r.pc \in After
  BY <1>1 DEF Sound, SoundAfter
<1>2. CASE r.pc \notin After /\ r.bin = "lsp"
  BY <1>2, WholeIsWhole DEF Sound, SoundLsp
<1>3. CASE r.pc \notin After /\ r.bin = "phs"
  <2>1. r.pc \in Untouched \cup MovedAside \cup Replacing /\ SoundPhs(r, f, s)
    BY <1>3 DEF Sound
  <2> QED
    BY <2>1, WholeIsWhole DEF SoundPhs
<1> QED
  BY <1>1, <1>2, <1>3 DEF Sound, Binaries

(* A step of the upgrade that runs alone.                                  *)
LEMMA AloneKeeps ==
  ASSUME KeptInv, Clean, NEW u \in Upgraders, upgrade[u] # Idle, Shape',
         \A v \in Upgraders : v # u => upgrade'[v] = upgrade[v],
         Sound(upgrade'[u], files', scratch'[u], history')
  PROVE  KeptInv'
<1>1. \A v \in Upgraders : v # u => upgrade'[v] = Idle
  BY DEF KeptInv
<1>2. Phs("exe")'.whole \/ Phs("old")'.whole
  BY SoundIsWhole DEF Phs
<1> QED
  BY <1>1, <1>2 DEF KeptInv

(* Nobody else writes, and the upgrade itself only where it says so.       *)
LEMMA AloneWrites ==
  ASSUME KeptInv, Clean, NEW u \in Upgraders, upgrade[u] # Idle
  PROVE  /\ \A path : WritersOf(path) \subseteq {u}
         /\ ~At(u, "write") =>
              \A path, to : WritersOf(path) = {} /\ Unlinked(path) = upgrade /\ Following(path, to) = upgrade
<1>1. \A v \in Upgraders : v # u => upgrade[v].pc = "idle"
  BY DEF KeptInv, Idle
<1>2. \A path : WritersOf(path) \subseteq {u}
  BY <1>1 DEF WritersOf
<1>3. ASSUME ~At(u, "write"), NEW path PROVE WritersOf(path) = {}
  BY <1>2, <1>3 DEF WritersOf, At
<1>0. upgrade = [v \in Upgraders |-> upgrade[v]]
  BY DEF KeptInv, Shape
<1>4. \A fd : Refer({}, fd) = upgrade
  BY <1>0 DEF Refer
<1>5. ASSUME ~At(u, "write"), NEW path, NEW to PROVE Following(path, to) = upgrade
  <2>2. WritersOf(path) = {} /\ WritersOf(to) = {}
    BY <1>3, <1>5
  <2> QED
    BY <1>4, <1>0, <2>2 DEF Following
<1> QED
  BY <1>2, <1>3, <1>4, <1>5 DEF Unlinked

(* What a change of the record of an upgrade leaves as it was.             *)
Alike(q, r) ==
  /\ DOMAIN q = Fields
  /\ q.mode = r.mode /\ q.from = r.from /\ q.bin = r.bin /\ q.running = r.running

LEMMA Alone ==
  ASSUME KeptInv, Clean, NEW u \in Upgraders, NEW pc, At(u, pc), pc # "idle"
  PROVE  /\ upgrade[u] # Idle /\ Sound(upgrade[u], files, scratch[u], history) /\ Shape
         /\ DOMAIN upgrade[u] = Fields
         /\ Installed(u) = <<upgrade[u].bin, "exe">>
         /\ Staged(u) = <<upgrade[u].bin, "new">> /\ Stale(u) = <<upgrade[u].bin, "old">>
<1>1. upgrade[u] # Idle
  BY DEF At, Idle
<1>2. Sound(upgrade[u], files, scratch[u], history) /\ Shape
  BY <1>1 DEF KeptInv
<1>3. DOMAIN upgrade[u] = Fields /\ upgrade[u].from = "exe"
  BY <1>2 DEF Sound
<1> QED
  BY <1>1, <1>2, <1>3 DEF Installed, Staged, Stale, WithExtension

LEMMA Going ==
  ASSUME Shape, NEW u \in Upgraders, DOMAIN upgrade[u] = Fields, NEW p
  PROVE  /\ Goes(upgrade, u, p) = [v \in Upgraders |-> Goes(upgrade, u, p)[v]]
         /\ \A v \in Upgraders : v # u => Goes(upgrade, u, p)[v] = upgrade[v]
         /\ Alike(Goes(upgrade, u, p)[u], upgrade[u])
         /\ Goes(upgrade, u, p)[u].pc = p /\ Goes(upgrade, u, p)[u].had = upgrade[u].had
         /\ Goes(upgrade, u, p)[u].target = upgrade[u].target
         /\ Goes(upgrade, u, p)[u].outcome = upgrade[u].outcome
         /\ Goes(upgrade, u, p)[u].fd = upgrade[u].fd
<1>1. upgrade = [v \in Upgraders |-> upgrade[v]]
  BY DEF Shape
<1>2. Goes(upgrade, u, p) = [upgrade EXCEPT ![u] = [upgrade[u] EXCEPT !.pc = p]]
  BY DEF Goes
<1>3. Goes(upgrade, u, p)[u] = [upgrade[u] EXCEPT !.pc = p]
  BY <1>1, <1>2
<1> QED
  BY <1>1, <1>2, <1>3 DEF Alike, Fields

LEMMA Failing ==
  ASSUME Shape, NEW u \in Upgraders, DOMAIN upgrade[u] = Fields
  PROVE  /\ Failed(u) = [v \in Upgraders |-> Failed(u)[v]]
         /\ \A v \in Upgraders : v # u => Failed(u)[v] = upgrade[v]
         /\ Alike(Failed(u)[u], upgrade[u])
         /\ Failed(u)[u].pc = "cleanup" /\ Failed(u)[u].target = upgrade[u].target
         /\ upgrade[u].bin = "phs" => Failed(u)[u].outcome = "failed"
         /\ upgrade[u].bin # "phs" => Failed(u)[u].outcome = upgrade[u].outcome
<1> DEFINE end == IF upgrade[u].bin = "phs" THEN "failed" ELSE upgrade[u].outcome
           q == [upgrade[u] EXCEPT !.pc = "cleanup", !.outcome = end]
<1>1. upgrade = [v \in Upgraders |-> upgrade[v]]
  BY DEF Shape
<1>2. Failed(u) = [upgrade EXCEPT ![u] = q]
  BY <1>1 DEF Failed
<1>3. Failed(u)[u] = q
  BY <1>1, <1>2
<1>4. Alike(q, upgrade[u]) /\ q.pc = "cleanup" /\ q.target = upgrade[u].target /\ q.outcome = end
  BY DEF Alike, Fields
<1> QED
  BY <1>1, <1>2, <1>3, <1>4

(* The replacement of physure-lsp does not touch phs.                      *)
LEMMA LspKeeps ==
  ASSUME NEW r, NEW q, NEW f, NEW g, NEW s, NEW t, NEW h, NEW k,
         Sound(r, f, s, h), r.bin = "lsp", r.pc \notin After,
         Alike(q, r), q.target = r.target, q.outcome = r.outcome,
         q.pc = "write" => q.fd = <<"lsp", "new">>,
         q.pc \in {"fetch", "look", "way", "clear", "aside", "discard"} \cup MovedAside \cup After,
         g[<<"phs", "exe">>] = f[<<"phs", "exe">>]
  PROVE  Sound(q, g, t, k)
<1>1. SoundLsp(r, f)
  BY DEF Sound
<1>2. g[<<"phs", "exe">>] = Whole(q.target) /\ q.outcome = "updated"
  BY <1>1 DEF SoundLsp
<1>3. q.pc \in After => SoundAfter(q, g, k)
  BY <1>2, WholeIsWhole DEF SoundAfter
<1>4. q.pc \notin After => SoundLsp(q, g)
  BY <1>2 DEF SoundLsp
<1>5. q.mode \in {"stable", "nightly"} /\ q.from = "exe" /\ q.bin = "lsp" /\ DOMAIN q = Fields
  BY DEF Sound, Alike
<1>6. q.pc \in Untouched \cup MovedAside \cup Replacing \cup After
  BY DEF Untouched, Replacing
<1> QED
  BY <1>3, <1>4, <1>5, <1>6 DEF Sound, Binaries

(* The steps of an upgrade that runs alone.                                *)
LEMMA CheckKeeps ==
  ASSUME KeptInv, Clean, NEW u \in Upgraders,
         CheckFails(u) \/ CheckStable(u) \/ CheckSkipped(u) \/ CheckTip(u) \/ Compare(u)
  PROVE  KeptInv'
<1> DEFINE r == upgrade[u]  q == upgrade'[u]
<1>0. At(u, "check") \/ At(u, "compare")
  BY DEF CheckFails, CheckStable, CheckSkipped, CheckTip, Compare
<1>1. r # Idle /\ Sound(r, files, scratch[u], history) /\ Shape /\ DOMAIN r = Fields
  BY <1>0, Alone
<1>2. r.bin = "phs" /\ SoundPhs(r, files, scratch[u])
  BY <1>0, <1>1 DEF Sound, SoundLsp, At, Binaries, MovedAside, After
<1>3. files[<<"phs", "exe">>] = Whole(r.running)
  BY <1>0, <1>2 DEF SoundPhs, At, Untouched
<1>4. UNCHANGED <<files, scratch, history>>
  BY DEF CheckFails, CheckStable, CheckSkipped, CheckTip, Compare
<1>5. /\ upgrade' = [v \in Upgraders |-> upgrade'[v]]
      /\ \A v \in Upgraders : v # u => upgrade'[v] = upgrade[v]
      /\ Alike(q, r) /\ q.pc \in {"compare", "scratch", "ended"}
      /\ q.pc = "ended" => q.outcome \in {"failed", "upToDate"}
  <2>0. upgrade = [v \in Upgraders |-> upgrade[v]]
    BY <1>1 DEF Shape
  <2>1. ASSUME NEW o, Ends(u, o), o \in {"failed", "upToDate"} PROVE <1>5!:
    BY <2>0, <2>1, <1>1 DEF Ends, Alike, Fields
  <2>2. ASSUME NEW p \in {"scratch", "compare"}, GoTo(u, p) PROVE <1>5!:
    BY <2>2, <1>1, Going DEF GoTo
  <2>3. CASE CheckStable(u)
    BY <2>0, <2>1, <2>3, <1>1 DEF CheckStable, Alike, Fields
  <2>4. CASE CheckTip(u)
    BY <2>0, <2>4, <1>1 DEF CheckTip, Alike, Fields
  <2>5. CASE CheckFails(u) \/ CheckSkipped(u) \/ Compare(u)
    BY <2>1, <2>2, <2>5 DEF CheckFails, CheckSkipped, Compare
  <2> QED
    BY <2>3, <2>4, <2>5
<1>6. Sound(q, files', scratch'[u], history')
  <2>1. q.pc = "ended" => SoundAfter(q, files, history)
    BY <1>3, <1>5, WholeIsWhole DEF SoundAfter, Alike
  <2>2. q.pc # "ended" => SoundPhs(q, files, scratch[u])
    BY <1>3, <1>5 DEF SoundPhs, Alike, MovedAside, Replacing
  <2> QED
    BY <1>1, <1>2, <1>4, <1>5, <2>1, <2>2 DEF Sound, Alike, Binaries, Untouched, MovedAside, Replacing, After
<1> QED
  BY <1>1, <1>4, <1>5, <1>6, AloneKeeps DEF Shape

LEMMA FetchKeeps ==
  ASSUME KeptInv, Clean, Clean', NEW u \in Upgraders,
         MakeScratch(u) \/ InstallRelease(u) \/ Build(u) \/ FetchFails(u)
  PROVE  KeptInv'
<1> DEFINE r == upgrade[u]  q == upgrade'[u]
<1>0. At(u, "scratch") \/ At(u, "fetch")
  BY DEF MakeScratch, InstallRelease, Build, FetchFails
<1>1. r # Idle /\ Sound(r, files, scratch[u], history) /\ Shape /\ DOMAIN r = Fields
  BY <1>0, Alone
<1>2. r.bin \in {"phs", "lsp"} /\ r.mode \in {"stable", "nightly"}
  BY <1>1 DEF Sound, Binaries
<1>3. r.bin = "phs" => files[<<"phs", "exe">>] = Whole(r.running)
  BY <1>0, <1>1 DEF Sound, SoundPhs, At, Untouched, After
<1>4. UNCHANGED files
  BY DEF MakeScratch, InstallRelease, Build, FetchFails
<1>5. r.bin = "lsp" => At(u, "fetch")
  BY <1>0, <1>1 DEF Sound, SoundLsp, At, After, MovedAside
<1>6. /\ upgrade' = [v \in Upgraders |-> upgrade'[v]]
      /\ \A v \in Upgraders : v # u => upgrade'[v] = upgrade[v]
      /\ Alike(q, r) /\ q.pc \in {"fetch", "look", "cleanup"}
      /\ MakeScratch(u) <=> q.pc = "fetch"
      /\ FetchFails(u) <=> q.pc = "cleanup"
      /\ r.bin = "lsp" => q.target = r.target /\ q.outcome = r.outcome
      /\ ~Build(u) => q.target = r.target
      /\ FetchFails(u) /\ r.bin = "phs" => q.outcome = "failed"
      /\ Build(u) /\ r.bin = "phs" => q.target = main
  <2>0. upgrade = [v \in Upgraders |-> upgrade[v]]
    BY <1>1 DEF Shape
  <2>1. CASE MakeScratch(u)
    BY <1>1, <2>1, Going DEF MakeScratch, GoTo, FetchFails, Build, At
  <2>2. CASE InstallRelease(u)
    <3>1. At(u, "fetch") /\ r.mode = "stable" /\ upgrade' = Goes(upgrade, u, "look")
      BY <2>2 DEF InstallRelease, GoTo
    <3>2. ~MakeScratch(u) /\ ~Build(u)
      BY <3>1 DEF MakeScratch, Build, At
    <3>3. q.pc = "look" /\ ~FetchFails(u)
      BY <1>1, <3>1, Going, Failing DEF FetchFails
    <3> QED
      BY <1>1, <3>1, <3>2, <3>3, Going
  <2>3. CASE Build(u)
    <3>1. At(u, "fetch") /\ q.pc = "look"
      BY <1>1, <2>0, <2>3 DEF Build, Fields
    <3>2. ~MakeScratch(u) /\ ~FetchFails(u)
      BY <1>1, <3>1, Failing DEF MakeScratch, FetchFails, At
    <3> QED
      BY <1>1, <1>2, <2>0, <2>3, <3>1, <3>2 DEF Build, Alike, Fields
  <2>4. CASE FetchFails(u)
    <3>1. At(u, "fetch") /\ upgrade' = Failed(u) /\ q.pc = "cleanup"
      BY <1>1, <2>4, Failing DEF FetchFails
    <3>2. ~MakeScratch(u)
      BY <3>1 DEF MakeScratch, At
    <3>3. ~Build(u)
      <4>1. Build(u) => q.pc = "look"
        BY <1>1, <2>0 DEF Build, Fields
      <4> QED
        BY <3>1, <4>1
    <3> QED
      BY <1>1, <1>2, <2>4, <3>1, <3>2, <3>3, Failing
  <2> QED
    BY <2>1, <2>2, <2>3, <2>4
<1> DEFINE bin == Download(u, r.bin)
<1>7. /\ DOMAIN scratch' = Upgraders
      /\ \A v \in Upgraders : v # u => scratch'[v] = scratch[v]
      /\ MakeScratch(u) => scratch'[u] \in {scratch[u], NothingIn}
      /\ InstallRelease(u) => scratch'[u] = Extracted(u, Whole(r.target))
      /\ FetchFails(u) => scratch'[u] \in {scratch[u], Extracted(u, Partial)}
      /\ Build(u) => scratch'[u] = [scratch[u] EXCEPT ![bin] = Whole(main)]
  BY <1>1 DEF Shape, MakeScratch, InstallRelease, FetchFails, Build
<1>8. \A d \in Downloads : Extracted(u, Partial)[d] \in {Partial, scratch[u][d]}
                        /\ Extracted(u, Whole(r.target))[d] \in {Whole(r.target), scratch[u][d]}
  BY DEF Extracted
<1>9. /\ DOMAIN Extracted(u, Partial) = Downloads /\ DOMAIN Extracted(u, Whole(r.target)) = Downloads
      /\ DOMAIN NothingIn = Downloads
      /\ \A d \in Downloads : NothingIn[d] = Missing
  BY DEF Extracted, NothingIn
<1>10. DOMAIN scratch[u] = Downloads /\ \A d \in Downloads : IsFile(scratch[u][d])
  BY <1>1 DEF Shape
<1>11. DOMAIN scratch'[u] = Downloads /\ \A d \in Downloads : IsFile(scratch'[u][d])
  <2>1. CASE MakeScratch(u)
    BY <1>7, <1>9, <1>10, <2>1, FilesAreFiles
  <2>2. CASE InstallRelease(u)
    BY <1>7, <1>8, <1>9, <1>10, <2>2, FilesAreFiles
  <2>3. CASE FetchFails(u)
    BY <1>7, <1>8, <1>9, <1>10, <2>3, FilesAreFiles
  <2>4. CASE Build(u)
    BY <1>7, <1>10, <2>4, FilesAreFiles
  <2> QED
    BY <2>1, <2>2, <2>3, <2>4
<1>12. Shape'
  BY <1>1, <1>4, <1>6, <1>7, <1>11 DEF Shape
<1>13. q.pc = "look" /\ r.bin = "phs" /\ Got(q, scratch'[u]).there => Got(q, scratch'[u]) = Whole(q.target)
  <2> SUFFICES ASSUME q.pc = "look", r.bin = "phs", Got(q, scratch'[u]).there
               PROVE  Got(q, scratch'[u]) = Whole(q.target)
    OBVIOUS
  <2>0. q.mode = r.mode
    BY <1>6 DEF Alike
  <2>1. CASE InstallRelease(u)
    <3>1. r.mode = "stable" /\ Got(q, scratch'[u]) = scratch'[u][<<"extracted", "phs">>]
      BY <2>0, <2>1 DEF InstallRelease, Got
    <3>2. <<"extracted", "phs">> \in Downloads /\ "phs" \in Binaries
      BY DEF Downloads, Binaries
    <3>3. ~("phs" \in r.assets) => ~scratch[u][<<"extracted", "phs">>].there
      <4> SUFFICES ASSUME "phs" \notin r.assets, scratch[u][<<"extracted", "phs">>].there PROVE FALSE
        OBVIOUS
      <4>1. "leftovers" \in history'
        BY <2>1, <3>2 DEF InstallRelease
      <4> QED
        BY <4>1 DEF Clean
    <3>4. Extracted(u, Whole(r.target))[<<"extracted", "phs">>]
            = IF "phs" \in r.assets THEN Whole(r.target) ELSE scratch[u][<<"extracted", "phs">>]
      BY <3>2 DEF Extracted
    <3>5. ~Build(u)
      BY <2>1, <3>1 DEF Build
    <3> QED
      BY <1>6, <1>7, <2>1, <3>1, <3>3, <3>4, <3>5
  <2>2. CASE Build(u)
    <3>1. r.mode = "nightly" /\ bin = <<"bin", "phs">> /\ bin \in Downloads
      BY <2>2 DEF Build, Download, Downloads, Binaries
    <3>2. Got(q, scratch'[u]) = scratch'[u][bin]
      BY <2>0, <3>1 DEF Got
    <3> QED
      BY <1>6, <1>7, <1>10, <2>2, <3>1, <3>2
  <2>3. ~MakeScratch(u) /\ ~FetchFails(u)
    BY <1>6
  <2> QED
    BY <2>1, <2>2, <2>3
<1>14. Sound(q, files', scratch'[u], history')
  <2>1. CASE r.bin = "lsp"
    <3>1. r.pc = "fetch" /\ r.pc \notin After /\ ~MakeScratch(u)
      BY <1>5, <2>1 DEF At, After, MakeScratch
    <3>2. q.pc \in {"look"} \cup After /\ q.pc # "write"
      BY <1>6, <3>1 DEF After
    <3> HIDE DEF q, r
    <3> QED
      BY <1>1, <1>4, <1>6, <2>1, <3>1, <3>2, LspKeeps
  <2>2. CASE r.bin = "phs"
    <3>1. CASE q.pc = "cleanup"
      <4>1. FetchFails(u) /\ q.outcome = "failed"
        BY <1>6, <2>2, <3>1
      <4>2. SoundAfter(q, files', history')
        BY <1>3, <1>4, <1>6, <2>2, <4>1, WholeIsWhole DEF SoundAfter, Alike
      <4> QED
        BY <1>1, <1>6, <2>2, <3>1, <4>2 DEF Sound, Alike, After, Binaries
    <3>2. CASE q.pc # "cleanup"
      <4>1. q.pc \in {"fetch", "look"}
        BY <1>6, <3>2
      <4>2. SoundPhs(q, files', scratch'[u])
        BY <1>3, <1>4, <1>6, <1>13, <2>2, <4>1 DEF SoundPhs, Alike, MovedAside, Replacing
      <4> QED
        BY <1>1, <1>6, <2>2, <4>1, <4>2 DEF Sound, Alike, After, Binaries, Untouched
    <3> QED
      BY <3>1, <3>2
  <2> QED
    BY <1>2, <2>1, <2>2
<1> QED
  BY <1>1, <1>6, <1>12, <1>14, AloneKeeps

(* What an operation on a file leaves at the other paths.                  *)
Written(path, x) == [files EXCEPT ![path] = x]

LEMMA FileWrites ==
  ASSUME Shape, NEW a \in Paths, NEW x, IsFile(x)
  PROVE  /\ DOMAIN Written(a, x) = Paths /\ \A path \in Paths : IsFile(Written(a, x)[path])
         /\ Written(a, x)[a] = x
         /\ \A path \in Paths : path # a => Written(a, x)[path] = files[path]
<1>1. DOMAIN files = Paths /\ \A path \in Paths : IsFile(files[path])
  BY DEF Shape
<1>2. DOMAIN Written(a, x) = Paths
      /\ \A path \in Paths : Written(a, x)[path] = IF path = a THEN x ELSE files[path]
  BY <1>1 DEF Written
<1> QED
  BY <1>1, <1>2

LEMMA FileOperations ==
  ASSUME Shape, NEW a \in Paths, NEW b \in Paths
  PROVE  /\ DOMAIN Removed(a) = Paths /\ \A path \in Paths : IsFile(Removed(a)[path])
         /\ \A path \in Paths : path # a => Removed(a)[path] = files[path]
         /\ DOMAIN Renamed(a, b) = Paths /\ \A path \in Paths : IsFile(Renamed(a, b)[path])
         /\ a # b => Renamed(a, b)[b] = files[a]
         /\ \A path \in Paths : path # a /\ path # b => Renamed(a, b)[path] = files[path]
<1>1. DOMAIN files = Paths /\ \A path \in Paths : IsFile(files[path])
  BY DEF Shape
<1>2. IsFile(Missing)
  BY FilesAreFiles
<1>3. DOMAIN Removed(a) = Paths /\ \A path \in Paths : Removed(a)[path] = IF path = a THEN Missing ELSE files[path]
  BY <1>1 DEF Removed
<1>4. DOMAIN Renamed(a, b) = Paths
      /\ \A path \in Paths : Renamed(a, b)[path] =
           IF path = a THEN Missing ELSE IF path = b THEN files[a] ELSE files[path]
  BY <1>1 DEF Renamed
<1> QED
  BY <1>1, <1>2, <1>3, <1>4

Extensions == {"exe", "old", "new"}
LEMMA BesideBinaries ==
  ASSUME NEW b \in Binaries
  PROVE  /\ \A e \in Extensions : <<b, e>> \in Paths
         /\ <<"phs", "exe">> \in Paths
         /\ b = "lsp" => \A e \in Extensions : <<b, e>> # <<"phs", "exe">>
         /\ \A e, d \in Extensions : e # d => <<b, e>> # <<b, d>>
BY DEF Paths, Binaries, Extensions

AreFiles(f) == DOMAIN f = Paths /\ \A path \in Paths : IsFile(f[path])
LEMMA RemovesBeside ==
  ASSUME Shape, NEW b \in Binaries, NEW e \in Extensions
  PROVE  /\ AreFiles(Removed(<<b, e>>))
         /\ b = "lsp" => Removed(<<b, e>>)[<<"phs", "exe">>] = files[<<"phs", "exe">>]
         /\ \A d \in Extensions : d # e => Removed(<<b, e>>)[<<b, d>>] = files[<<b, d>>]
<1>1. <<b, e>> \in Paths /\ \A d \in Extensions : <<b, d>> \in Paths
  BY BesideBinaries
<1>2. /\ AreFiles(Removed(<<b, e>>))
      /\ \A path \in Paths : path # <<b, e>> => Removed(<<b, e>>)[path] = files[path]
  BY <1>1, FileOperations DEF AreFiles
<1> QED
  BY <1>1, <1>2, BesideBinaries

LEMMA RenamesBeside ==
  ASSUME Shape, NEW b \in Binaries, NEW e \in Extensions, NEW d \in Extensions, e # d
  PROVE  /\ AreFiles(Renamed(<<b, e>>, <<b, d>>))
         /\ b = "lsp" => Renamed(<<b, e>>, <<b, d>>)[<<"phs", "exe">>] = files[<<"phs", "exe">>]
         /\ Renamed(<<b, e>>, <<b, d>>)[<<b, d>>] = files[<<b, e>>]
<1>1. <<b, e>> \in Paths /\ <<b, d>> \in Paths /\ <<b, e>> # <<b, d>>
  BY BesideBinaries
<1>2. /\ AreFiles(Renamed(<<b, e>>, <<b, d>>))
      /\ Renamed(<<b, e>>, <<b, d>>)[<<b, d>>] = files[<<b, e>>]
      /\ \A path \in Paths : path # <<b, e>> /\ path # <<b, d>>
           => Renamed(<<b, e>>, <<b, d>>)[path] = files[path]
  <2> DEFINE a == <<b, e>>  c == <<b, d>>
  <2> HIDE DEF a, c
  <2>2. a \in Paths /\ c \in Paths /\ a # c
    BY <1>1 DEF a, c
  <2>3. /\ AreFiles(Renamed(a, c)) /\ Renamed(a, c)[c] = files[a]
        /\ \A path \in Paths : path # a /\ path # c => Renamed(a, c)[path] = files[path]
    BY <2>2, FileOperations DEF AreFiles
  <2> QED
    BY <2>3 DEF a, c
<1> QED
  BY <1>1, <1>2, BesideBinaries

LEMMA WritesBeside ==
  ASSUME Shape, NEW b \in Binaries, NEW e \in Extensions, NEW x, IsFile(x)
  PROVE  /\ AreFiles(Written(<<b, e>>, x))
         /\ b = "lsp" => Written(<<b, e>>, x)[<<"phs", "exe">>] = files[<<"phs", "exe">>]
         /\ Written(<<b, e>>, x)[<<b, e>>] = x
         /\ \A d \in Extensions : d # e => Written(<<b, e>>, x)[<<b, d>>] = files[<<b, d>>]
<1>1. <<b, e>> \in Paths /\ \A d \in Extensions : <<b, d>> \in Paths
  BY BesideBinaries
<1>2. /\ AreFiles(Written(<<b, e>>, x))
      /\ Written(<<b, e>>, x)[<<b, e>>] = x
      /\ \A path \in Paths : path # <<b, e>> => Written(<<b, e>>, x)[path] = files[path]
  BY <1>1, FileWrites DEF AreFiles
<1> QED
  BY <1>1, <1>2, BesideBinaries

(* A step to p, or to a failure, that leaves the scratch directory alone.  *)
LEMMA StepKeeps ==
  ASSUME KeptInv, Clean, NEW u \in Upgraders, NEW pc, At(u, pc), pc # "idle", pc \notin After,
         NEW p, p \in Untouched \cup MovedAside \cup Replacing \cup After,
         UNCHANGED scratch,
         AreFiles(files'),
         upgrade' = [v \in Upgraders |-> upgrade'[v]],
         \A v \in Upgraders : v # u => upgrade'[v] = upgrade[v],
         Alike(upgrade'[u], upgrade[u]), upgrade'[u].target = upgrade[u].target,
         upgrade'[u].pc = p,
         p = "write" => upgrade'[u].fd = <<upgrade[u].bin, "new">>,
         upgrade[u].bin = "lsp" =>
           /\ files'[<<"phs", "exe">>] = files[<<"phs", "exe">>]
           /\ p \notin {"check", "compare", "scratch", "lsp"} /\ upgrade'[u].outcome = upgrade[u].outcome,
         upgrade[u].bin = "phs" /\ p \notin After => SoundPhs(upgrade'[u], files', scratch[u]),
         upgrade[u].bin = "phs" /\ p \in After => SoundAfter(upgrade'[u], files', history')
  PROVE  KeptInv'
<1> DEFINE r == upgrade[u]  q == upgrade'[u]
<1>1. r # Idle /\ Sound(r, files, scratch[u], history) /\ Shape
  BY Alone
<1>2. Shape'
  BY <1>1 DEF Shape, AreFiles
<1>3. r.pc \notin After /\ r.bin \in {"phs", "lsp"} /\ scratch'[u] = scratch[u]
  BY <1>1 DEF At, Sound, Binaries
<1>4. Sound(q, files', scratch'[u], history')
  <2>1. CASE r.bin = "lsp"
    <3>1. q.pc \in {"fetch", "look", "way", "clear", "aside", "discard"} \cup MovedAside \cup After
      BY <2>1 DEF Untouched, Replacing
    <3> HIDE DEF q, r
    <3>2. /\ Alike(q, r) /\ q.target = r.target /\ q.outcome = r.outcome
          /\ q.pc = "write" => q.fd = <<"lsp", "new">>
          /\ files'[<<"phs", "exe">>] = files[<<"phs", "exe">>]
      BY <2>1 DEF q, r
    <3> QED
      BY <1>1, <1>3, <2>1, <3>1, <3>2, LspKeeps
  <2>2. CASE r.bin = "phs"
    <3>1. q.mode \in {"stable", "nightly"} /\ q.from = "exe" /\ q.bin = "phs" /\ DOMAIN q = Fields
      BY <1>1, <2>2 DEF Sound, Alike
    <3> QED
      BY <1>3, <2>2, <3>1 DEF Sound, Binaries
  <2> QED
    BY <1>3, <2>1, <2>2
<1> QED
  BY <1>1, <1>2, <1>4, AloneKeeps

LEMMA LookKeeps ==
  ASSUME KeptInv, Clean, NEW u \in Upgraders, Look(u)
  PROVE  KeptInv'
<1> DEFINE r == upgrade[u]
<1>0. At(u, "look")
  BY DEF Look
<1>1. /\ Sound(r, files, scratch[u], history) /\ Shape /\ DOMAIN r = Fields
      /\ Installed(u) = <<r.bin, "exe">> /\ Staged(u) = <<r.bin, "new">> /\ Stale(u) = <<r.bin, "old">>
  BY <1>0, Alone
<1>2. r.bin \in Binaries /\ (r.bin = "phs" => SoundPhs(r, files, scratch[u])) /\ (r.bin = "lsp" => SoundLsp(r, files))
  BY <1>0, <1>1 DEF Sound, At, After
<1>3. AreFiles(files)
  BY <1>1 DEF Shape, AreFiles
<1>4. upgrade = [v \in Upgraders |-> upgrade[v]]
  BY <1>1 DEF Shape
<1>5. upgrade' = [upgrade EXCEPT ![u] = [r EXCEPT !.pc = "way", !.had = Exists(Installed(u))]]
      /\ UNCHANGED <<files, scratch>>
  BY DEF Look
<1>6. /\ upgrade' = [v \in Upgraders |-> upgrade'[v]]
      /\ \A v \in Upgraders : v # u => upgrade'[v] = upgrade[v]
      /\ Alike(upgrade'[u], r) /\ upgrade'[u].target = r.target
      /\ upgrade'[u].pc = "way" /\ upgrade'[u].outcome = r.outcome
      /\ upgrade'[u].had = Exists(Installed(u))
  BY <1>1, <1>4, <1>5 DEF Alike, Fields
<1>7. r.bin = "phs" => SoundPhs(upgrade'[u], files', scratch[u])
  <2> SUFFICES ASSUME r.bin = "phs" PROVE SoundPhs(upgrade'[u], files', scratch[u])
    OBVIOUS
  <2>1. files[<<"phs", "exe">>] = Whole(r.running)
    BY <1>0, <1>2 DEF SoundPhs, At, Untouched
  <2>2. upgrade'[u].had
    BY <1>1, <1>6, <2>1, WholeIsWhole DEF Exists
  <2>3. Got(upgrade'[u], scratch[u]) = Got(r, scratch[u])
    BY <1>6 DEF Got, Alike
  <2> QED
    BY <1>0, <1>2, <1>5, <1>6, <2>1, <2>2, <2>3 DEF SoundPhs, At, Alike, MovedAside, Replacing
<1>8. "way" \in Untouched /\ "way" \notin After /\ "look" \notin After
  BY DEF Untouched, After
<1> HIDE DEF r
<1> QED
  BY <1>0, <1>3, <1>5, <1>6, <1>7, <1>8, StepKeeps DEF r
LEMMA LookAgainKeeps ==
  ASSUME KeptInv, Clean, NEW u \in Upgraders, LookAgain(u)
  PROVE  KeptInv'
<1> DEFINE r == upgrade[u]
<1>0. At(u, "way")
  BY DEF LookAgain
<1>1. /\ Sound(r, files, scratch[u], history) /\ Shape /\ DOMAIN r = Fields
      /\ Installed(u) = <<r.bin, "exe">> /\ Staged(u) = <<r.bin, "new">> /\ Stale(u) = <<r.bin, "old">>
  BY <1>0, Alone
<1>2. r.bin \in Binaries /\ (r.bin = "phs" => SoundPhs(r, files, scratch[u])) /\ (r.bin = "lsp" => SoundLsp(r, files))
  BY <1>0, <1>1 DEF Sound, At, After
<1>3. AreFiles(files)
  BY <1>1 DEF Shape, AreFiles
<1> DEFINE p == IF Exists(Installed(u)) THEN "clear" ELSE "open"
<1>5. upgrade' = Goes(upgrade, u, p) /\ UNCHANGED <<files, scratch>>
  BY DEF LookAgain, GoTo
<1>6. /\ upgrade' = [v \in Upgraders |-> upgrade'[v]]
      /\ \A v \in Upgraders : v # u => upgrade'[v] = upgrade[v]
      /\ Alike(upgrade'[u], r) /\ upgrade'[u].target = r.target
      /\ upgrade'[u].pc = p /\ upgrade'[u].outcome = r.outcome /\ upgrade'[u].had = r.had
  BY <1>1, <1>5, Going
<1>7. r.bin = "phs" => SoundPhs(upgrade'[u], files', scratch[u])
  <2> SUFFICES ASSUME r.bin = "phs" PROVE SoundPhs(upgrade'[u], files', scratch[u])
    OBVIOUS
  <2>1. files[<<"phs", "exe">>] = Whole(r.running)
    BY <1>0, <1>2 DEF SoundPhs, At, Untouched
  <2>2. p = "clear"
    BY <1>1, <2>1, WholeIsWhole DEF Exists
  <2>3. Got(upgrade'[u], scratch[u]) = Got(r, scratch[u])
    BY <1>6 DEF Got, Alike
  <2> QED
    BY <1>0, <1>2, <1>5, <1>6, <2>1, <2>2, <2>3 DEF SoundPhs, At, Alike, MovedAside, Replacing
<1>8. p \in Untouched \cup MovedAside /\ p \notin {"write", "check", "compare", "scratch", "lsp"}
      /\ p \notin After /\ "way" \notin After
  BY DEF Untouched, MovedAside, After
<1> HIDE DEF r, p
<1> QED
  BY <1>0, <1>3, <1>5, <1>6, <1>7, <1>8, StepKeeps DEF r
LEMMA ClearWayKeeps ==
  ASSUME KeptInv, Clean, NEW u \in Upgraders, ClearWay(u)
  PROVE  KeptInv'
<1> DEFINE r == upgrade[u]
<1>0. At(u, "clear")
  BY DEF ClearWay
<1>1. /\ Sound(r, files, scratch[u], history) /\ Shape /\ DOMAIN r = Fields
      /\ Installed(u) = <<r.bin, "exe">> /\ Staged(u) = <<r.bin, "new">> /\ Stale(u) = <<r.bin, "old">>
  BY <1>0, Alone
<1>2. r.bin \in Binaries /\ (r.bin = "phs" => SoundPhs(r, files, scratch[u])) /\ (r.bin = "lsp" => SoundLsp(r, files))
  BY <1>0, <1>1 DEF Sound, At, After
<1>3. AreFiles(files)
  BY <1>1 DEF Shape, AreFiles
<1>4. r # Idle
  BY <1>0 DEF At, Idle
<1>5. upgrade' = Goes(upgrade, u, "aside") /\ files' = Removed(<<r.bin, "old">>) /\ UNCHANGED scratch
  BY <1>0, <1>1, <1>4, AloneWrites DEF ClearWay, At
<1>6. /\ upgrade' = [v \in Upgraders |-> upgrade'[v]]
      /\ \A v \in Upgraders : v # u => upgrade'[v] = upgrade[v]
      /\ Alike(upgrade'[u], r) /\ upgrade'[u].target = r.target
      /\ upgrade'[u].pc = "aside" /\ upgrade'[u].outcome = r.outcome /\ upgrade'[u].had = r.had
  BY <1>1, <1>5, Going
<1>9. AreFiles(files') /\ files'[<<"phs", "exe">>] = files[<<"phs", "exe">>]
  BY <1>1, <1>2, <1>5, RemovesBeside DEF Binaries, Extensions
<1>7. r.bin = "phs" => SoundPhs(upgrade'[u], files', scratch[u])
  <2> SUFFICES ASSUME r.bin = "phs" PROVE SoundPhs(upgrade'[u], files', scratch[u])
    OBVIOUS
  <2>1. files[<<"phs", "exe">>] = Whole(r.running)
    BY <1>0, <1>2 DEF SoundPhs, At, Untouched
  <2>3. Got(upgrade'[u], scratch[u]) = Got(r, scratch[u])
    BY <1>6 DEF Got, Alike
  <2> QED
    BY <1>0, <1>2, <1>9, <1>6, <2>1, <2>3 DEF SoundPhs, At, Alike, MovedAside, Replacing
<1>8. "aside" \in Untouched /\ "aside" \notin After /\ "clear" \notin After
  BY DEF Untouched, After
<1> HIDE DEF r
<1> QED
  BY <1>0, <1>5, <1>6, <1>7, <1>8, <1>9, StepKeeps DEF r
LEMMA MoveAsideKeeps ==
  ASSUME KeptInv, Clean, NEW u \in Upgraders, MoveAside(u)
  PROVE  KeptInv'
<1> DEFINE r == upgrade[u]
<1>0. At(u, "aside")
  BY DEF MoveAside
<1>1. /\ Sound(r, files, scratch[u], history) /\ Shape /\ DOMAIN r = Fields
      /\ Installed(u) = <<r.bin, "exe">> /\ Staged(u) = <<r.bin, "new">> /\ Stale(u) = <<r.bin, "old">>
  BY <1>0, Alone
<1>2. r.bin \in Binaries /\ (r.bin = "phs" => SoundPhs(r, files, scratch[u])) /\ (r.bin = "lsp" => SoundLsp(r, files))
  BY <1>0, <1>1 DEF Sound, At, After
<1>3. AreFiles(files)
  BY <1>1 DEF Shape, AreFiles
<1>4. r # Idle
  BY <1>0 DEF At, Idle
<1>5. upgrade' = Goes(upgrade, u, "open") /\ files' = Renamed(<<r.bin, "exe">>, <<r.bin, "old">>) /\ UNCHANGED scratch
  BY <1>0, <1>1, <1>4, AloneWrites DEF MoveAside, At
<1>6. /\ upgrade' = [v \in Upgraders |-> upgrade'[v]]
      /\ \A v \in Upgraders : v # u => upgrade'[v] = upgrade[v]
      /\ Alike(upgrade'[u], r) /\ upgrade'[u].target = r.target
      /\ upgrade'[u].pc = "open" /\ upgrade'[u].outcome = r.outcome /\ upgrade'[u].had = r.had
  BY <1>1, <1>5, Going
<1>9. /\ AreFiles(files')
      /\ r.bin = "lsp" => files'[<<"phs", "exe">>] = files[<<"phs", "exe">>]
      /\ r.bin = "phs" => files'[<<"phs", "old">>] = files[<<"phs", "exe">>]
  BY <1>1, <1>2, <1>5, RenamesBeside DEF Extensions
<1>7. r.bin = "phs" => SoundPhs(upgrade'[u], files', scratch[u])
  <2> SUFFICES ASSUME r.bin = "phs" PROVE SoundPhs(upgrade'[u], files', scratch[u])
    OBVIOUS
  <2>1. files[<<"phs", "exe">>] = Whole(r.running)
    BY <1>0, <1>2 DEF SoundPhs, At, Untouched
  <2>3. Got(upgrade'[u], scratch[u]) = Got(r, scratch[u])
    BY <1>6 DEF Got, Alike
  <2> QED
    BY <1>0, <1>2, <1>9, <1>6, <2>1, <2>3 DEF SoundPhs, At, Alike, Untouched, Replacing
<1>8. "open" \in MovedAside /\ "open" \notin After /\ "aside" \notin After
  BY DEF MovedAside, After
<1> HIDE DEF r
<1> QED
  BY <1>0, <1>5, <1>6, <1>7, <1>8, <1>9, StepKeeps DEF r
LEMMA MoveAsideFailsKeeps ==
  ASSUME KeptInv, Clean, NEW u \in Upgraders, MoveAsideFails(u)
  PROVE  KeptInv'
<1> DEFINE r == upgrade[u]
<1>0. At(u, "aside")
  BY DEF MoveAsideFails
<1>1. /\ Sound(r, files, scratch[u], history) /\ Shape /\ DOMAIN r = Fields
      /\ Installed(u) = <<r.bin, "exe">> /\ Staged(u) = <<r.bin, "new">> /\ Stale(u) = <<r.bin, "old">>
  BY <1>0, Alone
<1>2. r.bin \in Binaries /\ (r.bin = "phs" => SoundPhs(r, files, scratch[u])) /\ (r.bin = "lsp" => SoundLsp(r, files))
  BY <1>0, <1>1 DEF Sound, At, After
<1>3. AreFiles(files)
  BY <1>1 DEF Shape, AreFiles
<1>5. upgrade' = Failed(u) /\ UNCHANGED <<files, scratch>>
  BY DEF MoveAsideFails
<1>6. /\ upgrade' = [v \in Upgraders |-> upgrade'[v]]
      /\ \A v \in Upgraders : v # u => upgrade'[v] = upgrade[v]
      /\ Alike(upgrade'[u], r) /\ upgrade'[u].target = r.target
      /\ upgrade'[u].pc = "cleanup"
      /\ r.bin = "lsp" => upgrade'[u].outcome = r.outcome
      /\ r.bin = "phs" => upgrade'[u].outcome = "failed"
  BY <1>1, <1>5, Failing
<1>7. r.bin = "phs" => SoundAfter(upgrade'[u], files', history')
  <2> SUFFICES ASSUME r.bin = "phs" PROVE SoundAfter(upgrade'[u], files', history')
    OBVIOUS
  <2>1. files[<<"phs", "exe">>] = Whole(r.running)
    BY <1>0, <1>2 DEF SoundPhs, At, Untouched
  <2> QED
    BY <1>5, <1>6, <2>1, WholeIsWhole DEF SoundAfter, Alike
<1>8. "cleanup" \in After /\ "aside" \notin After
  BY DEF After
<1> HIDE DEF r
<1> QED
  BY <1>0, <1>3, <1>5, <1>6, <1>7, <1>8, StepKeeps DEF r

LEMMA FetchedIsFile ==
  ASSUME Shape, NEW u \in Upgraders, upgrade[u].bin \in Binaries
  PROVE  IsFile(Fetched(u)) /\ (upgrade[u].bin = "phs" => Fetched(u) = Got(upgrade[u], scratch[u]))
<1>1. Download(u, upgrade[u].bin) \in Downloads
  BY DEF Download, Downloads
<1> QED
  BY <1>1 DEF Fetched, Shape, Got, Download

LEMMA OpenStagedKeeps ==
  ASSUME KeptInv, Clean, NEW u \in Upgraders, OpenStaged(u)
  PROVE  KeptInv'
<1> DEFINE r == upgrade[u]
<1>0. At(u, "open")
  BY DEF OpenStaged
<1>1. /\ Sound(r, files, scratch[u], history) /\ Shape /\ DOMAIN r = Fields
      /\ Installed(u) = <<r.bin, "exe">> /\ Staged(u) = <<r.bin, "new">> /\ Stale(u) = <<r.bin, "old">>
  BY <1>0, Alone
<1>2. r.bin \in Binaries /\ (r.bin = "phs" => SoundPhs(r, files, scratch[u])) /\ (r.bin = "lsp" => SoundLsp(r, files))
  BY <1>0, <1>1 DEF Sound, At, After
<1>3. DOMAIN files = Paths /\ \A path \in Paths : IsFile(files[path])
  BY <1>1 DEF Shape
<1>4. upgrade = [v \in Upgraders |-> upgrade[v]]
  BY <1>1 DEF Shape
<1>5. upgrade' = [upgrade EXCEPT ![u] = [r EXCEPT !.pc = "write", !.fd = Staged(u)]]
      /\ files' = [files EXCEPT ![<<r.bin, "new">>] = Partial] /\ Fetched(u).there /\ UNCHANGED scratch
  BY <1>1 DEF OpenStaged
<1>6. /\ upgrade' = [v \in Upgraders |-> upgrade'[v]]
      /\ \A v \in Upgraders : v # u => upgrade'[v] = upgrade[v]
      /\ Alike(upgrade'[u], r) /\ upgrade'[u].target = r.target
      /\ upgrade'[u].pc = "write" /\ upgrade'[u].outcome = r.outcome /\ upgrade'[u].had = r.had
      /\ upgrade'[u].fd = <<r.bin, "new">>
  BY <1>1, <1>4, <1>5 DEF Alike, Fields
<1>9. /\ AreFiles(files')
      /\ r.bin = "lsp" => files'[<<"phs", "exe">>] = files[<<"phs", "exe">>]
      /\ r.bin = "phs" => files'[<<"phs", "old">>] = files[<<"phs", "old">>]
  <2> DEFINE b == r.bin
  <2>1. b \in Binaries /\ {"old", "new"} \subseteq Extensions /\ IsFile(Partial)
    BY <1>2, FilesAreFiles DEF Extensions
  <2>2. /\ AreFiles(Written(<<b, "new">>, Partial))
        /\ b = "lsp" => Written(<<b, "new">>, Partial)[<<"phs", "exe">>] = files[<<"phs", "exe">>]
        /\ Written(<<b, "new">>, Partial)[<<b, "old">>] = files[<<b, "old">>]
    <3> HIDE DEF b
    <3> QED
      BY <1>1, <2>1, WritesBeside
  <2> QED
    BY <1>5, <2>2 DEF Written
<1>7. r.bin = "phs" => SoundPhs(upgrade'[u], files', scratch[u])
  <2> SUFFICES ASSUME r.bin = "phs" PROVE SoundPhs(upgrade'[u], files', scratch[u])
    OBVIOUS
  <2>1. files[<<"phs", "old">>] = Whole(r.running) /\ r.had
    BY <1>0, <1>2 DEF SoundPhs, At, MovedAside
  <2>2. Got(upgrade'[u], scratch[u]) = Got(r, scratch[u]) /\ Got(r, scratch[u]).there
    BY <1>1, <1>2, <1>5, <1>6, FetchedIsFile DEF Got, Alike
  <2> QED
    BY <1>0, <1>1, <1>2, <1>5, <1>6, <1>9, <2>1, <2>2 DEF SoundPhs, At, Alike, Untouched, Replacing
<1>8. "write" \in Untouched \cup MovedAside \cup Replacing \cup After /\ "open" \notin After
      /\ "write" \notin After
  BY DEF Untouched, MovedAside, Replacing, After
<1> HIDE DEF r
<1> QED
  BY <1>0, <1>5, <1>6, <1>7, <1>8, <1>9, StepKeeps DEF r
LEMMA WriteStagedKeeps ==
  ASSUME KeptInv, Clean, NEW u \in Upgraders, WriteStaged(u)
  PROVE  KeptInv'
<1> DEFINE r == upgrade[u]
<1>0. At(u, "write")
  BY DEF WriteStaged
<1>1. /\ Sound(r, files, scratch[u], history) /\ Shape /\ DOMAIN r = Fields
      /\ Installed(u) = <<r.bin, "exe">> /\ Staged(u) = <<r.bin, "new">> /\ Stale(u) = <<r.bin, "old">>
  BY <1>0, Alone
<1>2. r.bin \in Binaries /\ (r.bin = "phs" => SoundPhs(r, files, scratch[u])) /\ (r.bin = "lsp" => SoundLsp(r, files))
  BY <1>0, <1>1 DEF Sound, At, After
<1>3. DOMAIN files = Paths /\ \A path \in Paths : IsFile(files[path])
  BY <1>1 DEF Shape
<1>4. r # Idle
  BY <1>0 DEF At, Idle
<1>5. /\ upgrade' = Goes(upgrade, u, "swap")
      /\ files' = [files EXCEPT ![<<r.bin, "new">>] = Fetched(u)] /\ UNCHANGED scratch
  <2>1. r.fd = <<r.bin, "new">> /\ r.fd # Closed
    BY <1>0, <1>1, <1>2 DEF Sound, At, Closed, Binaries
  <2>2. WritersOf(r.fd) = {u}
    BY <1>0, <1>4, AloneWrites DEF WritersOf, At
  <2> QED
    BY <2>1, <2>2 DEF WriteStaged, GoTo
<1>6. /\ upgrade' = [v \in Upgraders |-> upgrade'[v]]
      /\ \A v \in Upgraders : v # u => upgrade'[v] = upgrade[v]
      /\ Alike(upgrade'[u], r) /\ upgrade'[u].target = r.target
      /\ upgrade'[u].pc = "swap" /\ upgrade'[u].outcome = r.outcome /\ upgrade'[u].had = r.had
  BY <1>1, <1>5, Going
<1>9. /\ AreFiles(files')
      /\ r.bin = "lsp" => files'[<<"phs", "exe">>] = files[<<"phs", "exe">>]
      /\ r.bin = "phs" => files'[<<"phs", "old">>] = files[<<"phs", "old">>]
                          /\ files'[<<"phs", "new">>] = Got(r, scratch[u])
  <2> DEFINE b == r.bin  x == Fetched(u)
  <2>1. b \in Binaries /\ {"old", "new"} \subseteq Extensions /\ IsFile(x) /\ (b = "phs" => x = Got(r, scratch[u]))
    BY <1>1, <1>2, FetchedIsFile DEF Extensions
  <2>2. /\ AreFiles(Written(<<b, "new">>, x))
        /\ b = "lsp" => Written(<<b, "new">>, x)[<<"phs", "exe">>] = files[<<"phs", "exe">>]
        /\ Written(<<b, "new">>, x)[<<b, "old">>] = files[<<b, "old">>]
        /\ Written(<<b, "new">>, x)[<<b, "new">>] = x
    <3> HIDE DEF b, x
    <3> QED
      BY <1>1, <2>1, WritesBeside
  <2> QED
    BY <1>5, <2>1, <2>2 DEF Written
<1>7. r.bin = "phs" => SoundPhs(upgrade'[u], files', scratch[u])
  <2> SUFFICES ASSUME r.bin = "phs" PROVE SoundPhs(upgrade'[u], files', scratch[u])
    OBVIOUS
  <2>1. files[<<"phs", "old">>] = Whole(r.running) /\ r.had
    BY <1>0, <1>2 DEF SoundPhs, At, MovedAside
  <2> QED
    BY <1>0, <1>1, <1>2, <1>5, <1>6, <1>9, <2>1 DEF SoundPhs, At, Alike, Untouched, Replacing
<1>8. "swap" \in Untouched \cup MovedAside \cup Replacing \cup After /\ "write" \notin After
      /\ "swap" \notin After
  BY DEF Untouched, MovedAside, Replacing, After
<1> HIDE DEF r
<1> QED
  BY <1>0, <1>5, <1>6, <1>7, <1>8, <1>9, StepKeeps DEF r
LEMMA CopyFailsKeeps ==
  ASSUME KeptInv, Clean, NEW u \in Upgraders, CopyFails(u)
  PROVE  KeptInv'
<1> DEFINE r == upgrade[u]
<1>0. At(u, "open") \/ At(u, "write")
  BY DEF CopyFails
<1>1. /\ Sound(r, files, scratch[u], history) /\ Shape /\ DOMAIN r = Fields
      /\ Installed(u) = <<r.bin, "exe">> /\ Staged(u) = <<r.bin, "new">> /\ Stale(u) = <<r.bin, "old">>
  BY <1>0, Alone
<1>2. r.bin \in Binaries /\ (r.bin = "phs" => SoundPhs(r, files, scratch[u])) /\ (r.bin = "lsp" => SoundLsp(r, files))
  BY <1>0, <1>1 DEF Sound, At, After
<1>3. DOMAIN files = Paths /\ \A path \in Paths : IsFile(files[path])
  BY <1>1 DEF Shape
<1>5. upgrade' = Goes(upgrade, u, "undo") /\ UNCHANGED <<files, scratch>>
  BY DEF CopyFails, GoTo
<1>6. /\ upgrade' = [v \in Upgraders |-> upgrade'[v]]
      /\ \A v \in Upgraders : v # u => upgrade'[v] = upgrade[v]
      /\ Alike(upgrade'[u], r) /\ upgrade'[u].target = r.target
      /\ upgrade'[u].pc = "undo" /\ upgrade'[u].outcome = r.outcome /\ upgrade'[u].had = r.had
  BY <1>1, <1>5, Going
<1>7. r.bin = "phs" => SoundPhs(upgrade'[u], files', scratch[u])
  <2> SUFFICES ASSUME r.bin = "phs" PROVE SoundPhs(upgrade'[u], files', scratch[u])
    OBVIOUS
  <2>1. files[<<"phs", "old">>] = Whole(r.running) /\ r.had
    BY <1>0, <1>2 DEF SoundPhs, At, MovedAside
  <2> QED
    BY <1>0, <1>2, <1>5, <1>6, <2>1 DEF SoundPhs, At, Alike, Untouched, Replacing
<1>8. "undo" \in Untouched \cup MovedAside \cup Replacing \cup After /\ "open" \notin After /\ "write" \notin After
      /\ "undo" \notin After
  BY DEF Untouched, MovedAside, Replacing, After
<1>9. AreFiles(files') /\ files'[<<"phs", "exe">>] = files[<<"phs", "exe">>] /\ UNCHANGED scratch
  BY <1>3, <1>5 DEF AreFiles
<1>10. PICK pc \in {"open", "write"} : At(u, pc)
  BY <1>0
<1> HIDE DEF r
<1> QED
  BY <1>10, <1>6, <1>7, <1>8, <1>9, StepKeeps DEF r
LEMMA SwapFailsKeeps ==
  ASSUME KeptInv, Clean, NEW u \in Upgraders, SwapFails(u)
  PROVE  KeptInv'
<1> DEFINE r == upgrade[u]
<1>0. At(u, "swap")
  BY DEF SwapFails
<1>1. /\ Sound(r, files, scratch[u], history) /\ Shape /\ DOMAIN r = Fields
      /\ Installed(u) = <<r.bin, "exe">> /\ Staged(u) = <<r.bin, "new">> /\ Stale(u) = <<r.bin, "old">>
  BY <1>0, Alone
<1>2. r.bin \in Binaries /\ (r.bin = "phs" => SoundPhs(r, files, scratch[u])) /\ (r.bin = "lsp" => SoundLsp(r, files))
  BY <1>0, <1>1 DEF Sound, At, After
<1>3. DOMAIN files = Paths /\ \A path \in Paths : IsFile(files[path])
  BY <1>1 DEF Shape
<1>5. upgrade' = Goes(upgrade, u, "undo") /\ UNCHANGED <<files, scratch>>
  BY DEF SwapFails, GoTo
<1>6. /\ upgrade' = [v \in Upgraders |-> upgrade'[v]]
      /\ \A v \in Upgraders : v # u => upgrade'[v] = upgrade[v]
      /\ Alike(upgrade'[u], r) /\ upgrade'[u].target = r.target
      /\ upgrade'[u].pc = "undo" /\ upgrade'[u].outcome = r.outcome /\ upgrade'[u].had = r.had
  BY <1>1, <1>5, Going
<1>7. r.bin = "phs" => SoundPhs(upgrade'[u], files', scratch[u])
  <2> SUFFICES ASSUME r.bin = "phs" PROVE SoundPhs(upgrade'[u], files', scratch[u])
    OBVIOUS
  <2>1. files[<<"phs", "old">>] = Whole(r.running) /\ r.had
    BY <1>0, <1>2 DEF SoundPhs, At, MovedAside
  <2> QED
    BY <1>0, <1>2, <1>5, <1>6, <2>1 DEF SoundPhs, At, Alike, Untouched, Replacing
<1>8. "undo" \in Untouched \cup MovedAside \cup Replacing \cup After /\ "swap" \notin After
      /\ "undo" \notin After
  BY DEF Untouched, MovedAside, Replacing, After
<1>9. AreFiles(files') /\ files'[<<"phs", "exe">>] = files[<<"phs", "exe">>] /\ UNCHANGED scratch
  BY <1>3, <1>5 DEF AreFiles
<1>10. PICK pc \in {"swap"} : At(u, pc)
  BY <1>0
<1> HIDE DEF r
<1> QED
  BY <1>10, <1>6, <1>7, <1>8, <1>9, StepKeeps DEF r
LEMMA SwapKeeps ==
  ASSUME KeptInv, Clean, NEW u \in Upgraders, Swap(u)
  PROVE  KeptInv'
<1> DEFINE r == upgrade[u]
<1>0. At(u, "swap")
  BY DEF Swap
<1>1. /\ Sound(r, files, scratch[u], history) /\ Shape /\ DOMAIN r = Fields
      /\ Installed(u) = <<r.bin, "exe">> /\ Staged(u) = <<r.bin, "new">> /\ Stale(u) = <<r.bin, "old">>
  BY <1>0, Alone
<1>2. r.bin \in Binaries /\ (r.bin = "phs" => SoundPhs(r, files, scratch[u])) /\ (r.bin = "lsp" => SoundLsp(r, files))
  BY <1>0, <1>1 DEF Sound, At, After
<1>3. DOMAIN files = Paths /\ \A path \in Paths : IsFile(files[path])
  BY <1>1 DEF Shape
<1>4. r # Idle
  BY <1>0 DEF At, Idle
<1>5. /\ upgrade' = Goes(upgrade, u, "discard")
      /\ files' = Renamed(<<r.bin, "new">>, <<r.bin, "exe">>) /\ UNCHANGED scratch
  BY <1>0, <1>1, <1>4, AloneWrites DEF Swap, At
<1>6. /\ upgrade' = [v \in Upgraders |-> upgrade'[v]]
      /\ \A v \in Upgraders : v # u => upgrade'[v] = upgrade[v]
      /\ Alike(upgrade'[u], r) /\ upgrade'[u].target = r.target
      /\ upgrade'[u].pc = "discard" /\ upgrade'[u].outcome = r.outcome /\ upgrade'[u].had = r.had
  BY <1>1, <1>5, Going
<1>9. /\ AreFiles(files')
      /\ r.bin = "lsp" => files'[<<"phs", "exe">>] = files[<<"phs", "exe">>]
      /\ r.bin = "phs" => files'[<<"phs", "exe">>] = files[<<"phs", "new">>]
  BY <1>1, <1>2, <1>5, RenamesBeside DEF Extensions
<1>7. r.bin = "phs" => SoundPhs(upgrade'[u], files', scratch[u])
  <2> SUFFICES ASSUME r.bin = "phs" PROVE SoundPhs(upgrade'[u], files', scratch[u])
    OBVIOUS
  <2> QED
    BY <1>0, <1>2, <1>6, <1>9 DEF SoundPhs, At, Alike, Untouched, MovedAside
<1>8. "discard" \in Untouched \cup MovedAside \cup Replacing \cup After /\ "swap" \notin After
      /\ "discard" \notin After
  BY DEF Untouched, MovedAside, Replacing, After
<1> HIDE DEF r
<1> QED
  BY <1>0, <1>5, <1>6, <1>7, <1>8, <1>9, StepKeeps DEF r
LEMMA UndoKeeps ==
  ASSUME KeptInv, Clean, NEW u \in Upgraders, Undo(u)
  PROVE  KeptInv'
<1> DEFINE r == upgrade[u]
<1>0. At(u, "undo")
  BY DEF Undo
<1>1. /\ Sound(r, files, scratch[u], history) /\ Shape /\ DOMAIN r = Fields
      /\ Installed(u) = <<r.bin, "exe">> /\ Staged(u) = <<r.bin, "new">> /\ Stale(u) = <<r.bin, "old">>
  BY <1>0, Alone
<1>2. r.bin \in Binaries /\ (r.bin = "phs" => SoundPhs(r, files, scratch[u])) /\ (r.bin = "lsp" => SoundLsp(r, files))
  BY <1>0, <1>1 DEF Sound, At, After
<1>3. DOMAIN files = Paths /\ \A path \in Paths : IsFile(files[path])
  BY <1>1 DEF Shape
<1>4. r # Idle
  BY <1>0 DEF At, Idle
<1>5. /\ upgrade' = Goes(upgrade, u, "restore")
      /\ files' = Removed(<<r.bin, "new">>) /\ UNCHANGED scratch
  BY <1>0, <1>1, <1>4, AloneWrites DEF Undo, At
<1>6. /\ upgrade' = [v \in Upgraders |-> upgrade'[v]]
      /\ \A v \in Upgraders : v # u => upgrade'[v] = upgrade[v]
      /\ Alike(upgrade'[u], r) /\ upgrade'[u].target = r.target
      /\ upgrade'[u].pc = "restore" /\ upgrade'[u].outcome = r.outcome /\ upgrade'[u].had = r.had
  BY <1>1, <1>5, Going
<1>9. /\ AreFiles(files')
      /\ r.bin = "lsp" => files'[<<"phs", "exe">>] = files[<<"phs", "exe">>]
      /\ r.bin = "phs" => files'[<<"phs", "old">>] = files[<<"phs", "old">>]
  BY <1>1, <1>2, <1>5, RemovesBeside DEF Extensions
<1>7. r.bin = "phs" => SoundPhs(upgrade'[u], files', scratch[u])
  <2> SUFFICES ASSUME r.bin = "phs" PROVE SoundPhs(upgrade'[u], files', scratch[u])
    OBVIOUS
  <2>1. files[<<"phs", "old">>] = Whole(r.running) /\ r.had
    BY <1>0, <1>2 DEF SoundPhs, At, MovedAside
  <2> QED
    BY <1>0, <1>2, <1>6, <1>9, <2>1 DEF SoundPhs, At, Alike, Untouched, Replacing
<1>8. "restore" \in Untouched \cup MovedAside \cup Replacing \cup After /\ "undo" \notin After
      /\ "restore" \notin After
  BY DEF Untouched, MovedAside, Replacing, After
<1> HIDE DEF r
<1> QED
  BY <1>0, <1>5, <1>6, <1>7, <1>8, <1>9, StepKeeps DEF r
LEMMA RestoreKeeps ==
  ASSUME KeptInv, Clean, NEW u \in Upgraders, Restore(u)
  PROVE  KeptInv'
<1> DEFINE r == upgrade[u]
<1>0. At(u, "restore")
  BY DEF Restore
<1>1. /\ Sound(r, files, scratch[u], history) /\ Shape /\ DOMAIN r = Fields
      /\ Installed(u) = <<r.bin, "exe">> /\ Staged(u) = <<r.bin, "new">> /\ Stale(u) = <<r.bin, "old">>
  BY <1>0, Alone
<1>2. r.bin \in Binaries /\ (r.bin = "phs" => SoundPhs(r, files, scratch[u])) /\ (r.bin = "lsp" => SoundLsp(r, files))
  BY <1>0, <1>1 DEF Sound, At, After
<1>3. DOMAIN files = Paths /\ \A path \in Paths : IsFile(files[path])
  BY <1>1 DEF Shape
<1>4. r # Idle
  BY <1>0 DEF At, Idle
<1>5. /\ upgrade' = Failed(u)
      /\ files' = Renamed(<<r.bin, "old">>, <<r.bin, "exe">>) /\ UNCHANGED scratch
  <2>1. upgrade' = [upgrade EXCEPT ![u] = Failed(u)[u]]
    BY <1>0, <1>1, <1>4, AloneWrites DEF Restore, At
  <2>2. upgrade' = Failed(u)
    <3>1. upgrade = [v \in Upgraders |-> upgrade[v]]
      BY <1>1 DEF Shape
    <3>2. upgrade' = [v \in Upgraders |-> IF v = u THEN Failed(u)[u] ELSE upgrade[v]]
      BY <2>1, <3>1
    <3>3. Failed(u) = [v \in Upgraders |-> Failed(u)[v]]
          /\ \A v \in Upgraders : v # u => Failed(u)[v] = upgrade[v]
      BY <1>1, Failing
    <3>4. Failed(u) = [v \in Upgraders |-> IF v = u THEN Failed(u)[u] ELSE upgrade[v]]
      BY <3>3
    <3> QED
      BY <3>2, <3>4
  <2> QED
    BY <1>1, <2>2 DEF Restore
<1>6. /\ upgrade' = [v \in Upgraders |-> upgrade'[v]]
      /\ \A v \in Upgraders : v # u => upgrade'[v] = upgrade[v]
      /\ Alike(upgrade'[u], r) /\ upgrade'[u].target = r.target
      /\ upgrade'[u].pc = "cleanup"
      /\ r.bin = "lsp" => upgrade'[u].outcome = r.outcome
      /\ r.bin = "phs" => upgrade'[u].outcome = "failed"
  BY <1>1, <1>5, Failing
<1>9. /\ AreFiles(files')
      /\ r.bin = "lsp" => files'[<<"phs", "exe">>] = files[<<"phs", "exe">>]
      /\ r.bin = "phs" => files'[<<"phs", "exe">>] = files[<<"phs", "old">>]
  BY <1>1, <1>2, <1>5, RenamesBeside DEF Extensions
<1>7. r.bin = "phs" => SoundAfter(upgrade'[u], files', history')
  <2> SUFFICES ASSUME r.bin = "phs" PROVE SoundAfter(upgrade'[u], files', history')
    OBVIOUS
  <2>1. files[<<"phs", "old">>] = Whole(r.running) /\ r.had
    BY <1>0, <1>2 DEF SoundPhs, At, MovedAside
  <2> QED
    BY <1>6, <1>9, <2>1, WholeIsWhole DEF SoundAfter, Alike
<1>8. "cleanup" \in Untouched \cup MovedAside \cup Replacing \cup After /\ "restore" \notin After
      /\ "cleanup" \in After
  BY DEF Untouched, MovedAside, Replacing, After
<1> HIDE DEF r
<1> QED
  BY <1>0, <1>5, <1>6, <1>7, <1>8, <1>9, StepKeeps DEF r
LEMMA RestoreFailsKeeps ==
  ASSUME KeptInv, Clean, NEW u \in Upgraders, RestoreFails(u)
  PROVE  KeptInv'
<1> DEFINE r == upgrade[u]
<1>0. At(u, "restore")
  BY DEF RestoreFails
<1>1. /\ Sound(r, files, scratch[u], history) /\ Shape /\ DOMAIN r = Fields
      /\ Installed(u) = <<r.bin, "exe">> /\ Staged(u) = <<r.bin, "new">> /\ Stale(u) = <<r.bin, "old">>
  BY <1>0, Alone
<1>2. r.bin \in Binaries /\ (r.bin = "phs" => SoundPhs(r, files, scratch[u])) /\ (r.bin = "lsp" => SoundLsp(r, files))
  BY <1>0, <1>1 DEF Sound, At, After
<1>3. DOMAIN files = Paths /\ \A path \in Paths : IsFile(files[path])
  BY <1>1 DEF Shape
<1>5. upgrade' = Failed(u) /\ UNCHANGED <<files, scratch>>
  BY DEF RestoreFails
<1>6. /\ upgrade' = [v \in Upgraders |-> upgrade'[v]]
      /\ \A v \in Upgraders : v # u => upgrade'[v] = upgrade[v]
      /\ Alike(upgrade'[u], r) /\ upgrade'[u].target = r.target
      /\ upgrade'[u].pc = "cleanup"
      /\ r.bin = "lsp" => upgrade'[u].outcome = r.outcome
      /\ r.bin = "phs" => upgrade'[u].outcome = "failed"
  BY <1>1, <1>5, Failing
<1>7. r.bin = "phs" => SoundAfter(upgrade'[u], files', history')
  <2> SUFFICES ASSUME r.bin = "phs" PROVE SoundAfter(upgrade'[u], files', history')
    OBVIOUS
  <2>1. files[<<"phs", "old">>] = Whole(r.running) /\ r.had
    BY <1>0, <1>2 DEF SoundPhs, At, MovedAside
  <2>2. "unrestored" \in history'
    BY <1>1, <2>1, WholeIsWhole DEF RestoreFails, Exists
  <2> QED
    BY <1>5, <1>6, <2>1, <2>2, WholeIsWhole DEF SoundAfter, Alike
<1>8. "cleanup" \in Untouched \cup MovedAside \cup Replacing \cup After /\ "restore" \notin After
      /\ "cleanup" \in After
  BY DEF Untouched, MovedAside, Replacing, After
<1>9. AreFiles(files') /\ files'[<<"phs", "exe">>] = files[<<"phs", "exe">>] /\ UNCHANGED scratch
  BY <1>3, <1>5 DEF AreFiles
<1>10. PICK pc \in {"restore"} : At(u, pc)
  BY <1>0
<1> HIDE DEF r
<1> QED
  BY <1>10, <1>6, <1>7, <1>8, <1>9, StepKeeps DEF r

LEMMA ParentFailsKeeps ==
  ASSUME KeptInv, Clean, NEW u \in Upgraders, ParentFails(u)
  PROVE  KeptInv'
<1> DEFINE r == upgrade[u]
<1>0. At(u, "open")
  BY DEF ParentFails
<1>1. /\ Sound(r, files, scratch[u], history) /\ Shape /\ DOMAIN r = Fields
      /\ Installed(u) = <<r.bin, "exe">> /\ Staged(u) = <<r.bin, "new">> /\ Stale(u) = <<r.bin, "old">>
  BY <1>0, Alone
<1>2. r.bin \in Binaries /\ (r.bin = "phs" => SoundPhs(r, files, scratch[u])) /\ (r.bin = "lsp" => SoundLsp(r, files))
  BY <1>0, <1>1 DEF Sound, At, After
<1>3. DOMAIN files = Paths /\ \A path \in Paths : IsFile(files[path])
  BY <1>1 DEF Shape
<1>5. upgrade' = Failed(u) /\ UNCHANGED <<files, scratch>>
  BY DEF ParentFails
<1>6. /\ upgrade' = [v \in Upgraders |-> upgrade'[v]]
      /\ \A v \in Upgraders : v # u => upgrade'[v] = upgrade[v]
      /\ Alike(upgrade'[u], r) /\ upgrade'[u].target = r.target
      /\ upgrade'[u].pc = "cleanup"
      /\ r.bin = "lsp" => upgrade'[u].outcome = r.outcome
      /\ r.bin = "phs" => upgrade'[u].outcome = "failed"
  BY <1>1, <1>5, Failing
<1>7. r.bin = "phs" => SoundAfter(upgrade'[u], files', history')
  <2> SUFFICES ASSUME r.bin = "phs" PROVE SoundAfter(upgrade'[u], files', history')
    OBVIOUS
  <2>1. files[<<"phs", "old">>] = Whole(r.running) /\ r.had
    BY <1>0, <1>2 DEF SoundPhs, At, MovedAside
  <2>2. "unrestored" \in history'
    BY <1>1, <2>1, WholeIsWhole DEF ParentFails, Exists
  <2> QED
    BY <1>5, <1>6, <2>1, <2>2, WholeIsWhole DEF SoundAfter, Alike
<1>8. "cleanup" \in Untouched \cup MovedAside \cup Replacing \cup After /\ "open" \notin After
      /\ "cleanup" \in After
  BY DEF Untouched, MovedAside, Replacing, After
<1>9. AreFiles(files') /\ files'[<<"phs", "exe">>] = files[<<"phs", "exe">>] /\ UNCHANGED scratch
  BY <1>3, <1>5 DEF AreFiles
<1>10. PICK pc \in {"open"} : At(u, pc)
  BY <1>0
<1> HIDE DEF r
<1> QED
  BY <1>10, <1>6, <1>7, <1>8, <1>9, StepKeeps DEF r

LEMMA ReplacedIs ==
  ASSUME Shape, NEW u \in Upgraders, DOMAIN upgrade[u] = Fields, upgrade[u].bin \in Binaries
  PROVE  LET q == Replaced(upgrade, u)[u] IN
         /\ Replaced(upgrade, u) = [v \in Upgraders |-> Replaced(upgrade, u)[v]]
         /\ \A v \in Upgraders : v # u => Replaced(upgrade, u)[v] = upgrade[v]
         /\ Alike(q, upgrade[u]) /\ q.target = upgrade[u].target
         /\ upgrade[u].bin = "phs" => q.pc = "lsp" /\ q.outcome = "updated"
         /\ upgrade[u].bin = "lsp" => q.pc = "cleanup" /\ q.outcome = upgrade[u].outcome
<1>1. CASE upgrade[u].bin = "lsp"
  BY <1>1, Going DEF Replaced
<1>2. CASE upgrade[u].bin = "phs"
  <2>1. upgrade = [v \in Upgraders |-> upgrade[v]]
    BY DEF Shape
  <2>2. Replaced(upgrade, u) = [upgrade EXCEPT ![u] = [upgrade[u] EXCEPT !.pc = "lsp", !.outcome = "updated"]]
    BY <1>2 DEF Replaced
  <2> QED
    BY <1>2, <2>1, <2>2 DEF Alike, Fields
<1> QED
  BY <1>1, <1>2 DEF Binaries

LEMMA DiscardKeeps ==
  ASSUME KeptInv, Clean, NEW u \in Upgraders, Discard(u)
  PROVE  KeptInv'
<1> DEFINE r == upgrade[u]
<1>0. At(u, "discard")
  BY DEF Discard
<1>1. /\ Sound(r, files, scratch[u], history) /\ Shape /\ DOMAIN r = Fields
      /\ Installed(u) = <<r.bin, "exe">> /\ Staged(u) = <<r.bin, "new">> /\ Stale(u) = <<r.bin, "old">>
  BY <1>0, Alone
<1>2. r.bin \in Binaries /\ (r.bin = "phs" => SoundPhs(r, files, scratch[u])) /\ (r.bin = "lsp" => SoundLsp(r, files))
  BY <1>0, <1>1 DEF Sound, At, After
<1>3. DOMAIN files = Paths /\ \A path \in Paths : IsFile(files[path])
  BY <1>1 DEF Shape
<1>4. r # Idle
  BY <1>0 DEF At, Idle
<1>5. upgrade' = Replaced(upgrade, u) /\ files' = Removed(<<r.bin, "old">>) /\ UNCHANGED scratch
  BY <1>0, <1>1, <1>4, AloneWrites DEF Discard, At
<1>6. /\ upgrade' = [v \in Upgraders |-> upgrade'[v]]
      /\ \A v \in Upgraders : v # u => upgrade'[v] = upgrade[v]
      /\ Alike(upgrade'[u], r) /\ upgrade'[u].target = r.target
      /\ r.bin = "phs" => upgrade'[u].pc = "lsp" /\ upgrade'[u].outcome = "updated"
      /\ r.bin = "lsp" => upgrade'[u].pc = "cleanup" /\ upgrade'[u].outcome = r.outcome
  BY <1>1, <1>2, <1>5, ReplacedIs
<1>9. AreFiles(files') /\ files'[<<"phs", "exe">>] = files[<<"phs", "exe">>]
  BY <1>1, <1>2, <1>5, RemovesBeside DEF Extensions, Binaries
<1>7. r.bin = "phs" => SoundPhs(upgrade'[u], files', scratch[u])
  <2> SUFFICES ASSUME r.bin = "phs" PROVE SoundPhs(upgrade'[u], files', scratch[u])
    OBVIOUS
  <2>1. files[<<"phs", "exe">>] = Whole(r.target)
    BY <1>0, <1>2 DEF SoundPhs, At, Replacing
  <2> QED
    BY <1>6, <1>9, <2>1 DEF SoundPhs, Untouched, MovedAside, Replacing
<1>8. /\ \A p \in {"lsp", "cleanup"} : p \in Untouched \cup MovedAside \cup Replacing \cup After
      /\ "discard" \notin After /\ "cleanup" \in After /\ "lsp" \notin After
  BY DEF Untouched, MovedAside, Replacing, After
<1>10. r.bin = "phs" \/ r.bin = "lsp"
  BY <1>2 DEF Binaries
<1> HIDE DEF r
<1>11. CASE r.bin = "phs"
  BY <1>0, <1>5, <1>6, <1>7, <1>8, <1>9, <1>11, StepKeeps DEF r
<1>12. CASE r.bin = "lsp"
  BY <1>0, <1>5, <1>6, <1>7, <1>8, <1>9, <1>12, StepKeeps DEF r
<1> QED
  BY <1>10, <1>11, <1>12
LEMMA DiscardFailsKeeps ==
  ASSUME KeptInv, Clean, NEW u \in Upgraders, DiscardFails(u)
  PROVE  KeptInv'
<1> DEFINE r == upgrade[u]
<1>0. At(u, "discard")
  BY DEF DiscardFails
<1>1. /\ Sound(r, files, scratch[u], history) /\ Shape /\ DOMAIN r = Fields
      /\ Installed(u) = <<r.bin, "exe">> /\ Staged(u) = <<r.bin, "new">> /\ Stale(u) = <<r.bin, "old">>
  BY <1>0, Alone
<1>2. r.bin \in Binaries /\ (r.bin = "phs" => SoundPhs(r, files, scratch[u])) /\ (r.bin = "lsp" => SoundLsp(r, files))
  BY <1>0, <1>1 DEF Sound, At, After
<1>3. DOMAIN files = Paths /\ \A path \in Paths : IsFile(files[path])
  BY <1>1 DEF Shape
<1>5. upgrade' = Replaced(upgrade, u) /\ UNCHANGED <<files, scratch>>
  BY DEF DiscardFails
<1>6. /\ upgrade' = [v \in Upgraders |-> upgrade'[v]]
      /\ \A v \in Upgraders : v # u => upgrade'[v] = upgrade[v]
      /\ Alike(upgrade'[u], r) /\ upgrade'[u].target = r.target
      /\ r.bin = "phs" => upgrade'[u].pc = "lsp" /\ upgrade'[u].outcome = "updated"
      /\ r.bin = "lsp" => upgrade'[u].pc = "cleanup" /\ upgrade'[u].outcome = r.outcome
  BY <1>1, <1>2, <1>5, ReplacedIs
<1>9. AreFiles(files') /\ files'[<<"phs", "exe">>] = files[<<"phs", "exe">>]
  BY <1>3, <1>5 DEF AreFiles
<1>7. r.bin = "phs" => SoundPhs(upgrade'[u], files', scratch[u])
  <2> SUFFICES ASSUME r.bin = "phs" PROVE SoundPhs(upgrade'[u], files', scratch[u])
    OBVIOUS
  <2>1. files[<<"phs", "exe">>] = Whole(r.target)
    BY <1>0, <1>2 DEF SoundPhs, At, Replacing
  <2> QED
    BY <1>6, <1>9, <2>1 DEF SoundPhs, Untouched, MovedAside, Replacing
<1>8. /\ \A p \in {"lsp", "cleanup"} : p \in Untouched \cup MovedAside \cup Replacing \cup After
      /\ "discard" \notin After /\ "cleanup" \in After /\ "lsp" \notin After
  BY DEF Untouched, MovedAside, Replacing, After
<1>10. r.bin = "phs" \/ r.bin = "lsp"
  BY <1>2 DEF Binaries
<1> HIDE DEF r
<1>11. CASE r.bin = "phs"
  BY <1>0, <1>5, <1>6, <1>7, <1>8, <1>9, <1>11, StepKeeps DEF r
<1>12. CASE r.bin = "lsp"
  BY <1>0, <1>5, <1>6, <1>7, <1>8, <1>9, <1>12, StepKeeps DEF r
<1> QED
  BY <1>10, <1>11, <1>12
LEMMA ReplaceLspKeeps ==
  ASSUME KeptInv, Clean, NEW u \in Upgraders, ReplaceLsp(u)
  PROVE  KeptInv'
<1> DEFINE r == upgrade[u]
<1>0. At(u, "lsp")
  BY DEF ReplaceLsp
<1>1. /\ Sound(r, files, scratch[u], history) /\ Shape /\ DOMAIN r = Fields
      /\ Installed(u) = <<r.bin, "exe">> /\ Staged(u) = <<r.bin, "new">> /\ Stale(u) = <<r.bin, "old">>
  BY <1>0, Alone
<1>2. r.bin \in Binaries /\ (r.bin = "phs" => SoundPhs(r, files, scratch[u])) /\ (r.bin = "lsp" => SoundLsp(r, files))
  BY <1>0, <1>1 DEF Sound, At, After
<1>3. DOMAIN files = Paths /\ \A path \in Paths : IsFile(files[path])
  BY <1>1 DEF Shape
<1>4. upgrade = [v \in Upgraders |-> upgrade[v]] /\ UNCHANGED <<files, scratch>>
  BY <1>1 DEF Shape, ReplaceLsp
<1>5. PICK p \in {"cleanup", "fetch", "look"} :
        upgrade' = [upgrade EXCEPT ![u] = [r EXCEPT !.pc = p, !.bin = "lsp"]]
  BY DEF ReplaceLsp
<1> DEFINE q == upgrade'[u]
<1>6. /\ upgrade' = [v \in Upgraders |-> upgrade'[v]]
      /\ \A v \in Upgraders : v # u => upgrade'[v] = upgrade[v]
      /\ DOMAIN q = Fields /\ q.mode = r.mode /\ q.from = r.from /\ q.running = r.running
      /\ q.target = r.target /\ q.outcome = r.outcome /\ q.pc = p /\ q.bin = "lsp"
  BY <1>1, <1>4, <1>5 DEF Fields
<1>7. r.bin = "phs" /\ files[<<"phs", "exe">>] = Whole(r.target) /\ r.outcome = "updated"
  BY <1>0, <1>2 DEF SoundLsp, SoundPhs, At, Binaries, MovedAside, Replacing
<1>8. Sound(q, files', scratch'[u], history')
  <2>1. q.pc \in After => SoundAfter(q, files', history')
    BY <1>4, <1>6, <1>7, WholeIsWhole DEF SoundAfter
  <2>2. q.pc \notin After => SoundLsp(q, files')
    BY <1>4, <1>6, <1>7 DEF SoundLsp, After
  <2>3. q.mode \in {"stable", "nightly"} /\ q.from = "exe"
    BY <1>1, <1>6 DEF Sound
  <2>4. p \in Untouched \cup MovedAside \cup Replacing \cup After /\ p # "write"
    BY DEF Untouched, After
  <2> QED
    BY <1>6, <2>1, <2>2, <2>3, <2>4 DEF Sound, Binaries
<1>9. r # Idle /\ Shape'
  BY <1>0, <1>1, <1>4, <1>6 DEF At, Idle, Shape
<1> QED
  BY <1>6, <1>8, <1>9, AloneKeeps
LEMMA CleanupKeeps ==
  ASSUME KeptInv, Clean, NEW u \in Upgraders, Cleanup(u)
  PROVE  KeptInv'
<1> DEFINE r == upgrade[u]  q == upgrade'[u]
<1>0. At(u, "cleanup")
  BY DEF Cleanup
<1>1. r # Idle /\ Sound(r, files, scratch[u], history) /\ Shape /\ DOMAIN r = Fields
  BY <1>0, Alone
<1>2. upgrade' = Goes(upgrade, u, "ended") /\ scratch' = [scratch EXCEPT ![u] = NothingIn]
      /\ UNCHANGED <<files, history>>
  BY DEF Cleanup, GoTo
<1>3. /\ upgrade' = [v \in Upgraders |-> upgrade'[v]]
      /\ \A v \in Upgraders : v # u => upgrade'[v] = upgrade[v]
      /\ Alike(q, r) /\ q.target = r.target /\ q.pc = "ended" /\ q.outcome = r.outcome
  BY <1>1, <1>2, Going
<1>4. SoundAfter(r, files, history) /\ r.mode \in {"stable", "nightly"} /\ r.from = "exe" /\ r.bin \in Binaries
  BY <1>0, <1>1 DEF Sound, At, After
<1>5. SoundAfter(q, files', history')
  BY <1>2, <1>3, <1>4 DEF SoundAfter, Alike
<1>6. Sound(q, files', scratch'[u], history')
  BY <1>3, <1>4, <1>5 DEF Sound, Alike, After
<1>7. DOMAIN NothingIn = Downloads /\ \A d \in Downloads : IsFile(NothingIn[d])
  BY FilesAreFiles DEF NothingIn
<1>8. Shape'
  BY <1>1, <1>2, <1>3, <1>7 DEF Shape
<1> QED
  BY <1>1, <1>3, <1>6, <1>8, AloneKeeps

(* A process that is gone leaves a whole phs.                              *)
LEMMA LeavingKeeps ==
  ASSUME KeptInv, Clean, NEW u \in Upgraders, Exit(u) \/ Crash(u)
  PROVE  KeptInv'
<1>1. upgrade' = [upgrade EXCEPT ![u] = Idle] /\ UNCHANGED <<files, scratch, history>>
  BY DEF Exit, Crash
<1>2. upgrade[u] # Idle
  BY DEF Exit, Crash, At, Idle
<1>3. Shape /\ upgrade = [v \in Upgraders |-> upgrade[v]]
  BY DEF KeptInv, Shape
<1>4. \A v \in Upgraders : upgrade'[v] = Idle
  BY <1>1, <1>2, <1>3 DEF KeptInv
<1>5. Shape'
  BY <1>1, <1>3 DEF Shape
<1>6. Phs("exe").whole \/ Phs("old").whole
  BY DEF KeptInv
<1> QED
  BY <1>1, <1>4, <1>5, <1>6 DEF KeptInv, Phs

LEMMA StartKeeps ==
  ASSUME KeptInv, Clean, Clean', NEW u \in Upgraders, Start(u)
  PROVE  KeptInv'
<1>1. PICK e \in RunFrom, mode \in {"stable", "nightly"} :
       /\ files[<<"phs", e>>].whole
       /\ upgrade' = [upgrade EXCEPT ![u] =
            [pc |-> "check", mode |-> mode, from |-> e, bin |-> "phs", had |-> FALSE,
             running |-> files[<<"phs", e>>].tip, target |-> FirstTip, assets |-> {},
             fd |-> Closed, outcome |-> "none"]]
       /\ history' = history
            \cup {"overlap" : v \in {v \in Upgraders : ~At(v, "idle")}}
            \cup {"astray" : x \in {e} \ {"exe"}}
  BY DEF Start
<1>2. e = "exe"
  BY <1>1 DEF Clean
<1>3. \A v \in Upgraders : At(v, "idle")
  <2> SUFFICES ASSUME NEW v \in Upgraders, ~At(v, "idle") PROVE FALSE
    OBVIOUS
  <2>1. "overlap" \in history'
    BY <1>1
  <2> QED
    BY <2>1 DEF Clean
<1>4. Shape /\ upgrade = [v \in Upgraders |-> upgrade[v]] /\ DOMAIN files = Paths
  BY DEF KeptInv, Shape
<1>5. \A v \in Upgraders : upgrade[v] = Idle
  <2> SUFFICES ASSUME NEW v \in Upgraders, upgrade[v] # Idle PROVE FALSE
    OBVIOUS
  <2>1. Sound(upgrade[v], files, scratch[v], history)
    BY DEF KeptInv
  <2> QED
    BY <1>3, <2>1 DEF At, Sound, Untouched, MovedAside, Replacing, After
<1>6. UNCHANGED <<files, scratch>>
  BY DEF Start
<1>7. files[<<"phs", "exe">>] = Whole(files[<<"phs", "exe">>].tip)
  <2>1. <<"phs", "exe">> \in Paths
    BY DEF Paths, Binaries
  <2> QED
    BY <1>1, <1>2, <1>4, <2>1, FilesAreFiles DEF Shape
<1> DEFINE q == upgrade'[u]
<1>8. /\ DOMAIN q = Fields /\ q.pc = "check" /\ q.mode \in {"stable", "nightly"} /\ q.from = "exe"
      /\ q.bin = "phs" /\ q.running = files[<<"phs", "exe">>].tip
      /\ upgrade' = [v \in Upgraders |-> upgrade'[v]]
      /\ \A v \in Upgraders : v # u => upgrade'[v] = upgrade[v]
  BY <1>1, <1>2, <1>4 DEF Fields
<1>9. SoundPhs(q, files, scratch[u])
  BY <1>7, <1>8 DEF SoundPhs, MovedAside, Replacing
<1>10. Sound(q, files', scratch'[u], history')
  BY <1>6, <1>8, <1>9 DEF Sound, Binaries, Untouched, After
<1>11. Shape'
  BY <1>4, <1>6, <1>8 DEF Shape
<1>12. Phs("exe")'.whole \/ Phs("old")'.whole
  BY <1>1, <1>2, <1>6 DEF Phs
<1> QED
  BY <1>5, <1>8, <1>10, <1>11, <1>12 DEF KeptInv

LEMMA HistoryGrows == Next => history \subseteq history'
<1> SUFFICES ASSUME Next PROVE history \subseteq history'
  OBVIOUS
<1>1. CASE Commit \/ Publish
  BY <1>1 DEF Commit, Publish
<1>2. ASSUME NEW u \in Upgraders, Checks(u) \/ Fetches(u) \/ MakesWay(u) PROVE history \subseteq history'
  BY <1>2 DEF Checks, Start, CheckFails, CheckStable, CheckSkipped, CheckTip, Compare,
              Fetches, MakeScratch, InstallRelease, Build, FetchFails,
              MakesWay, Look, LookAgain, ClearWay, MoveAside, MoveAsideFails, ParentFails
<1>3. ASSUME NEW u \in Upgraders, Copies(u) \/ Closes(u) \/ Finishes(u) PROVE history \subseteq history'
  BY <1>3 DEF Copies, OpenStaged, WriteStaged, CopyFails, Swap, SwapFails,
              Closes, Undo, Restore, RestoreFails, Discard, DiscardFails,
              Finishes, ReplaceLsp, Cleanup, Exit, Crash
<1> QED
  BY <1>1, <1>2, <1>3 DEF Next

LEMMA StepsKeepKept == KeptInv /\ [Next]_vars => KeptInv'
<1> SUFFICES ASSUME KeptInv, [Next]_vars, Clean' PROVE KeptInv'
  BY DEF KeptInv
<1>1. CASE UNCHANGED vars
  BY <1>1 DEF KeptInv, Clean, Shape, Phs, vars
<1>2. CASE Commit \/ Publish
  BY <1>2 DEF Commit, Publish, KeptInv, Clean, Shape, Phs
<1>3. ASSUME NEW u \in Upgraders,
             Checks(u) \/ Fetches(u) \/ MakesWay(u) \/ Copies(u) \/ Closes(u) \/ Finishes(u)
      PROVE  KeptInv'
  <2>1. Next
    BY <1>3 DEF Next
  <2>2. Clean
    BY <2>1, HistoryGrows DEF Clean
  <2>3. CASE Checks(u)
    BY <2>2, <2>3, CheckKeeps, StartKeeps DEF Checks
  <2>4. CASE Fetches(u)
    BY <2>2, <2>4, FetchKeeps DEF Fetches
  <2>5. CASE MakesWay(u)
    BY <2>2, <2>5, LookKeeps, LookAgainKeeps, ClearWayKeeps, MoveAsideKeeps, MoveAsideFailsKeeps,
       ParentFailsKeeps DEF MakesWay
  <2>6. CASE Copies(u)
    BY <2>2, <2>6, OpenStagedKeeps, WriteStagedKeeps, CopyFailsKeeps, SwapKeeps, SwapFailsKeeps DEF Copies
  <2>7. CASE Closes(u)
    BY <2>2, <2>7, UndoKeeps, RestoreKeeps, RestoreFailsKeeps, DiscardKeeps, DiscardFailsKeeps DEF Closes
  <2>8. CASE Finishes(u)
    BY <2>2, <2>8, ReplaceLspKeeps, CleanupKeeps, LeavingKeeps DEF Finishes
  <2> QED
    BY <1>3, <2>3, <2>4, <2>5, <2>6, <2>7, <2>8
<1> QED
  BY <1>1, <1>2, <1>3 DEF Next

LEMMA KeptIsKept == KeptInv => ABinaryIsKept
<1> SUFFICES ASSUME KeptInv, Clean PROVE ABinaryIsKept
  BY DEF ABinaryIsKept, Clean
<1>1. Phs("exe").whole \/ Phs("old").whole
  BY DEF KeptInv
<1>2. ASSUME "unrestored" \notin history, NEW u \in Upgraders, At(u, "ended")
      PROVE  /\ upgrade[u].outcome = "updated" => Phs("exe") = Whole(upgrade[u].target)
             /\ upgrade[u].outcome = "failed"  => Phs("exe") = Whole(upgrade[u].running)
  <2>1. SoundAfter(upgrade[u], files, history)
    BY <1>2, Alone DEF Sound, At, After
  <2> QED
    BY <1>2, <2>1 DEF SoundAfter, Phs
<1> QED
  BY <1>1, <1>2 DEF ABinaryIsKept

(* Whatever fails and whenever upgrades die, as long as they run one at a  *)
(* time from the installed phs, a whole phs is there, at its own name or   *)
(* at .old; and what an upgrade that ended reports is what is installed    *)
(* (replace_binary, make_way_for, install_release, nightly_install).       *)
THEOREM ABinaryIsAlwaysThere == Spec => []ABinaryIsKept
<1>1. Spec => []KeptInv
  BY KeptAtFirst, StepsKeepKept, PTL DEF Spec
<1> QED
  BY <1>1, KeptIsKept, PTL

-----------------------------------------------------------------------------
(* What is known of every state, however many upgrades run: the tips have  *)
(* numbers, and releases are published in the order of their versions.     *)
Tips == [version : Nat, source : Nat, other : Nat]
Release == [tag : {"core", "odd", "py"}, tip : Tips, assets : Offers \cup {Binaries}]
HasTip(x) == x.whole => x.tip \in Tips

Position(r) ==
  \/ r = Idle
  \/ /\ DOMAIN r = Fields /\ r.pc # "idle"
     /\ r.mode \in {"stable", "nightly"} /\ r.from \in {"exe", "old"} /\ r.bin \in Binaries
     /\ r.running \in Tips /\ r.target \in Tips
     /\ r.outcome = "upToDate" => r.pc = "ended"
     /\ r.pc = "compare" => r.mode = "nightly"

KnownPublished ==
  /\ main \in Tips /\ releases \in Seq(Release)
  /\ \A i \in 1 .. Len(releases) : releases[i].tip.version <= main.version
  /\ \A i, j \in 1 .. Len(releases) : i <= j => releases[j].tip.version <= releases[i].tip.version
KnownFiles ==
  /\ DOMAIN files = Paths /\ \A path \in Paths : HasTip(files[path])
  /\ DOMAIN scratch = Upgraders
  /\ \A u \in Upgraders : DOMAIN scratch[u] = Downloads /\ \A d \in Downloads : HasTip(scratch[u][d])
KnownPositions ==
  /\ upgrade = [v \in Upgraders |-> upgrade[v]]
  /\ \A u \in Upgraders : Position(upgrade[u])
KnownInv == KnownPublished /\ KnownFiles /\ KnownPositions

LEMMA TipsOfFiles ==
  /\ HasTip(Missing) /\ HasTip(Partial) /\ \A tip \in Tips : HasTip(Whole(tip))
BY DEF HasTip, Whole, Missing, Partial

LEMMA KnownAtFirst == Init => KnownInv
<1> SUFFICES ASSUME Init PROVE KnownInv
  OBVIOUS
<1>1. FirstTip \in Tips
  BY DEF FirstTip, Tips
<1>2. KnownPublished
  <2>1. main = FirstTip /\ releases = <<[tag |-> "core", tip |-> FirstTip, assets |-> Binaries]>>
    BY DEF Init
  <2>2. [tag |-> "core", tip |-> FirstTip, assets |-> Binaries] \in Release
    BY <1>1 DEF Release
  <2> QED
    BY <1>1, <2>1, <2>2 DEF KnownPublished, FirstTip
<1>3. KnownFiles
  <2>1. PICK lsp \in {Missing, Whole(FirstTip)} :
          files = [path \in Paths |-> CASE path = <<"phs", "exe">> -> Whole(FirstTip)
                                        [] path = <<"lsp", "exe">> -> lsp
                                        [] OTHER -> Missing]
    BY DEF Init
  <2>2. \A path \in Paths : files[path] \in {Missing, Whole(FirstTip)}
    BY <2>1
  <2>3. DOMAIN files = Paths /\ scratch = [u \in Upgraders |-> NothingIn]
    BY <2>1 DEF Init
  <2> QED
    BY <1>1, <2>2, <2>3, TipsOfFiles DEF KnownFiles, NothingIn
<1>4. KnownPositions
  BY DEF Init, KnownPositions, Position
<1> QED
  BY <1>2, <1>3, <1>4 DEF KnownInv

(* What a step changes of the other upgrades, and of its own.              *)
Fixed(q, r) ==
  /\ r = Idle => q = Idle
  /\ r # Idle => /\ DOMAIN q = Fields /\ q.pc = r.pc /\ q.mode = r.mode /\ q.from = r.from /\ q.bin = r.bin
                 /\ q.running = r.running /\ q.target = r.target /\ q.outcome = r.outcome
Refers(table) ==
  /\ table = [v \in Upgraders |-> table[v]]
  /\ \A v \in Upgraders : Fixed(table[v], upgrade[v])
Onward(q, r) ==
  /\ DOMAIN q = Fields /\ q.pc # "idle" /\ q.mode = r.mode /\ q.from = r.from /\ q.bin \in Binaries
  /\ q.pc = "compare" => q.mode = "nightly"
  /\ q.running = r.running /\ q.target \in Tips /\ q.outcome \in {r.outcome, "failed", "updated"}
Underway(u) == upgrade[u].pc \notin {"idle", "ended"}
Moves(u) ==
  /\ Underway(u)
  /\ upgrade' = [v \in Upgraders |-> upgrade'[v]]
  /\ \A v \in Upgraders : v # u => Fixed(upgrade'[v], upgrade[v])
  /\ Onward(upgrade'[u], upgrade[u])

LEMMA ReferFixes ==
  ASSUME KnownPositions
  PROVE  Refers(upgrade) /\ \A a, b : Refers(Unlinked(a)) /\ Refers(Following(a, b))
<1>1. upgrade = [v \in Upgraders |-> upgrade[v]] /\ \A v \in Upgraders : Position(upgrade[v])
  BY DEF KnownPositions
<1>2. \A v \in Upgraders : upgrade[v] = Idle \/ DOMAIN upgrade[v] = Fields
  BY <1>1 DEF Position
<1>3. \A v \in Upgraders : Fixed(upgrade[v], upgrade[v])
  BY <1>2 DEF Fixed
<1>4. ASSUME NEW v \in Upgraders, NEW fd, upgrade[v].pc = "write"
      PROVE  Fixed([upgrade[v] EXCEPT !.fd = fd], upgrade[v])
  BY <1>2, <1>4 DEF Fixed, Fields, Idle
<1>5. \A path : \A v \in WritersOf(path) : v \in Upgraders /\ upgrade[v].pc = "write"
  BY DEF WritersOf
<1>6. ASSUME NEW a, NEW fd PROVE Refers(Refer(WritersOf(a), fd))
  <2>1. Refer(WritersOf(a), fd) = [v \in Upgraders |->
           IF v \in WritersOf(a) THEN [upgrade[v] EXCEPT !.fd = fd] ELSE upgrade[v]]
    BY DEF Refer
  <2> QED
    BY <1>3, <1>4, <1>5, <2>1 DEF Refers
<1>7. ASSUME NEW a, NEW b PROVE Refers(Following(a, b))
  <2>1. Following(a, b) = [v \in Upgraders |->
           IF v \in WritersOf(b) \ WritersOf(a) THEN [upgrade[v] EXCEPT !.fd = Closed]
           ELSE Refer(WritersOf(a), b)[v]]
    BY DEF Following
  <2>2. \A v \in Upgraders : Fixed(Refer(WritersOf(a), b)[v], upgrade[v])
    BY <1>6 DEF Refers
  <2>3. ASSUME NEW v \in Upgraders PROVE Fixed(Following(a, b)[v], upgrade[v])
    <3>1. CASE v \in WritersOf(b) \ WritersOf(a)
      <4>1. Following(a, b)[v] = [upgrade[v] EXCEPT !.fd = Closed] /\ upgrade[v].pc = "write"
        BY <1>5, <2>1, <3>1
      <4> QED
        BY <1>4, <4>1
    <3>2. CASE v \notin WritersOf(b) \ WritersOf(a)
      BY <2>1, <2>2, <3>2
    <3> QED
      BY <3>1, <3>2
  <2> QED
    BY <2>1, <2>3 DEF Refers
<1> QED
  BY <1>1, <1>3, <1>6, <1>7 DEF Refers, Unlinked

LEMMA GoesOn ==
  ASSUME KnownPositions, NEW u \in Upgraders, Underway(u), NEW table, Refers(table),
         \/ \E p : p \notin {"idle", "compare"} /\ upgrade' = Goes(table, u, p)
         \/ upgrade' = Replaced(table, u)
         \/ upgrade' = [table EXCEPT ![u] = Failed(u)[u]]
  PROVE  Moves(u)
<1> DEFINE r == upgrade[u]
<1>1. table = [v \in Upgraders |-> table[v]] /\ \A v \in Upgraders : Fixed(table[v], upgrade[v])
  BY DEF Refers
<1>2. r # Idle /\ Position(r) /\ upgrade = [v \in Upgraders |-> upgrade[v]]
  BY DEF Underway, KnownPositions, Idle
<1>3. DOMAIN table[u] = Fields /\ DOMAIN r = Fields /\ Fixed(table[u], r)
  BY <1>1, <1>2 DEF Fixed, Position
<1>4. ASSUME NEW p, p \notin {"idle", "compare"}, upgrade' = Goes(table, u, p) PROVE Moves(u)
  <2>1. upgrade' = [table EXCEPT ![u] = [table[u] EXCEPT !.pc = p]]
    BY <1>4 DEF Goes
  <2>2. upgrade'[u] = [table[u] EXCEPT !.pc = p] /\ (\A v \in Upgraders : v # u => upgrade'[v] = table[v])
        /\ upgrade' = [v \in Upgraders |-> upgrade'[v]]
    BY <1>1, <2>1
  <2> QED
    BY <1>1, <1>2, <1>3, <1>4, <2>2 DEF Moves, Onward, Fixed, Position, Fields
<1>5. CASE upgrade' = Replaced(table, u)
  <2>1. PICK o \in {table[u].outcome, "updated"}, d \in {"lsp", "cleanup"} :
          upgrade' = [table EXCEPT ![u] = [table[u] EXCEPT !.pc = d, !.outcome = o]]
    <3>1. CASE r.bin = "phs"
      BY <1>5, <3>1 DEF Replaced
    <3>2. CASE r.bin # "phs"
      <4>1. upgrade' = [table EXCEPT ![u] = [table[u] EXCEPT !.pc = "cleanup"]]
        BY <1>5, <3>2 DEF Replaced, Goes
      <4>2. [table[u] EXCEPT !.pc = "cleanup"]
              = [table[u] EXCEPT !.pc = "cleanup", !.outcome = table[u].outcome]
        BY <1>3 DEF Fields
      <4> QED
        BY <4>1, <4>2
    <3> QED
      BY <3>1, <3>2
  <2>2. upgrade'[u] = [table[u] EXCEPT !.pc = d, !.outcome = o]
        /\ (\A v \in Upgraders : v # u => upgrade'[v] = table[v])
        /\ upgrade' = [v \in Upgraders |-> upgrade'[v]]
    BY <1>1, <2>1
  <2> QED
    BY <1>1, <1>2, <1>3, <2>2 DEF Moves, Onward, Fixed, Position, Fields
<1>6. CASE upgrade' = [table EXCEPT ![u] = Failed(u)[u]]
  <2>1. PICK o \in {r.outcome, "failed"} : Failed(u)[u] = [r EXCEPT !.pc = "cleanup", !.outcome = o]
    <3>1. CASE r.bin = "phs"
      BY <1>2, <3>1 DEF Failed
    <3>2. CASE r.bin # "phs"
      BY <1>2, <3>2 DEF Failed
    <3> QED
      BY <3>1, <3>2
  <2>2. upgrade'[u] = [r EXCEPT !.pc = "cleanup", !.outcome = o]
        /\ (\A v \in Upgraders : v # u => upgrade'[v] = table[v])
        /\ upgrade' = [v \in Upgraders |-> upgrade'[v]]
    BY <1>1, <1>6, <2>1
  <2> QED
    BY <1>1, <1>2, <1>3, <2>2 DEF Moves, Onward, Fixed, Position, Fields
<1> QED
  BY <1>4, <1>5, <1>6

(* The end of an upgrade that finds itself up to date.                     *)
Judges(u) ==
  /\ At(u, "check") \/ At(u, "compare")
  /\ upgrade' = [v \in Upgraders |-> upgrade'[v]]
  /\ \A v \in Upgraders : v # u => upgrade'[v] = upgrade[v]
  /\ \E o \in {"failed", "upToDate"} :
       /\ upgrade'[u] = [upgrade[u] EXCEPT !.pc = "ended", !.outcome = o]
       /\ o = "upToDate" => IsCurrent(u)

LEMMA EndsJudging ==
  ASSUME KnownPositions, NEW u \in Upgraders, At(u, "check") \/ At(u, "compare"),
         NEW o \in {"failed", "upToDate"}, o = "upToDate" => IsCurrent(u), Ends(u, o)
  PROVE  Judges(u)
<1>1. upgrade = [v \in Upgraders |-> upgrade[v]]
  BY DEF KnownPositions
<1>2. upgrade' = [upgrade EXCEPT ![u] = [upgrade[u] EXCEPT !.pc = "ended", !.outcome = o]]
  BY DEF Ends
<1>3. upgrade'[u] = [upgrade[u] EXCEPT !.pc = "ended", !.outcome = o]
  BY <1>1, <1>2
<1> QED
  BY <1>1, <1>2, <1>3 DEF Judges

LEMMA LeastNatural ==
  ASSUME NEW T, T \subseteq Nat, T # {}
  PROVE  \E x \in T : \A y \in T : x <= y
<1>1. PICK x \in T : \A y \in T : ~ (<<y, x>> \in OpToRel(<, Nat))
  BY NatLessThanWellFounded, WFMin
<1>2. \A y \in T : ~(y < x)
  BY <1>1 DEF OpToRel
<1> QED
  BY <1>2

(* The latest release is the newest one of the core.                       *)
LEMMA LatestIsNewest ==
  ASSUME KnownPublished, CoreReleases # {}
  PROVE  /\ Latest.tip \in Tips
         /\ \A i \in CoreReleases : releases[i].tip \in Tips /\ releases[i].tip.version <= Latest.tip.version
<1>1. DOMAIN releases = 1 .. Len(releases) /\ Len(releases) \in Nat
      /\ \A j \in 1 .. Len(releases) : releases[j] \in Release
  BY DEF KnownPublished
<1>2. CoreReleases \subseteq 1 .. Len(releases)
  BY <1>1 DEF CoreReleases
<1>3. \E j \in CoreReleases : \A k \in CoreReleases : j <= k
  <2>1. CoreReleases \subseteq Nat
    BY <1>1, <1>2
  <2> QED
    BY <2>1, LeastNatural
<1> DEFINE j == CHOOSE k \in CoreReleases : \A l \in CoreReleases : k <= l
<1>4. j \in CoreReleases /\ \A k \in CoreReleases : j <= k
  BY <1>3
<1>5. Latest = releases[j]
  BY DEF Latest
<1> HIDE DEF j
<1>6. \A i \in CoreReleases : releases[i].tip \in Tips /\ releases[i].tip.version <= releases[j].tip.version
  BY <1>1, <1>2, <1>4 DEF KnownPublished, Release
<1> QED
  BY <1>4, <1>5, <1>6

LEMMA StableIsCurrent ==
  ASSUME KnownInv, NEW u \in Upgraders, At(u, "check"), upgrade[u].mode = "stable",
         Plan(upgrade[u].running).plan = "nothing"
  PROVE  IsCurrent(u)
<1>1. Latest.tip.version <= upgrade[u].running.version
  BY DEF Plan
<1>2. upgrade[u].running.version \in Nat
  BY DEF KnownInv, KnownPositions, Position, At, Idle, Tips
<1>3. ASSUME NEW i \in DOMAIN releases, releases[i].tag = "core"
      PROVE  releases[i].tip.version <= upgrade[u].running.version
  <2>1. i \in CoreReleases
    BY <1>3 DEF CoreReleases
  <2>2. releases[i].tip \in Tips /\ Latest.tip \in Tips /\ releases[i].tip.version <= Latest.tip.version
    BY <2>1, LatestIsNewest DEF KnownInv
  <2>3. releases[i].tip.version \in Nat /\ Latest.tip.version \in Nat
    BY <2>2 DEF Tips
  <2> QED
    BY <1>1, <1>2, <2>2, <2>3
<1> QED
  BY <1>3 DEF IsCurrent

(* Each check goes on or judges.                                           *)
LEMMA ChecksGoOnOrJudge ==
  ASSUME KnownInv, NEW u \in Upgraders,
         CheckFails(u) \/ CheckStable(u) \/ CheckSkipped(u) \/ CheckTip(u) \/ Compare(u)
  PROVE  Moves(u) \/ Judges(u)
<1> DEFINE r == upgrade[u]
<1>0. At(u, "check") \/ At(u, "compare")
  BY DEF CheckFails, CheckStable, CheckSkipped, CheckTip, Compare
<1>1. Underway(u) /\ KnownPositions /\ Refers(upgrade) /\ upgrade = [v \in Upgraders |-> upgrade[v]]
  BY <1>0, ReferFixes DEF KnownInv, Underway, At, KnownPositions
<1>2. r # Idle /\ Position(r) /\ DOMAIN r = Fields
  BY <1>0 DEF KnownInv, KnownPositions, Position, At, Idle
<1>3. ASSUME GoTo(u, "scratch") PROVE Moves(u)
  <2>1. upgrade' = Goes(upgrade, u, "scratch")
    BY <1>3 DEF GoTo
  <2>2. "scratch" \notin {"idle", "compare"}
    OBVIOUS
  <2> QED
    BY <1>1, <2>1, <2>2, GoesOn
<1>4. ASSUME NEW p \in {"scratch", "compare"}, NEW tip \in Tips, NEW assets,
             p = "compare" => r.mode = "nightly",
             upgrade' = [upgrade EXCEPT ![u] = [r EXCEPT !.pc = p, !.target = tip, !.assets = assets]]
      PROVE  Moves(u)
  <2>1. upgrade'[u] = [r EXCEPT !.pc = p, !.target = tip, !.assets = assets]
        /\ (\A v \in Upgraders : v # u => upgrade'[v] = upgrade[v])
        /\ upgrade' = [v \in Upgraders |-> upgrade'[v]]
    BY <1>1, <1>4
  <2>2. Onward(upgrade'[u], r)
    BY <1>2, <1>4, <2>1 DEF Onward, Position, Fields
  <2> QED
    BY <1>1, <2>1, <2>2 DEF Moves, Refers
<1>5. CASE CheckFails(u)
  BY <1>1, <1>5, <1>0, EndsJudging DEF CheckFails
<1>6. CASE CheckStable(u)
  <2>1. At(u, "check") /\ r.mode = "stable"
    BY <1>6 DEF CheckStable
  <2> DEFINE plan == Plan(r.running)
  <2>2. CASE plan.plan = "nothing" /\ Ends(u, "upToDate")
    BY <1>1, <2>1, <2>2, StableIsCurrent, EndsJudging
  <2>3. CASE plan.plan = "error" /\ Ends(u, "failed")
    BY <1>1, <2>1, <2>3, EndsJudging
  <2>4. CASE plan.plan = "install"
             /\ upgrade' = [upgrade EXCEPT ![u].pc = "scratch", ![u].target = plan.release.tip,
                                           ![u].assets = plan.release.assets]
    <3>1. CoreReleases # {} /\ Latest.tag # "odd" /\ plan.release = Latest
      BY <2>4 DEF Plan
    <3>4. Latest.tip \in Tips
      BY <3>1, LatestIsNewest DEF KnownInv
    <3>5. upgrade' = [upgrade EXCEPT ![u] =
            [r EXCEPT !.pc = "scratch", !.target = plan.release.tip, !.assets = plan.release.assets]]
      BY <2>4
    <3> HIDE DEF plan
    <3> QED
      BY <1>4, <3>1, <3>4, <3>5
  <2> QED
    BY <1>6, <2>2, <2>3, <2>4 DEF CheckStable
<1>7. CASE CheckSkipped(u)
  BY <1>3, <1>7 DEF CheckSkipped
<1>8. CASE CheckTip(u)
  <2>1. main \in Tips /\ r.mode = "nightly"
    BY <1>8 DEF KnownInv, KnownPublished, CheckTip
  <2>2. upgrade' = [upgrade EXCEPT ![u] = [r EXCEPT !.pc = "compare", !.target = main]]
    BY <1>8 DEF CheckTip
  <2>3. [r EXCEPT !.pc = "compare", !.target = main]
          = [r EXCEPT !.pc = "compare", !.target = main, !.assets = r.assets]
    BY <1>2 DEF Fields
  <2> QED
    BY <1>4, <2>1, <2>2, <2>3
<1>9. CASE Compare(u)
  <2>1. At(u, "compare") /\ (GoTo(u, "scratch") \/
          \E compared \in Compares(r.running, r.target) :
             IsUpToDate(r.running, r.target, compared) /\ Ends(u, "upToDate"))
    BY <1>9 DEF Compare
  <2>2. ASSUME NEW compared \in Compares(r.running, r.target), IsUpToDate(r.running, r.target, compared)
        PROVE  r.target.source = r.running.source
    BY <2>2 DEF Compares, IsUpToDate
  <2>3. CASE GoTo(u, "scratch")
    BY <1>3, <2>3
  <2>4. CASE Ends(u, "upToDate") /\ r.target.source = r.running.source
    <3>1. r.mode = "nightly"
      BY <1>2, <2>1 DEF Position, At
    <3> QED
      BY <1>1, <2>1, <2>4, <3>1, EndsJudging DEF IsCurrent
  <2> QED
    BY <2>1, <2>2, <2>3, <2>4
<1> QED
  BY <1>5, <1>6, <1>7, <1>8, <1>9

(* The other steps of an upgrade go on.                                    *)
LEMMA StepsGoOn ==
  ASSUME KnownInv, NEW u \in Upgraders,
         Fetches(u) \/ (MakesWay(u) \/ Copies(u)) \/ Closes(u) \/ ReplaceLsp(u) \/ Cleanup(u)
  PROVE  Moves(u)
<1> DEFINE r == upgrade[u]
<1>0. Underway(u)
  BY DEF Underway, At, Fetches, MakeScratch, InstallRelease, Build, FetchFails,
         MakesWay, Look, LookAgain, ClearWay, MoveAside, MoveAsideFails, ParentFails,
         Copies, OpenStaged, WriteStaged, CopyFails, Swap, SwapFails,
         Closes, Undo, Restore, RestoreFails, Discard, DiscardFails, ReplaceLsp, Cleanup
<1>1. KnownPositions /\ upgrade = [v \in Upgraders |-> upgrade[v]]
      /\ Refers(upgrade) /\ \A a, b : Refers(Unlinked(a)) /\ Refers(Following(a, b))
  BY ReferFixes DEF KnownInv, KnownPositions
<1>2. Position(r) /\ DOMAIN r = Fields
  BY <1>0 DEF KnownInv, KnownPositions, Position, Underway, Idle
<1>3. ASSUME NEW table, Refers(table), NEW p, p \notin {"idle", "compare"}, upgrade' = Goes(table, u, p)
      PROVE  Moves(u)
  BY <1>0, <1>1, <1>3, GoesOn
<1>4. ASSUME NEW table, Refers(table), upgrade' = Replaced(table, u)
      PROVE  Moves(u)
  BY <1>0, <1>1, <1>4, GoesOn
<1>5. ASSUME NEW table, Refers(table), upgrade' = [table EXCEPT ![u] = Failed(u)[u]]
      PROVE  Moves(u)
  BY <1>0, <1>1, <1>5, GoesOn
<1>6. ASSUME upgrade' = Failed(u) PROVE Moves(u)
  <2>1. upgrade' = [upgrade EXCEPT ![u] = Failed(u)[u]]
    BY <1>1, <1>6 DEF Failed
  <2> QED
    BY <1>1, <1>5, <2>1
<1>7. ASSUME NEW q, Onward(q, r), upgrade' = [upgrade EXCEPT ![u] = q] PROVE Moves(u)
  <2>1. upgrade'[u] = q /\ (\A v \in Upgraders : v # u => upgrade'[v] = upgrade[v])
        /\ upgrade' = [v \in Upgraders |-> upgrade'[v]]
    BY <1>1, <1>7
  <2> QED
    BY <1>0, <1>1, <1>7, <2>1 DEF Moves, Refers
<1>8. CASE Fetches(u)
  <2>1. CASE MakeScratch(u)
    BY <1>1, <1>3, <2>1 DEF MakeScratch, GoTo
  <2>2. CASE InstallRelease(u)
    BY <1>1, <1>3, <2>2 DEF InstallRelease, GoTo
  <2>3. CASE Build(u)
    <3> DEFINE tip == IF r.bin = "phs" THEN main ELSE r.target
               q == [r EXCEPT !.pc = "look", !.target = tip]
    <3>1. tip \in Tips
      BY <1>0, <1>2 DEF KnownInv, KnownPublished, Position, Underway, Idle
    <3>2. upgrade' = [upgrade EXCEPT ![u] = q]
      BY <1>1, <2>3 DEF Build
    <3>3. Onward(q, r)
      BY <1>0, <1>2, <3>1 DEF Onward, Position, Fields, Underway, Idle
    <3> QED
      BY <1>7, <3>2, <3>3
  <2>4. CASE FetchFails(u)
    BY <1>6, <2>4 DEF FetchFails
  <2> QED
    BY <1>8, <2>1, <2>2, <2>3, <2>4 DEF Fetches
<1>9. CASE MakesWay(u)
  <2>1. CASE Look(u)
    <3> DEFINE q == [r EXCEPT !.pc = "way", !.had = Exists(Installed(u))]
    <3>1. Onward(q, r)
      BY <1>0, <1>2 DEF Onward, Position, Fields, Underway, Idle
    <3>2. upgrade' = [upgrade EXCEPT ![u] = q]
      BY <2>1 DEF Look
    <3> QED
      BY <1>7, <3>1, <3>2
  <2>2. CASE LookAgain(u)
    <3> DEFINE p == IF Exists(Installed(u)) THEN "clear" ELSE "open"
    <3>1. upgrade' = Goes(upgrade, u, p) /\ p \notin {"idle", "compare"}
      BY <2>2 DEF LookAgain, GoTo
    <3> QED
      BY <1>1, <1>3, <3>1
  <2>3. CASE ClearWay(u)
    BY <1>1, <1>3, <2>3 DEF ClearWay
  <2>4. CASE MoveAside(u)
    BY <1>1, <1>3, <2>4 DEF MoveAside
  <2>5. CASE MoveAsideFails(u) \/ ParentFails(u)
    BY <1>6, <2>5 DEF MoveAsideFails, ParentFails
  <2> QED
    BY <1>9, <2>1, <2>2, <2>3, <2>4, <2>5 DEF MakesWay
<1>10. CASE Copies(u)
  <2>1. CASE OpenStaged(u)
    <3> DEFINE q == [r EXCEPT !.pc = "write", !.fd = Staged(u)]
    <3>1. Onward(q, r)
      BY <1>0, <1>2 DEF Onward, Position, Fields, Underway, Idle
    <3>2. upgrade' = [upgrade EXCEPT ![u] = q]
      BY <2>1 DEF OpenStaged
    <3> QED
      BY <1>7, <3>1, <3>2
  <2>2. CASE WriteStaged(u)
    BY <1>1, <1>3, <2>2 DEF WriteStaged, GoTo
  <2>3. CASE CopyFails(u) \/ SwapFails(u)
    BY <1>1, <1>3, <2>3 DEF CopyFails, SwapFails, GoTo
  <2>4. CASE Swap(u)
    BY <1>1, <1>3, <2>4 DEF Swap
  <2> QED
    BY <1>10, <2>1, <2>2, <2>3, <2>4 DEF Copies
<1>11. CASE Closes(u)
  <2>1. CASE Undo(u)
    BY <1>1, <1>3, <2>1 DEF Undo
  <2>2. CASE Restore(u)
    BY <1>1, <1>5, <2>2 DEF Restore
  <2>3. CASE RestoreFails(u)
    BY <1>6, <2>3 DEF RestoreFails
  <2>4. CASE Discard(u)
    BY <1>1, <1>4, <2>4 DEF Discard
  <2>5. CASE DiscardFails(u)
    BY <1>1, <1>4, <2>5 DEF DiscardFails
  <2> QED
    BY <1>11, <2>1, <2>2, <2>3, <2>4, <2>5 DEF Closes
<1>12. CASE ReplaceLsp(u)
  <2>1. PICK p \in {"cleanup", "fetch", "look"} :
          upgrade' = [upgrade EXCEPT ![u] = [r EXCEPT !.pc = p, !.bin = "lsp"]]
    BY <1>12 DEF ReplaceLsp
  <2>2. Onward([r EXCEPT !.pc = p, !.bin = "lsp"], r)
    BY <1>0, <1>2 DEF Onward, Position, Fields, Underway, Idle, Binaries
  <2> QED
    BY <1>7, <2>1, <2>2
<1>13. CASE Cleanup(u)
  BY <1>1, <1>3, <1>13 DEF Cleanup, GoTo
<1> QED
  BY <1>8, <1>9, <1>10, <1>11, <1>12, <1>13

(* Whoever ends up to date is up to date.                                  *)
Honest == \A u \in Upgraders : ~At(u, "ended") /\ upgrade'[u].pc = "ended" =>
            (upgrade'[u].outcome = "upToDate" => IsCurrent(u))

LEMMA MovingIsHonest ==
  ASSUME KnownPositions, NEW u \in Upgraders, Moves(u) \/ Judges(u)
  PROVE  KnownPositions' /\ Honest
<1> DEFINE r == upgrade[u]  q == upgrade'[u]
<1>0. Underway(u) /\ upgrade' = [v \in Upgraders |-> upgrade'[v]]
  BY DEF Moves, Judges, Underway, At
<1>1. r # Idle /\ Position(r) /\ DOMAIN r = Fields
  BY <1>0 DEF KnownPositions, Position, Underway, Idle
<1>2. \A v \in Upgraders : Position(upgrade[v])
  BY DEF KnownPositions
<1>3. \A v \in Upgraders : v # u => Fixed(upgrade'[v], upgrade[v])
  <2>1. \A v \in Upgraders : Fixed(upgrade[v], upgrade[v])
    BY ReferFixes DEF Refers
  <2> QED
    BY <2>1 DEF Moves, Judges
<1>4. ASSUME NEW v \in Upgraders, v # u
      PROVE  /\ Position(upgrade'[v])
             /\ upgrade'[v].pc = "ended" => At(v, "ended")
  <2>1. Fixed(upgrade'[v], upgrade[v]) /\ Position(upgrade[v])
    BY <1>2, <1>3, <1>4
  <2> QED
    BY <2>1 DEF Fixed, Position, At, Idle
<1>5. Position(q) /\ (q.pc = "ended" /\ q.outcome = "upToDate" => IsCurrent(u))
  <2>1. CASE Moves(u)
    <3>1. Onward(q, r)
      BY <2>1 DEF Moves
    <3>2. r.outcome # "upToDate"
      BY <1>0, <1>1 DEF Position, Underway
    <3> QED
      BY <1>1, <3>1, <3>2 DEF Onward, Position, Idle
  <2>2. CASE Judges(u)
    <3>1. PICK o \in {"failed", "upToDate"} :
            q = [r EXCEPT !.pc = "ended", !.outcome = o] /\ (o = "upToDate" => IsCurrent(u))
      BY <2>2 DEF Judges
    <3> QED
      BY <1>1, <3>1 DEF Position, Fields
  <2> QED
    BY <2>1, <2>2
<1>6. KnownPositions'
  BY <1>0, <1>4, <1>5 DEF KnownPositions
<1> QED
  BY <1>4, <1>5, <1>6 DEF Honest

LEMMA FilesOfAnUpgrade ==
  ASSUME KnownInv, NEW u \in Upgraders, Underway(u)
  PROVE  /\ Installed(u) \in Paths /\ Staged(u) \in Paths /\ Stale(u) \in Paths
         /\ Download(u, upgrade[u].bin) \in Downloads /\ HasTip(Fetched(u))
<1>1. upgrade[u].bin \in Binaries /\ upgrade[u].from \in {"exe", "old"}
  BY DEF KnownInv, KnownPositions, Position, Underway, Idle
<1>2. Installed(u) \in Paths /\ Installed(u)[1] = upgrade[u].bin
  BY <1>1 DEF Installed, Paths
<1>3. Staged(u) \in Paths /\ Stale(u) \in Paths
  BY <1>1, <1>2 DEF Staged, Stale, WithExtension, Paths
<1>4. Download(u, upgrade[u].bin) \in Downloads
  BY <1>1 DEF Download, Downloads
<1>5. HasTip(Fetched(u))
  BY <1>4 DEF Fetched, KnownInv, KnownFiles
<1> QED
  BY <1>2, <1>3, <1>4, <1>5

LEMMA FilesStayKnown == KnownInv /\ [Next]_vars => KnownFiles'
<1> SUFFICES ASSUME KnownInv, [Next]_vars PROVE KnownFiles'
  OBVIOUS
<1>1. KnownFiles /\ main \in Tips
  BY DEF KnownInv, KnownPublished
<1>2. CASE UNCHANGED <<files, scratch>>
  BY <1>1, <1>2 DEF KnownFiles
<1>3. ASSUME NEW a \in Paths, NEW b \in Paths
      PROVE  /\ DOMAIN Removed(a) = Paths /\ \A path \in Paths : HasTip(Removed(a)[path])
             /\ DOMAIN Renamed(a, b) = Paths /\ \A path \in Paths : HasTip(Renamed(a, b)[path])
  <2>1. /\ DOMAIN Removed(a) = Paths /\ DOMAIN Renamed(a, b) = Paths
        /\ \A path \in Paths : Removed(a)[path] \in {files[path], Missing}
        /\ \A path \in Paths : Renamed(a, b)[path] \in {files[path], files[a], Missing}
    BY <1>1 DEF KnownFiles, Removed, Renamed
  <2> QED
    BY <1>1, <2>1, TipsOfFiles DEF KnownFiles
<1>4. ASSUME NEW path, NEW x, HasTip(x), files' = [files EXCEPT ![path] = x], UNCHANGED scratch
      PROVE  KnownFiles'
  <2>1. DOMAIN files' = Paths /\ \A a \in Paths : files'[a] \in {files[a], x}
    BY <1>1, <1>4 DEF KnownFiles
  <2> QED
    BY <1>1, <1>4, <2>1 DEF KnownFiles
<1>5. ASSUME NEW u \in Upgraders, NEW s, scratch' = [scratch EXCEPT ![u] = s], UNCHANGED files,
             DOMAIN s = Downloads, \A d \in Downloads : HasTip(s[d])
      PROVE  KnownFiles'
  BY <1>1, <1>5 DEF KnownFiles
<1>6. ASSUME NEW u \in Upgraders, Fetches(u) \/ Cleanup(u)
      PROVE  KnownFiles'
  <2>1. Underway(u)
    BY <1>6 DEF Fetches, MakeScratch, InstallRelease, Build, FetchFails, Cleanup, Underway, At
  <2>2. upgrade[u].target \in Tips
    BY <2>1 DEF KnownInv, KnownPositions, Position, Underway, Idle
  <2>3. DOMAIN scratch[u] = Downloads /\ \A d \in Downloads : HasTip(scratch[u][d])
    BY <1>1 DEF KnownFiles
  <2>4. DOMAIN NothingIn = Downloads /\ \A d \in Downloads : HasTip(NothingIn[d])
    BY TipsOfFiles DEF NothingIn
  <2>5. ASSUME NEW found, HasTip(found)
        PROVE  DOMAIN Extracted(u, found) = Downloads /\ \A d \in Downloads : HasTip(Extracted(u, found)[d])
    BY <2>3, <2>5 DEF Extracted
  <2>6. CASE MakeScratch(u)
    BY <1>2, <1>5, <2>4, <2>6 DEF MakeScratch
  <2>7. CASE InstallRelease(u)
    <3>1. HasTip(Whole(upgrade[u].target))
      BY <2>2, TipsOfFiles
    <3> QED
      BY <1>5, <2>5, <2>7, <3>1 DEF InstallRelease
  <2>8. CASE Build(u)
    <3> DEFINE s == [scratch[u] EXCEPT ![Download(u, upgrade[u].bin)] = Whole(main)]
    <3>1. DOMAIN s = Downloads /\ \A d \in Downloads : s[d] \in {scratch[u][d], Whole(main)}
      BY <2>3
    <3>2. scratch' = [scratch EXCEPT ![u] = s] /\ UNCHANGED files
      BY <2>8 DEF Build
    <3>3. \A d \in Downloads : HasTip(s[d])
      BY <1>1, <2>3, <3>1, TipsOfFiles
    <3> HIDE DEF s
    <3> QED
      BY <1>5, <3>1, <3>2, <3>3
  <2>9. CASE FetchFails(u)
    BY <1>2, <1>5, <2>5, <2>9, TipsOfFiles DEF FetchFails
  <2>10. CASE Cleanup(u)
    BY <1>5, <2>4, <2>10 DEF Cleanup
  <2> QED
    BY <1>6, <2>6, <2>7, <2>8, <2>9, <2>10 DEF Fetches
<1>7. ASSUME NEW u \in Upgraders, MakesWay(u) \/ Copies(u) \/ Closes(u)
      PROVE  KnownFiles'
  <2>1. Underway(u)
    BY <1>7 DEF MakesWay, Look, LookAgain, ClearWay, MoveAside, MoveAsideFails, ParentFails,
           Copies, OpenStaged, WriteStaged, CopyFails, Swap, SwapFails,
           Closes, Undo, Restore, RestoreFails, Discard, DiscardFails, Underway, At
  <2>2. Installed(u) \in Paths /\ Staged(u) \in Paths /\ Stale(u) \in Paths /\ HasTip(Fetched(u))
    BY <2>1, FilesOfAnUpgrade
  <2>3. CASE ClearWay(u) \/ MoveAside(u) \/ Swap(u) \/ Undo(u) \/ Restore(u) \/ Discard(u)
    <3>1. UNCHANGED scratch /\ \E a, b \in Paths : files' \in {Removed(a), Renamed(a, b)}
      BY <2>2, <2>3 DEF ClearWay, MoveAside, Swap, Undo, Restore, Discard
    <3>2. DOMAIN files' = Paths /\ \A path \in Paths : HasTip(files'[path])
      BY <1>3, <3>1
    <3> QED
      BY <1>1, <3>1, <3>2 DEF KnownFiles
  <2>4. CASE OpenStaged(u)
    BY <1>4, <2>4, TipsOfFiles DEF OpenStaged
  <2>5. CASE WriteStaged(u)
    BY <1>2, <1>4, <2>2, <2>5 DEF WriteStaged
  <2>6. CASE Look(u) \/ LookAgain(u) \/ MoveAsideFails(u) \/ ParentFails(u) \/ CopyFails(u) \/ SwapFails(u)
             \/ RestoreFails(u) \/ DiscardFails(u)
    BY <1>2, <2>6 DEF Look, LookAgain, MoveAsideFails, ParentFails, CopyFails, SwapFails, RestoreFails, DiscardFails
  <2> QED
    BY <1>7, <2>3, <2>4, <2>5, <2>6 DEF MakesWay, Copies, Closes
<1>8. ASSUME NEW u \in Upgraders, Checks(u) \/ ReplaceLsp(u) \/ Exit(u) \/ Crash(u)
      PROVE  KnownFiles'
  BY <1>2, <1>8 DEF Checks, Start, CheckFails, CheckStable, CheckSkipped, CheckTip, Compare,
                    ReplaceLsp, Exit, Crash
<1>9. CASE Commit \/ Publish \/ UNCHANGED vars
  BY <1>2, <1>9 DEF Commit, Publish, vars
<1> QED
  BY <1>6, <1>7, <1>8, <1>9 DEF Next, Finishes

LEMMA PublishedStaysKnown == KnownInv /\ [Next]_vars => KnownPublished'
<1> SUFFICES ASSUME KnownInv, [Next]_vars PROVE KnownPublished'
  OBVIOUS
<1>1. KnownPublished /\ main.version \in Nat /\ main.source \in Nat /\ main.other \in Nat
  BY DEF KnownInv, KnownPublished, Tips
<1>2. CASE UNCHANGED <<main, releases>>
  BY <1>1, <1>2 DEF KnownPublished
<1>3. CASE Commit
  <2>1. main' \in Tips /\ main'.version = main.version /\ UNCHANGED releases
    BY <1>1, <1>3 DEF Commit, KnownPublished, Tips
  <2> QED
    BY <1>1, <2>1 DEF KnownPublished
<1>4. CASE Publish
  <2>1. main' \in Tips /\ main'.version = main.version + 1
    <3>1. main' = [main EXCEPT !.version = main.version + 1, !.source = main.source + 1]
      BY <1>4 DEF Publish
    <3>2. main \in Tips
      BY <1>1 DEF KnownPublished
    <3>3. main = [version |-> main.version, source |-> main.source, other |-> main.other]
      BY <3>2 DEF Tips
    <3>4. main' = [version |-> main.version + 1, source |-> main.source + 1, other |-> main.other]
      BY <3>1, <3>3, Zenon
    <3>5. main.version + 1 \in Nat /\ main.source + 1 \in Nat
      BY <1>1
    <3> QED
      BY <1>1, <3>4, <3>5 DEF Tips
  <2>2. PICK tag \in {"core", "odd", "py"}, assets \in Offers :
          releases' = <<[tag |-> tag, tip |-> main', assets |-> assets]>> \o releases
    BY <1>4 DEF Publish
  <2> DEFINE new == [tag |-> tag, tip |-> main', assets |-> assets]
  <2>3. new \in Release /\ new.tip = main'
    BY <2>1 DEF Release
  <2> HIDE DEF new
  <2>4. releases' = <<new>> \o releases /\ releases \in Seq(Release) /\ Len(releases) \in Nat
    BY <1>1, <2>2 DEF new, KnownPublished
  <2>5. releases' \in Seq(Release) /\ Len(releases') = Len(releases) + 1 /\ releases'[1] = new
        /\ \A i \in 1 .. Len(releases) : releases'[i + 1] = releases[i]
    BY <2>3, <2>4
  <2>6. \A i \in 2 .. Len(releases') : i - 1 \in 1 .. Len(releases) /\ releases'[i] = releases[i - 1]
    BY <2>4, <2>5
  <2>7. \A i \in 1 .. Len(releases') : releases'[i].tip.version <= main'.version
                                    /\ releases'[i].tip.version \in Nat
    <3>1. \A i \in 1 .. Len(releases) : releases[i].tip.version \in Nat
      <4>1. \A i \in 1 .. Len(releases) : releases[i] \in Release
        BY <2>4
      <4>2. \A i \in 1 .. Len(releases) : releases[i].tip \in Tips
        BY <4>1 DEF Release
      <4> QED
        BY <4>2 DEF Tips
    <3>2. \A i \in 2 .. Len(releases') : releases'[i].tip.version <= main.version
                                      /\ releases'[i].tip.version \in Nat
      BY <1>1, <2>6, <3>1 DEF KnownPublished
    <3>3. releases'[1].tip.version = main'.version
      BY <2>3, <2>5
    <3> QED
      BY <1>1, <2>1, <2>4, <2>5, <3>2, <3>3
  <2>8. ASSUME NEW i \in 1 .. Len(releases'), NEW j \in 1 .. Len(releases'), i <= j
        PROVE  releases'[j].tip.version <= releases'[i].tip.version
    <3>1. CASE i = 1
      BY <2>3, <2>5, <2>7, <3>1
    <3>2. CASE i # 1
      <4>1. i - 1 \in 1 .. Len(releases) /\ j - 1 \in 1 .. Len(releases) /\ i - 1 <= j - 1
            /\ releases'[i] = releases[i - 1] /\ releases'[j] = releases[j - 1]
        BY <2>4, <2>5, <2>6, <2>8, <3>2
      <4> QED
        BY <1>1, <4>1 DEF KnownPublished
    <3> QED
      BY <3>1, <3>2
  <2> QED
    BY <2>1, <2>5, <2>7, <2>8 DEF KnownPublished
<1>5. ASSUME NEW u \in Upgraders,
             Checks(u) \/ Fetches(u) \/ MakesWay(u) \/ Copies(u) \/ Closes(u) \/ Finishes(u)
      PROVE  UNCHANGED <<main, releases>>
  <2>1. CASE Checks(u) \/ Fetches(u) \/ MakesWay(u)
    BY <2>1 DEF offered, Checks, Start, CheckFails, CheckStable, CheckSkipped, CheckTip, Compare,
                Fetches, MakeScratch, InstallRelease, Build, FetchFails,
                MakesWay, Look, LookAgain, ClearWay, MoveAside, MoveAsideFails, ParentFails
  <2>2. CASE Copies(u) \/ Closes(u) \/ Finishes(u)
    BY <2>2 DEF offered, Copies, OpenStaged, WriteStaged, CopyFails, Swap, SwapFails,
                Closes, Undo, Restore, RestoreFails, Discard, DiscardFails,
                Finishes, ReplaceLsp, Cleanup, Exit, Crash
  <2> QED
    BY <1>5, <2>1, <2>2
<1>6. CASE UNCHANGED vars
  BY <1>2, <1>6 DEF vars
<1> QED
  BY <1>2, <1>3, <1>4, <1>5, <1>6 DEF Next

LEMMA PositionsStayKnown == KnownInv /\ [Next]_vars => KnownPositions' /\ Honest
<1> SUFFICES ASSUME KnownInv, [Next]_vars PROVE KnownPositions' /\ Honest
  OBVIOUS
<1>1. KnownPositions /\ upgrade = [v \in Upgraders |-> upgrade[v]] /\ KnownFiles
  BY DEF KnownInv, KnownPositions
<1>2. CASE UNCHANGED upgrade
  BY <1>1, <1>2 DEF KnownPositions, Honest, At
<1>3. CASE Commit \/ Publish \/ UNCHANGED vars
  BY <1>2, <1>3 DEF Commit, Publish, vars
<1>4. ASSUME NEW u \in Upgraders, NEW q, Position(q), q.pc # "ended",
             upgrade' = [upgrade EXCEPT ![u] = q]
      PROVE  KnownPositions' /\ Honest
  <2>1. upgrade'[u] = q /\ (\A v \in Upgraders : v # u => upgrade'[v] = upgrade[v])
        /\ upgrade' = [v \in Upgraders |-> upgrade'[v]]
    BY <1>1, <1>4
  <2> QED
    BY <1>1, <1>4, <2>1 DEF KnownPositions, Honest, At
<1>5. ASSUME NEW u \in Upgraders, Start(u) PROVE KnownPositions' /\ Honest
  <2>1. PICK e \in RunFrom, mode \in {"stable", "nightly"} :
       /\ files[<<"phs", e>>].whole
       /\ upgrade' = [upgrade EXCEPT ![u] =
            [pc |-> "check", mode |-> mode, from |-> e, bin |-> "phs", had |-> FALSE,
             running |-> files[<<"phs", e>>].tip, target |-> FirstTip, assets |-> {},
             fd |-> Closed, outcome |-> "none"]]
    BY <1>5 DEF Start
  <2> DEFINE q == [pc |-> "check", mode |-> mode, from |-> e, bin |-> "phs", had |-> FALSE,
             running |-> files[<<"phs", e>>].tip, target |-> FirstTip, assets |-> {},
             fd |-> Closed, outcome |-> "none"]
  <2>2. e \in {"exe", "old"} /\ <<"phs", e>> \in Paths
    BY RunFromAssumption DEF Paths, Binaries
  <2>3. files[<<"phs", e>>].tip \in Tips /\ FirstTip \in Tips
    BY <1>1, <2>1, <2>2 DEF KnownFiles, HasTip, FirstTip, Tips
  <2>4. Position(q)
    BY <2>2, <2>3 DEF Position, Fields, Binaries
  <2>5. q.pc # "ended" /\ upgrade' = [upgrade EXCEPT ![u] = q]
    BY <2>1
  <2> HIDE DEF q
  <2> QED
    BY <1>4, <2>4, <2>5
<1>6. ASSUME NEW u \in Upgraders, Exit(u) \/ Crash(u) PROVE KnownPositions' /\ Honest
  <2>1. upgrade' = [upgrade EXCEPT ![u] = Idle] /\ Position(Idle) /\ Idle.pc # "ended"
    BY <1>6 DEF Exit, Crash, Position, Idle
  <2> QED
    BY <1>4, <2>1
<1>7. ASSUME NEW u \in Upgraders,
             Fetches(u) \/ MakesWay(u) \/ Copies(u) \/ Closes(u) \/ ReplaceLsp(u) \/ Cleanup(u)
      PROVE  KnownPositions' /\ Honest
  BY <1>1, <1>7, StepsGoOn, MovingIsHonest
<1>8. ASSUME NEW u \in Upgraders,
             CheckFails(u) \/ CheckStable(u) \/ CheckSkipped(u) \/ CheckTip(u) \/ Compare(u)
      PROVE  KnownPositions' /\ Honest
  BY <1>1, <1>8, ChecksGoOnOrJudge, MovingIsHonest
<1> QED
  BY <1>3, <1>5, <1>6, <1>7, <1>8 DEF Next, Checks, Finishes

LEMMA KnownAlways == Spec => []KnownInv
<1>1. KnownInv /\ [Next]_vars => KnownInv'
  BY FilesStayKnown, PublishedStaysKnown, PositionsStayKnown DEF KnownInv
<1> QED
  BY <1>1, KnownAtFirst, PTL DEF Spec

(* phs says that it is up to date only if no newer release of the core is  *)
(* listed (plan_stable_upgrade takes the first core release of a list that *)
(* is newest first), or if the tip it compared with has the same sources.  *)
THEOREM UpToDateOnlyWhenCurrent == Spec => UpToDateIsTrue
<1>1. Spec => []KnownInv
  BY KnownAlways
<1>2. KnownInv /\ [Next]_vars =>
        [\A u \in Upgraders : ~At(u, "ended") /\ upgrade'[u].pc = "ended" =>
           (upgrade'[u].outcome = "upToDate" => IsCurrent(u))]_vars
  BY PositionsStayKnown DEF Honest
<1> QED
  BY <1>1, <1>2, PTL DEF UpToDateIsTrue, Spec

-----------------------------------------------------------------------------
(* The inductive invariant of two upgrades at once in which nothing fails. *)
(* Sure is the case the invariant is about; Through is an upgrade that     *)
(* will not touch phs or phs.new again.                                    *)
Exe == <<"phs", "exe">>
Old == <<"phs", "old">>
New == <<"phs", "new">>
PhsPaths == {Exe, Old, New}

Sure == faults = 0 /\ starts <= 2 /\ history \subseteq {"overlap"}
PhsAt(r, pcs) == r.pc \in pcs /\ r.bin = "phs"
Through(r) == r.pc \in {"idle", "discard", "lsp", "cleanup", "ended"} \/ r.bin = "lsp"
LastOne(u) == starts = 2 /\ \A v \in Upgraders : v # u => Through(upgrade[v])
InPlace(path) == files[path].there /\ files[path].whole

FewRun ==
  /\ starts = 0 => \A u \in Upgraders : upgrade[u] = Idle
  /\ starts = 1 => \A u, v \in Upgraders : u # v => upgrade[u] = Idle \/ upgrade[v] = Idle
  /\ \A u, v, w \in Upgraders : u # v /\ u # w /\ v # w =>
       upgrade[u] = Idle \/ upgrade[v] = Idle \/ upgrade[w] = Idle

(* What an upgrade knows of its own: what is in its scratch directory.     *)
Own(r, s) ==
  /\ r # Idle => r.from = "exe"
  /\ r.pc = "write" /\ r.bin = "lsp" => r.fd \notin PhsPaths
  /\ r.pc \in {"idle", "ended", "check", "compare", "scratch"} \/ PhsAt(r, {"fetch"}) => s = NothingIn
  /\ PhsAt(r, {"look", "way", "clear", "aside", "open", "write"}) /\ Got(r, s).there => Got(r, s).whole
  /\ PhsAt(r, {"write"}) => Got(r, s).there

(* What it relies on in the directory it shares with the other upgrade: a  *)
(* file it writes to, or is to rename, is there, or has been put in place  *)
(* by the other upgrade, which is then through.                            *)
Holds(u) ==
  /\ PhsAt(upgrade[u], {"write"}) =>
       \/ upgrade[u].fd = New /\ Exists(New)
       \/ upgrade[u].fd = Exe /\ Exists(Exe) /\ LastOne(u)
  /\ PhsAt(upgrade[u], {"swap"}) => Exists(New) \/ (InPlace(Exe) /\ LastOne(u))
  /\ PhsAt(upgrade[u], {"undo", "restore"}) => InPlace(Exe) /\ LastOne(u)

(* A file that is cut short is being written, and phs is missing only      *)
(* while an upgrade is about to put the next one in its place.             *)
OnDisk ==
  /\ Exists(Old) => InPlace(Old)
  /\ Exists(New) => InPlace(New) \/ WritersOf(New) # {}
  /\ Exists(Exe) => InPlace(Exe) \/ WritersOf(Exe) # {}
  /\ Exists(Exe) \/ \E u \in Upgraders : PhsAt(upgrade[u], {"open", "write", "swap"})

PairInv ==
  /\ faults \in Nat /\ starts \in Nat
  /\ Sure => /\ FewRun /\ OnDisk
             /\ \A u \in Upgraders : Own(upgrade[u], scratch[u]) /\ Holds(u)

LEMMA PairAtFirst == Init => PairInv
<1> SUFFICES ASSUME Init PROVE PairInv
  OBVIOUS
<1>1. faults = 0 /\ starts = 0
  BY DEF Init
<1>2. \A u \in Upgraders : upgrade[u] = Idle /\ scratch[u] = NothingIn
  BY DEF Init
<1>3. files[Exe] = Whole(FirstTip) /\ files[Old] = Missing /\ files[New] = Missing
  BY DEF Init, Exe, Old, New, Paths, Binaries
<1>4. FewRun
  BY <1>1, <1>2 DEF FewRun
<1>5. OnDisk
  BY <1>3, WholeIsWhole DEF OnDisk, InPlace, Exists
<1>6. \A u \in Upgraders : Own(upgrade[u], scratch[u]) /\ Holds(u)
  BY <1>2 DEF Own, Holds, PhsAt, Idle
<1> QED
  BY <1>1, <1>4, <1>5, <1>6 DEF PairInv

(* A sure state follows sure states only, by a step that does not fail.    *)
LEMMA SureBefore ==
  ASSUME PairInv, Next
  PROVE  faults' \in Nat /\ starts' \in Nat /\ (Sure' => Sure /\ UNCHANGED faults)
<1>1. faults \in Nat /\ starts \in Nat
  BY DEF PairInv
<1>2. history \subseteq history'
  BY HistoryGrows
<1>3. (UNCHANGED faults \/ Fault) /\ (UNCHANGED starts \/ starts' = starts + 1)
  <2>1. ASSUME NEW u \in Upgraders, Checks(u) \/ Fetches(u) \/ MakesWay(u) PROVE <1>3
    BY <2>1 DEF offered, Checks, Start, CheckFails, CheckStable, CheckSkipped, CheckTip, Compare,
                Fetches, MakeScratch, InstallRelease, Build, FetchFails,
                MakesWay, Look, LookAgain, ClearWay, MoveAside, MoveAsideFails, ParentFails
  <2>2. ASSUME NEW u \in Upgraders, Copies(u) \/ Closes(u) \/ Finishes(u) PROVE <1>3
    BY <2>2 DEF offered, Copies, OpenStaged, WriteStaged, CopyFails, Swap, SwapFails,
                Closes, Undo, Restore, RestoreFails, Discard, DiscardFails,
                Finishes, ReplaceLsp, Cleanup, Exit, Crash
  <2>3. CASE Commit \/ Publish
    BY <2>3 DEF Commit, Publish
  <2> QED
    BY <2>1, <2>2, <2>3 DEF Next
<1>4. faults' \in Nat /\ starts' \in Nat /\ starts <= starts'
  BY <1>1, <1>3 DEF Fault
<1>5. ASSUME Sure' PROVE Sure /\ UNCHANGED faults
  <2>1. faults' = 0 /\ starts' <= 2 /\ history' \subseteq {"overlap"}
    BY <1>5 DEF Sure
  <2>2. UNCHANGED faults
    BY <1>1, <1>3, <2>1 DEF Fault
  <2> QED
    BY <1>1, <1>2, <1>4, <2>1, <2>2 DEF Sure
<1> QED
  BY <1>4, <1>5

LEMMA PhsNames ==
  /\ Exe # Old /\ Exe # New /\ Old # New /\ Closed \notin PhsPaths
  /\ Exe \in Paths /\ Old \in Paths /\ New \in Paths
  /\ \A e : <<"lsp", e>> \notin PhsPaths
BY DEF Exe, Old, New, PhsPaths, Closed, Paths, Binaries

LEMMA WhoWritesPhs ==
  ASSUME KnownInv, PairInv, Sure
  PROVE  /\ \A path \in PhsPaths : \A v \in WritersOf(path) :
              v \in Upgraders /\ PhsAt(upgrade[v], {"write"}) /\ upgrade[v].fd = path
         /\ \A v \in Upgraders : PhsAt(upgrade[v], {"write"}) => v \in WritersOf(upgrade[v].fd)
         /\ WritersOf(Old) = {}
<1>1. ASSUME NEW path \in PhsPaths, NEW v \in WritersOf(path)
      PROVE  v \in Upgraders /\ PhsAt(upgrade[v], {"write"}) /\ upgrade[v].fd = path
  <2>1. v \in Upgraders /\ upgrade[v].pc = "write" /\ upgrade[v].fd = path
    BY DEF WritersOf
  <2>2. upgrade[v].bin \in Binaries
    BY <2>1 DEF KnownInv, KnownPositions, Position, Idle
  <2>3. Own(upgrade[v], scratch[v])
    BY <2>1 DEF PairInv
  <2> QED
    BY <2>1, <2>2, <2>3 DEF Own, PhsAt, Binaries
<1>2. \A v \in Upgraders : PhsAt(upgrade[v], {"write"}) => v \in WritersOf(upgrade[v].fd)
  BY DEF WritersOf, PhsAt
<1>3. WritersOf(Old) = {}
  <2>1. \A v \in WritersOf(Old) : PhsAt(upgrade[v], {"write"}) /\ upgrade[v].fd = Old /\ v \in Upgraders
    BY <1>1 DEF PhsPaths
  <2>2. \A v \in Upgraders : Holds(v)
    BY DEF PairInv
  <2> QED
    BY <2>1, <2>2, PhsNames DEF Holds
<1> QED
  BY <1>1, <1>2, <1>3

(* While an upgrade has phs still to do, no other is the last one.         *)
LEMMA NobodyElseIsLast ==
  ASSUME NEW u \in Upgraders, ~Through(upgrade[u])
  PROVE  \A v \in Upgraders : v # u => ~LastOne(v)
BY DEF LastOne

(* Beside the last one, nobody writes.                                     *)
LEMMA LastWritesAlone ==
  ASSUME KnownInv, PairInv, Sure, NEW u \in Upgraders, LastOne(u)
  PROVE  /\ \A path \in PhsPaths : WritersOf(path) \subseteq {u}
         /\ \A v \in Upgraders : v # u => ~PhsAt(upgrade[v], {"open", "write", "swap", "undo", "restore"})
<1>1. \A v \in Upgraders : v # u => ~PhsAt(upgrade[v], {"open", "write", "swap", "undo", "restore"})
  BY DEF LastOne, Through, PhsAt
<1>2. \A v \in Upgraders : v # u => ~PhsAt(upgrade[v], {"write"})
  BY <1>1 DEF PhsAt
<1> QED
  BY <1>1, <1>2, WhoWritesPhs

(***************************************************************************)
(* What a step of u does to the others: their scratch directories stay,    *)
(* and a file they write may get another name, but not one of phs.         *)
(***************************************************************************)
Stays(q, r) == r.pc = "write" => q.fd = r.fd \/ (q.fd \notin PhsPaths /\ r.fd \notin PhsPaths)
OthersStay(u) ==
  /\ UNCHANGED <<starts, faults>>
  /\ \A v \in Upgraders : v # u =>
       /\ scratch'[v] = scratch[v]
       /\ Fixed(upgrade'[v], upgrade[v])
       /\ upgrade[v].pc = "write" /\ upgrade[v].bin = "lsp" => upgrade'[v].fd \notin PhsPaths

LEMMA FixedIsAlike ==
  ASSUME NEW q, NEW r, Fixed(q, r)
  PROVE  /\ q.pc = r.pc
         /\ \A pcs : PhsAt(q, pcs) <=> PhsAt(r, pcs)
         /\ Through(q) <=> Through(r)
         /\ r = Idle <=> q = Idle
         /\ q # Idle => q.bin = r.bin /\ q.from = r.from /\ q.mode = r.mode
<1>1. CASE r = Idle
  BY <1>1 DEF Fixed
<1>2. CASE r # Idle
  <2>1. DOMAIN Idle = {"pc"} /\ DOMAIN q = Fields /\ "mode" \in Fields
    BY <1>2 DEF Idle, Fixed, Fields
  <2>2. q # Idle
    BY <2>1
  <2> QED
    BY <1>2, <2>2 DEF Fixed, PhsAt, Through
<1> QED
  BY <1>1, <1>2

LEMMA PairKeeps ==
  ASSUME PairInv, Sure, NEW u \in Upgraders, upgrade[u] # Idle, OthersStay(u),
         Own(upgrade'[u], scratch'[u]), \A v \in Upgraders : Holds(v)', OnDisk'
  PROVE  PairInv'
<1>1. FewRun /\ faults \in Nat /\ starts \in Nat /\ UNCHANGED <<starts, faults>>
  BY DEF PairInv, OthersStay
<1>2. \A v \in Upgraders : v # u => Fixed(upgrade'[v], upgrade[v]) /\ scratch'[v] = scratch[v]
  BY DEF OthersStay
<1>3. \A v \in Upgraders : upgrade[v] = Idle => upgrade'[v] = Idle
  BY <1>2 DEF Fixed
<1>4. FewRun'
  BY <1>1, <1>3 DEF FewRun
<1>5. ASSUME NEW v \in Upgraders, v # u PROVE Own(upgrade'[v], scratch'[v])
  <2>1. Own(upgrade[v], scratch[v]) /\ Fixed(upgrade'[v], upgrade[v])
    BY <1>2, <1>5 DEF PairInv
  <2>2. CASE upgrade[v] = Idle
    BY <1>2, <1>5, <2>1, <2>2 DEF Fixed
  <2>3. CASE upgrade[v] # Idle
    <3>1. Got(upgrade'[v], scratch'[v]) = Got(upgrade[v], scratch[v])
      BY <1>2, <1>5, <2>1, <2>3 DEF Got, Fixed
    <3>2. upgrade'[v].pc = "write" /\ upgrade'[v].bin = "lsp" => upgrade'[v].fd \notin PhsPaths
      BY <1>5, <2>1, <2>3 DEF OthersStay, Fixed
    <3> QED
      BY <1>2, <1>5, <2>1, <2>3, <3>1, <3>2 DEF Own, Fixed, PhsAt
  <2> QED
    BY <2>2, <2>3
<1> QED
  BY <1>1, <1>4, <1>5 DEF PairInv

(* A step that leaves phs and phs.new alone.                               *)
LEMMA AsideKeeps ==
  ASSUME KnownInv, KnownInv', PairInv, Sure, NEW u \in Upgraders, upgrade[u] # Idle, OthersStay(u),
         \A v \in Upgraders : v # u => Stays(upgrade'[v], upgrade[v]),
         files'[Exe] = files[Exe], files'[New] = files[New], files'[Old] \in {files[Old], Missing},
         ~PhsAt(upgrade[u], {"write"}), ~PhsAt(upgrade'[u], {"write"}),
         Own(upgrade'[u], scratch'[u]),
         Through(upgrade[u]) => Through(upgrade'[u]),
         PhsAt(upgrade'[u], {"swap", "undo", "restore"}) => InPlace(Exe) /\ LastOne(u),
         PhsAt(upgrade[u], {"open", "write", "swap"}) =>
           PhsAt(upgrade'[u], {"open", "write", "swap"}) \/ Exists(Exe)
  PROVE  PairInv'
<1>1. \A v \in Upgraders : v # u => Fixed(upgrade'[v], upgrade[v]) /\ Stays(upgrade'[v], upgrade[v])
  BY DEF OthersStay
<1>2. \A v \in Upgraders : Through(upgrade[v]) => Through(upgrade'[v])
  BY <1>1, FixedIsAlike
<1>3. \A v \in Upgraders : LastOne(v) => LastOne(v)'
  BY <1>2 DEF LastOne, OthersStay
<1>4. \A path \in PhsPaths : WritersOf(path) \subseteq WritersOf(path)'
  <2>1. ASSUME NEW path \in PhsPaths, NEW v \in WritersOf(path) PROVE v \in WritersOf(path)'
    <3>1. v \in Upgraders /\ PhsAt(upgrade[v], {"write"}) /\ upgrade[v].fd = path /\ v # u
      BY WhoWritesPhs
    <3>2. upgrade[v].pc = "write" /\ upgrade'[v].pc = upgrade[v].pc
      BY <1>1, <3>1, FixedIsAlike DEF PhsAt
    <3>3. upgrade'[v].fd = path
      BY <1>1, <3>1, <3>2 DEF Stays
    <3> QED
      BY <3>1, <3>2, <3>3 DEF WritersOf
  <2> QED
    BY <2>1
<1>5. InPlace(Exe)' <=> InPlace(Exe)
  BY DEF InPlace
<1>6. (Exists(Exe)' <=> Exists(Exe)) /\ (Exists(New)' <=> Exists(New)) /\ (InPlace(New)' <=> InPlace(New))
  BY DEF Exists, InPlace
<1>7. ASSUME NEW v \in Upgraders PROVE Holds(v)'
  <2>1. CASE v = u
    <3>1. ~PhsAt(upgrade'[v], {"write"})
      BY <2>1
    <3>2. PhsAt(upgrade'[v], {"swap", "undo", "restore"}) => InPlace(Exe)' /\ LastOne(v)'
      BY <1>3, <1>5, <2>1
    <3> QED
      BY <3>1, <3>2 DEF Holds, PhsAt
  <2>2. CASE v # u
    <3>0. Holds(v) /\ Fixed(upgrade'[v], upgrade[v])
      BY <1>1, <2>2 DEF PairInv
    <3>1. \A pcs : PhsAt(upgrade'[v], pcs) <=> PhsAt(upgrade[v], pcs)
      BY <3>0, FixedIsAlike
    <3>2. PhsAt(upgrade[v], {"write"}) => upgrade'[v].fd = upgrade[v].fd \/ upgrade[v].fd \notin PhsPaths
      BY <1>1, <2>2 DEF Stays, PhsAt
    <3> QED
      BY <1>3, <1>5, <1>6, <3>0, <3>1, <3>2 DEF Holds, PhsPaths
  <2> QED
    BY <2>1, <2>2
<1>8. OnDisk'
  <2>1. OnDisk
    BY DEF PairInv
  <2>2. Exists(Old)' => InPlace(Old)'
    BY <2>1, WholeIsWhole DEF OnDisk, Exists, InPlace
  <2>3. Exists(New)' => InPlace(New)' \/ WritersOf(New)' # {}
    BY <1>4, <1>6, <2>1 DEF OnDisk, PhsPaths
  <2>4. Exists(Exe)' => InPlace(Exe)' \/ WritersOf(Exe)' # {}
    BY <1>4, <1>5, <1>6, <2>1 DEF OnDisk, PhsPaths
  <2>5. Exists(Exe)' \/ \E v \in Upgraders : PhsAt(upgrade'[v], {"open", "write", "swap"})
    <3>1. CASE Exists(Exe)
      BY <1>6, <3>1
    <3>2. ASSUME NEW v \in Upgraders, PhsAt(upgrade[v], {"open", "write", "swap"}) PROVE <2>5
      <4>1. CASE v = u
        BY <1>6, <3>2, <4>1
      <4>2. CASE v # u
        <5>1. Fixed(upgrade'[v], upgrade[v])
          BY <1>1, <4>2
        <5>2. PhsAt(upgrade'[v], {"open", "write", "swap"})
          BY <3>2, <5>1, FixedIsAlike
        <5> QED
          BY <5>2
      <4> QED
        BY <4>1, <4>2
    <3> QED
      BY <2>1, <3>1, <3>2 DEF OnDisk
  <2> QED
    BY <2>2, <2>3, <2>4, <2>5 DEF OnDisk
<1> QED
  BY <1>7, <1>8, PairKeeps

(* The record of an upgrade after a step that takes it to p.               *)
Turns(q, r, p) == q # Idle /\ q.pc = p /\ q.bin = r.bin /\ q.from = r.from /\ q.mode = r.mode

LEMMA Turning ==
  ASSUME KnownPositions, NEW u \in Upgraders, upgrade[u] # Idle, NEW table, Refers(table)
  PROVE  /\ \A p : p # "idle" =>
              /\ Turns(Goes(table, u, p)[u], upgrade[u], p) /\ Goes(table, u, p)[u].fd = table[u].fd
              /\ \A v \in Upgraders : v # u => Goes(table, u, p)[v] = table[v]
         /\ upgrade[u].bin = "phs" => Turns(Replaced(table, u)[u], upgrade[u], "lsp")
         /\ upgrade[u].bin # "phs" => Turns(Replaced(table, u)[u], upgrade[u], "cleanup")
         /\ \A v \in Upgraders : v # u => Replaced(table, u)[v] = table[v]
         /\ Turns(Failed(u)[u], upgrade[u], "cleanup")
         /\ Turns([table EXCEPT ![u] = Failed(u)[u]][u], upgrade[u], "cleanup")
         /\ \A v \in Upgraders : v # u => Failed(u)[v] = upgrade[v]
         /\ \A v \in Upgraders : v # u => [table EXCEPT ![u] = Failed(u)[u]][v] = table[v]
<1> DEFINE r == upgrade[u]
<1>1. table = [v \in Upgraders |-> table[v]] /\ upgrade = [v \in Upgraders |-> upgrade[v]]
  BY DEF Refers, KnownPositions
<1>2. DOMAIN r = Fields /\ Position(r)
  BY DEF KnownPositions, Position
<1>3. /\ DOMAIN table[u] = Fields
      /\ table[u].bin = r.bin /\ table[u].from = r.from /\ table[u].mode = r.mode
  BY DEF Refers, Fixed
<1>4. \A q : DOMAIN q = Fields => q # Idle
  BY DEF Idle, Fields
<1>5. ASSUME NEW p, p # "idle"
      PROVE  /\ Turns(Goes(table, u, p)[u], r, p) /\ Goes(table, u, p)[u].fd = table[u].fd
             /\ \A v \in Upgraders : v # u => Goes(table, u, p)[v] = table[v]
  <2>1. Goes(table, u, p) = [table EXCEPT ![u] = [table[u] EXCEPT !.pc = p]]
    BY DEF Goes
  <2>2. Goes(table, u, p)[u] = [table[u] EXCEPT !.pc = p]
    BY <1>1, <2>1
  <2>3. \A v \in Upgraders : v # u => Goes(table, u, p)[v] = table[v]
    BY <1>1, <2>1
  <2> QED
    BY <1>3, <1>4, <2>2, <2>3 DEF Turns, Fields
<1>6. /\ r.bin = "phs" => Turns(Replaced(table, u)[u], r, "lsp")
      /\ r.bin # "phs" => Turns(Replaced(table, u)[u], r, "cleanup")
      /\ \A v \in Upgraders : v # u => Replaced(table, u)[v] = table[v]
  <2>1. CASE r.bin = "phs"
    <3>1. Replaced(table, u) = [table EXCEPT ![u] = [table[u] EXCEPT !.pc = "lsp", !.outcome = "updated"]]
      BY <2>1 DEF Replaced
    <3>2. Replaced(table, u)[u] = [table[u] EXCEPT !.pc = "lsp", !.outcome = "updated"]
      BY <1>1, <3>1
    <3>3. \A v \in Upgraders : v # u => Replaced(table, u)[v] = table[v]
      BY <1>1, <3>1
    <3> QED
      BY <1>3, <1>4, <2>1, <3>2, <3>3 DEF Turns, Fields
  <2>2. CASE r.bin # "phs"
    BY <1>5, <2>2 DEF Replaced
  <2> QED
    BY <2>1, <2>2
<1>7. Turns(Failed(u)[u], r, "cleanup") /\ \A v \in Upgraders : v # u => Failed(u)[v] = upgrade[v]
  <2>1. PICK o : Failed(u) = [upgrade EXCEPT ![u] = [r EXCEPT !.pc = "cleanup", !.outcome = o]]
    BY DEF Failed
  <2>2. Failed(u)[u] = [r EXCEPT !.pc = "cleanup", !.outcome = o]
    BY <1>1, <2>1
  <2>3. \A v \in Upgraders : v # u => Failed(u)[v] = upgrade[v]
    BY <1>1, <2>1
  <2> QED
    BY <1>2, <1>4, <2>2, <2>3 DEF Turns, Fields
<1>8. /\ Turns([table EXCEPT ![u] = Failed(u)[u]][u], r, "cleanup")
      /\ \A v \in Upgraders : v # u => [table EXCEPT ![u] = Failed(u)[u]][v] = table[v]
  BY <1>1, <1>7
<1> QED
  BY <1>5, <1>6, <1>7, <1>8

(* When a name other than those of phs is given or taken away, whoever     *)
(* writes a file of phs goes on writing it.                                *)
LEMMA OtherNames ==
  ASSUME KnownInv, PairInv, Sure, NEW a, a \notin PhsPaths, NEW b, b \notin PhsPaths, NEW v \in Upgraders,
         NEW table, table \in {upgrade, Unlinked(a), Following(a, b)}
  PROVE  /\ Stays(table[v], upgrade[v])
         /\ upgrade[v].pc = "write" /\ upgrade[v].bin = "lsp" => table[v].fd \notin PhsPaths
<1>1. upgrade[v] = Idle \/ DOMAIN upgrade[v] = Fields
  BY DEF KnownInv, KnownPositions, Position
<1>2. upgrade[v].pc = "write" /\ upgrade[v].bin = "lsp" => upgrade[v].fd \notin PhsPaths
  BY DEF PairInv, Own
<1>3. ASSUME NEW path, path \notin PhsPaths, v \in WritersOf(path), NEW fd, fd \notin PhsPaths,
             table[v] = [upgrade[v] EXCEPT !.fd = fd]
      PROVE  Stays(table[v], upgrade[v]) /\ table[v].fd \notin PhsPaths
  <2>1. upgrade[v].pc = "write" /\ upgrade[v].fd = path
    BY <1>3 DEF WritersOf
  <2>2. table[v].fd = fd
    BY <1>1, <1>3, <2>1 DEF Fields, Idle
  <2> QED
    BY <1>3, <2>1, <2>2 DEF Stays
<1>4. CASE table[v] = upgrade[v]
  BY <1>2, <1>4 DEF Stays
<1>5. CASE table = Unlinked(a)
  <2>1. table[v] = IF v \in WritersOf(a) THEN [upgrade[v] EXCEPT !.fd = Closed] ELSE upgrade[v]
    BY <1>5 DEF Unlinked, Refer
  <2> QED
    BY <1>3, <1>4, <2>1, PhsNames
<1>6. CASE table = Following(a, b)
  <2>1. table[v] = IF v \in WritersOf(b) \ WritersOf(a) THEN [upgrade[v] EXCEPT !.fd = Closed]
                   ELSE IF v \in WritersOf(a) THEN [upgrade[v] EXCEPT !.fd = b] ELSE upgrade[v]
    BY <1>6 DEF Following, Refer
  <2> QED
    BY <1>3, <1>4, <2>1, PhsNames
<1> QED
  BY <1>4, <1>5, <1>6

(* A step that changes no file and no other upgrade.                       *)
LEMMA StandsAside ==
  ASSUME KnownInv, KnownInv', PairInv, Sure, NEW u \in Upgraders, upgrade[u] # Idle,
         UNCHANGED <<files, starts, faults>>,
         \A v \in Upgraders : v # u => upgrade'[v] = upgrade[v] /\ scratch'[v] = scratch[v],
         ~PhsAt(upgrade[u], {"write"}), ~PhsAt(upgrade'[u], {"write"}),
         Own(upgrade'[u], scratch'[u]),
         Through(upgrade[u]) => Through(upgrade'[u]),
         PhsAt(upgrade'[u], {"swap", "undo", "restore"}) => InPlace(Exe) /\ LastOne(u),
         PhsAt(upgrade[u], {"open", "write", "swap"}) =>
           PhsAt(upgrade'[u], {"open", "write", "swap"}) \/ Exists(Exe)
  PROVE  PairInv'
<1>1. Refers(upgrade)
  BY ReferFixes DEF KnownInv
<1>2. \A v \in Upgraders : Own(upgrade[v], scratch[v])
  BY DEF PairInv
<1>3. OthersStay(u)
  BY <1>1, <1>2 DEF OthersStay, Refers, Own
<1>4. \A v \in Upgraders : v # u => Stays(upgrade'[v], upgrade[v])
  BY DEF Stays
<1> QED
  BY <1>3, <1>4, AsideKeeps

LEMMA OnlyChanged ==
  ASSUME KnownPositions, NEW u \in Upgraders, NEW q, upgrade' = [upgrade EXCEPT ![u] = q]
  PROVE  upgrade'[u] = q /\ \A v \in Upgraders : v # u => upgrade'[v] = upgrade[v]
BY DEF KnownPositions

LEMMA ChecksPair ==
  ASSUME KnownInv, KnownInv', PairInv, Sure, NEW u \in Upgraders,
         UNCHANGED faults,
         CheckFails(u) \/ CheckStable(u) \/ CheckSkipped(u) \/ CheckTip(u) \/ Compare(u)
  PROVE  PairInv'
<1> DEFINE r == upgrade[u]  q == upgrade'[u]
<1>0. UNCHANGED <<files, scratch, starts>> /\ r.pc \in {"check", "compare"}
  BY DEF CheckFails, CheckStable, CheckSkipped, CheckTip, Compare, At
<1>1. r # Idle /\ KnownPositions /\ upgrade = [v \in Upgraders |-> upgrade[v]]
  BY <1>0 DEF Idle, KnownInv, KnownPositions
<1>2. DOMAIN r = Fields /\ \A x : DOMAIN x = Fields => x # Idle
  BY <1>1 DEF KnownPositions, Position, Idle, Fields
<1>3. Own(r, scratch[u]) /\ r.from = "exe" /\ scratch[u] = NothingIn
  BY <1>0, <1>1 DEF PairInv, Own
<1>4. /\ \A v \in Upgraders : v # u => upgrade'[v] = upgrade[v]
      /\ \E p \in {"ended", "scratch", "compare"} : Turns(q, r, p)
  <2>1. ASSUME NEW p \in {"ended", "scratch", "compare"}, NEW o,
               upgrade' = [upgrade EXCEPT ![u] = [r EXCEPT !.pc = p, !.outcome = o]]
        PROVE  <1>4!:
    <3>1. q = [r EXCEPT !.pc = p, !.outcome = o] /\ \A v \in Upgraders : v # u => upgrade'[v] = upgrade[v]
      BY <1>1, <2>1, OnlyChanged
    <3> QED
      BY <1>2, <3>1 DEF Turns, Fields
  <2>2. ASSUME NEW p \in {"ended", "scratch", "compare"}, NEW t, NEW a,
               upgrade' = [upgrade EXCEPT ![u] = [r EXCEPT !.pc = p, !.target = t, !.assets = a]]
        PROVE  <1>4!:
    <3>1. q = [r EXCEPT !.pc = p, !.target = t, !.assets = a]
          /\ \A v \in Upgraders : v # u => upgrade'[v] = upgrade[v]
      BY <1>1, <2>2, OnlyChanged
    <3> QED
      BY <1>2, <3>1 DEF Turns, Fields
  <2>3. ASSUME NEW o, Ends(u, o) PROVE <1>4!:
    <3>1. upgrade' = [upgrade EXCEPT ![u] = [r EXCEPT !.pc = "ended", !.outcome = o]]
      BY <2>3 DEF Ends
    <3> QED
      BY <2>1, <3>1
  <2>4. ASSUME NEW p \in {"scratch", "compare"}, GoTo(u, p) PROVE <1>4!:
    <3>1. Refers(upgrade) /\ upgrade' = Goes(upgrade, u, p)
      BY <1>1, <2>4, ReferFixes DEF GoTo
    <3>2. /\ Turns(Goes(upgrade, u, p)[u], upgrade[u], p)
          /\ \A v \in Upgraders : v # u => Goes(upgrade, u, p)[v] = upgrade[v]
      BY <1>1, <3>1, Turning
    <3> QED
      BY <3>1, <3>2
  <2>5. CASE CheckStable(u)
    <3>1. CASE \E o : Ends(u, o)
      BY <2>3, <3>1
    <3>2. CASE ~ \E o : Ends(u, o)
      <4> DEFINE plan == Plan(r.running)
      <4>1. upgrade' = [upgrade EXCEPT ![u].pc = "scratch", ![u].target = plan.release.tip,
                                       ![u].assets = plan.release.assets]
        BY <2>5, <3>2 DEF CheckStable
      <4>2. upgrade' = [upgrade EXCEPT ![u] =
              [r EXCEPT !.pc = "scratch", !.target = plan.release.tip, !.assets = plan.release.assets]]
        BY <4>1
      <4> HIDE DEF plan
      <4> QED
        BY <2>2, <4>2
    <3> QED
      BY <3>1, <3>2
  <2>6. CASE CheckTip(u)
    <3>1. upgrade' = [upgrade EXCEPT ![u] = [r EXCEPT !.pc = "compare", !.target = main]]
      BY <2>6 DEF CheckTip
    <3>2. [r EXCEPT !.pc = "compare", !.target = main]
            = [r EXCEPT !.pc = "compare", !.target = main, !.assets = r.assets]
      BY <1>2 DEF Fields
    <3> QED
      BY <2>2, <3>1, <3>2
  <2>7. CASE CheckFails(u) \/ CheckSkipped(u) \/ Compare(u)
    BY <2>3, <2>4, <2>7 DEF CheckFails, CheckSkipped, Compare
  <2> QED
    BY <2>5, <2>6, <2>7
<1>5. Own(q, scratch'[u]) /\ ~PhsAt(q, {"write", "swap", "undo", "restore"})
  BY <1>0, <1>3, <1>4 DEF Own, Turns, PhsAt
<1>6. /\ ~PhsAt(r, {"open", "write", "swap"}) /\ ~PhsAt(r, {"write"}) /\ ~PhsAt(q, {"write"})
      /\ ~PhsAt(q, {"swap", "undo", "restore"})
  BY <1>0, <1>5 DEF PhsAt
<1>7. Through(r) => Through(q)
  BY <1>0, <1>4 DEF Through, Turns
<1> HIDE DEF r, q
<1> QED
  BY <1>0, <1>1, <1>4, <1>5, <1>6, <1>7, StandsAside DEF r, q

LEMMA FetchesPair ==
  ASSUME KnownInv, KnownInv', PairInv, Sure, NEW u \in Upgraders,
         UNCHANGED faults, Fetches(u)
  PROVE  PairInv'
<1> DEFINE r == upgrade[u]  q == upgrade'[u]  s == scratch[u]
<1>0. UNCHANGED <<files, starts>> /\ r.pc \in {"scratch", "fetch"}
  BY DEF Fetches, MakeScratch, InstallRelease, Build, FetchFails, At
<1>1. r # Idle /\ KnownPositions /\ Refers(upgrade) /\ upgrade = [v \in Upgraders |-> upgrade[v]]
  BY <1>0, ReferFixes DEF Idle, KnownInv, KnownPositions
<1>2. DOMAIN r = Fields /\ (\A x : DOMAIN x = Fields => x # Idle) /\ r.mode \in {"stable", "nightly"}
      /\ r.bin \in Binaries
  BY <1>1 DEF KnownPositions, Position, Idle, Fields
<1>3. r.from = "exe" /\ (r.pc = "scratch" \/ r.bin = "phs" => s = NothingIn)
  BY <1>0, <1>1 DEF PairInv, Own, PhsAt
<1>4. DOMAIN scratch = Upgraders /\ DOMAIN s = Downloads
      /\ DOMAIN NothingIn = Downloads /\ \A d \in Downloads : NothingIn[d] = Missing
  BY DEF KnownInv, KnownFiles, NothingIn
<1>5. /\ \A v \in Upgraders : v # u => upgrade'[v] = upgrade[v] /\ scratch'[v] = scratch[v]
      /\ \E p \in {"fetch", "look", "cleanup"} : Turns(q, r, p)
      /\ q.pc = "fetch" => scratch'[u] = s \/ scratch'[u] = NothingIn
      /\ q.pc = "fetch" => r.pc = "scratch"
      /\ q.pc = "look" /\ r.bin = "phs" => (Got(r, scratch'[u]).there => Got(r, scratch'[u]).whole)
  <2>1. ASSUME NEW p \in {"fetch", "look"}, upgrade' = Goes(upgrade, u, p)
        PROVE  Turns(q, r, p) /\ \A v \in Upgraders : v # u => upgrade'[v] = upgrade[v]
    <3>1. /\ Turns(Goes(upgrade, u, p)[u], r, p)
          /\ \A v \in Upgraders : v # u => Goes(upgrade, u, p)[v] = upgrade[v]
      BY <1>1, Turning
    <3> QED
      BY <2>1, <3>1
  <2>2. CASE MakeScratch(u)
    <3>1. upgrade' = Goes(upgrade, u, "fetch") /\ r.pc = "scratch"
      BY <2>2 DEF MakeScratch, GoTo, At
    <3>2. (scratch'[u] = s \/ scratch'[u] = NothingIn) /\ \A v \in Upgraders : v # u => scratch'[v] = scratch[v]
      BY <1>4, <2>2 DEF MakeScratch
    <3>3. Turns(q, r, "fetch") /\ \A v \in Upgraders : v # u => upgrade'[v] = upgrade[v]
      BY <2>1, <3>1
    <3> QED
      BY <3>1, <3>2, <3>3 DEF Turns
  <2>3. CASE InstallRelease(u)
    <3> DEFINE t == Extracted(u, Whole(r.target))
    <3>1. upgrade' = Goes(upgrade, u, "look") /\ scratch' = [scratch EXCEPT ![u] = t] /\ r.pc = "fetch"
          /\ r.mode = "stable"
      BY <2>3 DEF InstallRelease, GoTo, At
    <3>2. scratch'[u] = t /\ \A v \in Upgraders : v # u => scratch'[v] = scratch[v]
      BY <1>4, <3>1
    <3>3. r.bin = "phs" => Got(r, t) \in {Whole(r.target), Missing}
      <4>1. <<"extracted", "phs">> \in Downloads
        BY DEF Downloads, Binaries
      <4>2. Got(r, t) = t[<<"extracted", "phs">>]
        BY <3>1 DEF Got
      <4>3. t[<<"extracted", "phs">>] \in {Whole(r.target), s[<<"extracted", "phs">>]}
        BY <4>1 DEF Extracted
      <4> QED
        BY <1>3, <1>4, <4>1, <4>2, <4>3
    <3>4. Turns(q, r, "look") /\ \A v \in Upgraders : v # u => upgrade'[v] = upgrade[v]
      BY <2>1, <3>1
    <3> HIDE DEF t
    <3> QED
      BY <3>2, <3>3, <3>4, WholeIsWhole DEF Turns
  <2>4. CASE Build(u)
    <3> DEFINE tip == IF r.bin = "phs" THEN main ELSE r.target
               t == [s EXCEPT ![Download(u, r.bin)] = Whole(main)]
    <3>1. upgrade' = [upgrade EXCEPT ![u] = [r EXCEPT !.pc = "look", !.target = tip]]
          /\ scratch' = [scratch EXCEPT ![u] = t] /\ r.mode = "nightly"
      BY <2>4 DEF Build
    <3>2. q = [r EXCEPT !.pc = "look", !.target = tip] /\ \A v \in Upgraders : v # u => upgrade'[v] = upgrade[v]
      BY <1>1, <3>1, OnlyChanged
    <3>3. Turns(q, r, "look")
      BY <1>2, <3>2 DEF Turns, Fields
    <3>4. scratch'[u] = t /\ \A v \in Upgraders : v # u => scratch'[v] = scratch[v]
      BY <1>4, <3>1
    <3>5. r.bin = "phs" => Got(r, t) = Whole(main)
      <4>1. <<"bin", "phs">> \in Downloads
        BY DEF Downloads, Binaries
      <4>2. r.bin = "phs" => Download(u, r.bin) = <<"bin", "phs">>
        BY <3>1 DEF Download
      <4>3. Got(r, t) = t[<<"bin", "phs">>]
        BY <3>1 DEF Got
      <4> QED
        BY <1>4, <4>1, <4>2, <4>3
    <3> HIDE DEF t, tip
    <3> QED
      BY <3>2, <3>3, <3>4, <3>5, WholeIsWhole DEF Turns
  <2>5. CASE FetchFails(u)
    <3>1. upgrade' = Failed(u) /\ (scratch' = scratch \/ scratch' = [scratch EXCEPT ![u] = Extracted(u, Partial)])
      BY <2>5 DEF FetchFails
    <3>2. Turns(Failed(u)[u], r, "cleanup") /\ \A v \in Upgraders : v # u => Failed(u)[v] = upgrade[v]
      BY <1>1, Turning
    <3>3. \A v \in Upgraders : v # u => scratch'[v] = scratch[v]
      BY <1>4, <3>1
    <3> QED
      BY <3>1, <3>2, <3>3 DEF Turns
  <2> QED
    BY <2>2, <2>3, <2>4, <2>5 DEF Fetches
<1>6. /\ ~PhsAt(r, {"open", "write", "swap"}) /\ ~PhsAt(r, {"write"}) /\ ~PhsAt(q, {"write"})
      /\ ~PhsAt(q, {"swap", "undo", "restore"}) /\ q.from = "exe" /\ q.pc \in {"fetch", "look", "cleanup"}
      /\ q.bin = r.bin /\ q.mode = r.mode
  BY <1>0, <1>3, <1>5 DEF PhsAt, Turns
<1>7. Own(q, scratch'[u])
  <2>1. Got(q, scratch'[u]) = Got(r, scratch'[u])
    BY <1>6 DEF Got
  <2>2. q.pc = "fetch" => scratch'[u] = NothingIn
    BY <1>3, <1>5
  <2> QED
    BY <1>5, <1>6, <2>1, <2>2 DEF Own, PhsAt
<1>8. Through(r) => Through(q)
  BY <1>0, <1>6 DEF Through
<1> HIDE DEF r, q, s
<1> QED
  BY <1>0, <1>1, <1>5, <1>6, <1>7, <1>8, StandsAside DEF r, q

LEMMA OwnGoesOn ==
  ASSUME NEW r, NEW q, NEW s, NEW p, Own(r, s), r # Idle, Turns(q, r, p),
         p \notin {"idle", "ended", "check", "compare", "scratch", "fetch", "write"},
         p \in {"look", "way", "clear", "aside", "open"} =>
           r.pc \in {"look", "way", "clear", "aside", "open", "write"}
  PROVE  Own(q, s)
<1>1. Got(q, s) = Got(r, s)
  BY DEF Got, Turns
<1> QED
  BY <1>1 DEF Own, Turns, PhsAt

LEMMA NamesOf ==
  ASSUME KnownInv, PairInv, Sure, NEW u \in Upgraders, upgrade[u] # Idle
  PROVE  /\ upgrade[u].bin = "phs" =>
              Installed(u) = Exe /\ Staged(u) = New /\ Stale(u) = Old /\ Fetched(u) = Got(upgrade[u], scratch[u])
         /\ upgrade[u].bin # "phs" =>
              /\ upgrade[u].bin = "lsp"
              /\ Installed(u) \notin PhsPaths /\ Staged(u) \notin PhsPaths /\ Stale(u) \notin PhsPaths
<1>1. upgrade[u].bin \in {"phs", "lsp"} /\ upgrade[u].from = "exe"
  BY DEF KnownInv, KnownPositions, Position, PairInv, Own, Binaries
<1>2. CASE upgrade[u].bin = "phs"
  BY <1>1, <1>2 DEF Installed, Staged, Stale, WithExtension, Fetched, Download, Got, Exe, New, Old
<1>3. CASE upgrade[u].bin = "lsp"
  <2>1. Installed(u) = <<"lsp", "exe">> /\ Staged(u) = <<"lsp", "new">> /\ Stale(u) = <<"lsp", "old">>
    BY <1>3 DEF Installed, Staged, Stale, WithExtension
  <2> QED
    BY <1>3, <2>1, PhsNames
<1> QED
  BY <1>1, <1>2, <1>3

LEMMA LooksPair ==
  ASSUME KnownInv, KnownInv', PairInv, Sure, NEW u \in Upgraders, UNCHANGED faults,
         Look(u) \/ LookAgain(u) \/ MoveAsideFails(u) \/ SwapFails(u) \/ RestoreFails(u)
  PROVE  PairInv'
<1> DEFINE r == upgrade[u]  q == upgrade'[u]
<1>0. UNCHANGED <<files, scratch, starts>> /\ r.pc \in {"look", "way", "aside", "swap", "restore"}
  BY DEF Look, LookAgain, MoveAsideFails, SwapFails, RestoreFails, At
<1>1. r # Idle /\ KnownPositions /\ Refers(upgrade) /\ upgrade = [v \in Upgraders |-> upgrade[v]]
  BY <1>0, ReferFixes DEF Idle, KnownInv, KnownPositions
<1>2. DOMAIN r = Fields /\ \A x : DOMAIN x = Fields => x # Idle
  BY <1>1 DEF KnownPositions, Position, Idle, Fields
<1>3. Own(r, scratch[u]) /\ Holds(u) /\ faults \in Nat
  BY DEF PairInv
<1>4. ASSUME NEW p, p # "idle", upgrade' = Goes(upgrade, u, p)
      PROVE  Turns(q, r, p) /\ \A v \in Upgraders : v # u => upgrade'[v] = upgrade[v]
  <2>1. /\ Turns(Goes(upgrade, u, p)[u], r, p)
        /\ \A v \in Upgraders : v # u => Goes(upgrade, u, p)[v] = upgrade[v]
    BY <1>1, <1>4, Turning
  <2> QED
    BY <1>4, <2>1
<1>5. /\ \A v \in Upgraders : v # u => upgrade'[v] = upgrade[v]
      /\ \/ Turns(q, r, "cleanup") /\ r.pc # "swap"
         \/ r.pc \in {"look", "way"} /\ \E p \in {"way", "clear", "open"} : Turns(q, r, p)
         \/ SwapFails(u) /\ r.pc = "swap" /\ Turns(q, r, "undo")
  <2>1. CASE Look(u)
    <3> DEFINE x == [r EXCEPT !.pc = "way", !.had = Exists(Installed(u))]
    <3>1. upgrade' = [upgrade EXCEPT ![u] = x] /\ r.pc = "look"
      BY <2>1 DEF Look, At
    <3>2. q = x /\ \A v \in Upgraders : v # u => upgrade'[v] = upgrade[v]
      BY <1>1, <3>1, OnlyChanged
    <3>3. Turns(q, r, "way")
      BY <1>2, <3>2 DEF Turns, Fields
    <3> QED
      BY <3>1, <3>2, <3>3
  <2>2. CASE LookAgain(u)
    <3>1. PICK p \in {"clear", "open"} : upgrade' = Goes(upgrade, u, p) /\ r.pc = "way"
      BY <2>2 DEF LookAgain, GoTo, At
    <3> QED
      BY <1>4, <3>1
  <2>3. CASE MoveAsideFails(u) \/ RestoreFails(u)
    <3>1. upgrade' = Failed(u) /\ r.pc # "swap"
      BY <2>3 DEF MoveAsideFails, RestoreFails, At
    <3>2. Turns(Failed(u)[u], r, "cleanup") /\ \A v \in Upgraders : v # u => Failed(u)[v] = upgrade[v]
      BY <1>1, Turning
    <3> QED
      BY <3>1, <3>2
  <2>4. CASE SwapFails(u)
    <3>1. upgrade' = Goes(upgrade, u, "undo") /\ r.pc = "swap"
      BY <2>4 DEF SwapFails, GoTo, At
    <3> QED
      BY <1>4, <2>4, <3>1
  <2> QED
    BY <2>1, <2>2, <2>3, <2>4
<1>6. SwapFails(u) /\ r.bin = "phs" => ~Exists(New)
  BY <1>1, <1>3, NamesOf DEF SwapFails, Fault
<1>7. SwapFails(u) /\ PhsAt(r, {"swap"}) => InPlace(Exe) /\ LastOne(u)
  BY <1>3, <1>6 DEF Holds, PhsAt
<1>8. Own(q, scratch[u])
  <2>1. \E p \in {"cleanup", "way", "clear", "open", "undo"} :
          Turns(q, r, p) /\ (p \in {"way", "clear", "open"} => r.pc \in {"look", "way"})
    BY <1>5
  <2> QED
    BY <1>1, <1>3, <2>1, OwnGoesOn
<1>9. /\ ~PhsAt(r, {"write"}) /\ ~PhsAt(q, {"write"}) /\ (Through(r) => Through(q))
      /\ PhsAt(q, {"swap", "undo", "restore"}) => InPlace(Exe) /\ LastOne(u)
      /\ PhsAt(r, {"open", "write", "swap"}) => Exists(Exe)
  <2>1. /\ ~PhsAt(r, {"write"}) /\ ~PhsAt(q, {"write"})
        /\ PhsAt(q, {"swap", "undo", "restore"}) => SwapFails(u) /\ PhsAt(r, {"swap"})
        /\ PhsAt(r, {"open", "write", "swap"}) => SwapFails(u) /\ PhsAt(r, {"swap"})
    BY <1>0, <1>5 DEF PhsAt, Turns
  <2>2. Through(r) => Through(q)
    BY <1>0, <1>5 DEF Through, Turns
  <2> QED
    BY <1>7, <2>1, <2>2 DEF InPlace, Exists
<1> HIDE DEF r, q
<1> QED
  BY <1>0, <1>1, <1>5, <1>8, <1>9, StandsAside DEF r, q

LEMMA FinishesPair ==
  ASSUME KnownInv, KnownInv', PairInv, Sure, NEW u \in Upgraders, UNCHANGED faults,
         ReplaceLsp(u) \/ Cleanup(u) \/ Exit(u)
  PROVE  PairInv'
<1> DEFINE r == upgrade[u]  q == upgrade'[u]
<1>0. UNCHANGED <<files, starts>> /\ r.pc \in {"lsp", "cleanup", "ended"}
  BY DEF ReplaceLsp, Cleanup, Exit, At
<1>1. r # Idle /\ KnownPositions /\ Refers(upgrade) /\ DOMAIN scratch = Upgraders
  BY <1>0, ReferFixes DEF Idle, KnownInv, KnownFiles
<1>2. DOMAIN r = Fields /\ \A x : DOMAIN x = Fields => x # Idle
  BY <1>1 DEF KnownPositions, Position, Idle, Fields
<1>3. r.from = "exe" /\ Own(r, scratch[u])
  BY <1>1 DEF PairInv, Own
<1>4. /\ \A v \in Upgraders : v # u => upgrade'[v] = upgrade[v] /\ scratch'[v] = scratch[v]
      /\ Own(q, scratch'[u]) /\ Through(q) /\ ~PhsAt(q, {"write"}) /\ ~PhsAt(q, {"swap", "undo", "restore"})
  <2>1. CASE ReplaceLsp(u)
    <3>1. PICK p \in {"cleanup", "fetch", "look"} :
            upgrade' = [upgrade EXCEPT ![u] = [r EXCEPT !.pc = p, !.bin = "lsp"]]
      BY <2>1 DEF ReplaceLsp
    <3>2. UNCHANGED scratch
      BY <2>1 DEF ReplaceLsp
    <3>3. q = [r EXCEPT !.pc = p, !.bin = "lsp"] /\ \A v \in Upgraders : v # u => upgrade'[v] = upgrade[v]
      BY <1>1, <3>1, OnlyChanged
    <3>4. q.pc = p /\ q.bin = "lsp" /\ q.from = "exe"
      BY <1>2, <1>3, <3>3 DEF Fields
    <3> QED
      BY <3>2, <3>3, <3>4 DEF Own, Through, PhsAt
  <2>2. CASE Cleanup(u)
    <3>1. upgrade' = Goes(upgrade, u, "ended") /\ scratch' = [scratch EXCEPT ![u] = NothingIn]
      BY <2>2 DEF Cleanup, GoTo
    <3>2. /\ Turns(Goes(upgrade, u, "ended")[u], r, "ended")
          /\ \A v \in Upgraders : v # u => Goes(upgrade, u, "ended")[v] = upgrade[v]
      BY <1>1, Turning
    <3>3. Turns(q, r, "ended") /\ \A v \in Upgraders : v # u => upgrade'[v] = upgrade[v]
      BY <3>1, <3>2
    <3>4. scratch'[u] = NothingIn /\ \A v \in Upgraders : v # u => scratch'[v] = scratch[v]
      BY <1>1, <3>1
    <3> QED
      BY <1>3, <3>3, <3>4 DEF Own, Through, PhsAt, Turns
  <2>3. CASE Exit(u)
    <3>1. upgrade' = [upgrade EXCEPT ![u] = Idle] /\ UNCHANGED scratch /\ r.pc = "ended"
      BY <2>3 DEF Exit, At
    <3>2. q = Idle /\ \A v \in Upgraders : v # u => upgrade'[v] = upgrade[v]
      BY <1>1, <3>1, OnlyChanged
    <3>3. scratch[u] = NothingIn /\ Idle.pc = "idle"
      BY <1>3, <3>1 DEF Own, Idle
    <3> QED
      BY <3>1, <3>2, <3>3 DEF Own, Through, PhsAt
  <2> QED
    BY <2>1, <2>2, <2>3
<1>5. ~PhsAt(r, {"write"}) /\ ~PhsAt(r, {"open", "write", "swap"})
  BY <1>0 DEF PhsAt
<1> HIDE DEF r, q
<1> QED
  BY <1>0, <1>1, <1>4, <1>5, StandsAside DEF r, q

(* The replacement of physure-lsp does not touch phs.                      *)
OthersFollow(u, table) == \A v \in Upgraders : v # u => upgrade'[v] = table[v]
Renames(table) ==
  \E a, b : a \notin PhsPaths /\ b \notin PhsPaths /\ table \in {upgrade, Unlinked(a), Following(a, b)}
SamePhs == \A path \in PhsPaths : files'[path] = files[path]

LEMMA LspAside ==
  ASSUME KnownInv, KnownInv', PairInv, Sure, NEW u \in Upgraders, upgrade[u] # Idle, upgrade[u].bin = "lsp",
         UNCHANGED <<scratch, starts, faults>>, SamePhs,
         NEW table, Renames(table), OthersFollow(u, table),
         NEW p, Turns(upgrade'[u], upgrade[u], p),
         p \notin {"idle", "ended", "check", "compare", "scratch"},
         p = "write" => upgrade'[u].fd \notin PhsPaths
  PROVE  PairInv'
<1>0. PICK a, b : a \notin PhsPaths /\ b \notin PhsPaths /\ table \in {upgrade, Unlinked(a), Following(a, b)}
  BY DEF Renames
<1>1. Refers(table)
  BY <1>0, ReferFixes DEF KnownInv
<1>2. \A v \in Upgraders : v # u =>
        /\ Fixed(upgrade'[v], upgrade[v]) /\ Stays(upgrade'[v], upgrade[v])
        /\ upgrade[v].pc = "write" /\ upgrade[v].bin = "lsp" => upgrade'[v].fd \notin PhsPaths
  BY <1>0, <1>1, OtherNames DEF Refers, OthersFollow
<1>3. OthersStay(u) /\ \A v \in Upgraders : v # u => Stays(upgrade'[v], upgrade[v])
  BY <1>2 DEF OthersStay
<1>4. upgrade[u].from = "exe"
  BY DEF PairInv, Own
<1>5. /\ upgrade'[u].bin = "lsp"
      /\ \A pcs : ~PhsAt(upgrade[u], pcs) /\ ~PhsAt(upgrade'[u], pcs)
      /\ Through(upgrade'[u])
  BY DEF Turns, PhsAt, Through
<1>6. Own(upgrade'[u], scratch'[u])
  BY <1>4, <1>5 DEF Own, Turns
<1>7. files'[Exe] = files[Exe] /\ files'[New] = files[New] /\ files'[Old] = files[Old]
  BY DEF PhsPaths, SamePhs
<1> QED
  BY <1>3, <1>5, <1>6, <1>7, AsideKeeps

LEMMA FileTables ==
  ASSUME KnownInv
  PROVE  \A a, b \in Paths : \A path \in Paths :
           /\ Removed(a)[path] = IF path = a THEN Missing ELSE files[path]
           /\ Renamed(a, b)[path] = IF path = a THEN Missing ELSE IF path = b THEN files[a] ELSE files[path]
BY DEF KnownInv, KnownFiles, Removed, Renamed

LEMMA LspPair ==
  ASSUME KnownInv, KnownInv', PairInv, Sure, NEW u \in Upgraders, UNCHANGED faults, upgrade[u].bin = "lsp",
         \/ ClearWay(u) \/ MoveAside(u) \/ OpenStaged(u) \/ WriteStaged(u)
         \/ Swap(u) \/ Undo(u) \/ Restore(u) \/ Discard(u)
  PROVE  PairInv'
<1> DEFINE r == upgrade[u]  q == upgrade'[u]
<1>0. UNCHANGED <<scratch, starts>> /\ Underway(u)
  BY DEF ClearWay, MoveAside, OpenStaged, WriteStaged, Swap, Undo, Restore, Discard, At, Underway
<1>1. r # Idle /\ KnownPositions /\ Refers(upgrade) /\ \A a, b : Refers(Unlinked(a)) /\ Refers(Following(a, b))
  BY <1>0, ReferFixes DEF Underway, Idle, KnownInv
<1>2. DOMAIN r = Fields /\ \A x : DOMAIN x = Fields => x # Idle
  BY <1>1 DEF KnownPositions, Position, Idle, Fields
<1>3. Installed(u) \notin PhsPaths /\ Staged(u) \notin PhsPaths /\ Stale(u) \notin PhsPaths
  BY <1>1, NamesOf
<1>4. Installed(u) \in Paths /\ Staged(u) \in Paths /\ Stale(u) \in Paths
  BY <1>0, FilesOfAnUpgrade
<1>5. PhsPaths \subseteq Paths
  BY PhsNames DEF PhsPaths
<1>6. ASSUME NEW a \in Paths, a \notin PhsPaths, NEW b \in Paths, b \notin PhsPaths,
             files' \in {Removed(a), Renamed(a, b)}
      PROVE  SamePhs
  BY <1>5, <1>6, FileTables DEF SamePhs
<1>7. ASSUME NEW path, path \notin PhsPaths, NEW x, files' = [files EXCEPT ![path] = x]
      PROVE  SamePhs
  BY <1>5, <1>7 DEF KnownInv, KnownFiles, SamePhs
<1>8. ASSUME NEW table, Renames(table), Refers(table), SamePhs,
             \/ \E p \in {"aside", "open", "swap", "discard", "restore"} : upgrade' = Goes(table, u, p)
             \/ upgrade' = Replaced(table, u)
             \/ upgrade' = [table EXCEPT ![u] = Failed(u)[u]]
      PROVE  PairInv'
  <2>1. Refers(table)
    BY <1>8
  <2>2. ASSUME NEW p, p \in {"aside", "open", "swap", "discard", "restore", "cleanup"}, Turns(q, r, p),
               \A v \in Upgraders : v # u => upgrade'[v] = table[v]
        PROVE  PairInv'
    <3>1. p \notin {"idle", "ended", "check", "compare", "scratch"} /\ p # "write"
      BY <2>2
    <3>2. UNCHANGED <<scratch, starts, faults>> /\ upgrade[u] # Idle
      BY <1>0, <1>1
    <3>3. Turns(upgrade'[u], upgrade[u], p) /\ OthersFollow(u, table)
      BY <2>2 DEF OthersFollow
    <3> QED
      BY <1>8, <3>1, <3>2, <3>3, LspAside
  <2>3. ASSUME NEW p \in {"aside", "open", "swap", "discard", "restore"}, upgrade' = Goes(table, u, p)
        PROVE  PairInv'
    <3>1. /\ Turns(Goes(table, u, p)[u], r, p)
          /\ \A v \in Upgraders : v # u => Goes(table, u, p)[v] = table[v]
      BY <1>1, <2>1, Turning
    <3> QED
      BY <2>2, <2>3, <3>1
  <2>4. CASE upgrade' = Replaced(table, u)
    <3>1. /\ Turns(Replaced(table, u)[u], r, "cleanup")
          /\ \A v \in Upgraders : v # u => Replaced(table, u)[v] = table[v]
      BY <1>1, <2>1, Turning
    <3> QED
      BY <2>2, <2>4, <3>1
  <2>5. CASE upgrade' = [table EXCEPT ![u] = Failed(u)[u]]
    <3>1. /\ Turns([table EXCEPT ![u] = Failed(u)[u]][u], r, "cleanup")
          /\ \A v \in Upgraders : v # u => [table EXCEPT ![u] = Failed(u)[u]][v] = table[v]
      BY <1>1, <2>1, Turning
    <3> QED
      BY <2>2, <2>5, <3>1
  <2> QED
    BY <1>8, <2>3, <2>4, <2>5
<1>9. CASE ClearWay(u)
  <2>1. files' = Removed(Stale(u)) /\ upgrade' = Goes(Unlinked(Stale(u)), u, "aside")
    BY <1>9 DEF ClearWay
  <2> QED
    BY <1>1, <1>3, <1>4, <1>6, <1>8, <2>1 DEF Renames
<1>10. CASE MoveAside(u)
  <2>1. files' = Renamed(Installed(u), Stale(u)) /\ upgrade' = Goes(Following(Installed(u), Stale(u)), u, "open")
    BY <1>10 DEF MoveAside
  <2> QED
    BY <1>1, <1>3, <1>4, <1>6, <1>8, <2>1 DEF Renames
<1>11. CASE OpenStaged(u)
  <2>1. /\ upgrade' = [upgrade EXCEPT ![u] = [r EXCEPT !.pc = "write", !.fd = Staged(u)]]
        /\ files' = [files EXCEPT ![Staged(u)] = Partial]
    BY <1>11 DEF OpenStaged
  <2>2. q = [r EXCEPT !.pc = "write", !.fd = Staged(u)] /\ \A v \in Upgraders : v # u => upgrade'[v] = upgrade[v]
    BY <1>1, <2>1, OnlyChanged
  <2>3. Turns(q, r, "write") /\ q.fd = Staged(u)
    BY <1>2, <2>2 DEF Turns, Fields
  <2>4. SamePhs
    BY <1>3, <1>7, <2>1
  <2>5. Renames(upgrade) /\ OthersFollow(u, upgrade) /\ UNCHANGED <<scratch, starts, faults>>
    BY <1>0, <1>3, <2>2 DEF Renames, OthersFollow
  <2>6. Turns(upgrade'[u], upgrade[u], "write") /\ upgrade'[u].fd \notin PhsPaths /\ upgrade[u] # Idle
    BY <1>1, <1>3, <2>3
  <2> QED
    BY <2>4, <2>5, <2>6, LspAside
<1>12. CASE WriteStaged(u)
  <2>1. upgrade' = Goes(upgrade, u, "swap") /\ r.pc = "write"
        /\ (UNCHANGED files \/ files' = [files EXCEPT ![r.fd] = Fetched(u)])
    BY <1>12 DEF WriteStaged, GoTo, At
  <2>2. r.fd \notin PhsPaths
    BY <2>1 DEF PairInv, Own
  <2>3. SamePhs
    BY <1>7, <2>1, <2>2 DEF SamePhs
  <2>4. Renames(upgrade)
    BY <1>3 DEF Renames
  <2> QED
    BY <1>1, <1>8, <2>1, <2>3, <2>4
<1>13. CASE Swap(u)
  <2>1. files' = Renamed(Staged(u), Installed(u))
        /\ upgrade' = Goes(Following(Staged(u), Installed(u)), u, "discard")
    BY <1>13 DEF Swap
  <2> QED
    BY <1>1, <1>3, <1>4, <1>6, <1>8, <2>1 DEF Renames
<1>14. CASE Undo(u)
  <2>1. files' = Removed(Staged(u)) /\ upgrade' = Goes(Unlinked(Staged(u)), u, "restore")
    BY <1>14 DEF Undo
  <2> QED
    BY <1>1, <1>3, <1>4, <1>6, <1>8, <2>1 DEF Renames
<1>15. CASE Restore(u)
  <2>1. files' = Renamed(Stale(u), Installed(u))
        /\ upgrade' = [Following(Stale(u), Installed(u)) EXCEPT ![u] = Failed(u)[u]]
    BY <1>15 DEF Restore
  <2> QED
    BY <1>1, <1>3, <1>4, <1>6, <1>8, <2>1 DEF Renames
<1>16. CASE Discard(u)
  <2>1. files' = Removed(Stale(u)) /\ upgrade' = Replaced(Unlinked(Stale(u)), u)
    BY <1>16 DEF Discard
  <2> QED
    BY <1>1, <1>3, <1>4, <1>6, <1>8, <2>1 DEF Renames
<1> QED
  BY <1>9, <1>10, <1>11, <1>12, <1>13, <1>14, <1>15, <1>16

(* A name that nobody writes to is taken away, or given to another file,   *)
(* without a change to who writes what.                                    *)
LEMMA NobodyFollows ==
  ASSUME KnownPositions, NEW a, WritersOf(a) = {}
  PROVE  Unlinked(a) = upgrade /\ \A b : WritersOf(b) = {} => Following(a, b) = upgrade
<1>1. upgrade = [v \in Upgraders |-> upgrade[v]]
  BY DEF KnownPositions
<1>2. \A fd : Refer({}, fd) = upgrade
  BY <1>1 DEF Refer
<1>3. Unlinked(a) = upgrade
  BY <1>2 DEF Unlinked
<1>4. ASSUME NEW b, WritersOf(b) = {} PROVE Following(a, b) = upgrade
  BY <1>1, <1>2, <1>4 DEF Following
<1> QED
  BY <1>3, <1>4

LEMMA OthersUnchanged ==
  ASSUME KnownInv, PairInv, Sure, NEW u \in Upgraders, UNCHANGED <<scratch, starts, faults>>,
         OthersFollow(u, upgrade)
  PROVE  OthersStay(u) /\ \A v \in Upgraders : v # u => Stays(upgrade'[v], upgrade[v])
<1>1. Refers(upgrade)
  BY ReferFixes DEF KnownInv
<1>2. \A v \in Upgraders : Own(upgrade[v], scratch[v])
  BY DEF PairInv
<1> QED
  BY <1>1, <1>2 DEF OthersStay, OthersFollow, Refers, Own, Stays

(* Making way and discarding remove phs.old.                               *)
LEMMA RemoveOldPair ==
  ASSUME KnownInv, KnownInv', PairInv, Sure, NEW u \in Upgraders, UNCHANGED faults, upgrade[u].bin = "phs",
         ClearWay(u) \/ Discard(u)
  PROVE  PairInv'
<1> DEFINE r == upgrade[u]  q == upgrade'[u]
<1>0. UNCHANGED <<scratch, starts>> /\ r.pc \in {"clear", "discard"}
  BY DEF ClearWay, Discard, At
<1>1. r # Idle /\ KnownPositions /\ Refers(upgrade)
  BY <1>0, ReferFixes DEF Idle, KnownInv
<1>2. Stale(u) = Old /\ Unlinked(Old) = upgrade
  BY <1>1, NamesOf, WhoWritesPhs, NobodyFollows
<1>3. files' = Removed(Old)
  BY <1>2 DEF ClearWay, Discard
<1>4. files'[Exe] = files[Exe] /\ files'[New] = files[New] /\ files'[Old] = Missing
  BY <1>3, FileTables, PhsNames
<1>5. Own(r, scratch[u])
  BY DEF PairInv
<1>6. OthersFollow(u, upgrade) /\ \/ r.pc = "clear" /\ Turns(q, r, "aside")
                                  \/ Turns(q, r, "lsp")
  <2>1. CASE ClearWay(u)
    <3>1. upgrade' = Goes(upgrade, u, "aside") /\ r.pc = "clear"
      BY <1>2, <2>1 DEF ClearWay, At
    <3>2. /\ Turns(Goes(upgrade, u, "aside")[u], r, "aside")
          /\ \A v \in Upgraders : v # u => Goes(upgrade, u, "aside")[v] = upgrade[v]
      BY <1>1, Turning
    <3> QED
      BY <3>1, <3>2 DEF OthersFollow
  <2>2. CASE Discard(u)
    <3>1. upgrade' = Replaced(upgrade, u)
      BY <1>2, <2>2 DEF Discard
    <3>2. /\ Turns(Replaced(upgrade, u)[u], r, "lsp")
          /\ \A v \in Upgraders : v # u => Replaced(upgrade, u)[v] = upgrade[v]
      BY <1>1, Turning
    <3> QED
      BY <3>1, <3>2 DEF OthersFollow
  <2> QED
    BY <2>1, <2>2
<1>7. Own(q, scratch'[u])
  BY <1>0, <1>1, <1>5, <1>6, OwnGoesOn
<1>8. /\ ~PhsAt(r, {"open", "write", "swap"}) /\ ~PhsAt(r, {"write"}) /\ ~PhsAt(q, {"write"})
      /\ ~PhsAt(q, {"swap", "undo", "restore"}) /\ (Through(r) => Through(q))
  BY <1>0, <1>6 DEF PhsAt, Turns, Through
<1>9. OthersStay(u) /\ \A v \in Upgraders : v # u => Stays(upgrade'[v], upgrade[v])
  BY <1>0, <1>6, OthersUnchanged
<1> HIDE DEF r, q
<1> QED
  BY <1>1, <1>4, <1>7, <1>8, <1>9, AsideKeeps DEF r, q

(* What the others rely on while u has phs still to do.                    *)
LEMMA OthersBusy ==
  ASSUME PairInv, Sure, NEW u \in Upgraders, ~Through(upgrade[u]), NEW v \in Upgraders, v # u
  PROVE  /\ PhsAt(upgrade[v], {"write"}) => upgrade[v].fd = New /\ Exists(New)
         /\ PhsAt(upgrade[v], {"swap"}) => Exists(New)
         /\ ~PhsAt(upgrade[v], {"undo", "restore"})
<1>1. Holds(v) /\ ~LastOne(v)
  BY NobodyElseIsLast DEF PairInv
<1> QED
  BY <1>1 DEF Holds

LEMMA MoveAsidePair ==
  ASSUME KnownInv, PairInv, Sure, NEW u \in Upgraders, UNCHANGED faults, upgrade[u].bin = "phs", MoveAside(u)
  PROVE  PairInv'
<1> DEFINE r == upgrade[u]  q == upgrade'[u]
<1>0. UNCHANGED <<scratch, starts>> /\ r.pc = "aside" /\ ~Through(r)
  BY DEF MoveAside, At, Through
<1>1. r # Idle /\ KnownPositions /\ Refers(upgrade)
  BY <1>0, ReferFixes DEF Idle, KnownInv
<1>2. Installed(u) = Exe /\ Stale(u) = Old
  BY <1>1, NamesOf
<1>3. WritersOf(Exe) = {}
  <2>1. \A v \in WritersOf(Exe) : v \in Upgraders /\ PhsAt(upgrade[v], {"write"}) /\ upgrade[v].fd = Exe
    BY WhoWritesPhs DEF PhsPaths
  <2>2. ~PhsAt(r, {"write"})
    BY <1>0 DEF PhsAt
  <2> QED
    BY <1>0, <2>1, <2>2, OthersBusy, PhsNames
<1>4. Following(Exe, Old) = upgrade
  BY <1>1, <1>3, WhoWritesPhs, NobodyFollows
<1>5. Exists(Exe) /\ files' = Renamed(Exe, Old) /\ upgrade' = Goes(upgrade, u, "open")
  BY <1>2, <1>4 DEF MoveAside
<1>6. files'[Exe] = Missing /\ files'[New] = files[New] /\ files'[Old] = files[Exe]
  BY <1>5, FileTables, PhsNames
<1>7. Turns(q, r, "open") /\ OthersFollow(u, upgrade)
  <2>1. /\ Turns(Goes(upgrade, u, "open")[u], r, "open")
        /\ \A v \in Upgraders : v # u => Goes(upgrade, u, "open")[v] = upgrade[v]
    BY <1>1, Turning
  <2> QED
    BY <1>5, <2>1 DEF OthersFollow
<1>8. Own(q, scratch'[u])
  <2>1. Own(r, scratch[u])
    BY DEF PairInv
  <2> QED
    BY <1>0, <1>1, <1>7, <2>1, OwnGoesOn
<1>9. OthersStay(u)
  BY <1>0, <1>7, OthersUnchanged
<1>10. ASSUME NEW v \in Upgraders PROVE Holds(v)'
  <2>1. CASE v = u
    BY <1>7, <2>1 DEF Holds, PhsAt, Turns
  <2>2. CASE v # u
    <3>1. upgrade'[v] = upgrade[v] /\ (Exists(New)' <=> Exists(New))
      BY <1>6, <1>7, <2>2 DEF OthersFollow, Exists
    <3> QED
      BY <1>0, <2>2, <3>1, OthersBusy DEF Holds
  <2> QED
    BY <2>1, <2>2
<1>11. OnDisk'
  <2>0. OnDisk
    BY DEF PairInv
  <2>1. InPlace(Exe)
    BY <1>3, <1>5, <2>0 DEF OnDisk
  <2>2. InPlace(Old)'
    BY <1>6, <2>1 DEF InPlace
  <2>3. Exists(New)' => InPlace(New)' \/ WritersOf(New)' # {}
    <3>1. Exists(New)' => InPlace(New)' \/ WritersOf(New) # {}
      BY <1>6, <2>0 DEF OnDisk, Exists, InPlace
    <3>2. \A v \in WritersOf(New) : v \in WritersOf(New)'
      <4>1. \A v \in WritersOf(New) : v # u
        BY <1>0 DEF WritersOf
      <4> QED
        BY <1>7, <4>1 DEF OthersFollow, WritersOf
    <3> QED
      BY <3>1, <3>2
  <2>4. ~Exists(Exe)'
    BY <1>6, WholeIsWhole DEF Exists
  <2>5. PhsAt(upgrade'[u], {"open", "write", "swap"})
    BY <1>7 DEF Turns, PhsAt
  <2> QED
    BY <2>2, <2>3, <2>4, <2>5 DEF OnDisk
<1> QED
  BY <1>1, <1>8, <1>9, <1>10, <1>11, PairKeeps

LEMMA OpenStagedPair ==
  ASSUME KnownInv, PairInv, Sure, NEW u \in Upgraders, UNCHANGED faults, upgrade[u].bin = "phs", OpenStaged(u)
  PROVE  PairInv'
<1> DEFINE r == upgrade[u]  q == upgrade'[u]
<1>0. UNCHANGED <<scratch, starts>> /\ r.pc = "open" /\ ~Through(r)
  BY DEF OpenStaged, At, Through
<1>1. r # Idle /\ KnownPositions
  BY <1>0 DEF Idle, KnownInv
<1>2. DOMAIN r = Fields /\ \A x : DOMAIN x = Fields => x # Idle
  BY <1>1 DEF KnownPositions, Position, Idle, Fields
<1>3. Staged(u) = New /\ Fetched(u) = Got(r, scratch[u])
  BY <1>1, NamesOf
<1>4. /\ Got(r, scratch[u]).there /\ files' = [files EXCEPT ![New] = Partial]
      /\ upgrade' = [upgrade EXCEPT ![u] = [r EXCEPT !.pc = "write", !.fd = New]]
  BY <1>3 DEF OpenStaged
<1>5. q = [r EXCEPT !.pc = "write", !.fd = New] /\ \A v \in Upgraders : v # u => upgrade'[v] = upgrade[v]
  BY <1>1, <1>4, OnlyChanged
<1>6. Turns(q, r, "write") /\ q.fd = New /\ OthersFollow(u, upgrade)
  BY <1>2, <1>5 DEF Turns, Fields, OthersFollow
<1>7. files'[Exe] = files[Exe] /\ files'[New] = Partial /\ files'[Old] = files[Old]
  BY <1>4, PhsNames DEF KnownInv, KnownFiles
<1>8. Own(q, scratch'[u])
  <2>1. Own(r, scratch[u])
    BY DEF PairInv
  <2>2. Got(q, scratch'[u]) = Got(r, scratch[u])
    BY <1>0, <1>6 DEF Got, Turns
  <2>3. q.pc = "write" /\ q.bin = "phs" /\ q.from = "exe" /\ Got(r, scratch[u]).whole
    BY <1>0, <1>1, <1>4, <1>6, <2>1 DEF Turns, Own, PhsAt
  <2> QED
    BY <1>4, <2>2, <2>3 DEF Own, PhsAt
<1>9. OthersStay(u)
  BY <1>0, <1>6, OthersUnchanged
<1>10. Exists(New)'
  BY <1>7, WholeIsWhole DEF Exists
<1>11. ASSUME NEW v \in Upgraders PROVE Holds(v)'
  <2>1. CASE v = u
    BY <1>6, <1>10, <2>1 DEF Holds, PhsAt, Turns
  <2>2. CASE v # u
    <3>1. upgrade'[v] = upgrade[v]
      BY <1>6, <2>2 DEF OthersFollow
    <3> QED
      BY <1>0, <1>10, <2>2, <3>1, OthersBusy DEF Holds
  <2> QED
    BY <2>1, <2>2
<1>12. OnDisk'
  <2>0. OnDisk
    BY DEF PairInv
  <2>1. Exists(Old)' => InPlace(Old)'
    BY <1>7, <2>0 DEF OnDisk, Exists, InPlace
  <2>2. WritersOf(New)' # {}
    BY <1>6 DEF Turns, WritersOf
  <2>3. Exists(Exe)' => InPlace(Exe)' \/ WritersOf(Exe)' # {}
    <3>1. Exists(Exe)' => InPlace(Exe)' \/ WritersOf(Exe) # {}
      BY <1>7, <2>0 DEF OnDisk, Exists, InPlace
    <3>2. \A v \in WritersOf(Exe) : v \in WritersOf(Exe)'
      <4>1. \A v \in WritersOf(Exe) : v # u
        BY <1>0 DEF WritersOf
      <4> QED
        BY <1>6, <4>1 DEF OthersFollow, WritersOf
    <3> QED
      BY <3>1, <3>2
  <2>4. PhsAt(upgrade'[u], {"open", "write", "swap"})
    BY <1>6 DEF Turns, PhsAt
  <2> QED
    BY <2>1, <2>2, <2>3, <2>4 DEF OnDisk
<1> QED
  BY <1>1, <1>8, <1>9, <1>11, <1>12, PairKeeps

(* The step of the last one.                                               *)
LEMMA LastKeeps ==
  ASSUME KnownInv, PairInv, Sure, NEW u \in Upgraders, upgrade[u] # Idle, LastOne(u),
         UNCHANGED <<scratch, starts, faults>>, OthersFollow(u, upgrade),
         Own(upgrade'[u], scratch'[u]),
         ~PhsAt(upgrade'[u], {"write"}),
         InPlace(Exe)', files'[New] \in {files[New], Missing}, ~PhsAt(upgrade[u], {"write"}) \/ upgrade[u].fd # New,
         files'[Old] \in {files[Old], Missing}
  PROVE  PairInv'
<1>1. OthersStay(u)
  BY OthersUnchanged
<1>2. LastOne(u)'
  BY DEF LastOne, OthersFollow
<1>3. ASSUME NEW v \in Upgraders PROVE Holds(v)'
  <2>1. CASE v = u
    BY <1>2, <2>1 DEF Holds
  <2>2. CASE v # u
    <3>1. ~PhsAt(upgrade'[v], {"open", "write", "swap", "undo", "restore"})
      BY <2>2, LastWritesAlone DEF OthersFollow
    <3> QED
      BY <3>1 DEF Holds, PhsAt
  <2> QED
    BY <2>1, <2>2
<1>4. OnDisk'
  <2>0. OnDisk
    BY DEF PairInv
  <2>1. WritersOf(New) = {}
    <3>1. \A v \in WritersOf(New) : v = u /\ PhsAt(upgrade[v], {"write"}) /\ upgrade[v].fd = New
      BY WhoWritesPhs, LastWritesAlone DEF PhsPaths
    <3> QED
      BY <3>1
  <2>2. Exists(New)' => InPlace(New)'
    BY <2>0, <2>1, WholeIsWhole DEF OnDisk, Exists, InPlace
  <2>3. Exists(Old)' => InPlace(Old)'
    BY <2>0, WholeIsWhole DEF OnDisk, Exists, InPlace
  <2>4. Exists(Exe)'
    BY DEF Exists, InPlace
  <2> QED
    BY <2>2, <2>3, <2>4 DEF OnDisk
<1> QED
  BY <1>1, <1>3, <1>4, PairKeeps

LEMMA WriteStagedPair ==
  ASSUME KnownInv, PairInv, Sure, NEW u \in Upgraders, UNCHANGED faults, upgrade[u].bin = "phs", WriteStaged(u)
  PROVE  PairInv'
<1> DEFINE r == upgrade[u]  q == upgrade'[u]
<1>0. UNCHANGED <<scratch, starts>> /\ r.pc = "write" /\ ~Through(r) /\ PhsAt(r, {"write"})
  BY DEF WriteStaged, At, Through, PhsAt
<1>1. r # Idle /\ KnownPositions /\ Refers(upgrade)
  BY <1>0, ReferFixes DEF Idle, KnownInv
<1>2. Fetched(u) = Got(r, scratch[u])
  BY <1>1, NamesOf
<1>3. Own(r, scratch[u]) /\ Holds(u) /\ OnDisk
  BY DEF PairInv
<1>4. Fetched(u).there /\ Fetched(u).whole
  BY <1>0, <1>2, <1>3 DEF Own, PhsAt
<1>5. /\ upgrade' = Goes(upgrade, u, "swap")
      /\ files' = IF WritersOf(r.fd) = {u} /\ r.fd # Closed THEN [files EXCEPT ![r.fd] = Fetched(u)] ELSE files
  BY DEF WriteStaged, GoTo
<1>6. Turns(q, r, "swap") /\ OthersFollow(u, upgrade)
  <2>1. /\ Turns(Goes(upgrade, u, "swap")[u], r, "swap")
        /\ \A v \in Upgraders : v # u => Goes(upgrade, u, "swap")[v] = upgrade[v]
    BY <1>1, Turning
  <2> QED
    BY <1>5, <2>1 DEF OthersFollow
<1>7. Own(q, scratch'[u])
  BY <1>0, <1>1, <1>3, <1>6, OwnGoesOn
<1>8. ~PhsAt(q, {"write"}) /\ DOMAIN files = Paths
  BY <1>6 DEF Turns, PhsAt, KnownInv, KnownFiles
<1>9. CASE r.fd = Exe /\ Exists(Exe) /\ LastOne(u)
  <2>1. WritersOf(Exe) = {u} /\ Exe # Closed
    BY <1>0, <1>9, WhoWritesPhs, LastWritesAlone, PhsNames DEF PhsPaths
  <2>2. files' = [files EXCEPT ![Exe] = Fetched(u)]
    BY <1>5, <1>9, <2>1
  <2>3. files'[Exe] = Fetched(u) /\ files'[New] = files[New] /\ files'[Old] = files[Old]
    BY <1>8, <2>2, PhsNames
  <2>4. InPlace(Exe)'
    BY <1>4, <2>3 DEF InPlace
  <2> QED
    BY <1>0, <1>1, <1>6, <1>7, <1>8, <1>9, <2>3, <2>4, LastKeeps, PhsNames
<1>10. CASE r.fd = New /\ Exists(New)
  <2>1. u \in WritersOf(New) /\ New # Closed
    BY <1>0, <1>10, WhoWritesPhs, PhsNames DEF PhsPaths
  <2>2. /\ files'[Exe] = files[Exe] /\ files'[Old] = files[Old]
        /\ files'[New] = IF WritersOf(New) = {u} THEN Fetched(u) ELSE files[New]
    BY <1>5, <1>8, <1>10, <2>1, PhsNames
  <2>3. Exists(New)'
    BY <1>4, <1>10, <2>2 DEF Exists
  <2>4. ASSUME NEW v \in Upgraders PROVE Holds(v)'
    <3>1. CASE v = u
      BY <1>6, <2>3, <3>1 DEF Holds, PhsAt, Turns
    <3>2. CASE v # u
      <4>1. upgrade'[v] = upgrade[v]
        BY <1>6, <3>2 DEF OthersFollow
      <4> QED
        BY <1>0, <2>3, <3>2, <4>1, OthersBusy DEF Holds
    <3> QED
      BY <3>1, <3>2
  <2>5. ASSUME NEW path, NEW v \in WritersOf(path), v # u PROVE v \in WritersOf(path)'
    BY <1>6, <2>5 DEF OthersFollow, WritersOf
  <2>6. OnDisk'
    <3>1. Exists(Old)' => InPlace(Old)'
      BY <1>3, <2>2 DEF OnDisk, Exists, InPlace
    <3>2. InPlace(New)' \/ WritersOf(New)' # {}
      <4>1. CASE WritersOf(New) = {u}
        BY <1>4, <2>2, <4>1 DEF InPlace
      <4>2. CASE WritersOf(New) # {u}
        BY <2>1, <2>5, <4>2
      <4> QED
        BY <4>1, <4>2
    <3>3. Exists(Exe)' => InPlace(Exe)' \/ WritersOf(Exe)' # {}
      <4>1. Exists(Exe)' => InPlace(Exe)' \/ WritersOf(Exe) # {}
        BY <1>3, <2>2 DEF OnDisk, Exists, InPlace
      <4>2. u \notin WritersOf(Exe)
        BY <1>10, PhsNames DEF WritersOf
      <4> QED
        BY <2>5, <4>1, <4>2
    <3>4. PhsAt(upgrade'[u], {"open", "write", "swap"})
      BY <1>6 DEF Turns, PhsAt
    <3> QED
      BY <3>1, <3>2, <3>3, <3>4 DEF OnDisk
  <2>7. OthersStay(u)
    BY <1>0, <1>6, OthersUnchanged
  <2> QED
    BY <1>1, <1>7, <2>4, <2>6, <2>7, PairKeeps
<1> QED
  BY <1>0, <1>3, <1>9, <1>10 DEF Holds

LEMMA UndoPair ==
  ASSUME KnownInv, PairInv, Sure, NEW u \in Upgraders, UNCHANGED faults, upgrade[u].bin = "phs", Undo(u)
  PROVE  PairInv'
<1> DEFINE r == upgrade[u]  q == upgrade'[u]
<1>0. UNCHANGED <<scratch, starts>> /\ r.pc = "undo" /\ PhsAt(r, {"undo", "restore"}) /\ ~PhsAt(r, {"write"})
  BY DEF Undo, At, PhsAt
<1>1. r # Idle /\ KnownPositions /\ Refers(upgrade)
  BY <1>0, ReferFixes DEF Idle, KnownInv
<1>2. InPlace(Exe) /\ LastOne(u) /\ Own(r, scratch[u])
  BY <1>0 DEF PairInv, Holds
<1>3. Staged(u) = New
  BY <1>1, NamesOf
<1>4. WritersOf(New) = {}
  <2>1. \A v \in WritersOf(New) : v = u /\ PhsAt(upgrade[v], {"write"})
    BY <1>2, WhoWritesPhs, LastWritesAlone DEF PhsPaths
  <2> QED
    BY <1>0, <2>1
<1>5. files' = Removed(New) /\ upgrade' = Goes(upgrade, u, "restore")
  BY <1>1, <1>3, <1>4, NobodyFollows DEF Undo
<1>6. files'[Exe] = files[Exe] /\ files'[New] = Missing /\ files'[Old] = files[Old]
  BY <1>5, FileTables, PhsNames
<1>7. Turns(q, r, "restore") /\ OthersFollow(u, upgrade)
  <2>1. /\ Turns(Goes(upgrade, u, "restore")[u], r, "restore")
        /\ \A v \in Upgraders : v # u => Goes(upgrade, u, "restore")[v] = upgrade[v]
    BY <1>1, Turning
  <2> QED
    BY <1>5, <2>1 DEF OthersFollow
<1>8. Own(q, scratch'[u])
  BY <1>0, <1>1, <1>2, <1>7, OwnGoesOn
<1>9. InPlace(Exe)' /\ ~PhsAt(q, {"write"})
  BY <1>2, <1>6, <1>7 DEF InPlace, Turns, PhsAt
<1> QED
  BY <1>0, <1>1, <1>2, <1>6, <1>7, <1>8, <1>9, LastKeeps

LEMMA RestorePair ==
  ASSUME KnownInv, PairInv, Sure, NEW u \in Upgraders, UNCHANGED faults, upgrade[u].bin = "phs", Restore(u)
  PROVE  PairInv'
<1> DEFINE r == upgrade[u]  q == upgrade'[u]
<1>0. UNCHANGED <<scratch, starts>> /\ r.pc = "restore" /\ PhsAt(r, {"undo", "restore"}) /\ ~PhsAt(r, {"write"})
  BY DEF Restore, At, PhsAt
<1>1. r # Idle /\ KnownPositions /\ Refers(upgrade)
  BY <1>0, ReferFixes DEF Idle, KnownInv
<1>2. LastOne(u) /\ Own(r, scratch[u]) /\ OnDisk
  BY <1>0 DEF PairInv, Holds
<1>3. Installed(u) = Exe /\ Stale(u) = Old
  BY <1>1, NamesOf
<1>4. WritersOf(Exe) = {} /\ WritersOf(Old) = {}
  <2>1. \A v \in WritersOf(Exe) : v = u /\ PhsAt(upgrade[v], {"write"})
    BY <1>2, WhoWritesPhs, LastWritesAlone DEF PhsPaths
  <2> QED
    BY <1>0, <2>1, WhoWritesPhs
<1>5. Exists(Old) /\ files' = Renamed(Old, Exe) /\ upgrade' = [upgrade EXCEPT ![u] = Failed(u)[u]]
  BY <1>1, <1>3, <1>4, NobodyFollows DEF Restore
<1>6. files'[Exe] = files[Old] /\ files'[New] = files[New] /\ files'[Old] = Missing
  BY <1>5, FileTables, PhsNames
<1>7. Turns(q, r, "cleanup") /\ OthersFollow(u, upgrade)
  <2>1. /\ Turns([upgrade EXCEPT ![u] = Failed(u)[u]][u], upgrade[u], "cleanup")
        /\ \A v \in Upgraders : v # u => [upgrade EXCEPT ![u] = Failed(u)[u]][v] = upgrade[v]
    BY <1>1, Turning
  <2> QED
    BY <1>5, <2>1 DEF OthersFollow
<1>8. Own(q, scratch'[u])
  BY <1>0, <1>1, <1>2, <1>7, OwnGoesOn
<1>9. InPlace(Exe)' /\ ~PhsAt(q, {"write"})
  BY <1>2, <1>5, <1>6, <1>7 DEF OnDisk, InPlace, Turns, PhsAt
<1> QED
  BY <1>0, <1>1, <1>2, <1>6, <1>7, <1>8, <1>9, LastKeeps

(* The swap renames the file under whoever still writes it; that upgrade   *)
(* is then the last one.                                                   *)
LEMMA SwapPair ==
  ASSUME KnownInv, PairInv, Sure, NEW u \in Upgraders, UNCHANGED faults, upgrade[u].bin = "phs", Swap(u)
  PROVE  PairInv'
<1> DEFINE r == upgrade[u]  q == upgrade'[u]
<1>0. UNCHANGED <<scratch, starts>> /\ r.pc = "swap" /\ ~Through(r) /\ ~PhsAt(r, {"write"})
  BY DEF Swap, At, Through, PhsAt
<1>1. r # Idle /\ KnownPositions /\ Refers(Following(New, Exe))
  BY <1>0, ReferFixes DEF Idle, KnownInv
<1>2. Installed(u) = Exe /\ Staged(u) = New
  BY <1>1, NamesOf
<1>3. Own(r, scratch[u]) /\ OnDisk /\ FewRun /\ starts \in Nat /\ starts <= 2
  BY DEF PairInv, Sure
<1>4. Exists(New) /\ files' = Renamed(New, Exe) /\ upgrade' = Goes(Following(New, Exe), u, "discard")
  BY <1>2 DEF Swap
<1>5. files'[Exe] = files[New] /\ files'[New] = Missing /\ files'[Old] = files[Old]
  BY <1>4, FileTables, PhsNames
<1>6. Turns(q, r, "discard") /\ \A v \in Upgraders : v # u => upgrade'[v] = Following(New, Exe)[v]
  <2>1. /\ Turns(Goes(Following(New, Exe), u, "discard")[u], r, "discard")
        /\ \A v \in Upgraders : v # u => Goes(Following(New, Exe), u, "discard")[v] = Following(New, Exe)[v]
    BY <1>1, Turning
  <2> QED
    BY <1>4, <2>1
<1>7. WritersOf(Exe) = {} /\ u \notin WritersOf(New)
  <2>1. \A path \in {Exe, New} : \A v \in WritersOf(path) :
          v \in Upgraders /\ PhsAt(upgrade[v], {"write"}) /\ upgrade[v].fd = path
    BY WhoWritesPhs DEF PhsPaths
  <2> QED
    BY <1>0, <2>1, OthersBusy, PhsNames
<1>8. \A v \in Upgraders : v # u => Fixed(upgrade'[v], upgrade[v])
  BY <1>1, <1>6 DEF Refers
<1>9. \A v \in Upgraders : v # u /\ v \notin WritersOf(New) => upgrade'[v] = upgrade[v]
  BY <1>6, <1>7 DEF Following, Refer
<1>10. \A v \in WritersOf(New) : v \in Upgraders /\ v # u /\ upgrade'[v].pc = "write" /\ upgrade'[v].fd = Exe
  <2>1. ASSUME NEW v \in WritersOf(New)
        PROVE  v \in Upgraders /\ v # u /\ upgrade'[v].pc = "write" /\ upgrade'[v].fd = Exe
    <3>1. v \in Upgraders /\ v # u /\ upgrade[v].pc = "write"
      BY <1>7 DEF WritersOf
    <3>2. upgrade'[v] = [upgrade[v] EXCEPT !.fd = Exe]
      BY <1>6, <1>7, <3>1 DEF Following, Refer
    <3>3. DOMAIN upgrade[v] = Fields
      BY <3>1 DEF KnownInv, KnownPositions, Position, Idle
    <3> QED
      BY <3>1, <3>2, <3>3 DEF Fields
  <2> QED
    BY <2>1
<1>11. ASSUME NEW v \in Upgraders, v # u, upgrade[v] # Idle PROVE LastOne(v)'
  <2>1. starts = 2
    BY <1>1, <1>3, <1>11 DEF FewRun
  <2>2. ASSUME NEW w \in Upgraders, w # v PROVE Through(upgrade'[w])
    <3>1. CASE w = u
      BY <1>6, <3>1 DEF Turns, Through
    <3>2. CASE w # u
      <4>1. upgrade[w] = Idle
        BY <1>1, <1>3, <1>11, <2>2, <3>2 DEF FewRun
      <4>2. upgrade'[w] = Idle
        BY <1>8, <3>2, <4>1 DEF Fixed
      <4> QED
        BY <4>2 DEF Through, Idle
    <3> QED
      BY <3>1, <3>2
  <2> QED
    BY <1>0, <2>1, <2>2 DEF LastOne
<1>12. Exists(Exe)' /\ ~Exists(New)'
  BY <1>4, <1>5, WholeIsWhole DEF Exists
<1>13. InPlace(New) \/ WritersOf(New) # {}
  BY <1>3, <1>4 DEF OnDisk
<1>14. ASSUME NEW v \in Upgraders PROVE Holds(v)'
  <2>1. CASE v = u
    BY <1>6, <2>1 DEF Holds, PhsAt, Turns
  <2>2. CASE v # u
    <3>0. Fixed(upgrade'[v], upgrade[v])
      BY <1>8, <2>2
    <3>1. \A pcs : PhsAt(upgrade'[v], pcs) <=> PhsAt(upgrade[v], pcs)
      BY <3>0, FixedIsAlike
    <3>2. ~PhsAt(upgrade'[v], {"undo", "restore"})
      BY <1>0, <2>2, <3>1, OthersBusy
    <3>3. ASSUME PhsAt(upgrade'[v], {"write"})
          PROVE  upgrade'[v].fd = Exe /\ Exists(Exe)' /\ LastOne(v)'
      <4>1. PhsAt(upgrade[v], {"write"}) /\ upgrade[v].fd = New
        BY <1>0, <2>2, <3>1, <3>3, OthersBusy
      <4>2. v \in WritersOf(New) /\ upgrade[v] # Idle
        BY <4>1 DEF WritersOf, PhsAt, Idle
      <4> QED
        BY <1>10, <1>11, <1>12, <2>2, <4>2
    <3>4. ASSUME PhsAt(upgrade'[v], {"swap"}) PROVE InPlace(Exe)' /\ LastOne(v)'
      <4>0. PhsAt(upgrade[v], {"swap"})
        BY <3>1, <3>4
      <4>1. upgrade[v].pc = "swap" /\ upgrade[v] # Idle
        BY <4>0 DEF PhsAt, Idle
      <4>2. \A w \in WritersOf(New) : w \in Upgraders /\ w # u /\ w # v /\ upgrade[w] # Idle
        BY <1>7, <4>1 DEF WritersOf, Idle
      <4>3. WritersOf(New) = {}
        BY <1>1, <1>3, <2>2, <4>1, <4>2 DEF FewRun
      <4>4. InPlace(Exe)'
        BY <1>5, <1>13, <4>3 DEF InPlace
      <4> QED
        BY <1>11, <2>2, <4>1, <4>4
    <3> QED
      BY <3>2, <3>3, <3>4 DEF Holds
  <2> QED
    BY <2>1, <2>2
<1>15. OnDisk'
  <2>1. Exists(Old)' => InPlace(Old)'
    BY <1>3, <1>5 DEF OnDisk, Exists, InPlace
  <2>2. InPlace(Exe)' \/ WritersOf(Exe)' # {}
    <3>1. CASE InPlace(New)
      BY <1>5, <3>1 DEF InPlace
    <3>2. ASSUME NEW v \in WritersOf(New) PROVE v \in WritersOf(Exe)'
      BY <1>10 DEF WritersOf
    <3> QED
      BY <1>13, <3>1, <3>2
  <2> QED
    BY <1>12, <2>1, <2>2 DEF OnDisk
<1>16. Own(q, scratch'[u])
  BY <1>0, <1>1, <1>3, <1>6, OwnGoesOn
<1>17. OthersStay(u)
  <2>1. ASSUME NEW v \in Upgraders, v # u, upgrade[v].pc = "write", upgrade[v].bin = "lsp"
        PROVE  upgrade'[v].fd \notin PhsPaths
    <3>1. upgrade[v].fd \notin PhsPaths
      BY <2>1 DEF PairInv, Own
    <3>2. v \notin WritersOf(New)
      BY <3>1 DEF WritersOf, PhsPaths
    <3> QED
      BY <1>9, <2>1, <3>1, <3>2
  <2> QED
    BY <1>0, <1>8, <2>1 DEF OthersStay
<1> QED
  BY <1>1, <1>14, <1>15, <1>16, <1>17, PairKeeps

(* A first and a second upgrade start; a third one is not looked at.       *)
LEMMA StartPair ==
  ASSUME KnownInv, PairInv, Sure, Sure', NEW u \in Upgraders, Start(u)
  PROVE  PairInv'
<1> DEFINE q == upgrade'[u]
<1>0. upgrade[u].pc = "idle" /\ starts' = starts + 1 /\ UNCHANGED <<files, scratch, faults>>
  BY DEF Start, At
<1>1. starts \in Nat /\ faults \in Nat /\ FewRun /\ OnDisk /\ KnownPositions
      /\ \A v \in Upgraders : Own(upgrade[v], scratch[v]) /\ Holds(v)
  BY DEF PairInv, KnownInv
<1>2. starts \in {0, 1}
  BY <1>0, <1>1 DEF Sure
<1>3. PICK e \in RunFrom, mode \in {"stable", "nightly"} :
       /\ upgrade' = [upgrade EXCEPT ![u] =
            [pc |-> "check", mode |-> mode, from |-> e, bin |-> "phs", had |-> FALSE,
             running |-> files[<<"phs", e>>].tip, target |-> FirstTip, assets |-> {},
             fd |-> Closed, outcome |-> "none"]]
       /\ {"astray" : x \in {e} \ {"exe"}} \subseteq history'
  BY DEF Start
<1>4. e = "exe"
  <2>1. "astray" \notin history'
    BY DEF Sure
  <2> QED
    BY <1>3, <2>1
<1>5. q = [pc |-> "check", mode |-> mode, from |-> e, bin |-> "phs", had |-> FALSE,
           running |-> files[<<"phs", e>>].tip, target |-> FirstTip, assets |-> {},
           fd |-> Closed, outcome |-> "none"]
      /\ \A v \in Upgraders : v # u => upgrade'[v] = upgrade[v]
  BY <1>1, <1>3, OnlyChanged
<1>6. q.pc = "check" /\ q.from = "exe"
  BY <1>4, <1>5
<1>7. FewRun'
  <2>1. starts' # 0 /\ (starts' = 1 => starts = 0)
    BY <1>0, <1>2
  <2>2. starts = 0 => \A v \in Upgraders : v # u => upgrade'[v] = Idle
    BY <1>1, <1>5 DEF FewRun
  <2>3. \A v, w \in Upgraders : v # u /\ w # u /\ v # w => upgrade'[v] = Idle \/ upgrade'[w] = Idle
    BY <1>1, <1>2, <1>5 DEF FewRun
  <2> QED
    BY <2>1, <2>2, <2>3 DEF FewRun
<1>8. Own(q, scratch'[u])
  <2>1. scratch'[u] = NothingIn
    BY <1>0, <1>1 DEF Own
  <2> QED
    BY <1>6, <2>1 DEF Own, PhsAt
<1>9. ASSUME NEW v \in Upgraders PROVE Holds(v)'
  <2>1. CASE v = u
    BY <1>6, <2>1 DEF Holds, PhsAt
  <2>2. CASE v # u
    <3>1. ~LastOne(v)
      BY <1>2 DEF LastOne
    <3>2. upgrade'[v] = upgrade[v] /\ Holds(v)
      BY <1>1, <1>5, <2>2
    <3> QED
      BY <1>0, <3>1, <3>2 DEF Holds, Exists
  <2> QED
    BY <2>1, <2>2
<1>10. OnDisk'
  <2>1. \A path : WritersOf(path)' = WritersOf(path)
    BY <1>0, <1>5, <1>6 DEF WritersOf
  <2>2. \A v \in Upgraders : PhsAt(upgrade[v], {"open", "write", "swap"}) => upgrade'[v] = upgrade[v]
    BY <1>0, <1>5 DEF PhsAt
  <2> QED
    BY <1>0, <1>1, <2>1, <2>2 DEF OnDisk, Exists, InPlace
<1>11. \A v \in Upgraders : Own(upgrade'[v], scratch'[v])
  BY <1>0, <1>1, <1>5, <1>8
<1> QED
  BY <1>0, <1>1, <1>2, <1>7, <1>9, <1>10, <1>11 DEF PairInv

LEMMA StepsKeepPair == KnownInv /\ KnownInv' /\ PairInv /\ [Next]_vars => PairInv'
<1> SUFFICES ASSUME KnownInv, KnownInv', PairInv, [Next]_vars PROVE PairInv'
  OBVIOUS
<1>1. CASE UNCHANGED <<files, scratch, upgrade, starts, faults, history>>
  <2>1. \A path : WritersOf(path)' = WritersOf(path)
    BY <1>1 DEF WritersOf
  <2>2. FewRun' = FewRun /\ Sure' = Sure
    BY <1>1 DEF FewRun, Sure
  <2>3. \A v \in Upgraders : Holds(v)' = Holds(v)
    BY <1>1 DEF Holds, LastOne, InPlace, Exists
  <2>4. OnDisk' = OnDisk
    BY <1>1, <2>1 DEF OnDisk, Exists, InPlace
  <2> QED
    BY <1>1, <2>2, <2>3, <2>4 DEF PairInv
<1>2. CASE Next /\ ~Sure'
  BY <1>2, SureBefore DEF PairInv
<1>3. ASSUME Next, Sure' PROVE PairInv'
  <2>1. Sure /\ UNCHANGED faults /\ ~Fault
    BY <1>3, SureBefore DEF PairInv, Fault
  <2>2. history' \subseteq {"overlap"}
    BY <1>3 DEF Sure
  <2>3. CASE Commit \/ Publish
    BY <1>1, <2>3 DEF Commit, Publish
  <2>4. ASSUME NEW u \in Upgraders, Checks(u) PROVE PairInv'
    BY <1>3, <2>1, <2>4, StartPair, ChecksPair DEF Checks
  <2>5. ASSUME NEW u \in Upgraders, Fetches(u) PROVE PairInv'
    BY <2>1, <2>5, FetchesPair
  <2>6. ASSUME NEW u \in Upgraders, MakesWay(u) \/ Copies(u) \/ Closes(u) PROVE PairInv'
    <3>1. ~ParentFails(u) /\ ~CopyFails(u) /\ ~DiscardFails(u)
      BY <2>1, <2>2 DEF ParentFails, CopyFails, DiscardFails
    <3>2. CASE Look(u) \/ LookAgain(u) \/ MoveAsideFails(u) \/ SwapFails(u) \/ RestoreFails(u)
      BY <2>1, <3>2, LooksPair
    <3>3. CASE \/ ClearWay(u) \/ MoveAside(u) \/ OpenStaged(u) \/ WriteStaged(u)
               \/ Swap(u) \/ Undo(u) \/ Restore(u) \/ Discard(u)
      <4>1. upgrade[u].pc \in {"clear", "aside", "open", "write", "swap", "undo", "restore", "discard"}
        BY <3>3 DEF ClearWay, MoveAside, OpenStaged, WriteStaged, Swap, Undo, Restore, Discard, At
      <4>2. upgrade[u] # Idle
        BY <4>1 DEF Idle
      <4>3. CASE upgrade[u].bin = "phs"
        BY <2>1, <3>3, <4>3, RemoveOldPair, MoveAsidePair, OpenStagedPair, WriteStagedPair,
           SwapPair, UndoPair, RestorePair
      <4>4. CASE upgrade[u].bin # "phs"
        <5>1. upgrade[u].bin = "lsp"
          BY <2>1, <4>2, <4>4, NamesOf
        <5> QED
          BY <2>1, <3>3, <5>1, LspPair
      <4> QED
        BY <4>3, <4>4
    <3> QED
      BY <2>6, <3>1, <3>2, <3>3 DEF MakesWay, Copies, Closes
  <2>7. ASSUME NEW u \in Upgraders, Finishes(u) PROVE PairInv'
    <3>1. ~Crash(u)
      BY <2>1 DEF Crash
    <3> QED
      BY <2>1, <2>7, <3>1, FinishesPair DEF Finishes
  <2> QED
    BY <1>3, <2>3, <2>4, <2>5, <2>6, <2>7 DEF Next
<1> QED
  BY <1>1, <1>2, <1>3 DEF vars

LEMMA PairLeavesABinary == PairInv => EndedUpgradesLeaveABinary
<1> SUFFICES ASSUME PairInv, Active = {}, Sure PROVE Phs("exe").whole
  BY DEF EndedUpgradesLeaveABinary, Sure
<1>1. \A u \in Upgraders : upgrade[u].pc = "idle"
  BY DEF Active, At
<1>2. Exists(Exe) /\ WritersOf(Exe) = {}
  BY <1>1 DEF PairInv, OnDisk, PhsAt, WritersOf
<1>3. InPlace(Exe)
  BY <1>2 DEF PairInv, OnDisk
<1> QED
  BY <1>3 DEF InPlace, Phs, Exe

(* Two upgrades to the same build, of which none fails, leave a whole phs  *)
(* at its own name, however their calls on the directory they share are    *)
(* mixed (replace_binary, make_way_for): also when one swaps the file the  *)
(* other is still writing, or finds the staged file gone.                  *)
THEOREM TwoUpgradesLeaveABinary == Spec => []EndedUpgradesLeaveABinary
<1>1. Spec => []KnownInv
  BY KnownAlways
<1>2. Init => PairInv
  BY PairAtFirst
<1>3. KnownInv /\ KnownInv' /\ PairInv /\ [Next]_vars => PairInv'
  BY StepsKeepPair
<1>4. PairInv => EndedUpgradesLeaveABinary
  BY PairLeavesABinary
<1> QED
  BY <1>1, <1>2, <1>3, <1>4, PTL DEF Spec

=============================================================================
