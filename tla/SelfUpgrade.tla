------------------------------ MODULE SelfUpgrade ------------------------------
(***************************************************************************)
(* phs upgrade: what a release or main offers, the scratch directory, and  *)
(* the replacement of the installed phs and physure-lsp file by file, with *)
(* several upgrades on one machine, failing operations and crashes.        *)
(***************************************************************************)
EXTENDS Naturals, Sequences, FiniteSets

CONSTANTS
  Upgraders,      \* processes of phs upgrade; each has its own scratch directory
  Offers,         \* what the assets of a release may be: subsets of Binaries, or NoAsset
  NoAsset,
  RunFrom,        \* the names under which a user may start an upgrade
  MaxStarts, MaxFaults, MaxMoves

ASSUME RunFromAssumption == RunFrom \subseteq {"exe", "old"}

VARIABLES
  main,           \* the tip of main: its version, its sources, its other files
  releases,       \* GitHub's list of releases, newest first
  files,          \* what is at each path next to the installed phs
  scratch,        \* what is in each process's scratch directory
  upgrade,        \* each process's position
  starts, moves, faults,  \* how often something of the kind has happened
  history         \* what has happened: "overlap", "astray", "leftovers", "uncopied", "mixed", "unrestored"

offered == <<main, releases, moves>>
vars == <<main, releases, files, scratch, upgrade, starts, moves, faults, history>>

Binaries == {"phs", "lsp"}
Paths == Binaries \X {"exe", "old", "new"}
WithExtension(path, e) == <<path[1], e>>

(* A file is missing, cut short, or the binary built from a tip of main.   *)
Missing == [whole |-> FALSE, there |-> FALSE]
Partial == [whole |-> FALSE, there |-> TRUE]
Whole(tip) == [whole |-> TRUE, there |-> TRUE, tip |-> tip]
Exists(path) == files[path].there

Idle == [pc |-> "idle"]
Closed == <<"closed", "closed">>
Downloads == {"extracted", "bin"} \X Binaries
NothingIn == [d \in Downloads |-> Missing]

FirstTip == [version |-> 1, source |-> 1, other |-> 1]

(***************************************************************************)
(* What there is to install.                                               *)
(***************************************************************************)
(* The latest release of the core, whatever else is published before it.   *)
CoreReleases == {i \in DOMAIN releases : releases[i].tag \in {"core", "odd"}}
Latest == releases[CHOOSE i \in CoreReleases : \A j \in CoreReleases : i <= j]

(* plan_stable_upgrade: nothing to do, an error, or a release.             *)
Plan(running) ==
  IF CoreReleases = {} \/ Latest.tag = "odd" THEN [plan |-> "error"]
  ELSE IF Latest.tip.version <= running.version THEN [plan |-> "nothing"]
  ELSE IF Latest.assets = NoAsset THEN [plan |-> "error"]
  ELSE [plan |-> "install", release |-> Latest]

(* What compare tells of the files between two tips: whether one of them   *)
(* is built in, if it names all of them; the list ends at 300 files.       *)
Compares(from, to) ==
  [capped : {FALSE}, relevant : {from.source # to.source}]
  \cup [capped : {TRUE}, relevant : BOOLEAN]

(* Mutant: a list cut at 300 files is taken for the whole list.            *)
CappedIsWhole(running, tip, compared) == tip = running \/ ~compared.relevant
(* nightly_up_to_date_note                                                 *)
IsUpToDate(running, tip, compared) ==
  tip = running \/ (~compared.capped /\ ~compared.relevant)

(***************************************************************************)
(* File operations.  A process that writes a file writes to it under the   *)
(* name it is given meanwhile, or under none.                              *)
(***************************************************************************)
WritersOf(path) == {u \in Upgraders : upgrade[u].pc = "write" /\ upgrade[u].fd = path}
Refer(writers, fd) ==
  [u \in Upgraders |-> IF u \in writers THEN [upgrade[u] EXCEPT !.fd = fd] ELSE upgrade[u]]
Following(from, to) ==
  LET closed == WritersOf(to) \ WritersOf(from)
  IN  [u \in Upgraders |-> IF u \in closed THEN [upgrade[u] EXCEPT !.fd = Closed]
                           ELSE Refer(WritersOf(from), to)[u]]
Unlinked(path) == Refer(WritersOf(path), Closed)
Renamed(from, to) == [files EXCEPT ![to] = files[from], ![from] = Missing]
Removed(path) == [files EXCEPT ![path] = Missing]

(* The file an upgrade replaces and the two names beside it.               *)
Installed(u) == <<upgrade[u].bin, IF upgrade[u].bin = "phs" THEN upgrade[u].from ELSE "exe">>
Staged(u) == WithExtension(Installed(u), "new")
Stale(u)  == WithExtension(Installed(u), "old")

(* Where an upgrade finds the file it is to install.                       *)
Download(u, b) == <<IF upgrade[u].mode = "stable" THEN "extracted" ELSE "bin", b>>
Fetched(u) == scratch[u][Download(u, upgrade[u].bin)]

At(u, pc) == upgrade[u].pc = pc
Goes(table, u, pc) == [table EXCEPT ![u].pc = pc]
GoTo(u, pc) == upgrade' = Goes(upgrade, u, pc)
MayFail == faults < MaxFaults
Fault == MayFail /\ faults' = faults + 1

(* What follows a failed replacement: that of phs is the upgrade's, that   *)
(* of physure-lsp is only told.                                            *)
Failed(u) ==
  [upgrade EXCEPT ![u].pc = "cleanup",
                  ![u].outcome = IF upgrade[u].bin = "phs" THEN "failed" ELSE @]

(***************************************************************************)
(* Deciding what to install.                                               *)
(***************************************************************************)
Start(u) ==
  /\ At(u, "idle") /\ starts < MaxStarts
  /\ starts' = starts + 1
  /\ \E e \in RunFrom, mode \in {"stable", "nightly"} :
       /\ files[<<"phs", e>>].whole
       /\ upgrade' = [upgrade EXCEPT ![u] =
            [pc |-> "check", mode |-> mode, from |-> e, bin |-> "phs", had |-> FALSE,
             running |-> files[<<"phs", e>>].tip, target |-> FirstTip, assets |-> {},
             fd |-> Closed, outcome |-> "none"]]
       /\ history' = history
            \cup {"overlap" : v \in {v \in Upgraders : ~At(v, "idle")}}
            \cup {"astray" : x \in {e} \ {"exe"}}
  /\ UNCHANGED <<offered, files, scratch, faults>>

Ends(u, outcome) == upgrade' = [upgrade EXCEPT ![u].pc = "ended", ![u].outcome = outcome]
CheckFails(u) ==
  /\ At(u, "check") /\ upgrade[u].mode = "stable" /\ Ends(u, "failed")
  /\ UNCHANGED <<offered, files, scratch, starts, faults, history>>

CheckStable(u) ==
  /\ At(u, "check") /\ upgrade[u].mode = "stable"
  /\ LET plan == Plan(upgrade[u].running)
     IN  \/ plan.plan = "nothing" /\ Ends(u, "upToDate")
         \/ plan.plan = "error" /\ Ends(u, "failed")
         \/ /\ plan.plan = "install"
            /\ upgrade' = [upgrade EXCEPT ![u].pc = "scratch", ![u].target = plan.release.tip,
                                          ![u].assets = plan.release.assets]
  /\ UNCHANGED <<offered, files, scratch, starts, faults, history>>

(* The running build does not know its commit, or a request fails: build.  *)
CheckSkipped(u) ==
  /\ At(u, "check") /\ upgrade[u].mode = "nightly"
  /\ GoTo(u, "scratch")
  /\ UNCHANGED <<offered, files, scratch, starts, faults, history>>
CheckTip(u) ==
  /\ At(u, "check") /\ upgrade[u].mode = "nightly"
  /\ upgrade' = [upgrade EXCEPT ![u].pc = "compare", ![u].target = main]
  /\ UNCHANGED <<offered, files, scratch, starts, faults, history>>
Compare(u) ==
  /\ At(u, "compare")
  /\ \/ \E compared \in Compares(upgrade[u].running, upgrade[u].target) :
          IF IsUpToDate(upgrade[u].running, upgrade[u].target, compared)
          THEN Ends(u, "upToDate") ELSE GoTo(u, "scratch")
     \/ upgrade[u].target # upgrade[u].running /\ GoTo(u, "scratch")
  /\ UNCHANGED <<offered, files, scratch, starts, faults, history>>

(***************************************************************************)
(* Fetching it: the default upgrade keeps what an earlier one left in the  *)
(* scratch directory, the nightly one removes it.                          *)
(***************************************************************************)
MakeScratch(u) ==
  /\ At(u, "scratch")
  /\ scratch' = IF upgrade[u].mode = "stable" THEN scratch ELSE [scratch EXCEPT ![u] = NothingIn]
  /\ GoTo(u, "fetch")
  /\ UNCHANGED <<offered, files, starts, faults, history>>

Extracted(u, found) ==
  [d \in Downloads |-> IF d[1] = "extracted" /\ d[2] \in upgrade[u].assets THEN found ELSE scratch[u][d]]
InstallRelease(u) ==
  /\ At(u, "fetch") /\ upgrade[u].mode = "stable"
  /\ scratch' = [scratch EXCEPT ![u] = Extracted(u, Whole(upgrade[u].target))]
  /\ GoTo(u, "look")
  /\ history' = history
       \cup {"leftovers" : b \in {b \in Binaries \ upgrade[u].assets : scratch[u][<<"extracted", b>>].there}}
  /\ UNCHANGED <<offered, files, starts, faults>>
Build(u) ==
  /\ At(u, "fetch") /\ upgrade[u].mode = "nightly"
  /\ scratch' = [scratch EXCEPT ![u][Download(u, upgrade[u].bin)] = Whole(main)]
  /\ upgrade' = [upgrade EXCEPT ![u].pc = "look",
                                ![u].target = IF upgrade[u].bin = "phs" THEN main ELSE @]
  /\ UNCHANGED <<offered, files, starts, faults, history>>
(* The download, the extraction half-way or the build fails.               *)
FetchFails(u) ==
  /\ At(u, "fetch")
  /\ \/ scratch' = scratch
     \/ /\ upgrade[u].mode = "stable"
        /\ scratch' = [scratch EXCEPT ![u] = Extracted(u, Partial)]
  /\ upgrade' = Failed(u)
  /\ UNCHANGED <<offered, files, starts, faults, history>>

(***************************************************************************)
(* replace_binary, of phs and then of physure-lsp.                         *)
(***************************************************************************)
Look(u) ==
  /\ At(u, "look")
  /\ upgrade' = [upgrade EXCEPT ![u].pc = "way", ![u].had = Exists(Installed(u))]
  /\ UNCHANGED <<offered, files, scratch, starts, faults, history>>

(* make_way_for: the installed file is looked for again, the leftover is   *)
(* removed, and the installed one renamed.                                 *)
LookAgain(u) ==
  /\ At(u, "way")
  /\ GoTo(u, IF Exists(Installed(u)) THEN "clear" ELSE "open")
  /\ UNCHANGED <<offered, files, scratch, starts, faults, history>>
ClearWay(u) ==
  /\ At(u, "clear")
  /\ files' = Removed(Stale(u))
  /\ upgrade' = Goes(Unlinked(Stale(u)), u, "aside")
  /\ UNCHANGED <<offered, scratch, starts, faults, history>>
(* Mutant: the installed binary is removed.                                *)
RemoveInstalled(u) ==
  /\ At(u, "aside") /\ Exists(Installed(u))
  /\ files' = Removed(Installed(u))
  /\ upgrade' = Goes(Unlinked(Installed(u)), u, "open")
  /\ UNCHANGED <<offered, scratch, starts, faults, history>>
MoveAside(u) ==
  /\ At(u, "aside") /\ Exists(Installed(u))
  /\ files' = Renamed(Installed(u), Stale(u))
  /\ upgrade' = Goes(Following(Installed(u), Stale(u)), u, "open")
  /\ UNCHANGED <<offered, scratch, starts, faults, history>>
MoveAsideFails(u) ==
  /\ At(u, "aside")
  /\ upgrade' = Failed(u)
  /\ IF Exists(Installed(u)) THEN Fault ELSE UNCHANGED faults
  /\ UNCHANGED <<offered, files, scratch, starts, history>>

(* create_dir_all: its error is returned, and what was renamed stays so.   *)
ParentFails(u) ==
  /\ At(u, "open") /\ Fault
  /\ upgrade' = Failed(u)
  /\ history' = history \cup {"unrestored"}
  /\ UNCHANGED <<offered, files, scratch, starts>>

(* fs::copy                                                                *)
OpenStaged(u) ==
  /\ At(u, "open") /\ Fetched(u).there
  /\ files' = [files EXCEPT ![Staged(u)] = Partial]
  /\ upgrade' = [upgrade EXCEPT ![u].pc = "write", ![u].fd = Staged(u)]
  /\ history' = history
       \cup {"mixed" : v \in {v \in WritersOf(Staged(u)) : Fetched(v) # Fetched(u)}}
  /\ UNCHANGED <<offered, scratch, starts, faults>>
WriteStaged(u) ==
  /\ At(u, "write")
  /\ files' = IF WritersOf(upgrade[u].fd) = {u} /\ upgrade[u].fd # Closed
              THEN [files EXCEPT ![upgrade[u].fd] = Fetched(u)] ELSE files
  /\ GoTo(u, "swap")
  /\ UNCHANGED <<offered, scratch, starts, faults, history>>
CopyFails(u) ==
  /\ At(u, "open") \/ At(u, "write")
  /\ GoTo(u, "undo")
  /\ IF Fetched(u).there THEN Fault ELSE UNCHANGED faults
  /\ history' = history \cup {"uncopied"}
  /\ UNCHANGED <<offered, files, scratch, starts>>

Swap(u) ==
  /\ At(u, "swap") /\ Exists(Staged(u))
  /\ files' = Renamed(Staged(u), Installed(u))
  /\ upgrade' = Goes(Following(Staged(u), Installed(u)), u, "discard")
  /\ UNCHANGED <<offered, scratch, starts, faults, history>>
SwapFails(u) ==
  /\ At(u, "swap")
  /\ GoTo(u, "undo")
  /\ IF Exists(Staged(u)) THEN Fault ELSE UNCHANGED faults
  /\ UNCHANGED <<offered, files, scratch, starts, history>>

Undo(u) ==
  /\ At(u, "undo")
  /\ files' = Removed(Staged(u))
  /\ upgrade' = Goes(Unlinked(Staged(u)), u, "restore")
  /\ UNCHANGED <<offered, scratch, starts, faults, history>>
Restore(u) ==
  /\ At(u, "restore") /\ upgrade[u].had /\ Exists(Stale(u))
  /\ files' = Renamed(Stale(u), Installed(u))
  /\ upgrade' = [Following(Stale(u), Installed(u)) EXCEPT ![u] = Failed(u)[u]]
  /\ UNCHANGED <<offered, scratch, starts, faults, history>>
RestoreFails(u) ==
  /\ At(u, "restore")
  /\ upgrade' = Failed(u)
  /\ IF upgrade[u].had /\ Exists(Stale(u))
     THEN Fault /\ history' = history \cup {"unrestored"}
     ELSE UNCHANGED <<faults, history>>
  /\ UNCHANGED <<offered, files, scratch, starts>>

Replaced(table, u) ==
  IF upgrade[u].bin = "phs" THEN [table EXCEPT ![u].pc = "lsp", ![u].outcome = "updated"]
  ELSE Goes(table, u, "cleanup")
(* Mutant: what is staged is removed with what was moved aside.            *)
DiscardBoth(u) ==
  /\ At(u, "discard")
  /\ files' = [Removed(Stale(u)) EXCEPT ![Staged(u)] = Missing]
  /\ upgrade' = Replaced(Unlinked(Stale(u)), u)
  /\ UNCHANGED <<offered, scratch, starts, faults, history>>
Discard(u) ==
  /\ At(u, "discard")
  /\ files' = Removed(Stale(u))
  /\ upgrade' = Replaced(Unlinked(Stale(u)), u)
  /\ UNCHANGED <<offered, scratch, starts, faults, history>>
DiscardFails(u) ==
  /\ At(u, "discard") /\ Exists(Stale(u)) /\ Fault
  /\ upgrade' = Replaced(upgrade, u)
  /\ UNCHANGED <<offered, files, scratch, starts, history>>

(* replace_lsp and the second half of nightly_install.                     *)
ReplaceLsp(u) ==
  LET found == Exists(<<"lsp", "exe">>)
      offers == upgrade[u].mode = "nightly" \/ scratch[u][Download(u, "lsp")].there
      next == IF ~(found /\ offers) THEN "cleanup"
              ELSE IF upgrade[u].mode = "nightly" THEN "fetch" ELSE "look"
  IN  /\ At(u, "lsp")
      /\ upgrade' = [upgrade EXCEPT ![u].pc = next, ![u].bin = "lsp"]
      /\ UNCHANGED <<offered, files, scratch, starts, faults, history>>

Cleanup(u) ==
  /\ At(u, "cleanup")
  /\ scratch' = [scratch EXCEPT ![u] = NothingIn]
  /\ GoTo(u, "ended")
  /\ UNCHANGED <<offered, files, starts, faults, history>>
Exit(u) ==
  /\ At(u, "ended")
  /\ upgrade' = [upgrade EXCEPT ![u] = Idle]
  /\ UNCHANGED <<offered, files, scratch, starts, faults, history>>

(* The process is killed or the machine stops; a later process with its    *)
(* number finds its scratch directory.                                     *)
Crash(u) ==
  /\ upgrade[u].pc \notin {"idle", "ended"} /\ Fault
  /\ upgrade' = [upgrade EXCEPT ![u] = Idle]
  /\ UNCHANGED <<offered, files, scratch, starts, history>>

(***************************************************************************)
(* The project moves on.                                                   *)
(***************************************************************************)
Commit ==
  /\ moves < MaxMoves /\ moves' = moves + 1
  /\ \E part \in {"source", "other"} : main' = [main EXCEPT ![part] = @ + 1]
  /\ UNCHANGED <<releases, files, scratch, upgrade, starts, faults, history>>
Publish ==
  /\ moves < MaxMoves /\ moves' = moves + 1
  /\ main' = [main EXCEPT !.version = @ + 1, !.source = @ + 1]
  /\ \E tag \in {"core", "odd", "py"}, assets \in Offers :
       releases' = <<[tag |-> tag, tip |-> main', assets |-> assets]>> \o releases
  /\ UNCHANGED <<files, scratch, upgrade, starts, faults, history>>

(***************************************************************************)
Init ==
  /\ main = FirstTip
  /\ releases = <<[tag |-> "core", tip |-> FirstTip, assets |-> Binaries]>>
  /\ \E lsp \in {Missing, Whole(FirstTip)} :
       files = [path \in Paths |-> CASE path = <<"phs", "exe">> -> Whole(FirstTip)
                                     [] path = <<"lsp", "exe">> -> lsp
                                     [] OTHER -> Missing]
  /\ scratch = [u \in Upgraders |-> NothingIn]
  /\ upgrade = [u \in Upgraders |-> Idle]
  /\ starts = 0 /\ moves = 0 /\ faults = 0 /\ history = {}

Checks(u)   == Start(u) \/ CheckFails(u) \/ CheckStable(u) \/ CheckSkipped(u) \/ CheckTip(u) \/ Compare(u)
Fetches(u)  == MakeScratch(u) \/ InstallRelease(u) \/ Build(u) \/ FetchFails(u)
MakesWay(u) == Look(u) \/ LookAgain(u) \/ ClearWay(u) \/ MoveAside(u) \/ MoveAsideFails(u) \/ ParentFails(u)
Copies(u)   == OpenStaged(u) \/ WriteStaged(u) \/ CopyFails(u) \/ Swap(u) \/ SwapFails(u)
Closes(u)   == Undo(u) \/ Restore(u) \/ RestoreFails(u) \/ Discard(u) \/ DiscardFails(u)
Finishes(u) == ReplaceLsp(u) \/ Cleanup(u) \/ Exit(u) \/ Crash(u)
Next ==
  \/ Commit \/ Publish
  \/ \E u \in Upgraders : Checks(u) \/ Fetches(u) \/ MakesWay(u) \/ Copies(u) \/ Closes(u) \/ Finishes(u)

Spec == Init /\ [][Next]_vars

-----------------------------------------------------------------------------
(* What phs upgrade leaves behind.                                         *)
Active == {u \in Upgraders : ~At(u, "idle")}
Phs(e) == files[<<"phs", e>>]

(* With one upgrade at a time, started from the installed phs, a whole phs *)
(* is always there, at its own name or at .old, whatever fails and         *)
(* whenever the process dies.  (replace_binary keeps the previous binary   *)
(* until the next is in place; a death between its two renames leaves it   *)
(* at .old alone.)  And unless the previous one was not renamed back, an   *)
(* upgrade leaves what it reports: what it installed, or what was there *)
(* before.  This is not so when a release without phs is unpacked over     *)
(* what a crashed upgrade has left in the scratch directory.               *)
ABinaryIsKept ==
  history \cap {"overlap", "astray", "leftovers"} = {} =>
    /\ Phs("exe").whole \/ Phs("old").whole
    /\ "unrestored" \notin history => \A u \in Upgraders : At(u, "ended") =>
         /\ upgrade[u].outcome = "updated" => Phs("exe") = Whole(upgrade[u].target)
         /\ upgrade[u].outcome = "failed"  => Phs("exe") = Whole(upgrade[u].running)

(* When no upgrade runs and none failed, the installed phs is whole, also  *)
(* after two upgrades to the same build that ran at the same time.         *)
EndedUpgradesLeaveABinary ==
  Active = {} /\ faults = 0 /\ starts <= 2 /\ history \subseteq {"overlap"} => Phs("exe").whole

(* phs says that it is up to date only when no newer release of the core   *)
(* is published, or when the commit it asked for has the same sources.     *)
IsCurrent(u) ==
  IF upgrade[u].mode = "stable"
  THEN \A i \in DOMAIN releases :
         releases[i].tag = "core" => releases[i].tip.version <= upgrade[u].running.version
  ELSE upgrade[u].target.source = upgrade[u].running.source
UpToDateIsTrue ==
  [][\A u \in Upgraders : ~At(u, "ended") /\ upgrade'[u].pc = "ended" =>
       (upgrade'[u].outcome = "upToDate" => IsCurrent(u))]_vars
=============================================================================
