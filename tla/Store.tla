---- MODULE Store ----
(***************************************************************************)
(* What rvn keeps on disk between commands: the sync database with its     *)
(* seal, the package cache, the AUR build tree - and the commands that     *)
(* read and write them: refresh, install, build, rollback, cache clean.    *)
(* One transaction at a time (rvnd's busy lock), but `rvn cache clean`     *)
(* runs beside it with no lock at all.                                     *)
(*                                                                         *)
(* One package, from a repository or from the AUR: neither the retention   *)
(* rule nor a transaction's files relate two packages to each other.       *)
(***************************************************************************)
EXTENDS Integers, FiniteSets, FiniteSetsExt

CONSTANTS
  MaxVer,       \* versions are 1 .. MaxVer, in vercmp's order
  PkgLevel,     \* SigLevel of the repository's packages
  Keeps,        \* the --keep values a clean is given
  MaxCommands,  \* bound: transactions
  MaxSweeps,    \* bound: cleans
  MaxCrashes    \* bound: kills

Levels == {"Never", "Optional", "Required"}

ASSUME StoreAssumption ==
  /\ MaxVer \in Nat \ {0}
  /\ PkgLevel \in Levels
  /\ Keeps \subseteq Nat
  /\ {MaxCommands, MaxSweeps, MaxCrashes} \subseteq Nat

VARIABLES
  origin,     \* "repo" or "aur": where the package comes from
  offered,    \* the version the mirrors, or the AUR, carry now
  level,      \* SigLevel of the repository's database, as configured
  db,         \* the sync database file: NoDb or [ver, seal, level]
  stale,      \* it is older than STALE_AFTER
  nosig,      \* a fresh note that the repository publishes no database signature
  files,      \* the archives on disk
  sigs,       \* versions with a detached signature in the cache
  parts,      \* versions with a .part file in the cache
  tree,       \* the AUR build tree exists
  installed,  \* NotInstalled or [ver, good, by]
  tx,         \* the transaction under way
  sweep,      \* the clean under way
  torn,       \* history: the last refresh was killed before its verdict
  quiet,      \* history: nothing else has moved since the clean looked
  commands, sweeps, crashes

disk == <<db, stale, nosig, files, sigs, parts, tree>>
world == <<origin, offered, level>>
counts == <<commands, sweeps, crashes>>
vars == <<world, disk, installed, tx, sweep, torn, quiet, counts>>

Vers == 1 .. MaxVer
NoDb == [ver |-> 0, seal |-> "none", level |-> "Never"]
NotInstalled == [ver |-> 0, good |-> TRUE, by |-> "none"]
Archives == [ver : Vers, at : {"root", "tree"}, good : BOOLEAN]

NoTx == [pc |-> "idle", kind |-> "none", ver |-> 0, got |-> {}, keep |-> FALSE]
NoSweep == [pc |-> "idle", keep |-> 0, rescue |-> {}, retired |-> {}, kept |-> {},
            parts |-> {}, trees |-> FALSE, stranded |-> FALSE]

(* One walk over the cache directories: what a clean and a rollback see.   *)
Inventory == [archives |-> files, partials |-> parts, builds |-> tree]

SamePath(f, g) == f.ver = g.ver /\ f.at = g.at
Without(gone) == {f \in files : ~\E g \in gone : SamePath(f, g)}
Put(f) == Without({f}) \cup {f}
OnDisk(f) == \E g \in files : SamePath(f, g)
Promoted(f) == [f EXCEPT !.at = "root"]
Moved(S) == LET there == {Promoted(f) : f \in S} IN Without(S \cup there) \cup there

Init ==
  /\ origin \in {"repo", "aur"}
  /\ offered = 1
  /\ level \in Levels
  /\ db = NoDb
  /\ stale = TRUE
  /\ nosig = FALSE
  /\ files = {} /\ sigs = {} /\ parts = {} /\ tree = FALSE
  /\ installed = NotInstalled
  /\ tx = NoTx
  /\ sweep = NoSweep
  /\ torn = FALSE
  /\ quiet = TRUE
  /\ commands = 0 /\ sweeps = 0 /\ crashes = 0

-----------------------------------------------------------------------------
(* The world: a newer version appears, time passes, an administrator asks  *)
(* for signed databases.                                                   *)
Publish ==
  /\ offered < MaxVer
  /\ offered' = offered + 1
  /\ UNCHANGED <<origin, level, disk, installed, tx, sweep, torn, quiet, counts>>

DayPasses ==
  /\ tx = NoTx
  /\ ~stale \/ nosig
  /\ stale' = TRUE
  /\ nosig' \in {nosig, FALSE}
  /\ UNCHANGED <<world, db, files, sigs, parts, tree, installed, tx, sweep, torn, quiet, counts>>

Harden ==
  /\ tx = NoTx
  /\ level = "Optional"
  /\ level' = "Required"
  /\ UNCHANGED <<origin, offered, disk, installed, tx, sweep, torn, quiet, counts>>

-----------------------------------------------------------------------------
(* Refresh: the new database takes the old one's place, and is verified    *)
(* there.                                                                  *)
Disturb == quiet' = (quiet /\ sweep.pc = "idle")

Idle == tx' = NoTx

Begin(kind, pc, keep, got) ==
  /\ tx.pc = "idle"
  /\ commands < MaxCommands
  /\ commands' = commands + 1
  /\ tx' = [pc |-> pc, kind |-> kind, ver |-> 0, got |-> got, keep |-> keep]
  /\ UNCHANGED <<world, disk, installed, sweep, torn, quiet, sweeps, crashes>>

NeedsRefresh == stale \/ db = NoDb

Sync == origin = "repo" /\ Begin("sync", "sync", FALSE, {})

Refresh ==
  /\ tx.pc = "sync"
  /\ \/ /\ Idle                                        \* every mirror failed
        /\ UNCHANGED <<db, stale, torn>>
     \/ /\ db' = [ver |-> offered, seal |-> "unchecked", level |-> "Never"]
        /\ stale' = FALSE
        /\ torn' = FALSE
        /\ tx' = [tx EXCEPT !.pc = "seal"]
  /\ UNCHANGED <<world, nosig, files, sigs, parts, tree, installed, sweep, quiet, counts>>

BelievesNote(l) == l = "Never" \/ nosig
Believes(l) == l = "Never" \/ (l # "Required" /\ nosig)

(* What the first few mirrors say of the signature: two that have no such  *)
(* file, or one alone, settle that there is none.                          *)
Optional == {"Fetched", "NotPublished", "Unavailable"}

(* The verdict on the database and what becomes of the note.               *)
Verdict(answer, valid) ==
  IF answer = "Fetched" THEN [seal |-> IF valid THEN "signed" ELSE "refused", nosig |-> FALSE]
  ELSE IF level = "Required" THEN [seal |-> "refused", nosig |-> FALSE]
  ELSE [seal |-> "unsigned", nosig |-> nosig \/ answer = "NotPublished"]

Verdicts ==
  IF Believes(level) THEN {[seal |-> "unsigned", nosig |-> nosig]}
  ELSE {Verdict(answer, valid) : answer \in Optional, valid \in BOOLEAN}

AfterRefresh ==
  IF tx.kind = "install" /\ installed.ver # db.ver THEN [tx EXCEPT !.pc = "fetch"] ELSE NoTx

Accept(v) ==
  /\ v.seal # "refused"
  /\ db' = [db EXCEPT !.seal = v.seal, !.level = level]
  /\ nosig' = v.nosig
  /\ tx' = AfterRefresh

Refuse(v) ==
  /\ v.seal = "refused"
  /\ db' = NoDb
  /\ nosig' = FALSE
  /\ Idle

VerifyDatabase ==
  /\ tx.pc = "seal"
  /\ \E v \in Verdicts : Accept(v) \/ Refuse(v)
  /\ UNCHANGED <<world, stale, files, sigs, parts, tree, installed, sweep, torn, quiet, counts>>

-----------------------------------------------------------------------------
(* Installing from the repository: fetch, verify, extract, clear.          *)
Install(keep) ==
  /\ origin = "repo"
  /\ IF NeedsRefresh
     THEN Begin("install", "sync", keep, {})
     ELSE /\ installed.ver # db.ver
          /\ Begin("install", "fetch", keep, {})

Wanted == [ver |-> db.ver, at |-> "root", good |-> TRUE]

(* A cached archive of the right size is taken as it is, signature or not; *)
(* a damaged one may have the right size too.                              *)
Reuse ==
  /\ tx.pc = "fetch"
  /\ OnDisk(Wanted)
  /\ tx' = [tx EXCEPT !.pc = "check", !.ver = db.ver]
  /\ UNCHANGED <<world, disk, installed, sweep, torn, quiet, counts>>

Download ==
  /\ tx.pc = "fetch"
  /\ Wanted \notin files
  /\ parts' = parts \cup {db.ver}
  /\ tx' = [tx EXCEPT !.pc = "fetching", !.ver = db.ver]
  /\ Disturb
  /\ UNCHANGED <<world, db, stale, nosig, files, sigs, tree, installed, sweep, torn, counts>>

(* A mirror's whole answer, intact or damaged on its way: a short one is   *)
(* noticed by its length.                                                  *)
Sent(v) == {[ver |-> v, at |-> "root", good |-> good] : good \in BOOLEAN}

(* The rename to the final name, with whatever the mirror sent; then the   *)
(* signature, whose download may fail unnoticed. Or every mirror failed,   *)
(* or the .part went away.                                                 *)
Downloaded ==
  /\ tx.pc = "fetching"
  /\ parts' = parts \ {tx.ver}
  /\ \/ /\ tx.ver \in parts
        /\ \E f \in Sent(tx.ver) : files' = Put(f)
        /\ sigs' \in IF PkgLevel = "Never" THEN {sigs} ELSE {sigs, sigs \cup {tx.ver}}
        /\ tx' = [tx EXCEPT !.pc = "check"]
     \/ Idle /\ UNCHANGED <<files, sigs>>
  /\ Disturb
  /\ UNCHANGED <<world, db, stale, nosig, tree, installed, sweep, torn, counts>>

(* Signatures in the cache are genuine: one holds for the archive it was   *)
(* made of and for no other.                                               *)
VerifyDetached(f) == f.good

SignedIfThere(f, l) == l = "Never" \/ f.ver \notin sigs \/ VerifyDetached(f)

(* The signature's part of verify_package; a checksum is only at hand for  *)
(* the version the database lists.                                         *)
Signed(f, l) ==
  \/ l = "Never"
  \/ f.ver \in sigs /\ VerifyDetached(f)
  \/ f.ver \notin sigs /\ l # "Required"

CheckSha256(f) == f.good

VerifyOne ==
  /\ tx.pc = "check"
  /\ \/ \E f \in files :
          /\ SamePath(f, [Wanted EXCEPT !.ver = tx.ver])
          /\ IF CheckSha256(f) /\ Signed(f, PkgLevel)
             THEN tx' = [tx EXCEPT !.pc = "commit", !.got = {f}] /\ UNCHANGED files
             ELSE Idle /\ files' = files \ {f}
     \/ ~OnDisk([Wanted EXCEPT !.ver = tx.ver]) /\ Idle /\ UNCHANGED files
  /\ Disturb
  /\ UNCHANGED <<world, db, stale, nosig, sigs, parts, tree, installed, sweep, torn, counts>>

(* Extraction and the record, or a refusal that leaves the archive behind. *)
Commit ==
  /\ tx.pc = "commit"
  /\ \/ \E f \in tx.got :
          /\ OnDisk(f)
          /\ installed' = [ver |-> f.ver, good |-> f.good, by |-> "install"]
          /\ tx' = [tx EXCEPT !.pc = "finish"]
     \/ Idle /\ UNCHANGED installed
  /\ Disturb
  /\ UNCHANGED <<world, disk, sweep, torn, counts>>

-----------------------------------------------------------------------------
(* Building from the AUR.                                                  *)
Build(keep) == origin = "aur" /\ Begin("aur", "pull", keep, {})

Pull ==
  /\ tx.pc = "pull"
  /\ \/ tx' = [tx EXCEPT !.pc = "build", !.ver = offered]
     \/ Idle
  /\ tree' = TRUE
  /\ Disturb
  /\ UNCHANGED <<world, db, stale, nosig, files, sigs, parts, installed, sweep, torn, counts>>

Make ==
  /\ tx.pc = "build"
  /\ \/ /\ tree
        /\ files' = Put([ver |-> tx.ver, at |-> "tree", good |-> TRUE])
        /\ tx' = [tx EXCEPT !.pc = "collect"]
     \/ Idle /\ UNCHANGED files
  /\ Disturb
  /\ UNCHANGED <<world, db, stale, nosig, sigs, parts, tree, installed, sweep, torn, counts>>

(* Every archive in the tree that bears the package's name, older ones     *)
(* included; they are installed one after the other in the order of their  *)
(* names, which any order of versions may have.                            *)
CollectArtifacts == {f \in files : f.at = "tree"}

InstallBuilt ==
  /\ tx.pc = "collect"
  /\ \/ /\ CollectArtifacts # {}
        /\ \E last \in CollectArtifacts :
             installed' = [ver |-> last.ver, good |-> TRUE, by |-> "build"]
        /\ tx' = [tx EXCEPT !.pc = "finish", !.got = CollectArtifacts]
     \/ Idle /\ UNCHANGED installed              \* refused, or nothing there
  /\ Disturb
  /\ UNCHANGED <<world, disk, sweep, torn, counts>>

(* The end of a transaction: what it fetched or built is cleared, or kept  *)
(* in the cache proper.                                                    *)
Produced == {f \in tx.got : OnDisk(f)}

ClearCache ==
  /\ files' = Without(Produced)
  /\ sigs' = sigs \ {f.ver : f \in tx.got}

RetainBuilt ==
  /\ files' = Moved(Produced)
  /\ UNCHANGED sigs

Finish ==
  /\ tx.pc = "finish"
  /\ IF tx.keep THEN RetainBuilt ELSE ClearCache
  /\ Idle
  /\ Disturb
  /\ UNCHANGED <<world, db, stale, nosig, parts, tree, installed, sweep, torn, counts>>

-----------------------------------------------------------------------------
(* Rollback and uninstall.                                                 *)
Older == {f \in Inventory.archives : f.ver < installed.ver}
Targets == {f \in Older : \A g \in Older : g.ver <= f.ver}

Rollback ==
  /\ installed # NotInstalled
  /\ \E f \in Targets : Begin("rollback", "agree", FALSE, {f})

(* The level that applies is that of the repository whose database lists   *)
(* the name today; no database, no level.                                  *)
Listed == origin = "repo" /\ db # NoDb
CachedLevel == IF Listed THEN PkgLevel ELSE "Never"

InstallFromCache ==
  /\ tx.pc = "agree"
  /\ \/ \E f \in tx.got :
          /\ OnDisk(f)
          /\ Signed(f, CachedLevel)
          /\ installed' = [ver |-> f.ver, good |-> f.good,
                           by |-> IF origin = "repo" /\ ~Listed THEN "unlisted" ELSE "rollback"]
     \/ UNCHANGED installed                   \* declined, refused, gone
  /\ Idle
  /\ Disturb
  /\ UNCHANGED <<world, disk, sweep, torn, counts>>

Uninstall ==
  /\ tx.pc = "idle"
  /\ installed # NotInstalled
  /\ installed' = NotInstalled
  /\ Disturb
  /\ UNCHANGED <<world, disk, tx, sweep, torn, counts>>

-----------------------------------------------------------------------------
(* rvn cache clean: look, decide, ask, apply.                              *)

(* Newest version first; of two copies of one version the one in the build *)
(* tree is the later, since a copy only ever moves out of the tree.        *)
Precedes(f, g) == f.ver > g.ver \/ (f.ver = g.ver /\ f.at = "tree" /\ g.at = "root")
Rank(f) == Cardinality({g \in Inventory.archives : Precedes(g, f)})
IsInstalled(f) == f.ver = installed.ver
KeepNewest(f, n) == Rank(f) < n
Keep(f, n) == Rank(f) < n \/ IsInstalled(f)

(* A .part nobody has written to for an hour; one being written is not.    *)
Abandoned == Inventory.partials \ (IF tx.pc = "fetching" THEN {tx.ver} ELSE {})

RescueOf(kept) == {f \in kept : f.at = "tree"}

PlanSweep(n, builds) ==
  /\ sweep.pc = "idle"
  /\ sweeps < MaxSweeps
  /\ LET kept == {f \in Inventory.archives : Keep(f, n)}
     IN  \E old \in SUBSET Abandoned :
           sweep' = [pc |-> "agree", keep |-> n, kept |-> kept, retired |-> Inventory.archives \ kept, parts |-> old,
                     rescue |-> IF builds THEN RescueOf(kept) ELSE {},
                     trees |-> builds /\ Inventory.builds, stranded |-> FALSE]
  /\ quiet' = (tx.pc = "idle")
  /\ sweeps' = sweeps + 1
  /\ UNCHANGED <<world, disk, installed, tx, torn, commands, crashes>>

SweepGoes(pc) == sweep' = [sweep EXCEPT !.pc = pc]

Confirm ==
  /\ sweep.pc = "agree"
  /\ SweepGoes("rescue") \/ sweep' = NoSweep
  /\ UNCHANGED <<world, disk, installed, tx, torn, quiet, counts>>

(* Each archive that must leave its tree is moved over whatever has its    *)
(* name in the cache; one that cannot be moved strands the tree.           *)
Rescue ==
  /\ sweep.pc = "rescue"
  /\ \E moved \in SUBSET {f \in sweep.rescue : OnDisk(f)} :
       /\ files' = Moved(moved)
       /\ sweep' = [sweep EXCEPT !.pc = "retire", !.stranded = moved # sweep.rescue]
  /\ UNCHANGED <<world, db, stale, nosig, sigs, parts, tree, installed, tx, torn, quiet, counts>>

Retire ==
  /\ sweep.pc = "retire"
  /\ \E removed \in {{}, sweep.retired} :
       /\ files' = Without(removed)
       /\ sigs' = sigs \ {f.ver : f \in {g \in removed : g.at = "root"}}
  /\ SweepGoes("parts")
  /\ UNCHANGED <<world, db, stale, nosig, parts, tree, installed, tx, torn, quiet, counts>>

SweepParts ==
  /\ sweep.pc = "parts"
  /\ parts' = parts \ sweep.parts
  /\ SweepGoes("trees")
  /\ UNCHANGED <<world, db, stale, nosig, files, sigs, tree, installed, tx, torn, quiet, counts>>

Doomed == sweep.trees /\ ~sweep.stranded

SweepTrees ==
  /\ sweep.pc = "trees"
  /\ IF Doomed
     THEN tree' = FALSE /\ files' = {f \in files : f.at = "root"}
     ELSE UNCHANGED <<tree, files>>
  /\ sweep' = NoSweep
  /\ UNCHANGED <<world, db, stale, nosig, sigs, parts, installed, tx, torn, quiet, counts>>

-----------------------------------------------------------------------------
(* A kill, of the transaction or of the clean: the disk stays as it is.    *)
Killed ==
  /\ crashes < MaxCrashes
  /\ crashes' = crashes + 1
  /\ \/ /\ tx.pc # "idle"
        /\ torn' = (torn \/ tx.pc = "seal")
        /\ Idle
        /\ UNCHANGED sweep
     \/ /\ sweep.pc # "idle"
        /\ sweep' = NoSweep
        /\ UNCHANGED <<tx, torn>>
  /\ UNCHANGED <<world, disk, installed, quiet, commands, sweeps>>

Transaction ==
  \/ Sync \/ Refresh \/ VerifyDatabase
  \/ \E keep \in BOOLEAN : Install(keep) \/ Build(keep)
  \/ Reuse \/ Download \/ Downloaded \/ VerifyOne \/ Commit
  \/ Pull \/ Make \/ InstallBuilt \/ Finish
  \/ Rollback \/ InstallFromCache \/ Uninstall

Clean ==
  \/ \E n \in Keeps, builds \in BOOLEAN : PlanSweep(n, builds)
  \/ Confirm \/ Rescue \/ Retire \/ SweepParts \/ SweepTrees

Next == Publish \/ DayPasses \/ Harden \/ Transaction \/ Clean \/ Killed

Spec == Init /\ [][Next]_vars

-----------------------------------------------------------------------------
(* Whatever was fetched, killed, swept and fetched again in between, no    *)
(* damaged archive of the repository is installed: an install has its      *)
(* checksum, and a rollback under Required its signature. The exception is *)
(* a rollback while no database lists the package, which asks for none.    *)
(* (fetch_package, verify_one, install_from_cache.)                        *)
InstalledIsGenuine ==
  installed.by = "install" \/ (installed.by = "rollback" /\ PkgLevel = "Required")
    => installed.good

(* A database a command can read has had its verdict, unless a kill fell   *)
(* between its arrival and the verdict; and one accepted under Required is *)
(* signed, whatever note an earlier, laxer refresh left. (sync::refresh,   *)
(* verify_database.)                                                       *)
DatabaseSealed ==
  /\ db.seal = "unchecked" => tx.pc = "seal" \/ torn
  /\ db.level = "Required" => db.seal = "signed"

Copies(S, v) == {f \in S : f.ver = v}

(* A clean that nothing else disturbs leaves a copy of the installed       *)
(* version if there was one, whatever --keep says; and one that keeps a    *)
(* version at least never takes what an install beside it has just put in. *)
(* What the rule kept is still there when an undisturbed clean has taken   *)
(* the build tree, moved or not, but for a keeper whose place in the cache *)
(* is a retired archive's: that one is rescued and then deleted.           *)
(* (cache::plan, apply; no lock holds clean and install apart.)            *)
SpareStep ==
  /\ (/\ sweep.pc \in {"retire", "trees"} /\ sweep'.pc # sweep.pc
      /\ quiet \/ (sweep.keep > 0 /\ installed.by = "install")
      /\ Copies(files, installed.ver) # {})
       => Copies(files', installed.ver) # {}
  /\ (sweep.pc = "trees" /\ sweep'.pc = "idle" /\ crashes' = crashes /\ quiet)
       => \A f \in sweep.kept :
            \/ Copies(files', f.ver) # {}
            \/ \E g \in sweep.retired : SamePath(g, Promoted(f))
CleanSpares == [][SpareStep]_vars

====
