------------------------------ MODULE InstallTx ------------------------------
(***************************************************************************)
(* One rvn transaction over an install root: `rvn install`, `rvn update`,   *)
(* `rvn rollback` and `rvn uninstall` as ops/install.rs, extract.rs and     *)
(* ops/remove.rs carry them out, one package and one phase at a time.       *)
(*                                                                         *)
(* A release is one version of one package: what an archive is.  Bytes are  *)
(* compared and never looked into, so the contents of a file are a value    *)
(* that also stands for its checksum.  Directories, which packages share,   *)
(* are left out; a path is a file or a link.                                *)
(***************************************************************************)
EXTENDS Naturals

CONSTANTS
  Packages,        \* package names
  Paths,           \* non-directory paths below the install root
  Releases,        \* archives: one version of one package each
  Contents,        \* the bytes a file may hold
  AdminBytes,      \* those an administrator writes
  Absent,          \* nothing at the path, or no checksum on record
  Obstacle,        \* a populated directory that no package owns
  Torn,            \* a write that stopped half-way
  NotInstalled,    \* the record of a package that has none
  Nothing,         \* no package is being installed
  Name, Version,   \* a release's package and how new it is
  Ships, Backup,   \* its paths, and those it declares as configuration
  Bytes,           \* what it ships at each path
  Depends,         \* the names it depends on
  Provides,        \* the names it provides beside its own
  Replaces,        \* the names it declares to replace
  Base,            \* the PKGBUILD it is built from
  FileRank,        \* where its archive's file name sorts
  Aur,             \* the releases built from the AUR
  NeverReplaced,   \* the account files of NEVER_REPLACED
  InitialDisks,    \* what the root may hold before rvn first runs
  MaxMishaps,      \* bound on failed or interrupted transactions
  CanCrash,        \* whether a mishap may also be the process dying
  EditsDuringTx    \* whether the administrator also edits while rvn works

Stored == Contents \cup {Absent, Obstacle, Torn}

ASSUME ReleaseAssumption ==
  /\ Name \in [Releases -> Packages]
  /\ Version \in [Releases -> Nat]
  /\ Ships \in [Releases -> SUBSET Paths]
  /\ Backup \in [Releases -> SUBSET Paths]
  /\ \A r \in Releases : Backup[r] \subseteq Ships[r]
  /\ Bytes \in [Releases -> [Paths -> Contents]]
  /\ Depends \in [Releases -> SUBSET Packages]
  /\ Provides \in [Releases -> SUBSET Packages]
  /\ Replaces \in [Releases -> SUBSET Packages]
  /\ FileRank \in [Releases -> Nat]
  /\ Aur \subseteq Releases
  /\ NeverReplaced \subseteq Paths
ASSUME ContentAssumption ==
  /\ AdminBytes \subseteq Contents
  /\ Absent \notin Contents /\ Obstacle \notin Contents /\ Torn \notin Contents
  /\ Absent # Obstacle /\ Absent # Torn /\ Obstacle # Torn
  /\ InitialDisks \subseteq [Paths -> Stored]
  /\ \A r \in Releases, p \in Paths : Bytes[r][p] \notin AdminBytes
ASSUME MarkerAssumption ==
  /\ NotInstalled \notin Releases
  /\ Nothing \notin Releases
  /\ MaxMishaps \in Nat

VARIABLES
  disk, pacnew, pacsave,   \* each path, and the .pacnew and .pacsave beside it
  rel,                     \* the local database: whose desc a package has
  hash,                    \* its BACKUP lines: the checksum of each file
  list,                    \* the file list beside it
  phase,                   \* where the transaction stands
  plan, replacing,         \* Plan.install, Plan.replacing
  later,                   \* AUR targets not built yet
  fresh, skipped,          \* Batch.installed; Batch.held_back with Batch.failed
  leaving,                 \* packages a removal still has to take off
  batch, takes, held,      \* one install_archives call: archives, donors_of, held
  todo, cur,               \* archives not installed yet, and the one in hand
  protected, kept,         \* its protected paths, and those given a .pacnew
  suspect, owed, lost,     \* read by properties only: see FilesPresent, Retired, Had
  mishaps

files  == <<disk, pacnew, pacsave>>
db     == <<rel, hash, list>>
tx     == <<plan, replacing, later, fresh, skipped, leaving>>
call   == <<batch, takes, held>>
inhand == <<todo, cur, protected, kept>>
ghosts == <<suspect, owed, lost, mishaps>>
vars   == <<files, db, phase, tx, call, inhand, ghosts>>

Phases == {"idle", "pre", "next", "check", "hold", "install", "unpack",
           "prune", "register", "desc", "list", "retire", "unregister"}

Installed == {a \in Packages : rel[a] # NotInstalled}
Files(a)  == IF rel[a] = NotInstalled THEN {} ELSE list[a]
Config(a) == IF rel[a] = NotInstalled THEN {} ELSE Backup[rel[a]]
Owners(p) == {a \in Packages : p \in Files(a)}
Names(S)  == {Name[r] : r \in S}

Satisfies(r, n) == n = Name[r] \/ n \in Provides[r]
Needs(r, s)     == \E n \in Depends[r] : Satisfies(s, n)
Satisfiers(n)   == {a \in Installed : Satisfies(rel[a], n)}

\* The iteration order of a HashMap decides which of several packages a lookup
\* finds: any choice among the sets in SS may be the one this process draws.
Draws(SS) == {f \in [SS -> Packages] : \A S \in SS : f[S] \in S}

\* Dependencies first; inside a cycle the order means nothing.
FirstOf(S) == LET free == {r \in S : \A s \in S \ {r} : ~Needs(r, s)}
              IN  IF free = {} THEN S ELSE free

\* The next archive of a batch.  Those from a repository come in the order of
\* the resolver, those of one build as collect_artifacts sorts their files.
NextOf(S) == IF S \subseteq Aur THEN {r \in S : \A s \in S : FileRank[r] <= FileRank[s]}
             ELSE FirstOf(S)

\* Not installed at this moment, but about to be: the package whose record is
\* being replaced, and what is still to go in of one build.
Awaited == (IF phase = "desc" THEN {cur} ELSE {}) \cup (todo \cap Aur)

\* Of these, what an installed package goes without if rvn stops here.
CutOff ==
  {s \in Awaited : \E a \in Installed : \E n \in Depends[rel[a]] :
     Satisfiers(n) = {} /\ Satisfies(s, n)}

EndTx ==
  /\ phase' = "idle"
  /\ plan' = {} /\ replacing' = {} /\ later' = {}
  /\ fresh' = {} /\ skipped' = {} /\ leaving' = {}
  /\ batch' = {} /\ takes' = {} /\ held' = {}
  /\ todo' = {} /\ cur' = Nothing /\ protected' = {} /\ kept' = {}

Init ==
  /\ disk \in InitialDisks
  /\ pacnew = [p \in Paths |-> Absent]
  /\ pacsave = [p \in Paths |-> Absent]
  /\ rel = [a \in Packages |-> NotInstalled]
  /\ hash = [a \in Packages |-> [p \in Paths |-> Absent]]
  /\ list = [a \in Packages |-> {}]
  /\ phase = "idle"
  /\ plan = {} /\ replacing = {} /\ later = {}
  /\ fresh = {} /\ skipped = {} /\ leaving = {}
  /\ batch = {} /\ takes = {} /\ held = {}
  /\ todo = {} /\ cur = Nothing /\ protected = {} /\ kept = {}
  /\ suspect = {} /\ owed = {} /\ lost = {} /\ mishaps = 0

-----------------------------------------------------------------------------
(* Starting a transaction.                                                   *)

\* What each incoming package retires: one satisfier per name it replaces,
\* unless that one is itself coming in.
Named(S) == {Satisfiers(n) : n \in UNION {Replaces[r] : r \in S}} \ {{}}

Replaced(S, draw) ==
  {e \in Names(S) \X (Packages \ Names(S)) :
     \E r \in S : \E n \in Replaces[r] :
       /\ e[1] = Name[r]
       /\ Satisfiers(n) # {}
       /\ e[2] = draw[Satisfiers(n)]}

Resolvable(S) ==
  /\ S # {}
  /\ \A r, s \in S : Name[r] = Name[s] => r = s
  /\ \A r \in S : Name[r] \in Installed =>
       \/ Version[r] > Version[rel[Name[r]]]
       \/ r \in Aur /\ r = rel[Name[r]]        \* a forced rebuild
  /\ \A r \in S : \A n \in Depends[r] :
       Satisfiers(n) # {} \/ \E s \in S : Satisfies(s, n)

Resolve(S) ==
  /\ phase = "idle"
  /\ Resolvable(S)
  /\ \E draw \in Draws(Named(S)) : replacing' = Replaced(S, draw)
  /\ plan' = S
  /\ later' = S \cap Aur
  /\ phase' = "pre"
  /\ UNCHANGED <<files, db, fresh, skipped, leaving, call, inhand, ghosts>>

\* install_from_cache: one archive, no resolver, nothing replaced.
Rollback(r) ==
  /\ phase = "idle"
  /\ Name[r] \in Installed
  /\ Version[r] < Version[rel[Name[r]]]
  /\ plan' = {r}
  /\ phase' = "pre"
  /\ UNCHANGED <<files, db, replacing, later, fresh, skipped, leaving, call,
                 inhand, ghosts>>

\* A declined prompt, a pre-transaction hook that aborts, a failed download, a
\* bad signature: all before the first archive is opened.
StopBeforeWriting ==
  /\ phase = "pre"
  /\ EndTx
  /\ UNCHANGED <<files, db, ghosts>>

\* Repository archives go in as one batch, before any AUR build.
StartRepoBatch ==
  /\ phase = "pre"
  /\ batch' = plan \ later
  /\ phase' = IF plan = later THEN "next" ELSE "check"
  /\ UNCHANGED <<files, db, tx, takes, held, inhand, ghosts>>

-----------------------------------------------------------------------------
(* One install_archives call: conflicts, what is held back, and the rest.    *)

Exempt(r) == {Name[r]} \cup {old \in Packages : <<Name[r], old>> \in replacing}
Blamed(r, p, draw) == draw[Owners(p) \ Exempt(r)]
Contested(r) == {p \in Ships[r] : Owners(p) \ Exempt(r) # {}}
Rivals == UNION {{Owners(p) \ Exempt(r) : p \in Contested(r)} : r \in batch}

\* An installed package whose new version, in this very batch, lets p go.
Donates(a, p) == a \in Installed /\ \E s \in batch : Name[s] = a /\ p \notin Ships[s]

\* Mutant: the claims of the other archives in the batch are not looked at.
ConflictedWithDiskOnly(draw) ==
  {r \in batch :
     \/ \E p \in Contested(r) : ~Donates(Blamed(r, p, draw), p)
     \/ \E p \in Ships[r] : disk[p] = Obstacle}

Conflicted(draw) ==
  {r \in batch :
     \/ \E p \in Contested(r) : ~Donates(Blamed(r, p, draw), p)
     \/ \E p \in Ships[r] : disk[p] = Obstacle
     \/ \E s \in batch \ {r} : Ships[r] \cap Ships[s] # {}}

Handovers(draw) ==
  {t \in batch \X Packages :
     \E p \in Contested(t[1]) : t[2] = Blamed(t[1], p, draw) /\ Donates(t[2], p)}

CheckConflicts ==
  /\ phase = "check"
  /\ \E draw \in Draws(Rivals) : held' = Conflicted(draw) /\ takes' = Handovers(draw)
  /\ phase' = "hold"
  /\ UNCHANGED <<files, db, tx, batch, inhand, ghosts>>

GoesAlong(r) ==
  \/ \E h \in held : <<r, Name[h]>> \in takes
  \/ \E h \in held : Needs(r, h)

HoldAlong(r) ==
  /\ phase = "hold"
  /\ r \in batch \ held
  /\ GoesAlong(r)
  /\ held' = held \cup {r}
  /\ UNCHANGED <<files, db, phase, tx, batch, takes, inhand, ghosts>>

SettleHeld ==
  /\ phase = "hold"
  /\ \A r \in batch \ held : ~GoesAlong(r)
  /\ todo' = batch \ held
  /\ skipped' = skipped \cup held
  /\ phase' = IF batch = held THEN "next" ELSE "install"
  /\ UNCHANGED <<files, db, plan, replacing, later, fresh, leaving, call, cur,
                 protected, kept, ghosts>>

-----------------------------------------------------------------------------
(* One package of the batch.                                                 *)

IsFile(p) == disk[p] \notin {Absent, Obstacle}

\* Mutant: the checksum is not compared.
DeclaredBefore(a, p) == p \in Config(a)
Pristine(a, p) == p \in Config(a) /\ hash[a][p] = disk[p]

\* Mutant: account files are judged like any other configuration.
SparedIfEdited(r) == {p \in Backup[r] : IsFile(p) /\ ~Pristine(Name[r], p)}

\* The disk copy is spared: an account file always, any other configuration
\* file unless it still is what the previous version installed.
Spared(r) ==
  {p \in Backup[r] : IsFile(p) /\ (p \in NeverReplaced \/ ~Pristine(Name[r], p))}

Prepare(r) ==
  /\ phase = "install"
  /\ r \in NextOf(todo)
  /\ cur' = r
  /\ protected' = Spared(r)
  /\ phase' = "unpack"
  /\ UNCHANGED <<files, db, tx, call, todo, kept, ghosts>>

Unpack ==
  /\ phase = "unpack"
  /\ kept' = {p \in protected : disk[p] # Bytes[cur][p]}
  /\ disk' = [p \in Paths |->
               IF p \in Ships[cur] \ protected THEN Bytes[cur][p] ELSE disk[p]]
  /\ pacnew' = [p \in Paths |->
                 CASE p \in kept' -> Bytes[cur][p]
                   [] p \in protected \ kept' -> Absent
                   [] OTHER -> pacnew[p]]
  /\ phase' = "prune"
  /\ UNCHANGED <<pacsave, db, tx, call, todo, cur, protected, ghosts>>

\* Extraction stops at entry f with the entries S done.  On an error roll_back
\* takes off what did not exist before; when the process dies nothing does.
UnpackStops(S, f, left, undone) ==
  LET After(x) == CASE left = "untouched" -> x
                    [] left = "gone" -> Absent
                    [] left = "torn" -> Torn
      foreign == {p \in Paths : Owners(p) \ {Name[cur]} # {}}
  IN
  /\ phase = "unpack"
  /\ mishaps < MaxMishaps
  /\ undone \/ CanCrash
  /\ disk' = [p \in Paths |->
       IF p \in S \ protected
       THEN IF undone /\ disk[p] = Absent /\ p \notin foreign THEN Absent ELSE Bytes[cur][p]
       ELSE IF p = f /\ p \notin protected THEN After(disk[p]) ELSE disk[p]]
  /\ pacnew' = [p \in Paths |->
       IF p \in S \cap protected
       THEN IF undone \/ disk[p] = Bytes[cur][p] THEN Absent ELSE Bytes[cur][p]
       ELSE IF p = f /\ p \in protected THEN After(pacnew[p]) ELSE pacnew[p]]
  /\ suspect' = IF left = "untouched" THEN suspect ELSE suspect \cup Owners(f)
  /\ lost' = lost \cup CutOff
  /\ mishaps' = mishaps + 1
  /\ EndTx
  /\ UNCHANGED <<pacsave, db, owed>>

UnpackFails ==
  /\ cur \in Releases
  /\ \E f \in Ships[cur] : \E S \in SUBSET (Ships[cur] \ {f}) :
       \E left \in {"untouched", "gone", "torn"}, undone \in BOOLEAN :
         UnpackStops(S, f, left, undone)

\* retire_file over the paths in P, judged by the record of package a.
Edited(a, p) == pacnew[p] # Absent \/ hash[a][p] # disk[p]

RetirePaths(a, P) ==
  /\ disk' = [p \in Paths |-> IF p \in P THEN Absent ELSE disk[p]]
  /\ pacsave' = [p \in Paths |->
       IF p \in P \cap Config(a) /\ disk[p] # Absent /\ Edited(a, p)
       THEN disk[p] ELSE pacsave[p]]

\* Mutant: whether another package owns the path is not asked.
StaleForOne(a) == Files(a) \ Ships[cur]

\* prune_stale: what the previous version owned, the new one does not ship, and
\* no other package owns.  The record is still the previous version's.
Stale(a) == {p \in Files(a) \ Ships[cur] : Owners(p) = {a}}

Prune ==
  LET a == Name[cur]
  IN
  /\ phase = "prune"
  /\ RetirePaths(a, Stale(a))
  /\ phase' = "register"
  /\ suspect' = IF Stale(a) = {} THEN suspect ELSE suspect \cup {a}
  /\ UNCHANGED <<pacnew, db, tx, call, inhand, owed, lost, mishaps>>

\* Mutant: the disk copy is read even where it was spared.
ReadBackFromDisk == [p \in Paths |-> IF p \in Backup[cur] THEN disk[p] ELSE Absent]

\* The checksum on record is read back from disk, or from the .pacnew where the
\* disk copy was spared.
ReadBack == [p \in Paths |->
               CASE p \in kept -> pacnew[p]
                 [] p \in Backup[cur] \ kept -> disk[p]
                 [] OTHER -> Absent]

Forget(a) ==
  /\ rel' = [rel EXCEPT ![a] = NotInstalled]
  /\ hash' = [hash EXCEPT ![a] = [p \in Paths |-> Absent]]
  /\ list' = [list EXCEPT ![a] = {}]

\* LocalDb::register, from here to WriteList.  First the record of the previous
\* version goes, with its directory; that of the same version goes when the
\* write of the new desc truncates it.
Register ==
  /\ phase = "register"
  /\ Forget(Name[cur])
  /\ phase' = "desc"
  /\ UNCHANGED <<files, tx, call, inhand, ghosts>>

\* The checksums were read just before register was called: an edit that comes
\* in between is the same as one that comes before or after.
WriteDesc ==
  LET a == Name[cur]
  IN
  /\ phase = "desc"
  /\ rel' = [rel EXCEPT ![a] = cur]
  /\ hash' = [hash EXCEPT ![a] = ReadBack]
  /\ lost' = {r \in lost : Name[r] # a}
  /\ phase' = "list"
  /\ UNCHANGED <<files, list, tx, call, inhand, suspect, owed, mishaps>>

WriteList ==
  LET a == Name[cur]
  IN
  /\ phase = "list"
  /\ list' = [list EXCEPT ![a] = Ships[cur]]
  /\ fresh' = fresh \cup {a}
  /\ todo' = todo \ {cur}
  /\ cur' = Nothing /\ protected' = {} /\ kept' = {}
  /\ phase' = IF todo = {cur} THEN "next" ELSE "install"
  /\ suspect' = suspect \ {a}
  /\ owed' = owed \cup {e \in replacing : e[1] = a /\ e[2] \in Installed}
  /\ UNCHANGED <<files, rel, hash, plan, replacing, later, skipped, leaving, call,
                 lost, mishaps>>

\* What else an error or a crash may leave of a record.  Its directory is
\* removed file by file, and the list may go before the desc.  A list may be
\* written in part, or whole and what follows it (mtree, install) not.  A torn
\* desc is one the loader steps over, as over none: Interrupted before WriteDesc.
RecordStops(part) ==
  LET a == Name[cur]
  IN
  /\ mishaps < MaxMishaps
  /\ \/ /\ phase = "unregister" \/ (phase = "register" /\ rel[a] # cur)
        /\ part = {}
     \/ phase = "list" /\ part \subseteq Ships[cur]
  /\ list' = [list EXCEPT ![a] = part]
  /\ suspect' = IF phase = "list" THEN suspect \ {a} ELSE suspect
  /\ lost' = lost \cup CutOff
  /\ mishaps' = mishaps + 1
  /\ EndTx
  /\ UNCHANGED <<files, rel, hash, owed>>

-----------------------------------------------------------------------------
(* AUR targets, one at a time, in dependency order.                          *)

\* Mutant: only failed and skipped builds count, not what was held back.
StrandedByBuild(r) == \E h \in skipped \cap Aur : Needs(r, h)
Stranded(r) == \E h \in skipped : Needs(r, h)

SkipAur(r) ==
  /\ phase = "next"
  /\ r \in FirstOf(later)
  /\ Stranded(r)
  /\ later' = later \ {r}
  /\ skipped' = skipped \cup {r}
  /\ UNCHANGED <<files, db, phase, plan, replacing, fresh, leaving, call,
                 inhand, ghosts>>

\* makepkg fails, or produces nothing the plan asked for.
BuildFails(r) ==
  /\ phase = "next"
  /\ r \in FirstOf(later)
  /\ ~Stranded(r)
  /\ later' = later \ {r}
  /\ skipped' = skipped \cup {r}
  /\ UNCHANGED <<files, db, phase, plan, replacing, fresh, leaving, call,
                 inhand, ghosts>>

\* A split PKGBUILD yields an archive per name; those in the plan all go in.
Built(r) == {s \in plan \cap Aur : Base[s] = Base[r]}

Builds(r) ==
  /\ phase = "next"
  /\ r \in FirstOf(later)
  /\ ~Stranded(r)
  /\ later' = later \ {r}
  /\ batch' = Built(r)
  /\ held' = {} /\ takes' = {}
  /\ phase' = "check"
  /\ UNCHANGED <<files, db, plan, replacing, fresh, skipped, leaving, inhand,
                 ghosts>>

-----------------------------------------------------------------------------
(* Retiring packages: what was replaced, or what an uninstall names.         *)

\* Mutant: the pair is read the wrong way round.
SupersededSwapped == {a \in Installed : \E old \in fresh : <<a, old>> \in replacing}
Superseded == {old \in Installed : \E a \in fresh : <<a, old>> \in replacing}

Finish ==
  /\ phase = "next"
  /\ later = {}
  /\ Superseded = {}
  /\ EndTx
  /\ UNCHANGED <<files, db, ghosts>>

FinishRetiring ==
  /\ phase = "next"
  /\ later = {}
  /\ Superseded # {}
  /\ leaving' = Superseded
  /\ phase' = "retire"
  /\ UNCHANGED <<files, db, plan, replacing, later, fresh, skipped, call,
                 inhand, ghosts>>

\* Refused when something that stays would lose a dependency it has.
Uninstall(S) ==
  /\ phase = "idle"
  /\ S # {} /\ S \subseteq Installed
  /\ \A a \in Installed \ S : \A n \in Depends[rel[a]] :
       Satisfiers(n) # {} => Satisfiers(n) \ S # {}
  /\ leaving' = S
  /\ phase' = "retire"
  /\ UNCHANGED <<files, db, plan, replacing, later, fresh, skipped, call,
                 inhand, ghosts>>

DependentsFirst(S) ==
  LET free == {a \in S : \A b \in S \ {a} : ~Needs(rel[b], rel[a])}
  IN  IF free = {} THEN S ELSE free

RetireFiles(a) ==
  LET deletable == {p \in Files(a) : Owners(p) \subseteq leaving}
  IN
  /\ phase = "retire"
  /\ a \in DependentsFirst(leaving)
  /\ RetirePaths(a, deletable)
  /\ cur' = rel[a]
  /\ phase' = "unregister"
  /\ suspect' = suspect \cup {b \in leaving : Files(b) \cap deletable # {}}
  /\ UNCHANGED <<pacnew, db, tx, call, todo, protected, kept, owed, lost, mishaps>>

Unregister ==
  LET a == Name[cur]
  IN
  /\ phase = "unregister"
  /\ Forget(a)
  /\ suspect' = suspect \ {a}
  /\ owed' = {e \in owed : a \notin {e[1], e[2]}}
  /\ IF leaving = {a}
     THEN EndTx
     ELSE /\ leaving' = leaving \ {a}
          /\ cur' = Nothing
          /\ phase' = "retire"
          /\ UNCHANGED <<plan, replacing, later, fresh, skipped, call, todo,
                         protected, kept>>
  /\ UNCHANGED <<files, lost, mishaps>>

-----------------------------------------------------------------------------
(* What can go wrong, and what the administrator does.                       *)

\* An archive or a record that cannot be read or written: the ? operator ends
\* the transaction where it stands.  Or the process dies, at any point.
Interrupted ==
  /\ phase \in {"check", "register", "desc", "list", "retire", "unregister"} \/ CanCrash
  /\ phase # "idle"
  /\ mishaps < MaxMishaps
  /\ lost' = lost \cup CutOff
  /\ mishaps' = mishaps + 1
  /\ EndTx
  /\ UNCHANGED <<files, db, suspect, owed>>

AdminEdits(p, b) ==
  /\ phase = "idle" \/ EditsDuringTx
  /\ IsFile(p)
  /\ b # disk[p]
  /\ disk' = [disk EXCEPT ![p] = b]
  /\ UNCHANGED <<pacnew, pacsave, db, phase, tx, call, inhand, ghosts>>

Next ==
  \/ \E S \in SUBSET Releases : Resolve(S)
  \/ \E r \in Releases : Rollback(r)
  \/ StopBeforeWriting
  \/ StartRepoBatch
  \/ CheckConflicts
  \/ \E r \in batch : HoldAlong(r)
  \/ SettleHeld
  \/ \E r \in todo : Prepare(r)
  \/ Unpack
  \/ UnpackFails
  \/ Prune
  \/ Register
  \/ WriteDesc
  \/ WriteList
  \/ \E part \in SUBSET Paths : RecordStops(part)
  \/ \E r \in later : SkipAur(r) \/ BuildFails(r) \/ Builds(r)
  \/ Finish
  \/ FinishRetiring
  \/ \E S \in SUBSET Packages : Uninstall(S)
  \/ \E a \in leaving : RetireFiles(a)
  \/ Unregister
  \/ Interrupted
  \/ \E p \in Paths, b \in AdminBytes : AdminEdits(p, b)

Spec == Init /\ [][Next]_vars

-----------------------------------------------------------------------------
(* Properties.                                                               *)

\* Every variable stays within the values its counterpart in the code can take.
TypeOK ==
  /\ disk \in [Paths -> Stored]
  /\ pacnew \in [Paths -> Stored]
  /\ pacsave \in [Paths -> Stored]
  /\ rel \in [Packages -> Releases \cup {NotInstalled}]
  /\ \A a \in Packages : rel[a] # NotInstalled => Name[rel[a]] = a
  /\ hash \in [Packages -> [Paths -> Stored]]
  /\ list \in [Packages -> SUBSET Paths]
  /\ phase \in Phases
  /\ plan \subseteq Releases /\ later \subseteq plan
  /\ replacing \subseteq Packages \X Packages
  /\ fresh \subseteq Packages /\ leaving \subseteq Packages
  /\ skipped \subseteq Releases
  /\ batch \subseteq plan /\ held \subseteq batch /\ todo \subseteq batch
  /\ takes \subseteq batch \X Packages
  /\ cur \in Releases \cup {Nothing}
  /\ protected \subseteq Paths /\ kept \subseteq Paths
  /\ suspect \subseteq Packages
  /\ owed \subseteq Packages \X Packages
  /\ lost \subseteq Releases
  /\ mishaps \in 0..MaxMishaps

\* No path ever has two owners once a transaction is over, whatever packages
\* handed files to each other in it, as long as none has failed: the claims of
\* install_archives, its hand-overs and the retirement of replaced packages
\* together leave exactly one record for each file.
OneOwner ==
  phase = "idle" /\ mishaps = 0 =>
    \A a, b \in Packages : a # b => Files(a) \cap Files(b) = {}

\* Every file a package lists is on disk at every moment, whatever its
\* neighbours go through, unless the package itself has been cut short between
\* its files and its record (suspect, until it is registered or gone):
\* prune_stale and deletable_files never take a file a record still needs, and
\* a file that changes hands is never missing for the one who lists it.
FilesPresent ==
  \A a \in Installed \ suspect : \A p \in Files(a) : IsFile(p)

\* Something installed satisfies n; or something did, or was about to, when an
\* error or a crash cut it off, and it has not been installed since.
Had(n) == Satisfiers(n) # {} \/ \E r \in lost : Satisfies(r, n)

\* No package is installed over a missing dependency, and none loses one, at any
\* moment and whatever was held back or failed to build: holding back closes
\* over dependents, and the install and removal orders respect them.  There are
\* two gaps in that.  A package has no record while register replaces it, and
\* the packages of one build go in by file name, so that one may precede
\* another it needs: what is Awaited is on its way.  And where rvn stops in such
\* a gap, what was on its way stays away until it is installed again (lost).
DependenciesMet ==
  \A a \in Installed : \A n \in Depends[rel[a]] :
    Had(n) \/ \E s \in Awaited : Satisfies(s, n)

\* What that takes of the packages, where rvn does not look: no cycle of
\* dependencies; another release of a package, or what replaces it, satisfies
\* whom it satisfied; an older release needs no more than a newer one; no
\* repository package needs one from the AUR; and what one package of a split
\* PKGBUILD needs its sisters need, too, unless it is one of them.
Needed == UNION {Depends[r] : r \in Releases}
Covers(r, s) == \A n \in Needed : Satisfies(s, n) => Satisfies(r, n)
Orderly ==
  /\ \A S \in SUBSET Releases : S # {} =>
       /\ \E r \in S : \A s \in S \ {r} : ~Needs(r, s)
       /\ \E r \in S : \A s \in S \ {r} : ~Needs(s, r)
  /\ \A r, s \in Releases : Name[r] = Name[s] => Covers(r, s)
  /\ \A r, s \in Releases : (\E n \in Replaces[r] : Satisfies(s, n)) => Covers(r, s)
  /\ \A r, s \in Releases :
       Name[r] = Name[s] /\ Version[r] < Version[s] => Depends[r] \subseteq Depends[s]
  /\ \A r \in Releases \ Aur, s \in Aur : ~Needs(r, s)
  /\ \A r, s \in Aur : Base[r] = Base[s] =>
       \A n \in Depends[s] \ Depends[r], y \in Releases :
         Satisfies(y, n) => y \in Aur /\ Base[y] = Base[s]

\* The checksum on record is that of the bytes the package shipped, so that
\* "edited" can be told from "untouched" later.
ShippedOnRecord ==
  \A a \in Installed : \A p \in Config(a) : hash[a][p] = Bytes[rel[a]][p]

\* A superseded package is retired once its successor is installed.
Retired == phase = "idle" => owed = {}

\* The same, when no transaction failed.
RetiredUnlessFailed == mishaps = 0 => Retired

\* No step of rvn's loses an edited configuration file: bytes an administrator
\* wrote leave a path only into its .pacsave, unless the release at work there
\* does not declare the path as configuration.
EditStep ==
  \A p \in Paths :
    disk[p] \in AdminBytes /\ disk'[p] # disk[p] /\ disk'[p] \notin AdminBytes =>
      \/ pacsave'[p] = disk[p]
      \/ phase = "unpack" /\ p \notin Backup[cur]
      \/ phase = "prune" /\ p \notin Config(Name[cur])
      \/ phase = "retire" /\ \A a \in leaving : cur' = rel[a] => p \notin Config(a)
EditsKept == [][EditStep]_vars

\* The disk copy of an account file wins over any package's payload.
AccountStep ==
  phase = "unpack" => \A p \in NeverReplaced : IsFile(p) => disk'[p] = disk[p]
AccountsKept == [][AccountStep]_vars
=============================================================================
