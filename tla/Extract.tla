---- MODULE Extract ----
(***************************************************************************)
(* Extract: one package archive unpacked into the install root - the       *)
(* pre-flight that may still refuse it for free (find_conflicts), the      *)
(* extraction that works through the tar entries one after the other and   *)
(* defers the hard links (extract_entries), and the rollback that takes    *)
(* back what a failed extraction created (roll_back). A path is a sequence *)
(* of names; a symlink on the way is followed, as the kernel does.         *)
(* Other processes use the same root meanwhile, and any write may fail.    *)
(***************************************************************************)
EXTENDS Naturals, Sequences, FiniteSets, SequencesExt

CONSTANTS
  Scenarios,    \* archives, with the root each one meets
  Waiting,      \* a name with `.pacnew` appended
  MaxFaults,    \* bound: writes that fail
  MaxStrangers  \* bound: paths another process creates

Names == DOMAIN Waiting \cup {Waiting[n] : n \in DOMAIN Waiting}
Places == Seq(Names)

(* A directory tree: what a path goes through is a directory.              *)
IsTree(d) ==
  /\ DOMAIN d \subseteq Places /\ <<>> \in DOMAIN d /\ d[<<>>].kind = "dir"
  /\ \A p \in DOMAIN d :
       /\ d[p].kind \in {"dir", "file", "link"}
       /\ \A n \in 0..Len(p) - 1 : SubSeq(p, 1, n) \in DOMAIN d /\ d[SubSeq(p, 1, n)].kind = "dir"

ASSUME ExtractAssumption ==
  /\ {MaxFaults, MaxStrangers} \subseteq Nat
  /\ \A m, n \in DOMAIN Waiting : Waiting[m] = Waiting[n] => m = n
  /\ \A j \in Scenarios :
       /\ j.archive \in Seq(ToSet(j.archive)) /\ IsTree(j.disk)
       /\ \A e \in ToSet(j.archive) :
            /\ e.path \in Seq(DOMAIN Waiting) /\ e.to \in Places
            /\ e.kind \in {"dir", "file", "link", "hard"}
       /\ j.backup \subseteq Seq(DOMAIN Waiting) \ {<<>>} /\ j.near \subseteq Places

VARIABLES
  job,         \* the archive, the root it met, and what the caller knows
  disk,        \* the install root: what is at each path that is taken
  pc,
  next,        \* the archive entry being looked at
  made,        \* its parent directories are in place
  links,       \* the entries put off to the second pass: hard links
  created,     \* what this run brought into being, for the rollback
  installed, pacnew,   \* what unpack returns
  strays,      \* history: paths another process created meanwhile
  torn,        \* history: paths a failing write left behind or took away
  faults

work == <<next, made, links, created, installed, pacnew>>
unpackVars == <<job, disk, pc, work, strays, torn, faults>>

(***************************************************************************)
(* The file system.                                                        *)
(***************************************************************************)
Absent == [kind |-> "none", data |-> "", to |-> <<>>]
Dir == [kind |-> "dir", data |-> "", to |-> <<>>]
Torn == [kind |-> "file", data |-> "torn", to |-> <<>>]

Node(p) == IF p \in DOMAIN disk THEN disk[p] ELSE Absent
Follow(p) == IF Node(p).kind = "link" THEN Node(p).to ELSE p
Real(p) ==
  LET at[n \in 0..Len(p)] == IF n = 0 THEN <<>> ELSE Append(Follow(at[n - 1]), p[n])
  IN  at[Len(p)]
Lstat(p) == Node(Real(p))
Stat(p) == Node(Follow(Real(p)))
Exists(p) == Stat(p) # Absent
Taken(p) == Lstat(p) # Absent
Inside(p, d) == {q \in d : IsStrictPrefix(Real(p), q)}
Empty(p) == Lstat(p).kind = "dir" /\ Inside(p, DOMAIN disk) = {}
Steps(p) == {SubSeq(p, 1, n) : n \in 1..Len(p)}
Ancestors(p) == Steps(Front(p))

Without(d, p) == [q \in DOMAIN d \ {p} |-> d[q]]
With(d, p, node) == [q \in DOMAIN d \cup {p} |-> IF q = p THEN node ELSE d[q]]
WithDirs(d, ps) == [q \in DOMAIN d \cup ps |-> IF q \in ps THEN Dir ELSE d[q]]

PacnewPath(p) == Append(Front(p), Waiting[p[Len(p)]])
SameBytes(a, b) == a.kind = "file" /\ b.kind = "file" /\ a.data = b.data
SameFile(p, q) == Exists(p) /\ Exists(q) /\ Follow(Real(p)) = Follow(Real(q))

(***************************************************************************)
(* The archive. `owners` are the paths of other packages, `mine` those of  *)
(* the package being upgraded or replaced; a directory is recorded with a  *)
(* trailing slash, which `dirs` stands for.                                *)
(***************************************************************************)
Entry == job.archive[next]
Entries == ToSet(job.archive)
Readable == \A e \in Entries : e.path # <<>>     \* safe_relative

OwnedByOthers(p) == p \in job.owners.files
OwnedDir(p) == p \in job.owners.dirs
OwnedByUpgrading(p) == p \in job.mine

(* Mutant: only the destination itself is looked at.                       *)
NeverBlocked(p) == FALSE

BlockedAncestor(p) ==
  \E q \in Ancestors(p) : Taken(q) /\ Stat(q).kind # "dir"

DirConflict(e) ==
  /\ e.kind = "dir"
  /\ \/ Taken(e.path) /\ Stat(e.path).kind # "dir"
     \/ BlockedAncestor(e.path)

FileConflict(e) ==
  /\ e.kind # "dir"
  /\ \/ OwnedByOthers(e.path)
     \/ ~Taken(e.path) /\ BlockedAncestor(e.path)
     \/ /\ Lstat(e.path).kind = "dir" /\ ~OwnedByUpgrading(e.path)
        /\ ~Empty(e.path) \/ OwnedDir(e.path)

FindConflicts == {e \in Entries : DirConflict(e) \/ FileConflict(e)}

(* The entry is refused before anything is written.                        *)
Preflight ==
  /\ pc = "check"
  /\ pc' = IF Readable /\ FindConflicts = {} THEN "entries" ELSE "refused"
  /\ UNCHANGED <<job, disk, work, strays, torn, faults>>

(***************************************************************************)
(* unpack.                                                                 *)
(***************************************************************************)
Record(p, isDir, displaced) == [path |-> p, isDir |-> isDir, displaced |-> displaced]

(* Files first, then directories from the deepest upward.                  *)
UndoBefore(a, b) ==
  \/ ~a.isDir /\ b.isDir
  \/ a.isDir = b.isDir /\ Len(a.path) > Len(b.path)

Fails == pc' = "undo" /\ UNCHANGED <<job, work>>

Missing(p) == {q \in Steps(p) : ~Exists(q)}
CanMake(p) == \A q \in Steps(p) : Taken(q) => Stat(q).kind = "dir"

CreateDirs(p) ==
  /\ disk' = WithDirs(disk, {Real(q) : q \in Missing(p)})
  /\ created' = created \cup {Record(q, TRUE, FALSE) : q \in Missing(p)}

(* The next entry; one that is on disk, or spared, counts as installed.    *)
Skip == next' = next + 1 /\ made' = FALSE
Done(p) == Skip /\ installed' = installed \cup {p} /\ UNCHANGED <<job, pc, links>>
Quiet == UNCHANGED <<strays, torn, faults>>

Parents ==
  /\ pc = "entries" /\ next <= Len(job.archive) /\ ~made
  /\ IF CanMake(Front(Entry.path))
     THEN /\ CreateDirs(Front(Entry.path)) /\ made' = TRUE
          /\ UNCHANGED <<job, pc, next, links, installed, pacnew>>
     ELSE Fails /\ UNCHANGED disk
  /\ Quiet

UnpackDir ==
  /\ Entry.kind = "dir"
  /\ IF CanMake(Entry.path)
     THEN CreateDirs(Entry.path) /\ Done(Entry.path) /\ UNCHANGED pacnew
     ELSE Fails /\ UNCHANGED disk

(* Configuration on disk wins: the package's copy lands beside it, unless  *)
(* the two read the same.                                                  *)
Spared(p) == p \in job.backup /\ Taken(p)
Landing(p) == IF Spared(p) THEN PacnewPath(p) ELSE p
Content(node) == IF node.kind = "link" THEN Node(node.to) ELSE node

WriteBeside(p, node) ==
  LET q == PacnewPath(p) IN
  IF SameBytes(Stat(p), Content(node))
  THEN disk' = Without(disk, Real(q)) /\ UNCHANGED <<created, pacnew>>
  ELSE /\ disk' = With(disk, Real(q), node)
       /\ created' = created \cup {Record(q, FALSE, FALSE)}
       /\ pacnew' = pacnew \cup {p}

(* Mutant: whatever was written is remembered.                             *)
RemembersAll(p, node) ==
  /\ disk' = With(disk, Real(p), node)
  /\ created' = created \cup {Record(p, FALSE, Lstat(p).kind = "dir")}
  /\ UNCHANGED pacnew

(* What was there is removed first; only a path that was free, or held an  *)
(* empty directory, is remembered for the rollback.                        *)
Write(p, node) ==
  LET displaced == Lstat(p).kind = "dir" IN
  /\ disk' = With(disk, Real(p), node)
  /\ created' = IF ~Taken(p) \/ displaced
                THEN created \cup {Record(p, FALSE, displaced)} ELSE created
  /\ UNCHANGED pacnew

(* Mutant: the branch that takes the live path.                            *)
PlaceOver(p, node) == Write(p, node)

Place(p, node) == IF Spared(p) THEN WriteBeside(p, node) ELSE Write(p, node)

Shipped(e) == [kind |-> e.kind, data |-> e.data, to |-> e.to]
LinkSource(e) == Lstat(e.to)

(* A directory in the way; an empty one gives way to a link. A hard link   *)
(* needs what it names once its own path is cleared, and the directory it  *)
(* goes into.                                                              *)
Blocked(e) ==
  LET q == Landing(e.path) IN
  \/ e.kind = "file" /\ "dir" \in {Lstat(e.path).kind, Lstat(q).kind}
  \/ e.kind = "link" /\ Lstat(q).kind = "dir" /\ ~Empty(q)
  \/ /\ e.kind = "hard"
     /\ \/ Lstat(q).kind = "dir" \/ Stat(Front(q)).kind # "dir"
        \/ LinkSource(e).kind \in {"none", "dir"} \/ Real(e.to) = Real(q)

(* Mutant: any link there is taken for the right one.                      *)
AnyLinkThere(e) == e.kind = "link" /\ Lstat(e.path).kind = "link"

(* Nothing to write: the link is on disk already, or the two names are one *)
(* file, whose removal would take the source.                              *)
InPlace(e) ==
  \/ e.kind = "link" /\ Lstat(e.path) = Shipped(e)
  \/ e.kind = "hard" /\ SameFile(e.to, e.path)

UnpackFile ==
  /\ Entry.kind \in {"file", "link"}
  /\ \/ InPlace(Entry) /\ Done(Entry.path) /\ UNCHANGED <<disk, created, pacnew>>
     \/ ~InPlace(Entry) /\ Blocked(Entry) /\ Fails /\ UNCHANGED disk
     \/ ~InPlace(Entry) /\ ~Blocked(Entry) /\ Place(Entry.path, Shipped(Entry)) /\ Done(Entry.path)

DeferLink ==
  /\ Entry.kind = "hard"
  /\ links' = links \cup {next} /\ Skip
  /\ UNCHANGED <<job, disk, pc, created, installed, pacnew>>

ExtractEntry ==
  /\ pc = "entries" /\ next <= Len(job.archive) /\ made
  /\ UnpackDir \/ UnpackFile \/ DeferLink
  /\ Quiet

SecondPass ==
  /\ pc = "entries" /\ next > Len(job.archive) /\ pc' = "links"
  /\ UNCHANGED <<job, disk, work>> /\ Quiet

(* A hard link is made, or copied, once every regular file exists; what it *)
(* replaces is gone before its source is looked at.                        *)
Turn(i) == pc = "links" /\ i \in links /\ \A k \in links : i <= k
Linked(i) ==
  /\ installed' = installed \cup {job.archive[i].path} /\ links' = links \ {i}
  /\ UNCHANGED <<job, pc, next, made, torn>>

HardLink(i) ==
  /\ Turn(i)
  /\ LET e == job.archive[i] q == Landing(e.path) IN
     \/ InPlace(e) /\ Linked(i) /\ UNCHANGED <<disk, created, pacnew>>
     \/ /\ ~InPlace(e) /\ Blocked(e) /\ Fails
        /\ IF Lstat(q).kind = "dir" THEN UNCHANGED <<disk, torn>>
           ELSE disk' = Without(disk, Real(q)) /\ torn' = torn \cup {Real(q)}
     \/ ~InPlace(e) /\ ~Blocked(e) /\ Place(e.path, LinkSource(e)) /\ Linked(i)
  /\ UNCHANGED <<strays, faults>>

Finish ==
  /\ pc = "links" /\ links = {} /\ pc' = "done"
  /\ UNCHANGED <<job, disk, work>> /\ Quiet

(***************************************************************************)
(* Faults: an unreadable archive, a full disk.                             *)
(***************************************************************************)
Fault == faults < MaxFaults /\ faults' = faults + 1 /\ Fails /\ UNCHANGED strays

ReadFails ==
  /\ pc = "entries" /\ next <= Len(job.archive) /\ ~made
  /\ Fault /\ UNCHANGED <<disk, torn>>

(* create_dir_all stops half-way: what it made so far is not recorded.     *)
MakeDirFails ==
  /\ pc = "entries" /\ next <= Len(job.archive)
  /\ LET p == IF made THEN Entry.path ELSE Front(Entry.path) IN
     /\ made => Entry.kind = "dir"
     /\ CanMake(p)
     /\ \E q \in Missing(p) :
          LET some == {Real(s) : s \in {t \in Missing(p) : Len(t) < Len(q)}} IN
          disk' = WithDirs(disk, some) /\ torn' = torn \cup some
  /\ Fault

(* The write fails after what was there is gone, whole or in part.         *)
WriteFails ==
  /\ \E i \in DOMAIN job.archive :
       LET e == job.archive[i] q == Landing(e.path) IN
       /\ \/ pc = "entries" /\ made /\ i = next /\ e.kind \in {"file", "link"}
          \/ Turn(i)
       /\ ~InPlace(e) /\ ~Blocked(e)
       /\ torn' = torn \cup {Real(q)}
       /\ \/ disk' = Without(disk, Real(q))
          \/ e.kind # "link" /\ disk' = With(disk, Real(q), Torn)
  /\ Fault

(***************************************************************************)
(* roll_back. A directory is only taken off when nothing is left inside,   *)
(* and the empty directory a link displaced goes back.                     *)
(***************************************************************************)
Removable(r) ==
  LET node == Lstat(r.path) IN
  IF r.isDir THEN Empty(r.path) ELSE node.kind \in {"file", "link"}

RollBack(r) ==
  /\ pc = "undo" /\ r \in created /\ \A s \in created : ~UndoBefore(s, r)
  /\ created' = created \ {r}
  /\ LET p == Real(r.path) IN
     disk' = IF r.path \in job.foreign \/ ~Removable(r) THEN disk
             ELSE IF r.displaced THEN With(disk, p, Dir) ELSE Without(disk, p)
  /\ UNCHANGED <<job, pc, next, made, links, installed, pacnew>> /\ Quiet

RolledBack ==
  /\ pc = "undo" /\ created = {} /\ pc' = "failed"
  /\ UNCHANGED <<job, disk, work>> /\ Quiet

(***************************************************************************)
(* Another process creates a file or a directory in the same root.         *)
(***************************************************************************)
Over == {"done", "failed", "refused"}
StrayFile == [kind |-> "file", data |-> "stray", to |-> <<>>]
Stranger(p, node) ==
  /\ pc \notin Over \cup {"check"} /\ Cardinality(strays) < MaxStrangers
  /\ ~Taken(p) /\ Stat(Front(p)).kind = "dir"
  /\ disk' = With(disk, Real(p), node) /\ strays' = strays \cup {p}
  /\ UNCHANGED <<job, pc, work, torn, faults>>

UnpackInit ==
  /\ job \in Scenarios /\ disk = job.disk /\ pc = "check"
  /\ next = 1 /\ made = FALSE /\ links = {} /\ created = {}
  /\ installed = {} /\ pacnew = {} /\ strays = {} /\ torn = {} /\ faults = 0

UnpackNext ==
  \/ Preflight \/ Parents \/ ExtractEntry \/ SecondPass \/ Finish
  \/ \E i \in DOMAIN job.archive : HardLink(i)
  \/ ReadFails \/ MakeDirFails \/ WriteFails \/ RolledBack
  \/ \E r \in created : RollBack(r)
  \/ \E p \in job.near, node \in {Dir, StrayFile} : Stranger(p, node)
  \/ pc \in Over /\ UNCHANGED unpackVars

Unpacking == UnpackInit /\ [][UnpackNext]_unpackVars

(***************************************************************************)
(* What the theorems ask of an archive and the root it meets: no path      *)
(* leads through a symlink, or through what the archive puts there, and no *)
(* two entries land at one place.                                          *)
(***************************************************************************)
Solid(j) == {e.path : e \in {x \in ToSet(j.archive) : x.kind # "dir"}}
Sources(j) == {e.to : e \in {x \in ToSet(j.archive) : x.kind = "hard"}}
Beside(j) == {PacnewPath(p) : p \in j.backup}
Ways(j) ==
  UNION {Ancestors(p) :
    p \in {e.path : e \in ToSet(j.archive)} \cup Sources(j) \cup j.backup \cup j.near}

Tidy(j) ==
  /\ \A a \in Ways(j) \cap DOMAIN j.disk : j.disk[a].kind # "link"
  /\ Ways(j) \cap (Solid(j) \cup Beside(j)) = {}
  /\ \A i, k \in DOMAIN j.archive : j.archive[i].path = j.archive[k].path => i = k
  /\ Beside(j) \cap (j.backup \cup {e.path : e \in ToSet(j.archive)}) = {}

(* A hard link names a file of the archive, and a directory entry that     *)
(* meets a symlink keeps what that points to.                              *)
Steady(j) ==
  /\ \A p \in Sources(j) : \E e \in ToSet(j.archive) : e.kind = "file" /\ e.path = p
  /\ \A e \in ToSet(j.archive) :
       e.kind = "dir" /\ e.path \in DOMAIN j.disk /\ j.disk[e.path].kind = "link"
         => j.disk[e.path].to \notin Solid(j)

(* No directory has a name that ends in .pacnew beside configuration.      *)
Expected(j) == \A p \in Beside(j) \cap DOMAIN j.disk : j.disk[p].kind # "dir"

(* What a spared file is compared with is not written later, and nothing   *)
(* points at a .pacnew.                                                    *)
Settled(j) ==
  /\ \A p \in DOMAIN j.disk : j.disk[p].kind = "link" => j.disk[p].to \notin Beside(j)
  /\ \A e \in ToSet(j.archive) : e.kind \in {"link", "hard"} => e.to \notin Beside(j)
  /\ \A i \in DOMAIN j.archive : j.archive[i].path \in j.backup =>
       LET e == j.archive[i] IN
       /\ e.path \in DOMAIN j.disk /\ j.disk[e.path].kind = "link"
            => j.disk[e.path].to \notin Solid(j)
       /\ e.kind = "link" =>
            \A k \in DOMAIN j.archive : j.archive[k].path = e.to
              => j.archive[k].kind = "dir" \/ (k < i /\ j.archive[k].kind # "hard")

(***************************************************************************)
(* Properties.                                                             *)
(***************************************************************************)
Before(p) == IF p \in DOMAIN job.disk THEN job.disk[p] ELSE Absent
OwnWay == strays = {} /\ faults = 0

(* "Removes what a failed extraction wrote, and only that" (roll_back).     *)
(* After the failure no path is taken that was free before, but for what   *)
(* another process created, what the failing write tore, what belongs to   *)
(* another package, and the directories those are in; and what was there   *)
(* before, or another process created, is there still, a directory as a    *)
(* directory, but for what that write took and a .pacnew written anew.     *)
TakenBack ==
  pc = "failed" =>
    LET excused == strays \cup torn \cup job.foreign IN
    /\ \A p \in DOMAIN disk \ DOMAIN job.disk :
         p \in excused \/ Inside(p, excused \cap DOMAIN disk) # {}
    /\ \A p \in (DOMAIN job.disk \cup strays) \ torn :
         \/ /\ p \in DOMAIN disk
            /\ Before(p).kind = "dir" => disk[p].kind = "dir" \/ p \in job.foreign
         \/ p \in Beside(job)

(* "Configuration on disk wins": what the caller lists as backup and is on *)
(* disk when its entry's turn comes keeps its bytes through the run, a     *)
(* failure and the rollback, whatever kind of entry the package ships      *)
(* there; so does one that appears there during the run.                   *)
ConfigurationWins ==
  \A p \in job.backup :
    /\ Before(p).kind \in {"file", "link"} => Node(p) = Before(p)
    /\ p \in strays => Node(p) \in {StrayFile, Dir}

(* What can be seen before the first byte is caught before it              *)
(* (find_conflicts): without a fault and without another process, an       *)
(* extraction only fails where an entry that is no directory meets one     *)
(* that the pre-flight let pass, being empty or the package's own.         *)
Foreseen ==
  pc = "failed" /\ OwnWay =>
    \E e \in Entries :
      /\ e.kind # "dir" /\ Before(e.path).kind = "dir"
      /\ Empty(e.path) \/ e.path \in job.mine

(* What a finished extraction leaves: every entry as shipped, a hard link  *)
(* with what its source holds, and a spared one beside the file that was   *)
(* kept, or nowhere if the two read the same.                              *)
LaidOut ==
  pc = "done" =>
    \A e \in Entries :
      LET want == IF e.kind = "hard" THEN LinkSource(e) ELSE Shipped(e)
          p == e.path IN
      /\ p \in installed
      /\ \/ e.kind = "dir" /\ Stat(p).kind = "dir"
         \/ Lstat(p) = want
         \/ e.kind = "hard" /\ SameFile(e.to, p)
         \/ /\ p \in job.backup
            /\ \/ SameBytes(Stat(p), Content(want))
               \/ p \in pacnew /\ Lstat(PacnewPath(p)) = want
====
